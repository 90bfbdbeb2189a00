----------------------------- MODULE Bhd5Writer -----------------------------
(* The archives' headers as the games' tools write them, which is not part   *)
(* of this program: the layouts that format.rs documents (lines 71-189 and   *)
(* the headers of its tests, 607-643), filled from an archive's description. *)
(* The buckets follow the header and its salt, the entries follow the        *)
(* buckets, the encryption of the entries comes last.                        *)
EXTENDS Bhd5

Formats == {"DarkSouls", "DarkSoulsRemastered", "DarkSouls2", "DarkSouls3", "EldenRing"}

(* Sizes that are not negative, ranges of 64-bit offsets.                    *)
Entry ==
  [hash : 0..M64 - 1, offset : 0..M64 - 1, size : 0..(M32 \div 2) - 1,
   unpadded : 0..(M32 \div 2) - 1, encrypted : BOOLEAN,
   ranges : Seq([start : 0..M64 - 1, end : 0..M64 - 1])]

(* The salt and the padding behind the end are numbers of words.             *)
Archive ==
  [format : Formats, order : {"LE", "BE"}, has_crypto : BOOLEAN, salt : Nat,
   padding : Nat, buckets : Seq(Seq(Entry))]

Written(archive) == FlattenSeq(archive.buckets)

Words64(archive, n) ==
  IF archive.order = "LE" THEN <<n % M32, n \div M32>> ELSE <<n \div M32, n % M32>>

Zeros(n) == [i \in 1..n |-> 0]

(* The first bucket header: behind the salt and its length, which start at   *)
(* word 6, or there where the format has no salt; behind a 64-bit offset.    *)
BucketsAt(archive) ==
  CASE archive.format = "DarkSouls" -> 6
    [] archive.format = "DarkSoulsRemastered" -> 8
    [] OTHER -> 7 + archive.salt

EntriesAt(archive) ==
  BucketsAt(archive) + Len(archive.buckets) * BucketWords(archive.format)

SumOf(f, n) ==
  LET upto[m \in 0..n] == IF m = 0 THEN 0 ELSE upto[m - 1] + f[m] IN upto[n]

EncryptionWords(entry) ==
  IF entry.encrypted THEN KeyWords + 1 + 4 * Len(entry.ranges) ELSE 0

EncryptionAt(archive, e) ==
  LET es == Written(archive)
  IN  EntriesAt(archive) + EntryWords(archive.format) * Len(es)
        + SumOf([i \in DOMAIN es |-> EncryptionWords(es[i])], e - 1)

FileSize(archive) == EncryptionAt(archive, Len(Written(archive)) + 1)

(* What the fields of its format can hold: 64-bit hashes, unpadded sizes and *)
(* encryption are not in all of them.  No two files are at offset 0, and the *)
(* header has its own size in a word.                                        *)
EntryFits(archive, entry) ==
  /\ entry.hash < IF U64_HASH(archive.format) THEN M64 ELSE M32
  /\ entry.unpadded <= IF archive.format \in {"DarkSouls3", "EldenRing"} THEN entry.size ELSE 0
  /\ entry.encrypted => archive.has_crypto /\ ~IsDs1(archive.format)
  /\ ~entry.encrypted => entry.ranges = <<>>

IsArchive(archive) ==
  LET es == Written(archive)
  IN  /\ archive \in Archive /\ archive.buckets # <<>>
      /\ \A e \in DOMAIN es : EntryFits(archive, es[e])
      /\ \A d, e \in DOMAIN es : es[d].offset = 0 /\ es[e].offset = 0 => d = e
      /\ FileSize(archive) < M32

BucketHeader(archive, b) ==
  LET count == Len(archive.buckets[b])
      at == EntriesAt(archive) + EntryWords(archive.format) *
              SumOf([i \in DOMAIN archive.buckets |-> Len(archive.buckets[i])], b - 1)
  IN  IF archive.format = "DarkSoulsRemastered"
      THEN <<count, 1>> \o Words64(archive, at) ELSE <<count, at>>

(* An entry's hash of its contents is taken to be where its encryption is.   *)
EntryOf(archive, e) ==
  LET entry == Written(archive)[e]
      W(n) == Words64(archive, n)
      crypto == W(IF entry.encrypted THEN EncryptionAt(archive, e) ELSE 0)
  IN  CASE IsDs1(archive.format) ->
             <<entry.hash, entry.size>> \o W(entry.offset)
        [] archive.format = "DarkSouls2" ->
             <<entry.hash, entry.size>> \o W(entry.offset) \o crypto \o crypto
        [] archive.format = "DarkSouls3" ->
             <<entry.hash, entry.size>> \o W(entry.offset) \o crypto \o crypto
               \o <<entry.unpadded, 0>>
        [] archive.format = "EldenRing" ->
             W(entry.hash) \o <<entry.size, entry.unpadded>> \o W(entry.offset)
               \o crypto \o crypto

EncryptionOf(archive, e) ==
  LET entry == Written(archive)[e]
  IN  IF ~entry.encrypted THEN <<>>
      ELSE Zeros(KeyWords) \o <<Len(entry.ranges)>>
             \o FlattenSeq([r \in DOMAIN entry.ranges |->
                  Words64(archive, entry.ranges[r].start)
                    \o Words64(archive, entry.ranges[r].end)])

Write(archive) ==
  LET es == Written(archive)
      bucket_offset_words ==
        IF archive.format = "DarkSoulsRemastered"
        THEN <<0>> \o Words64(archive, BucketsAt(archive))
        ELSE <<BucketsAt(archive)>>
      salt == IF archive.format \in {"DarkSouls", "DarkSoulsRemastered"} THEN <<>>
              ELSE <<archive.salt>> \o [i \in 1..archive.salt |-> 1]
      words == <<0, 0, 1, FileSize(archive), Len(archive.buckets)>>
        \o bucket_offset_words \o salt
        \o FlattenSeq([b \in DOMAIN archive.buckets |-> BucketHeader(archive, b)])
        \o FlattenSeq([e \in DOMAIN es |-> EntryOf(archive, e)])
        \o FlattenSeq([e \in DOMAIN es |-> EncryptionOf(archive, e)])
        \o Zeros(archive.padding)
  IN  [order |-> archive.order, has_crypto |-> archive.has_crypto, words |-> words]
=============================================================================
