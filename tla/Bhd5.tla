-------------------------------- MODULE Bhd5 --------------------------------
(* Parsing of an archive's header (dvdbnd/bhd5.rs, bhd5/format.rs).  The     *)
(* file is a sequence of 32-bit words, counted from 0; offsets are words of  *)
(* the file where the code's are bytes.  All that depends on the byte order  *)
(* is which half of a 64-bit number comes first: a header of the other order *)
(* is refused for its byte order mark.                                       *)
EXTENDS Uints, Sequences, SequencesExt, FiniteSets

(* A file: [order: "LE" or "BE", has_crypto: BOOLEAN, words: Seq(0..M32-1)]. *)
(* Words 0 and 1, the magic and the byte with order and has_crypto, are not  *)
(* looked at.                                                                *)
Word(file, o) == file.words[o + 1]
I32(file, o) == LET w == Word(file, o) IN IF w < M32 \div 2 THEN w ELSE w - M32
U64(file, o) ==
  IF file.order = "LE" THEN Word(file, o) + M32 * Word(file, o + 1)
                       ELSE Word(file, o + 1) + M32 * Word(file, o)

InBytes(file, o, n) == n >= 0 /\ o + n <= Len(file.words)

-----------------------------------------------------------------------------
(* Header.                                                                   *)
HeaderWords == 8
IsHeader(file, order) ==
  /\ InBytes(file, 0, HeaderWords)
  /\ file.order = order
  /\ Word(file, 2) = 1

file_size(file) == Word(file, 3)
is_dsr_format(file) == Word(file, 5) = 0
bucket_count(file) == IF I32(file, 4) < 0 THEN 0 ELSE I32(file, 4)
bucket_offset(file) == IF is_dsr_format(file) THEN U64(file, 6) ELSE Word(file, 5)

(* offset_of!(bucket_offset) + 4.                                            *)
SALT_OFFSET == 6
HasSalt(file) ==
  ~is_dsr_format(file) /\ SALT_OFFSET + Word(file, 6) <= Word(file, 5)

(* The formats a header is tried as, in this order.                          *)
FormatsOf(file) ==
  IF HasSalt(file) THEN <<"DarkSouls3", "DarkSouls2", "EldenRing">>
  ELSE IF is_dsr_format(file) THEN <<"DarkSoulsRemastered">>
  ELSE <<"DarkSouls">>

-----------------------------------------------------------------------------
(* BucketHeaderAll, BucketHeaderDsr: the bucket headers, where they all are  *)
(* in the file and the second word of the latter is one.                     *)
BucketWords(format) == IF format = "DarkSoulsRemastered" THEN 4 ELSE 2

BucketsInBytes(file, format) ==
  /\ InBytes(file, bucket_offset(file), bucket_count(file) * BucketWords(format))
  /\ format = "DarkSoulsRemastered" =>
       \A b \in 1..bucket_count(file) :
         Word(file, bucket_offset(file) + 4 * (b - 1) + 1) = 1

Buckets(file, format) ==
  [b \in 1..bucket_count(file) |->
    LET o == bucket_offset(file) + BucketWords(format) * (b - 1)
    IN  [count |-> I32(file, o),
         at |-> IF format = "DarkSoulsRemastered" THEN U64(file, o + 2)
                                                  ELSE Word(file, o + 1)]]

-----------------------------------------------------------------------------
(* FileEntryDs, FileEntryDs2, FileEntryDs3, FileEntryEr.                     *)
IsDs1(format) == format \in {"DarkSouls", "DarkSoulsRemastered"}
U64_HASH(format) == format = "EldenRing"

EntryWords(format) ==
  CASE IsDs1(format) -> 4 [] format = "DarkSouls2" -> 8 [] OTHER -> 10

FileEntry(file, format, o) ==
  IF U64_HASH(format)
  THEN [hash |-> U64(file, o), size |-> I32(file, o + 2),
        unpadded |-> I32(file, o + 3), offset |-> U64(file, o + 4),
        hash_offset |-> U64(file, o + 6), encryption_offset |-> U64(file, o + 8)]
  ELSE [hash |-> Word(file, o), size |-> I32(file, o + 1),
        offset |-> U64(file, o + 2),
        unpadded |-> IF format = "DarkSouls3" THEN I32(file, o + 8) ELSE 0,
        hash_offset |-> IF IsDs1(format) THEN 0 ELSE U64(file, o + 4),
        encryption_offset |-> IF IsDs1(format) THEN 0 ELSE U64(file, o + 6)]

(* Variant: hash and encryption offsets are not looked at.                   *)
is_valid_AnyCrypto(file, format, entry) ==
  entry.size >= 0 /\ entry.unpadded >= 0 /\ entry.size >= entry.unpadded

is_valid(file, format, entry) ==
  /\ entry.size >= 0 /\ entry.unpadded >= 0 /\ entry.size >= entry.unpadded
  /\ IsDs1(format) \/
       IF file.has_crypto
       THEN entry.encryption_offset < file_size(file) /\ entry.hash_offset < file_size(file)
       ELSE entry.encryption_offset = 0 /\ entry.hash_offset = 0

(* The slice of one bucket; unk24 of FileEntryDs3 is zero.                   *)
BucketInBytes(file, format, bucket) ==
  /\ bucket.count >= 0
  /\ InBytes(file, bucket.at, bucket.count * EntryWords(format))
  /\ format = "DarkSouls3" =>
       \A e \in 1..bucket.count : Word(file, bucket.at + 10 * (e - 1) + 9) = 0

Entries(file, format) ==
  FlattenSeq([b \in 1..bucket_count(file) |->
    LET bucket == Buckets(file, format)[b]
    IN  [e \in 1..bucket.count |->
          FileEntry(file, format, bucket.at + EntryWords(format) * (e - 1))]])

(* FileEntryValidator: one entry at most has offset 0.                       *)
AllValid(file, format) ==
  LET es == Entries(file, format)
  IN  /\ \A e \in DOMAIN es : is_valid(file, format, es[e])
      /\ Cardinality({e \in DOMAIN es : es[e].offset = 0}) <= 1

-----------------------------------------------------------------------------
(* Encryption: four words of key, the number of ranges, the ranges.          *)
KeyWords == 4
EncryptionInBytes(file, o) ==
  /\ InBytes(file, o, KeyWords + 1)
  /\ I32(file, o + KeyWords) >= 0
  /\ InBytes(file, o, KeyWords + 1 + 4 * I32(file, o + KeyWords))

Ranges(file, o) ==
  [r \in 1..I32(file, o + KeyWords) |->
    LET at == o + KeyWords + 1 + 4 * (r - 1)
    IN  [start |-> U64(file, at), end |-> U64(file, at + 2)]]

(* What process_files is given for an entry.                                 *)
WithEncryption(file, entry) ==
  [hash |-> entry.hash, offset |-> entry.offset, size |-> entry.size,
   unpadded |-> entry.unpadded, encrypted |-> entry.encryption_offset # 0,
   ranges |-> IF entry.encryption_offset = 0 THEN <<>>
              ELSE Ranges(file, entry.encryption_offset)]

(* try_ref_buckets.                                                          *)
CanRef(file, format) ==
  /\ BucketsInBytes(file, format)
  /\ \A b \in 1..bucket_count(file) :
       BucketInBytes(file, format, Buckets(file, format)[b])
  /\ AllValid(file, format)
  /\ LET es == Entries(file, format)
     IN  \A e \in DOMAIN es :
           es[e].encryption_offset # 0 =>
             EncryptionInBytes(file, es[e].encryption_offset)

EntriesAs(file, format) ==
  LET es == Entries(file, format)
  IN  [e \in DOMAIN es |-> WithEncryption(file, es[e])]
=============================================================================
