----------------------------- MODULE ProcessBhd -----------------------------
(* From the header of one archive to its files: the header is parsed in one  *)
(* byte order and format after another (dvdbnd/bhd5.rs:18-31, format.rs:     *)
(* 193-198, 359-407), each of its entries is named by the dictionary of the  *)
(* game (dict.rs, filesystem.rs:198-225) and its encryption is stored.       *)
EXTENDS Bhd5Writer, StoreEncryption, PathHash

CONSTANTS
  Cases,     \* what is considered: an archive (see Bhd5Writer), the game that
             \* was found, and the text files of the dictionary directory in
             \* the order in which they are read, each [game, name, lines]
  Name,      \* the archive's name; names are in lower case
  PRIME_32, PRIME_64

ASSUME PrimesAssumption == PRIME_32 \in Nat /\ PRIME_64 \in Nat

NoGame == "none"

TextFile == [game : STRING, name : STRING, lines : Seq(Seq(0..255))]

ASSUME ProcessBhdAssumption ==
  \A c \in Cases : IsArchive(c.archive) /\ c.dir \in Seq(TextFile)

VARIABLES
  written,    \* the archive
  dir, game,  \* the dictionary directory and the game that was found
  file,       \* the archive's header file
  order,      \* the byte order it is tried in
  formats,    \* the formats left to try
  format,     \* the format it was parsed as
  files       \* what process_files returns

inputs == <<written, dir, game, file>>
parseVars == <<order, formats, format>>
vars == <<inputs, parseVars, files, storeVars>>

NoFormat == "none"

Init ==
  /\ \E c \in Cases : written = c.archive /\ dir = c.dir /\ game = c.game
  /\ file = Write(written)
  /\ order = "LE" /\ formats = <<>> /\ format = NoFormat
  /\ entries = <<>> /\ files = <<>>
  /\ StoreInit
  /\ status = "parsing"

-----------------------------------------------------------------------------
(* Bhd5File::try_ref_from_bytes: little-endian, then big-endian.             *)
Parsing == status = "parsing"
KeepStore == UNCHANGED <<entries, k, i, ranges, out, ids, files>>

NextOrder ==
  /\ formats' = <<>>
  /\ IF order = "LE" THEN order' = "BE" /\ UNCHANGED status
                     ELSE status' = "BadHeader" /\ UNCHANGED order

(* Header::try_ref_from_prefix and the choice of formats.                    *)
HeaderRead ==
  /\ Parsing /\ formats = <<>> /\ IsHeader(file, order)
  /\ formats' = FormatsOf(file)
  /\ UNCHANGED <<inputs, order, format, status>> /\ KeepStore

HeaderRefused ==
  /\ Parsing /\ formats = <<>> /\ ~IsHeader(file, order)
  /\ NextOrder
  /\ UNCHANGED <<inputs, format>> /\ KeepStore

(* try_ref_buckets of the first format left, an error leads to the next one. *)
FormatRefused ==
  /\ Parsing /\ formats # <<>> /\ ~CanRef(file, Head(formats))
  /\ IF Tail(formats) = <<>> THEN NextOrder
     ELSE formats' = Tail(formats) /\ UNCHANGED <<order, status>>
  /\ UNCHANGED <<inputs, format>> /\ KeepStore

FormatRead ==
  /\ Parsing /\ formats # <<>> /\ CanRef(file, Head(formats))
  /\ format' = Head(formats)
  /\ entries' = EntriesAs(file, Head(formats))
  /\ status' = "storing"
  /\ UNCHANGED <<inputs, order, formats, k, i, ranges, out, ids, files>>

-----------------------------------------------------------------------------
(* Dictionary::from_dir_and_game: text files in a directory named after the  *)
(* game, of which the last one replaces others of its name.                  *)
Texts == {t \in DOMAIN dir : dir[t].game = game /\ dir[t].name = Name}
Lines == IF Texts = {} THEN <<>> ELSE dir[Max(Texts)].lines

(* The two types of hashes.                                                  *)
u32 == [PRIME |-> PRIME_32, M |-> M32]
u64 == [PRIME |-> PRIME_64, M |-> M64]
HashType(f) == IF U64_HASH(f) THEN u64 ELSE u32

(* hash_paths32, hash_paths64: the lines that have a hash and, of those that *)
(* have the same one, the last.                                              *)
HashOf(line) == hash_path(HashType(format), line)

LinesOf(hash) ==
  {n \in DOMAIN Lines : HasHash(Lines[n]) /\ HashOf(Lines[n]) = hash}

(* The path of an entry, the name made of its hash if the dictionary has     *)
(* none.                                                                     *)
HiddenName(hash) == <<Name, hash>>
PathOf(hash) ==
  IF LinesOf(hash) = {} THEN HiddenName(hash) ELSE Lines[Max(LinesOf(hash))]

DvdbndFile(e, id) ==
  [path |-> PathOf(e.hash), data_offset |-> e.offset, len |-> e.size,
   unpadded_len |-> IF e.unpadded = 0 THEN e.size ELSE e.unpadded,
   encryption_id |-> id]

(* process_files: an entry's encryption is stored, then the entry is named.  *)
Checked ==
  /\ SkipEmpty \/ AcceptRange \/ BadRange \/ OobRange \/ TooManyRanges
  /\ UNCHANGED <<inputs, parseVars, files>>

EntryDone ==
  /\ NotEncrypted \/ Store
  /\ files' = Append(files, DvdbndFile(entry, Last(ids')))
  /\ UNCHANGED <<inputs, parseVars>>

Processed == AllStored /\ UNCHANGED <<inputs, parseVars, files>>

Ended == status \notin {"parsing", "storing"} /\ UNCHANGED vars

Next ==
  \/ HeaderRead \/ HeaderRefused \/ FormatRefused \/ FormatRead
  \/ Checked \/ EntryDone \/ Processed \/ Ended

Spec == Init /\ [][Next]_vars

-----------------------------------------------------------------------------
(* The formats are told apart only by what the words of a header happen to   *)
(* be.  These are not always told apart: Dark Souls archives whose first     *)
(* bucket is empty, Dark Souls 2 archives with empty files and Elden Ring    *)
(* archives none of whose buckets has among its first two files one beyond   *)
(* what its format's offsets of encryption may be.                           *)
Distinguishable ==
  CASE written.format = "DarkSouls" -> written.buckets[1] # <<>>
    [] written.format = "DarkSouls2" ->
         \A e \in Range(Written(written)) : e.size # 0
    [] written.format = "EldenRing" ->
         \E b \in DOMAIN written.buckets : \E e \in DOMAIN written.buckets[b] :
           /\ e <= 2
           /\ written.buckets[b][e].offset >=
                IF written.has_crypto THEN FileSize(written) ELSE 1
    [] OTHER -> TRUE

IsBadRange(e, r) ==
  r.start # r.end /\
    (r.start > r.end \/ (r.end - r.start) % Block # 0 \/ r.end > e.size)
IsBadEntry(e) ==
  \/ \E n \in DOMAIN e.ranges : IsBadRange(e, e.ranges[n])
  \/ Len(e.ranges) >= M24

(* Only a Dark Souls 2 archive of fewer than two files may pass for one of   *)
(* another format: Dark Souls 3's longer entries then end in what follows.   *)
Recognised(archive, f) ==
  \/ f = archive.format
  \/ archive.format = "DarkSouls2" /\ Len(Written(archive)) < 2 /\ f = "DarkSouls3"

(* The format of an archive is recognised, but for Dark Souls 2 archives of  *)
(* fewer than two files, which may be read as Dark Souls 3.  Whichever it    *)
(* is, the files are the entries that were written, in order, each with its  *)
(* own place, size and encryption, and the archive is refused only for       *)
(* ranges that do not fit (format.rs:314-346, 359-407,                       *)
(* filesystem.rs:204-247).                                                   *)
ArchiveIsItsFiles ==
  Distinguishable =>
    /\ status # "BadHeader"
    /\ format # NoFormat => Recognised(written, format)
    /\ \A j \in DOMAIN files :
         LET e == Written(written)[j]
         IN  /\ files[j].data_offset = e.offset /\ files[j].len = e.size
             /\ files[j].unpadded_len = IF e.unpadded = 0 THEN e.size ELSE e.unpadded
             /\ e.encrypted <=> files[j].encryption_id # NoId
             /\ entries[j].hash = e.hash /\ entries[j].ranges = e.ranges
    /\ status = "stored" => Len(files) = Len(Written(written))
    /\ status \in {"BadRange", "OobRange", "TooManyRanges"} =>
         \E e \in Range(Written(written)) : IsBadEntry(e)

(* A file has the path of the dictionary of its game and archive whose hash, *)
(* taken byte by byte as the tests of mad.rs do, is that of its entry, and a *)
(* name made of the hash only when there is no such path (dict.rs:16-66,     *)
(* hash.rs, filesystem.rs:198-235).                                          *)
PlainHash(line) ==
  hash_bytes(HashType(written.format), 0, <<Slash>> \o normalize_suffix(line))

FilesAreNamed ==
  Distinguishable => \A j \in DOMAIN files :
    LET Fitting == {l \in Range(Lines) :
                      HasHash(l) /\ PlainHash(l) = Written(written)[j].hash}
    IN  IF Fitting = {} THEN files[j].path = HiddenName(Written(written)[j].hash)
                        ELSE files[j].path \in Fitting

(* Every Dark Souls archive is read, whichever of its buckets are empty      *)
(* (format.rs:607-617, 651-653).                                             *)
DarkSoulsIsRead == written.format = "DarkSouls" => status # "BadHeader"
=============================================================================
