--------------------------- MODULE StoreEncryption --------------------------
(* The encrypted ranges of an archive's files, checked and packed when the   *)
(* header is processed: store_encryption (dvdbnd/filesystem/encryption.rs:   *)
(* 215-272), called for one entry after another by process_files, which      *)
(* gives up at the first error (dvdbnd/filesystem.rs:204-247); and the way   *)
(* back from an EncryptionId to the ranges (encryption.rs:82-91, 199-212).   *)
EXTENDS Uints, Sequences, FiniteSets

CONSTANT Block  \* BLOCK_SIZE

ASSUME StoreEncryptionAssumption == Block \in Nat \ {0} /\ M32 % Block = 0

VARIABLES
  entries,  \* the entries of the header
  k,        \* the entry being stored
  i,        \* its range being checked
  ranges,   \* its ranges accepted so far
  out,      \* the store: header cells, each followed by its range cells
  ids,      \* the EncryptionId of each entry stored
  status    \* "storing", "stored" or the error

storeVars == <<entries, k, i, ranges, out, ids, status>>

entry == entries[k]
range == entry.ranges[i]
len == (range.end - range.start) % M64    \* wrapping_sub
SatSub(a, b) == IF a >= b THEN a - b ELSE 0

(* An EncryptionId is not zero, zero is the None of a file without one.      *)
NoId == 0

(* Variant: the index itself.                                                *)
IdOf_Plain(index) == index

(* EncryptionId::try_from_index and into_index: the complement of the index, *)
(* so that no index but the last is zero.                                    *)
IdOf(index) == M32 - 1 - index
IndexOf(id) == M32 - 1 - id

EndOffset(r) == (r.start + r.blocks * Block) % M32

StoreInit ==
  /\ k = 1 /\ i = 1
  /\ ranges = <<>> /\ out = <<>> /\ ids = <<>>

AtEntry == status = "storing" /\ k <= Len(entries)
AtRange == AtEntry /\ entry.encrypted /\ i <= Len(entry.ranges)

SkipEmpty ==
  /\ AtRange /\ len = 0
  /\ i' = i + 1
  /\ UNCHANGED <<entries, k, ranges, out, ids, status>>

BadRange ==
  /\ AtRange /\ len # 0
  /\ range.start > range.end \/ len % Block # 0
  /\ status' = "BadRange"
  /\ UNCHANGED <<entries, k, i, ranges, out, ids>>

IsOob == range.start > SatSub(entry.size, len)

OobRange ==
  /\ AtRange /\ len # 0
  /\ range.start <= range.end /\ len % Block = 0
  /\ IsOob
  /\ status' = "OobRange"
  /\ UNCHANGED <<entries, k, i, ranges, out, ids>>

AcceptRange ==
  /\ AtRange /\ len # 0
  /\ range.start <= range.end /\ len % Block = 0
  /\ ~IsOob
  /\ ranges' = Append(ranges, [start |-> range.start % M32,
                               blocks |-> (len % M32) \div Block])
  /\ i' = i + 1
  /\ UNCHANGED <<entries, k, out, ids, status>>

(* Variant: in the order of the header.                                      *)
Sorted_Not(s) == s

(* By their ends, those that end together as they were: each range has as    *)
(* many before it as come before it in that order.                           *)
Before(s, m, n) ==
  \/ EndOffset(s[m]) < EndOffset(s[n])
  \/ EndOffset(s[m]) = EndOffset(s[n]) /\ m < n
Rank(s, n) == Cardinality({m \in DOMAIN s : Before(s, m, n)}) + 1
Sorted(s) == [p \in DOMAIN s |-> s[CHOOSE n \in DOMAIN s : Rank(s, n) = p]]

AllAccepted == AtEntry /\ entry.encrypted /\ i > Len(entry.ranges)
FitsStore == Len(ranges) < M24 /\ Len(out) < M32 - 1

(* All ranges of the entry are accepted: they are sorted by their end and    *)
(* appended behind their header.                                             *)
Store ==
  /\ AllAccepted /\ FitsStore
  /\ out' = Append(out, [header |-> k, count |-> Len(ranges)]) \o Sorted(ranges)
  /\ ids' = Append(ids, IdOf(Len(out)))
  /\ k' = k + 1 /\ i' = 1 /\ ranges' = <<>>
  /\ UNCHANGED <<entries, status>>

(* process_files: an entry without encryption has no id.                     *)
NotEncrypted ==
  /\ AtEntry /\ ~entry.encrypted
  /\ ids' = Append(ids, NoId)
  /\ k' = k + 1
  /\ UNCHANGED <<entries, i, ranges, out, status>>

TooManyRanges ==
  /\ AllAccepted /\ ~FitsStore
  /\ status' = "TooManyRanges"
  /\ UNCHANGED <<entries, k, i, ranges, out, ids>>

AllStored ==
  /\ status = "storing" /\ k > Len(entries)
  /\ status' = "stored"
  /\ UNCHANGED <<entries, k, i, ranges, out, ids>>

-----------------------------------------------------------------------------
(* What decrypt finds under the id of entry j.                               *)
HeaderAt(j) == out[IndexOf(ids[j]) + 1]
RangesAt(j) ==
  [n \in 1..HeaderAt(j).count |-> out[IndexOf(ids[j]) + 1 + n]]

(* Whatever else was stored before and after, an id leads to the header of   *)
(* its own entry, and only entries without encryption have none.             *)
IdsFindTheirHeader ==
  \A j \in 1..Len(ids) :
    IF entries[j].encrypted
    THEN /\ ids[j] # NoId
         /\ IndexOf(ids[j]) < Len(out)
         /\ HeaderAt(j).header = j
    ELSE ids[j] = NoId

(* Under it are the nonempty ranges of the entry, every one once, in the     *)
(* order of their ends that partition_point needs (encryption.rs:382), with  *)
(* the offsets they had, however wide those were.                            *)
InFile(j, r) == r.end <= entries[j].size
Nonempty(j) == { n \in 1..Len(entries[j].ranges) :
                   entries[j].ranges[n].start # entries[j].ranges[n].end }

AsStored(r) == [start |-> r.start, blocks |-> (r.end - r.start) \div Block]

StoredRangesAreTheEntrys ==
  \A j \in 1..Len(ids) :
    entries[j].encrypted /\ (\A n \in Nonempty(j) : InFile(j, entries[j].ranges[n])) =>
      LET s == RangesAt(j) IN
      /\ \A n \in 1..(Len(s) - 1) : EndOffset(s[n]) <= EndOffset(s[n + 1])
      /\ Len(s) = Cardinality(Nonempty(j))
      /\ { s[n] : n \in DOMAIN s } = { AsStored(entries[j].ranges[n]) : n \in Nonempty(j) }
=============================================================================
