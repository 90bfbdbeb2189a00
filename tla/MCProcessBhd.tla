---------------------------- MODULE MCProcessBhd ----------------------------
(* Words of 7 bits and blocks of 2.  Archives of every format with entries   *)
(* that could be taken for another format's; entries with ranges at both     *)
(* ends of the file, across its end, reversed, empty, odd, beyond 32 bits    *)
(* and too many; entries named by dictionaries with paths of every remainder *)
(* of the chunks, of the same hash, too short and of other games.            *)
EXTENDS ProcessBhd

FileAt(hash, offset, size, unpadded) ==
  [hash |-> hash, offset |-> offset, size |-> size, unpadded |-> unpadded,
   encrypted |-> FALSE, ranges |-> <<>>]
Encrypted(e, rs) == [e EXCEPT !.encrypted = TRUE, !.ranges = rs]
ArchiveOf(f, o, c, salt, padding, buckets) ==
  [format |-> f, order |-> o, has_crypto |-> c, salt |-> salt,
   padding |-> padding, buckets |-> buckets]
R(start, end) == [start |-> start, end |-> end]

(* The second word of these 64-bit hashes is zero, small and negative.       *)
Hashes(f) == IF f = "EldenRing" THEN {5, 5 + 128, 5 + 70 * 128} ELSE {2, 70}
Unpadded(f, size) ==
  IF f \in {"DarkSouls3", "EldenRing"} /\ size > 0 THEN size - 1 ELSE 0
FormatEntries(f, c) ==
  { LET e == FileAt(h, o, s, Unpadded(f, s))
    IN  IF c /\ ~IsDs1(f) THEN Encrypted(e, <<R(0, 2)>>) ELSE e :
      h \in Hashes(f), o \in {0, 5, 200}, s \in {0, 3} }
FirstOfFile(es) == Cardinality({n \in DOMAIN es : es[n].offset = 0}) <= 1
Buckets1(f, c) == {<<<<e>>>> : e \in FormatEntries(f, c)}
Buckets2(f, c) ==
  UNION { IF FirstOfFile(<<d, e>>) THEN {<<<<d, e>>>>, <<<<d>>, <<e>>>>} ELSE {} :
            d \in {d \in FormatEntries(f, c) : d.hash # 70}, e \in FormatEntries(f, c) }
FormatArchives ==
  UNION { { ArchiveOf(f, o, c, s, p, b) :
              o \in {"LE", "BE"}, s \in {0, 2}, p \in {0, 2}, b \in Buckets1(f, c) }
            \cup { ArchiveOf(f, "LE", c, 0, 0, b) : b \in Buckets2(f, c) }
            \cup { ArchiveOf(f, "LE", c, 0, 0, <<<<>>>> \o b) : b \in Buckets1(f, c) } :
          f \in Formats, c \in BOOLEAN }

SomeRanges == { R(s, e) : s \in {0, 1, 6, 13, 130}, e \in {0, 1, 3, 7, 9, 15, 132, 16383} }
GoodRanges == { R(0, 2), R(1, 9), R(3, 7), R(7, 7), R(7, 9), R(9, 15) }
RangeLists ==
  { <<r>> : r \in SomeRanges } \cup { <<r, s>> : r, s \in GoodRanges }
    \cup { <<R(0, 2), R(4, 6), R(2, 4)>> }
RangeArchives ==
  { ArchiveOf("EldenRing", "LE", TRUE, 0, 0,
      <<first \o <<Encrypted(FileAt(7, 300, size, 0), rs)>>>>) :
        first \in {<<>>, <<FileAt(6, 200, 9, 0)>>,
                   <<Encrypted(FileAt(6, 200, 9, 0), <<R(1, 9)>>)>>},
        size \in {0, 9, 15}, rs \in RangeLists }

ab == <<47, 97, 98>>
AB == <<92, 65, 66>>
abcde == <<100, 58, 47, 97, 98, 99, 100, 101>>
abcdefghi == <<97, 98, 99, 100, 101, 102, 103, 104, 105>>
short == <<100, 58, 47>>
NameLines ==
  { <<>>, <<ab>>, <<ab, AB>>, <<abcde, short, ab>>, <<AB, abcdefghi, abcde>> }
NameDirs ==
  { <<[game |-> "a", name |-> Name, lines |-> <<abcde>>],
      [game |-> g, name |-> n, lines |-> l]>> :
      g \in {"a", "b"}, n \in {Name, "other"}, l \in NameLines }
HashedAs(f, l) == hash_bytes(HashType(f), 0, <<47>> \o normalize_suffix(l))
NameArchives ==
  UNION { { ArchiveOf(f, "LE", FALSE, 0, 0,
              <<<<FileAt(9, 200, 3, 0), FileAt(HashedAs(f, l), 210, 3, 0)>>>>) :
              l \in {ab, abcde, abcdefghi} } :
          f \in {"DarkSouls2", "EldenRing"} }

MCCases ==
  { [archive |-> a, dir |-> <<>>, game |-> NoGame] :
      a \in FormatArchives \cup RangeArchives }
    \cup { [archive |-> a, dir |-> d, game |-> g] :
             a \in NameArchives, d \in NameDirs, g \in {"a", "b", NoGame} }
=============================================================================
