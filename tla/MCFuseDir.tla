----------------------------- MODULE MCFuseDir -----------------------------
(* An empty mount, and one with two directories, one of them empty, and      *)
(* files a, b, c and d below the other, siblings in Eytzinger order.         *)
EXTENDS FuseDir

MCRank == [c \in {"a", "b", "c", "d", "A", "x"} |->
             CASE c = "A" -> 1 [] c = "a" -> 2 [] c = "b" -> 3
               [] c = "c" -> 4 [] c = "d" -> 5 [] c = "x" -> 6]

MCLower == [c \in {"a", "b", "c", "d", "A", "x"} |-> IF c = "A" THEN "a" ELSE c]

D(name, first, count) ==
  [kind |-> "dir", name |-> name, child_index |-> first, child_count |-> count]
F(name, index) == [kind |-> "file", name |-> name, data_index |-> index]

Nodes(s) == [i \in 0..(Len(s) - 1) |-> s[i + 1]]

MCFilesystems ==
  { Nodes(<<D("", 1, 0)>>),
    Nodes(<<D("", 1, 3), D("b", 8, 0), D("a", 4, 4), F("c", 1),
            F("c", 2), F("b", 3), F("d", 4), F("a", 5)>>) }
=============================================================================
