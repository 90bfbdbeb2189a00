---------------------------- MODULE MCRofsBuild -----------------------------
(* Three archives with one or two of the files a, a/b, a/c, b, b/a and       *)
(* differently spelled ones: duplicates, files where others have             *)
(* directories, and conflict-free combinations all occur.                    *)
EXTENDS RofsBuild

MCRank == [c \in {"", "a", "b", "c", "A", "x"} |->
             CASE c = "" -> 0 [] c = "A" -> 1 [] c = "a" -> 2
               [] c = "b" -> 3 [] c = "c" -> 4 [] c = "x" -> 5]

MCLower == [c \in {"", ".", "..", "a", "b", "c", "A", "x"} |-> IF c = "A" THEN "a" ELSE c]

Lists ==
  { <<>>, <<<<"a">>>>, <<<<"A", "b">>, <<"b">>>>, <<<<"a", "b">>, <<"a">>>>,
    <<<<"a", "c">>>>, <<<<"c">>, <<"a", ".", "a">>>>, <<<<"b", "a">>, <<"a", "b", "c">>>>,
    <<<<"a", "b">>, <<"x", "..", "a", "b">>, <<"b", "a">>>>, <<<<"x">>, <<"b">>, <<"c">>>> }

MCInputs == {<<>>} \cup { <<l>> : l \in Lists } \cup { <<l, m, n>> : l, m, n \in Lists }

MCQueries ==
  { <<>>, <<".">>, <<"a">>, <<"A">>, <<"b">>, <<"x">>, <<"a", "b">>, <<"A", "b">>,
    <<"a", "x">>, <<"a", "b", "c">>, <<"a", "b", "..", "c">>, <<"..", "c">>,
    <<"b", "a">>, <<"b", "", "A">>, <<"a", "a">>, <<"a", "c">> }
=============================================================================
