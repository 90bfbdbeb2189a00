------------------------------- MODULE MCKeys -------------------------------
(* Two games, the first with two copies of a key; two archives that may have *)
(* the same name; headers of up to the blocks a header spans, and damaged    *)
(* ones.  The header ends in the third block of the first game's keys, and   *)
(* within the first block of the second's.                                   *)
EXTENDS Keys

MCPem == <<<<1, 2>>, <<3>>>>
MCBlockLen == [k \in {1, 2, 3} |-> IF k = 3 THEN 7 ELSE 3]
Header(ks, n, bad, tail) == [key |-> ks, n |-> n, bad |-> bad, tail |-> tail]
MCHeaders ==
  { Header({}, 0, {}, 5), Header({}, 0, {}, 4) }
    \cup { Header(ks, n, {}, tail) :
             ks \in {{1, 2}, {3}}, n \in {1, 2, 3}, tail \in {0, 1} }
    \cup { Header({1, 2}, 3, {2}, 0), Header({1, 2}, 4, {4}, 0),
           Header({3}, 3, {3}, 0) }
MCNameOf == [p \in {"a", "b", "c"} |-> IF p = "b" THEN "n" ELSE "m"]
MCArgs == {<<"a", "b">>, <<"b", "a">>, <<"a", "b", "c">>}
MCDecodable == {{1, 2, 3}, {1, 3}, {1, 2}}
=============================================================================
