------------------------------ MODULE MCProjFs ------------------------------
(* Four names, of which an expression matches two or three, listed out of    *)
(* order; two files, one of them in a truncated archive.                     *)
EXTENDS ProjFs

MCStored == [f \in {"f", "g"} |-> IF f = "f" THEN 2 ELSE 1]

MCListing == <<2, 4, 3, 1>>
MCExpressions == {{1, 3}, {1, 2, 4}}
=============================================================================
