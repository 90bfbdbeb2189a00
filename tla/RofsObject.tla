----------------------------- MODULE RofsObject -----------------------------
(* The intermediate tree of one archive, RofsObject (filesystem/object.rs).  *)
(*                                                                           *)
(* The nested hash maps are one function from paths to nodes, a path being   *)
(* the sequence of its lowercased components and the root the empty one: a   *)
(* node is Dir for a TreeNode::Branch and the index of its file for a        *)
(* TreeNode::Leaf.  The function of RofsObject::default has no node at all.  *)
EXTENDS Integers, Sequences

Dir == 0
IsLeaf(n) == n # Dir

IsPrefixOf(p, q) == Len(p) <= Len(q) /\ \A i \in 1..Len(p) : p[i] = q[i]
Prefixes(p) == { SubSeq(p, 1, k) : k \in 0..Len(p) }

(* No prefix of p, p included, is a file of tree t.                          *)
NoLeafAbove(t, p) == \A q \in DOMAIN t : IsPrefixOf(q, p) => ~IsLeaf(t[q])

(* One turn of the loop of RofsObject::new: the walk stops at a file, and    *)
(* stays in the directory when the last component names one; in both cases   *)
(* the new file is dropped.                                                  *)
Insert(t, p, i) ==
  IF p \in DOMAIN t \/ ~NoLeafAbove(t, p) THEN t
  ELSE [q \in DOMAIN t \cup Prefixes(p) |->
          IF q \in DOMAIN t THEN t[q] ELSE IF q = p THEN i ELSE Dir]

(* RofsObject::new on a sequence of lowercased paths; files are the data of  *)
(* the archive, kept in full, dropped paths included.                        *)
InsertAll(paths) ==
  LET upto[i \in 0..Len(paths)] ==
        IF i = 0 THEN [q \in {<<>>} |-> Dir] ELSE Insert(upto[i - 1], paths[i], i)
  IN upto[Len(paths)]

New(paths, files) == [tree |-> InsertAll(paths), files |-> files]

Default == [tree |-> <<>>, files |-> <<>>]

(* Variant: leaves keep their index.                                         *)
Adjust_Not(n, offset) == n

(* adjust_files: the leaves of the other tree index the appended files.      *)
Adjust(n, offset) == IF IsLeaf(n) THEN n + offset ELSE n

(* Variant: other wins.                                                      *)
MergeTree_OtherWins(a, b, offset) ==
  [q \in DOMAIN a \cup { p \in DOMAIN b : NoLeafAbove(a, p) } |->
     IF q \in DOMAIN b THEN Adjust(b[q], offset) ELSE a[q]]

(* Variant: a directory of self is not merged with the other's.              *)
MergeTree_Shallow(a, b, offset) ==
  [q \in DOMAIN a \cup { p \in DOMAIN b : p # <<>> /\ <<p[1]>> \notin DOMAIN a } |->
     IF q \in DOMAIN a THEN a[q] ELSE Adjust(b[q], offset)]

(* Branch::merge: a name taken in self stays as it is unless both are        *)
(* directories, which are merged; the rest of other comes in whole.          *)
MergeTree(a, b, offset) ==
  [q \in DOMAIN a \cup { p \in DOMAIN b : NoLeafAbove(a, p) } |->
     IF q \in DOMAIN a THEN a[q] ELSE Adjust(b[q], offset)]

(* RofsObject::merge.                                                        *)
Merge(x, y) ==
  IF DOMAIN x.tree = {} \/ DOMAIN y.tree = {}
  THEN IF DOMAIN x.tree # {} THEN x ELSE y
  ELSE [tree |-> MergeTree(x.tree, y.tree, Len(x.files)),
        files |-> x.files \o y.files]

-----------------------------------------------------------------------------
(* A file of tree t is where p needs a directory.                            *)
HasFileAbove(t, p) ==
  \E q \in DOMAIN t : q # p /\ IsPrefixOf(q, p) /\ IsLeaf(t[q])

(* Two trees conflict when a file of one is where the other has a directory. *)
Conflict(a, b) == \E p \in DOMAIN a \cap DOMAIN b : IsLeaf(a[p]) # IsLeaf(b[p])
=============================================================================
