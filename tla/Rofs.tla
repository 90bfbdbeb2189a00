-------------------------------- MODULE Rofs --------------------------------
(* The flattened read-only filesystem, Rofs (filesystem.rs): an array of     *)
(* nodes, the siblings of a directory next to each other in Eytzinger order, *)
(* and the operations the mounts call on it.  Array index i is 0-based as in *)
(* the code; nodes is a function on 0..n-1.  Names are components, ordered   *)
(* by Rank.                                                                  *)
EXTENDS RofsObject, FiniteSets

CONSTANTS
  Rank,     \* the order of names: a function from lowercase names to Nat
  Lower     \* to_ascii_lowercase on components

INODE_ROOT == 1
NotFound == -1

(* normalize_path and components: empty and "." components are skipped, ".." *)
(* takes the last one away.                                                  *)
Normalize(path) ==
  LET upto[i \in 0..Len(path)] ==
        IF i = 0 THEN <<>>
        ELSE LET s == upto[i - 1] c == path[i] IN
             IF c \in {"", "."} THEN s
             ELSE IF c = ".."
                  THEN IF s = <<>> THEN s ELSE SubSeq(s, 1, Len(s) - 1)
                  ELSE Append(s, c)
  IN upto[Len(path)]

LowerPath(path) == [i \in 1..Len(path) |-> Lower[path[i]]]

(* Place k of the implicit tree is place c or lies under it: the parent of   *)
(* place i is (i - 1) / 2, and c is in every set that has k and parents.     *)
IsUnder(k, c) ==
  \A above \in SUBSET (0..k) :
    k \in above /\ (\A i \in above \ {0} : (i - 1) \div 2 \in above) => c \in above

(* The order eytzingerize leaves sorted siblings in: what lies to the left   *)
(* of a place is smaller, what lies to its right is greater.                 *)
InEytzingerOrder(nodes, first, count) ==
  \A i, k \in 0..(count - 1) :
    /\ IsUnder(k, 2 * i + 1) =>
         Rank[nodes[first + k].name] < Rank[nodes[first + i].name]
    /\ IsUnder(k, 2 * i + 2) =>
         Rank[nodes[first + i].name] < Rank[nodes[first + k].name]

(* Variant: the children of place i are those of a tree counted from 1.      *)
Search_FromOne(nodes, first, count, name) ==
  LET from[i \in 0..(2 * count + 2)] ==
        IF i >= count THEN NotFound
        ELSE LET n == nodes[first + i].name IN
             IF n = name THEN first + i
             ELSE IF Rank[name] < Rank[n] THEN from[2 * i + 2] ELSE from[2 * i + 3]
  IN from[0]

(* The search of the eytzinger crate among count siblings that start at      *)
(* first: from the root of the implicit tree, left to a smaller name, right  *)
(* to a greater one.  A name that is not a name of the filesystem compares   *)
(* with none of them; it ranks by Rank too.                                  *)
Search(nodes, first, count, name) ==
  LET from[i \in 0..(2 * count + 2)] ==
        IF i >= count THEN NotFound
        ELSE LET n == nodes[first + i].name IN
             IF n = name THEN first + i
             ELSE IF Rank[name] < Rank[n] THEN from[2 * i + 1] ELSE from[2 * i + 2]
  IN from[0]

(* inode_by_path: one component after another from node index parent.        *)
IndexByPath(nodes, parent, path) ==
  LET at[k \in 0..Len(path)] ==
        IF k = 0 THEN parent
        ELSE LET i == at[k - 1] IN
             IF i \notin DOMAIN nodes \/ nodes[i].kind # "dir" THEN NotFound
             ELSE Search(nodes, nodes[i].child_index, nodes[i].child_count, path[k])
  IN at[Len(path)]

(* Variant: the path is looked up as given only.                             *)
IndexIgnoreCase_AsGiven(nodes, parent, path) == IndexByPath(nodes, parent, path)

(* inode_by_path_ignore_ascii_case: as given, then in lower case if that is  *)
(* another path.                                                             *)
IndexIgnoreCase(nodes, parent, path) ==
  LET exact == IndexByPath(nodes, parent, path) IN
  IF exact # NotFound THEN exact
  ELSE IF LowerPath(path) = path THEN NotFound
       ELSE IndexByPath(nodes, parent, LowerPath(path))

(* Variant: the parent's inode is taken for its index.                       *)
LookupInDir_Inode(nodes, parent_inode, path) ==
  LET i == IndexIgnoreCase(nodes, parent_inode, Normalize(path))
  IN IF i = NotFound THEN NotFound ELSE i + INODE_ROOT

LookupInDir(nodes, parent_inode, path) ==
  LET i == IndexIgnoreCase(nodes, parent_inode - INODE_ROOT, Normalize(path))
  IN IF i = NotFound THEN NotFound ELSE i + INODE_ROOT

Lookup(nodes, path) == LookupInDir(nodes, INODE_ROOT, path)

EntryIndex(nodes, inode) ==
  IF inode - INODE_ROOT \in DOMAIN nodes THEN inode - INODE_ROOT ELSE NotFound

(* node_entry: the inode an entry reports (filesystem.rs:87), as the code    *)
(* computes it on a 64-bit index.                                            *)
Width64 == 2 ^ 16
NodeInode(i) == (i - INODE_ROOT) % Width64

Children(nodes, i) ==
  { nodes[i].child_index + k : k \in 0..(nodes[i].child_count - 1) }

(* What into_rofs makes: the children of a directory lie inside the array in *)
(* Eytzinger order, and have lowercase names that a path can spell.          *)
IsFilesystem(n) ==
  /\ DOMAIN n = 0..(Cardinality(DOMAIN n) - 1)
  /\ 0 \in DOMAIN n
  /\ \A i \in DOMAIN n :
       /\ n[i].kind \in {"file", "dir"}
       /\ n[i].kind = "dir" =>
            /\ n[i].child_index \in Nat \ {0} /\ n[i].child_count \in Nat
            /\ Children(n, i) \subseteq DOMAIN n
            /\ InEytzingerOrder(n, n[i].child_index, n[i].child_count)
            /\ \A c \in Children(n, i) :
                 n[c].name \in DOMAIN Rank \ {"", ".", ".."} /\ Lower[n[c].name] = n[c].name
=============================================================================
