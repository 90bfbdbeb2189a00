----------------------------- MODULE RofsBuild ------------------------------
(* Building the filesystem from the archives: DvdbndRofsBuilder::finish      *)
(* (dvdbnd/filesystem.rs:117-159) makes one RofsObject per archive, merges   *)
(* them with a parallel reduce, whose grouping is up to the thread pool, and *)
(* flattens the result breadth first (RofsObject::into_rofs), whose order    *)
(* within a directory is up to the hash map.                                 *)
EXTENDS Rofs

CONSTANTS
  Inputs,   \* sequences of archives, an archive being a sequence of paths
  Queries   \* the paths looked up afterwards, as the caller spells them

(* Names, the root's empty one included, have a total order, and the lower   *)
(* case of a name is a name.                                                 *)
ASSUME RofsBuildAssumption ==
  /\ Inputs \subseteq Seq(Seq(Seq(DOMAIN Lower))) /\ Queries \subseteq Seq(DOMAIN Lower)
  /\ Rank \in [DOMAIN Rank -> Nat] /\ "" \in DOMAIN Rank
  /\ \A c, d \in DOMAIN Rank : Rank[c] = Rank[d] => c = d
  /\ \A c \in DOMAIN Lower \ {"", ".", ".."} :
       Lower[c] \in DOMAIN Rank \ {"", ".", ".."} /\ Lower[Lower[c]] = Lower[c]

VARIABLES
  archives,     \* the archives of this mount, in the order of the object map
  stage,        \* "new", "reduce", "flatten" or "done"
  objs,         \* the objects still to be merged, in order
  queue,        \* directories whose children are not laid out yet
  nodes,        \* the node array
  child_index   \* the index the next directory's children will start at

buildVars == <<archives, stage, objs, queue, nodes, child_index>>

Top == <<"">>   \* the map that holds only the root, under the empty name

BuildInit ==
  /\ archives \in Inputs
  /\ stage = "new"
  /\ objs = <<>> /\ queue = <<>> /\ nodes = <<>> /\ child_index = 1

(* A file's data is named by its archive and its place in it.                *)
Object(a) ==
  New([i \in 1..Len(archives[a]) |-> LowerPath(Normalize(archives[a][i]))],
      [i \in 1..Len(archives[a]) |-> <<a, i>>])

NewObject ==
  /\ stage = "new" /\ Len(objs) < Len(archives)
  /\ objs' = Append(objs, Object(Len(objs) + 1))
  /\ UNCHANGED <<archives, stage, queue, nodes, child_index>>

StartReduce ==
  /\ stage = "new" /\ Len(objs) = Len(archives)
  /\ stage' = "reduce"
  /\ UNCHANGED <<archives, objs, queue, nodes, child_index>>

(* One application of the reduce operator, to any two neighbours; a split    *)
(* of the pool starts from the default object.                               *)
Reduce ==
  /\ stage = "reduce" /\ Len(objs) > 1
  /\ \E i \in 1..(Len(objs) - 1) :
       objs' = SubSeq(objs, 1, i - 1)
                 \o <<Merge(Merge(Default, objs[i]), objs[i + 1])>>
                 \o SubSeq(objs, i + 2, Len(objs))
  /\ UNCHANGED <<archives, stage, queue, nodes, child_index>>

obj == IF objs = <<>> THEN Default ELSE objs[1]
tree == obj.tree

StartFlatten ==
  /\ stage = "reduce" /\ Len(objs) <= 1
  /\ stage' = "flatten"
  /\ queue' = <<Top>>
  /\ UNCHANGED <<archives, objs, nodes, child_index>>

Name(p) == IF p = <<>> THEN "" ELSE p[Len(p)]

ChildrenOf(d) ==
  IF d = Top THEN DOMAIN tree \cap {<<>>}
  ELSE { p \in DOMAIN tree : Len(p) = Len(d) + 1 /\ IsPrefixOf(d, p) }

Orders(S) ==
  { f \in [1..Cardinality(S) -> S] : \A i, j \in 1..Cardinality(S) : f[i] = f[j] => i = j }

(* Sorted by name and eytzingerized.                                         *)
EytzingerOrder(S) ==
  LET n == Cardinality(S)
      named(f) == [i \in 0..(n - 1) |-> [name |-> Name(f[i + 1])]]
  IN CHOOSE f \in Orders(S) : InEytzingerOrder(named(f), 0, n)

(* The first child of each directory, handed out in the map's order.         *)
FirstChild(order) ==
  LET start[i \in 1..(Len(order) + 1)] ==
        IF i = 1 THEN child_index
        ELSE start[i - 1] + (IF IsLeaf(tree[order[i - 1]]) THEN 0
                             ELSE Cardinality(ChildrenOf(order[i - 1])))
  IN start

(* The directories among them, queued in the same order.                     *)
Branches(order) ==
  LET upto[i \in 0..Len(order)] ==
        IF i = 0 THEN <<>>
        ELSE IF IsLeaf(tree[order[i]]) THEN upto[i - 1] ELSE Append(upto[i - 1], order[i])
  IN upto[Len(order)]

IndexOf(order, p) == CHOOSE i \in 1..Len(order) : order[i] = p

FlattenBranch ==
  /\ stage = "flatten" /\ queue # <<>>
  /\ \E order \in Orders(ChildrenOf(Head(queue))) :
       LET n == Len(order)
           first == FirstChild(order)
           laid == EytzingerOrder(ChildrenOf(Head(queue)))
           base == Cardinality(DOMAIN nodes)
           node(p) ==
             IF IsLeaf(tree[p])
             THEN [kind |-> "file", name |-> Name(p), data_index |-> tree[p]]
             ELSE [kind |-> "dir", name |-> Name(p),
                   child_index |-> first[IndexOf(order, p)],
                   child_count |-> Cardinality(ChildrenOf(p))]
       IN /\ nodes' = [i \in 0..(base + n - 1) |->
                         IF i < base THEN nodes[i] ELSE node(laid[i - base + 1])]
          /\ child_index' = first[n + 1]
          /\ queue' = Tail(queue) \o Branches(order)
  /\ UNCHANGED <<archives, stage, objs>>

FlattenDone ==
  /\ stage = "flatten" /\ queue = <<>>
  /\ stage' = "done"
  /\ UNCHANGED <<archives, objs, queue, nodes, child_index>>

Mounted == stage = "done" /\ UNCHANGED buildVars

BuildNext ==
  \/ NewObject \/ StartReduce \/ Reduce \/ StartFlatten
  \/ FlattenBranch \/ FlattenDone \/ Mounted

BuildSpec == BuildInit /\ [][BuildNext]_buildVars

-----------------------------------------------------------------------------
Owner(p) == obj.files[tree[p]]
PathOf(src) == LowerPath(Normalize(archives[src[1]][src[2]]))

(* Through every merge the leaves keep naming their own file: the data at a  *)
(* path is the data some archive stores under that path (object.rs:109-126,  *)
(* adjust_files).                                                            *)
FileDataIsItsOwn ==
  \A k \in 1..Len(objs) : LET o == objs[k] IN
    \A p \in DOMAIN o.tree : IsLeaf(o.tree[p]) =>
      o.tree[p] \in 1..Len(o.files) /\ PathOf(o.files[o.tree[p]]) = p

Trees == [a \in 1..Len(archives) |-> Object(a).tree]
NoConflict == \A a, b \in 1..Len(archives) : ~Conflict(Trees[a], Trees[b])

(* A path of an archive is missing from the mount only if another archive    *)
(* has a file in the place of one of the directories above it; without such  *)
(* conflicts the grouping of the parallel reduce does not matter: each path  *)
(* has the data of the first archive that has it                             *)
(* (dvdbnd/filesystem.rs:149-153).                                           *)
MergeIsUnion ==
  stage = "done" =>
    /\ \A a \in 1..Len(archives) : \A p \in DOMAIN Trees[a] :
         \/ p \in DOMAIN tree
         \/ \E b \in 1..Len(archives) \ {a} : HasFileAbove(Trees[b], p)
    /\ NoConflict =>
         \A p \in DOMAIN tree : IsLeaf(tree[p]) =>
           \A a \in 1..(Owner(p)[1] - 1) : p \notin DOMAIN Trees[a]

(* What was built is a filesystem as the mounts count on, and lookup agrees  *)
(* with the merged tree on every spelling of a path: it finds exactly the    *)
(* paths of the tree, and the node it finds is that path's                   *)
(* (filesystem.rs:132-177, 227-275; object.rs:128-179).                      *)
LookupMatchesTree ==
  stage = "done" /\ DOMAIN tree # {} =>
    IsFilesystem(nodes) /\ \A q \in Queries :
      LET p == LowerPath(Normalize(q))
          inode == Lookup(nodes, q)
          i == EntryIndex(nodes, inode)
      IN IF p \in DOMAIN tree
         THEN /\ i # NotFound
              /\ nodes[i].name = Name(p)
              /\ IF IsLeaf(tree[p])
                 THEN nodes[i].kind = "file" /\ nodes[i].data_index = tree[p]
                 ELSE nodes[i].kind = "dir"
         ELSE inode = NotFound

(* The inode an entry reports is the inode it was asked for, the root's      *)
(* being 1 as the tests of filesystem.rs have it.                            *)
EntryInodeRoundTrips ==
  stage = "done" =>
    \A i \in DOMAIN nodes : NodeInode(EntryIndex(nodes, i + INODE_ROOT)) = i + INODE_ROOT
=============================================================================
