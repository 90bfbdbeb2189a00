---------------------------- MODULE RofsProofs ------------------------------
(* The read-only filesystem, built and walked.  First, what a program sees   *)
(* of a directory of the mount (FuseDir), for every filesystem, every size   *)
(* of a reply and every way to resume a listing.  Then how the filesystem    *)
(* comes to be (RofsBuild), for every set of archives, every grouping of the *)
(* parallel reduce and every order of the hash maps: what the merges keep    *)
(* (MergeInv), that siblings have an Eytzinger order, and what the           *)
(* flattening has laid out and promised so far (FlattenInv).                 *)
EXTENDS FuseDir, RofsBuild, FiniteSetTheorems, WellFoundedInduction, TLAPS

Opened(h, kind) ==
  h # NoHandle =>
    /\ h.ino = h.fh
    /\ h.ino - INODE_ROOT \in DOMAIN rofs
    /\ rofs[h.ino - INODE_ROOT].kind = kind

Cells == { Entry(k) : k \in 0..(dir.child_count - 1) }

ListedSoFar ==
  dh # NoHandle =>
    /\ dir.child_count \in Nat
    /\ offset \in 0..dir.child_count
    /\ listed \in Seq(Cells)
    /\ Len(listed) = offset
    /\ \A k \in 1..offset : listed[k] = Entry(k - 1)
    /\ ended => offset = dir.child_count

(* The inductive invariant: what the kernel holds names nodes of the right   *)
(* kind, and the position of a listing counts what it has shown.             *)
IInv ==
  /\ IsFilesystem(rofs)
  /\ at - INODE_ROOT \in DOMAIN rofs
  /\ Opened(fh, "file") /\ Opened(dh, "dir")
  /\ ListedSoFar
  /\ NoHandleIsStale

-----------------------------------------------------------------------------
(* Induction, over sets of naturals.                                         *)
LEMMA LowestExists ==
  ASSUME NEW S \in SUBSET Nat, S # {}
  PROVE  \E i \in S : \A j \in S : i <= j
<1> DEFINE R == { p \in Nat \X Nat : p[1] < p[2] }
<1>1. IsWellFoundedOn(R, Nat)
  <2>1. R = OpToRel(<, Nat)
    BY DEF OpToRel
  <2>2. IsWellFoundedOn(OpToRel(<, Nat), Nat)
    BY NatLessThanWellFounded
  <2> QED
    BY <2>1, <2>2
<1>2. PICK i \in S : \A j \in S : ~ (<<j, i>> \in R)
  <2> HIDE DEF R
  <2> QED
    BY <1>1, WFMin, Zenon
<1>3. ASSUME NEW j \in S PROVE i <= j
  <2>1. i \in Nat /\ j \in Nat /\ (j < i => <<j, i>> \in R)
    OBVIOUS
  <2>2. ~ (j < i)
    BY <2>1, <1>2
  <2> QED
    BY <2>1, <2>2
<1> QED
  BY <1>3

LEMMA UpTo ==
  ASSUME NEW S, NEW n \in Nat, 0 \in S, \A i \in 0..n - 1 : i \in S => i + 1 \in S
  PROVE  0..n \subseteq S
<1> DEFINE Out == { i \in 0..n : i \notin S }
<1> SUFFICES ASSUME Out # {} PROVE FALSE
  OBVIOUS
<1>1. Out \in SUBSET Nat
  OBVIOUS
<1>2. PICK m \in Out : \A j \in Out : m <= j
  <2> HIDE DEF Out
  <2> QED
    BY <1>1, LowestExists
<1>3. m \in 0..n /\ m # 0 /\ m \notin S
  BY <1>2
<1>4. m - 1 \in 0..n - 1 /\ m - 1 \notin Out /\ (m - 1) + 1 = m
  BY <1>2, <1>3
<1>5. m - 1 \in S
  BY <1>4
<1> QED
  BY <1>3, <1>4, <1>5

(* A function whose value at a place is given, or is its value at a later    *)
(* place, exists.                                                            *)
FollowsLater(f, d, stop, val, next) ==
  f = [i \in 0..d |-> IF i \in stop THEN val[i] ELSE f[next[i]]]

LEMMA RecursionToLater ==
  ASSUME NEW d \in Nat, NEW stop, NEW val, NEW next \in [0..d -> 0..d],
         \A i \in 0..d : i \notin stop => next[i] > i
  PROVE  \E f : FollowsLater(f, d, stop, val, next)
<1> DEFINE Right(f, i) == f[i] = IF i \in stop THEN val[i] ELSE f[next[i]]
           Done == { n \in 0..d + 1 :
                       \E f : /\ f = [i \in 0..d |-> f[i]]
                              /\ \A i \in 0..d : i > d - n => Right(f, i) }
<1>1. 0 \in Done
  <2> DEFINE f == [i \in 0..d |-> 0]
  <2>1. f = [i \in 0..d |-> f[i]]
    OBVIOUS
  <2>2. \A i \in 0..d : ~(i > d - 0)
    OBVIOUS
  <2> HIDE DEF f, Right
  <2> QED
    BY <2>1, <2>2
<1>2. ASSUME NEW n \in 0..(d + 1) - 1, n \in Done PROVE n + 1 \in Done
  <2>1. PICK f : /\ f = [i \in 0..d |-> f[i]]
                 /\ \A i \in 0..d : i > d - n => Right(f, i)
    BY <1>2
  <2> DEFINE p == d - n
             v == IF p \in stop THEN val[p] ELSE f[next[p]]
             g == [i \in 0..d |-> IF i = p THEN v ELSE f[i]]
  <2>2. p \in 0..d /\ n + 1 \in 0..d + 1
    OBVIOUS
  <2>3. ASSUME NEW i \in 0..d, i > d - (n + 1) PROVE Right(g, i)
    <3>1. i = p \/ i > p
      BY <2>3
    <3>2. i \notin stop => next[i] \in 0..d /\ next[i] # p /\ next[i] > i
      BY <2>2, <3>1
    <3>3. i \notin stop => g[next[i]] = f[next[i]]
      BY <3>2
    <3>4. CASE i = p
      <4>1. g[i] = v
        BY <3>4
      <4> HIDE DEF g
      <4> QED
        BY <3>3, <3>4, <4>1
    <3>5. CASE i > p
      <4>1. g[i] = f[i] /\ Right(f, i)
        BY <2>1, <2>2, <3>5
      <4> HIDE DEF g
      <4> QED
        BY <3>3, <4>1
    <3> QED
      BY <3>1, <3>4, <3>5
  <2>4. g = [i \in 0..d |-> g[i]]
    OBVIOUS
  <2> HIDE DEF g, Right
  <2> QED
    BY <2>2, <2>3, <2>4
<1> HIDE DEF Done
<1>3. d + 1 \in Nat /\ d + 1 \in 0..d + 1
  OBVIOUS
<1>4. d + 1 \in Done
  BY <1>1, <1>2, <1>3, UpTo
<1>5. PICK f : /\ f = [i \in 0..d |-> f[i]]
               /\ \A i \in 0..d : i > d - (d + 1) => Right(f, i)
  BY <1>4 DEF Done
<1>6. \A i \in 0..d : f[i] = IF i \in stop THEN val[i] ELSE f[next[i]]
  <2>1. \A i \in 0..d : i > d - (d + 1)
    OBVIOUS
  <2> QED
    BY <1>5, <2>1
<1> DEFINE D == 0..d
<1>7. f = [i \in D |-> f[i]] /\ \A i \in D : f[i] = IF i \in stop THEN val[i] ELSE f[next[i]]
  BY <1>5, <1>6
<1> HIDE DEF D
<1>8. f = [i \in D |-> IF i \in stop THEN val[i] ELSE f[next[i]]]
  BY <1>7
<1> QED
  BY <1>8 DEF D, FollowsLater

-----------------------------------------------------------------------------
(* The search among the siblings of a directory.                             *)
SearchFrom(n, first, count, name, f) ==
  [i \in 0..(2 * count + 2) |->
     IF i >= count THEN NotFound
     ELSE IF n[first + i].name = name THEN first + i
     ELSE IF Rank[name] < Rank[n[first + i].name] THEN f[2 * i + 1] ELSE f[2 * i + 2]]

LEMMA SearchIs ==
  ASSUME NEW n, NEW first, NEW count \in Nat, NEW name
  PROVE  \E f : /\ f = SearchFrom(n, first, count, name, f)
                /\ Search(n, first, count, name) = f[0]
<1> DEFINE Body(f) == SearchFrom(n, first, count, name, f)
           d == 2 * count + 2
           stop == { i \in 0..d : i >= count \/ n[first + i].name = name }
           val == [i \in 0..d |-> IF i >= count THEN NotFound ELSE first + i]
           next == [i \in 0..d |->
                      IF i >= count THEN 0
                      ELSE IF Rank[name] < Rank[n[first + i].name] THEN 2 * i + 1
                      ELSE 2 * i + 2]
<1>1. Search(n, first, count, name) = (CHOOSE f : f = Body(f))[0]
  BY DEF Search, SearchFrom
<1>2. \E f : f = Body(f)
  <2>1. d \in Nat /\ next \in [0..d -> 0..d]
    OBVIOUS
  <2>2. \A i \in 0..d : i \notin stop => next[i] > i
    OBVIOUS
  <2> HIDE DEF d, stop, val, next
  <2>3. PICK f : FollowsLater(f, d, stop, val, next)
    BY <2>1, <2>2, RecursionToLater
  <2>4. ASSUME NEW i \in 0..d
        PROVE  (IF i \in stop THEN val[i] ELSE f[next[i]]) =
                 IF i >= count THEN NotFound
                 ELSE IF n[first + i].name = name THEN first + i
                 ELSE IF Rank[name] < Rank[n[first + i].name] THEN f[2 * i + 1]
                 ELSE f[2 * i + 2]
    BY DEF stop, val, next
  <2>5. f = Body(f)
    BY <2>3, <2>4 DEF SearchFrom, FollowsLater, d
  <2> QED
    BY <2>5
<1> DEFINE g == CHOOSE f : f = Body(f)
<1>3. g = Body(g)
  <2> HIDE DEF Body
  <2> QED
    BY <1>2
<1> HIDE DEF g
<1>4. Search(n, first, count, name) = g[0]
  BY <1>1 DEF g
<1> QED
  BY <1>3, <1>4

(* What the search finds has the name.                                       *)
LEMMA SearchFindsOnly ==
  ASSUME NEW n, NEW first \in Nat, NEW count \in Nat, NEW name,
         Search(n, first, count, name) # NotFound
  PROVE  \E k \in 0..(count - 1) :
           Search(n, first, count, name) = first + k /\ n[first + k].name = name
<1> DEFINE d == 2 * count + 2
           Good(x) == \/ x = NotFound
                      \/ \E k \in 0..(count - 1) : x = first + k /\ n[first + k].name = name
<1>1. PICK f : /\ f = SearchFrom(n, first, count, name, f)
               /\ Search(n, first, count, name) = f[0]
  BY SearchIs
<1>2. \A i \in 0..d :
        f[i] = IF i >= count THEN NotFound
               ELSE IF n[first + i].name = name THEN first + i
               ELSE IF Rank[name] < Rank[n[first + i].name] THEN f[2 * i + 1]
               ELSE f[2 * i + 2]
  BY <1>1 DEF SearchFrom
<1> DEFINE Done == { m \in 0..d : \A i \in 0..d : i >= d - m => Good(f[i]) }
<1>3. d \in Nat /\ d >= count
  OBVIOUS
<1>4. 0 \in Done
  <2>1. \A i \in 0..d : i >= d - 0 => i >= count
    BY <1>3
  <2>2. \A i \in 0..d : i >= count => f[i] = NotFound
    BY <1>2
  <2> QED
    BY <1>3, <2>1, <2>2
<1>5. ASSUME NEW m \in 0..d - 1, m \in Done PROVE m + 1 \in Done
  <2> SUFFICES ASSUME NEW i \in 0..d, i >= d - (m + 1) PROVE Good(f[i])
    BY <1>3
  <2>1. CASE i >= d - m
    BY <1>5, <2>1
  <2>2. CASE i >= count
    BY <1>2, <2>2
  <2>3. CASE i < count /\ n[first + i].name = name
    <3>1. f[i] = first + i /\ i \in 0..(count - 1)
      BY <1>2, <2>3
    <3> QED
      BY <2>3, <3>1
  <2>4. CASE i < count /\ n[first + i].name # name /\ ~(i >= d - m)
    <3>1. 2 * i + 1 \in 0..d /\ 2 * i + 2 \in 0..d /\ 2 * i + 1 >= d - m
          /\ 2 * i + 2 >= d - m
      BY <2>4
    <3>2. Good(f[2 * i + 1]) /\ Good(f[2 * i + 2])
      BY <1>5, <3>1
    <3>3. f[i] = f[2 * i + 1] \/ f[i] = f[2 * i + 2]
      BY <1>2, <2>4
    <3> HIDE DEF Good
    <3> QED
      BY <3>2, <3>3
  <2> QED
    BY <2>1, <2>2, <2>3, <2>4
<1> HIDE DEF Done, d
<1>6. d \in Done
  <2>1. d \in 0..d
    BY <1>3
  <2> QED
    BY <1>3, <1>4, <1>5, <2>1, UpTo
<1>7. Good(f[0])
  <2>1. 0 \in 0..d /\ 0 >= d - d
    BY <1>3
  <2> QED
    BY <1>6, <2>1 DEF Done
<1> QED
  BY <1>1, <1>7

(* A place is under itself, and under the parent of what it is under.        *)
LEMMA UnderSelf ==
  ASSUME NEW k \in Nat
  PROVE  IsUnder(k, k)
BY DEF IsUnder

LEMMA UnderParent ==
  ASSUME NEW k \in Nat, NEW c \in 1..k, IsUnder(k, c)
  PROVE  IsUnder(k, (c - 1) \div 2)
BY DEF IsUnder

LEMMA ParentIs ==
  ASSUME NEW c \in Nat \ {0}
  PROVE  /\ (c - 1) \div 2 \in Nat /\ (c - 1) \div 2 < c
         /\ c = 2 * ((c - 1) \div 2) + 1 \/ c = 2 * ((c - 1) \div 2) + 2
OBVIOUS

(* Every name is found where it is.                                          *)
LEMMA SearchFindsAll ==
  ASSUME NEW n, NEW first \in Nat, NEW count \in Nat, NEW k \in 0..(count - 1),
         InEytzingerOrder(n, first, count),
         \A i \in 0..(count - 1) : Rank[n[first + i].name] \in Int
  PROVE  Search(n, first, count, n[first + k].name) = first + k
<1> DEFINE name == n[first + k].name
<1>1. PICK f : /\ f = SearchFrom(n, first, count, name, f)
               /\ Search(n, first, count, name) = f[0]
  BY SearchIs
<1>2. \A i \in 0..(count - 1) :
        f[i] = IF n[first + i].name = name THEN first + i
               ELSE IF Rank[name] < Rank[n[first + i].name] THEN f[2 * i + 1]
               ELSE f[2 * i + 2]
  BY <1>1 DEF SearchFrom
<1> DEFINE A == { i \in 0..k : IsUnder(k, i) /\ f[i] = first + k }
<1>3. k \in A
  BY <1>2, UnderSelf
<1>4. ASSUME NEW c \in A, c # 0 PROVE (c - 1) \div 2 \in A
  <2> DEFINE p == (c - 1) \div 2
  <2>1. p \in 0..k /\ p < c /\ (c = 2 * p + 1 \/ c = 2 * p + 2)
    <3>1. c \in Nat \ {0} /\ c \in 0..k
      BY <1>4
    <3>2. p \in Nat /\ p < c /\ (c = 2 * p + 1 \/ c = 2 * p + 2)
      BY <3>1, ParentIs
    <3> HIDE DEF p
    <3> QED
      BY <3>1, <3>2
  <2>2. IsUnder(k, p)
    BY <1>4, UnderParent
  <2>3. f[c] = first + k /\ IsUnder(k, c)
    OBVIOUS
  <2> HIDE DEF p
  <2>4. p \in 0..(count - 1)
    BY <2>1
  <2>5. CASE c = 2 * p + 1
    <3>1. Rank[name] < Rank[n[first + p].name]
      BY <2>3, <2>4, <2>5 DEF InEytzingerOrder
    <3>2. n[first + p].name # name
      BY <2>4, <3>1
    <3>3. f[p] = f[2 * p + 1]
      BY <1>2, <2>4, <3>1, <3>2
    <3> QED
      BY <2>1, <2>2, <2>3, <2>5, <3>3 DEF p
  <2>6. CASE c = 2 * p + 2
    <3>1. Rank[n[first + p].name] < Rank[name]
      BY <2>3, <2>4, <2>6 DEF InEytzingerOrder
    <3>2. n[first + p].name # name /\ ~(Rank[name] < Rank[n[first + p].name])
      BY <2>4, <3>1
    <3>3. f[p] = f[2 * p + 2]
      BY <1>2, <2>4, <3>2
    <3> QED
      BY <2>1, <2>2, <2>3, <2>6, <3>3 DEF p
  <2> QED
    BY <2>1, <2>5, <2>6
<1>5. A \in SUBSET Nat
  OBVIOUS
<1>6. \A c \in A : c # 0 => (c - 1) \div 2 < c
  OBVIOUS
<1> HIDE DEF A
<1>7. PICK m \in A : \A j \in A : m <= j
  BY <1>3, <1>5, LowestExists
<1>8. m = 0
  <2> SUFFICES ASSUME m # 0 PROVE FALSE
    OBVIOUS
  <2>1. (m - 1) \div 2 \in A /\ (m - 1) \div 2 < m
    BY <1>4, <1>6, <1>7
  <2> DEFINE q == (m - 1) \div 2
  <2>2. m <= q /\ q < m /\ q \in Nat /\ m \in Nat
    BY <1>5, <1>7, <2>1
  <2> HIDE DEF q
  <2> QED
    BY <2>2
<1>9. f[0] = first + k
  BY <1>7, <1>8 DEF A
<1> QED
  BY <1>1, <1>9

-----------------------------------------------------------------------------
(* The walk along a path.                                                    *)
Step(n, i, c) ==
  IF i \notin DOMAIN n \/ n[i].kind # "dir" THEN NotFound
  ELSE Search(n, n[i].child_index, n[i].child_count, c)

WalkFrom(n, parent, p, f) ==
  [k \in 0..Len(p) |-> IF k = 0 THEN parent ELSE Step(n, f[k - 1], p[k])]

LEMMA WalkIs ==
  ASSUME NEW n, NEW parent, NEW p, Len(p) \in Nat
  PROVE  \E f : /\ f = WalkFrom(n, parent, p, f)
                /\ IndexByPath(n, parent, p) = f[Len(p)]
<1> DEFINE Body(f) == WalkFrom(n, parent, p, f)
           d == Len(p)
           Done == { m \in 0..d :
                       \E f : /\ f = [k \in 0..d |-> f[k]] /\ f[0] = parent
                              /\ \A k \in 1..m : f[k] = Step(n, f[k - 1], p[k]) }
<1>1. IndexByPath(n, parent, p) = (CHOOSE f : f = Body(f))[Len(p)]
  BY DEF IndexByPath, WalkFrom, Step
<1>2. 0 \in Done
  <2> DEFINE f == [k \in 0..d |-> parent]
  <2>1. f = [k \in 0..d |-> f[k]] /\ f[0] = parent
    OBVIOUS
  <2> HIDE DEF f
  <2>2. \A k \in 1..0 : f[k] = Step(n, f[k - 1], p[k])
    OBVIOUS
  <2> QED
    BY <2>1, <2>2
<1>3. ASSUME NEW m \in 0..d - 1, m \in Done PROVE m + 1 \in Done
  <2>1. PICK f : /\ f = [k \in 0..d |-> f[k]] /\ f[0] = parent
                 /\ \A k \in 1..m : f[k] = Step(n, f[k - 1], p[k])
    BY <1>3
  <2> DEFINE v == Step(n, f[m], p[m + 1])
             g == [k \in 0..d |-> IF k = m + 1 THEN v ELSE f[k]]
  <2>2. g = [k \in 0..d |-> g[k]] /\ g[0] = parent
    BY <2>1
  <2>3. ASSUME NEW k \in 1..m + 1 PROVE g[k] = Step(n, g[k - 1], p[k])
    <3>1. g[k - 1] = f[k - 1]
      OBVIOUS
    <3>2. CASE k = m + 1
      <4>1. g[k] = v /\ k - 1 = m
        BY <3>2
      <4> HIDE DEF g
      <4> QED
        BY <3>1, <3>2, <4>1
    <3>3. CASE k # m + 1
      <4>1. g[k] = f[k] /\ k \in 1..m
        BY <3>3
      <4> HIDE DEF g
      <4> QED
        BY <2>1, <3>1, <4>1
    <3> QED
      BY <3>2, <3>3
  <2> HIDE DEF g
  <2>4. m + 1 \in 0..d
    OBVIOUS
  <2> QED
    BY <2>2, <2>3, <2>4
<1> HIDE DEF Done
<1>4. d \in Done
  <2>1. d \in 0..d
    OBVIOUS
  <2> HIDE DEF d
  <2>2. d \in Nat
    BY DEF d
  <2> QED
    BY <1>2, <1>3, <2>1, <2>2, UpTo
<1>5. \E f : f = Body(f)
  <2>1. PICK f : /\ f = [k \in 0..d |-> f[k]] /\ f[0] = parent
                 /\ \A k \in 1..d : f[k] = Step(n, f[k - 1], p[k])
    BY <1>4 DEF Done
  <2>2. \A k \in 0..d : f[k] = IF k = 0 THEN parent ELSE Step(n, f[k - 1], p[k])
    BY <2>1
  <2> DEFINE D == 0..d
  <2>3. f = [k \in D |-> f[k]]
        /\ \A k \in D : f[k] = IF k = 0 THEN parent ELSE Step(n, f[k - 1], p[k])
    BY <2>1, <2>2
  <2> HIDE DEF D
  <2>4. f = [k \in D |-> IF k = 0 THEN parent ELSE Step(n, f[k - 1], p[k])]
    BY <2>3
  <2>5. f = Body(f)
    BY <2>4 DEF D, WalkFrom
  <2> QED
    BY <2>5
<1> DEFINE g == CHOOSE f : f = Body(f)
<1>6. g = Body(g)
  <2> HIDE DEF Body
  <2> QED
    BY <1>5
<1> HIDE DEF g
<1>7. IndexByPath(n, parent, p) = g[Len(p)]
  BY <1>1 DEF g
<1> QED
  BY <1>6, <1>7

LEMMA WalkOfNone ==
  ASSUME NEW n, NEW parent
  PROVE  IndexByPath(n, parent, <<>>) = parent
<1>1. PICK f : /\ f = WalkFrom(n, parent, <<>>, f)
               /\ IndexByPath(n, parent, <<>>) = f[Len(<<>>)]
  BY WalkIs
<1> QED
  BY <1>1 DEF WalkFrom

(* A walk goes on where the walk along all but the last component ended.     *)
LEMMA WalkGoesOn ==
  ASSUME NEW n, NEW parent, NEW S, NEW p \in Seq(S), NEW c \in S
  PROVE  IndexByPath(n, parent, Append(p, c)) = Step(n, IndexByPath(n, parent, p), c)
<1> DEFINE q == Append(p, c)
           m == Len(p)
<1>1. /\ m \in Nat /\ Len(q) = m + 1 /\ q[m + 1] = c
      /\ \A k \in 1..m : q[k] = p[k]
  OBVIOUS
<1> HIDE DEF q, m
<1>2. PICK f : f = WalkFrom(n, parent, p, f) /\ IndexByPath(n, parent, p) = f[m]
  BY <1>1, WalkIs DEF m
<1>3. PICK g : g = WalkFrom(n, parent, q, g) /\ IndexByPath(n, parent, q) = g[m + 1]
  BY <1>1, WalkIs
<1>4. f[0] = parent /\ \A k \in 1..m : f[k] = Step(n, f[k - 1], p[k])
  BY <1>1, <1>2 DEF WalkFrom, m
<1>5. g[0] = parent /\ \A k \in 1..m + 1 : g[k] = Step(n, g[k - 1], q[k])
  BY <1>1, <1>3 DEF WalkFrom
<1> DEFINE Same == { k \in 0..m : f[k] = g[k] }
<1>6. 0 \in Same
  BY <1>1, <1>4, <1>5
<1>7. ASSUME NEW k \in 0..m - 1, k \in Same PROVE k + 1 \in Same
  <2>1. k + 1 \in 1..m /\ k + 1 \in 1..m + 1 /\ (k + 1) - 1 = k
    BY <1>1
  <2>2. f[k + 1] = Step(n, f[k], p[k + 1]) /\ g[k + 1] = Step(n, g[k], q[k + 1])
    BY <1>4, <1>5, <2>1
  <2>3. f[k] = g[k] /\ p[k + 1] = q[k + 1]
    BY <1>1, <1>7, <2>1
  <2> QED
    BY <2>1, <2>2, <2>3
<1> HIDE DEF Same
<1>8. m \in Same
  <2>1. m \in Nat /\ m \in 0..m
    BY <1>1
  <2> QED
    BY <1>6, <1>7, <2>1, UpTo
<1>9. g[m + 1] = Step(n, g[m], c)
  <2>1. m + 1 \in 1..m + 1 /\ (m + 1) - 1 = m
    BY <1>1
  <2>2. g[m + 1] = Step(n, g[(m + 1) - 1], q[m + 1])
    BY <1>5, <2>1
  <2> QED
    BY <1>1, <2>1, <2>2
<1> QED
  BY <1>2, <1>3, <1>8, <1>9 DEF Same, q

-----------------------------------------------------------------------------
(* A path without "", "." and ".." is normal.                                *)
Skipped == {"", ".", ".."}

NormalizeFrom(p, f) ==
  [i \in 0..Len(p) |->
     IF i = 0 THEN <<>>
     ELSE IF p[i] \in {"", "."} THEN f[i - 1]
     ELSE IF p[i] = ".."
          THEN IF f[i - 1] = <<>> THEN f[i - 1]
               ELSE SubSeq(f[i - 1], 1, Len(f[i - 1]) - 1)
          ELSE Append(f[i - 1], p[i])]

LEMMA FrontGrows ==
  ASSUME NEW S, NEW p \in Seq(S), NEW i \in 1..Len(p)
  PROVE  SubSeq(p, 1, i) = Append(SubSeq(p, 1, i - 1), p[i])
<1> DEFINE a == SubSeq(p, 1, i)
           b == SubSeq(p, 1, i - 1)
           c == Append(b, p[i])
<1>1. a \in Seq(S) /\ Len(a) = i /\ \A k \in 1..i : a[k] = p[k]
  OBVIOUS
<1>2. b \in Seq(S) /\ Len(b) = i - 1 /\ \A k \in 1..i - 1 : b[k] = p[k]
  OBVIOUS
<1>3. p[i] \in S
  OBVIOUS
<1> HIDE DEF a, b
<1>4. c \in Seq(S) /\ Len(c) = i /\ \A k \in 1..i : c[k] = p[k]
  BY <1>2, <1>3
<1> HIDE DEF c
<1>5. a = c
  BY <1>1, <1>4
<1> QED
  BY <1>5 DEF a, b, c

LEMMA NormalIsKept ==
  ASSUME NEW S, NEW p \in Seq(S), \A i \in 1..Len(p) : p[i] \notin Skipped
  PROVE  Normalize(p) = p
<1> DEFINE Body(f) == NormalizeFrom(p, f)
           d == Len(p)
           h == [i \in 0..d |-> SubSeq(p, 1, i)]
<1>1. Normalize(p) = (CHOOSE f : f = Body(f))[Len(p)]
  BY DEF Normalize, NormalizeFrom
<1>2. \A i \in 1..d : p[i] \notin {"", "."} /\ p[i] # ".."
  BY DEF Skipped
<1>3. d \in Nat
  OBVIOUS
<1>4. SubSeq(p, 1, 0) = <<>> /\ SubSeq(p, 1, d) = p
  OBVIOUS
<1>5. \A i \in 1..d : SubSeq(p, 1, i) = Append(SubSeq(p, 1, i - 1), p[i])
  BY FrontGrows
<1> HIDE DEF d
<1>6. h = [i \in 0..d |-> h[i]]
  OBVIOUS
<1>7. h[0] = <<>> /\ h[d] = p
  BY <1>3, <1>4
<1>8. ASSUME NEW i \in 1..d PROVE h[i] = Append(h[i - 1], p[i])
  <2>1. i \in 0..d /\ i - 1 \in 0..d
    BY <1>3
  <2>2. h[i] = SubSeq(p, 1, i) /\ h[i - 1] = SubSeq(p, 1, i - 1)
    BY <2>1
  <2> HIDE DEF h
  <2> QED
    BY <1>5, <2>2
<1> HIDE DEF h
<1> DEFINE D == 0..d
           At(f, i) ==
             IF i = 0 THEN <<>>
             ELSE IF p[i] \in {"", "."} THEN f[i - 1]
             ELSE IF p[i] = ".."
                  THEN IF f[i - 1] = <<>> THEN f[i - 1]
                       ELSE SubSeq(f[i - 1], 1, Len(f[i - 1]) - 1)
                  ELSE Append(f[i - 1], p[i])
<1>9. \A f : Body(f) = [i \in D |-> At(f, i)]
  BY DEF NormalizeFrom, d
<1>10. ASSUME NEW f, NEW i \in D
       PROVE  At(f, i) = IF i = 0 THEN <<>> ELSE Append(f[i - 1], p[i])
  <2>1. i # 0 => i \in 1..d
    BY <1>3
  <2> QED
    BY <1>2, <2>1
<1>11. \A i \in 1..d : i \in D /\ i # 0
  BY <1>3
<1>12. 0 \in D
  BY <1>3
<1> HIDE DEF D, At, Body
<1>13. h = Body(h)
  <2>1. ASSUME NEW i \in D PROVE h[i] = At(h, i)
    <3>1. i = 0 \/ i \in 1..d
      BY <1>3 DEF D
    <3> QED
      BY <1>7, <1>8, <1>10, <1>11, <3>1
  <2>2. h = [i \in D |-> h[i]]
    BY <1>6 DEF D
  <2>3. h = [i \in D |-> At(h, i)]
    BY <2>1, <2>2
  <2> QED
    BY <1>9, <2>3
<1> DEFINE g == CHOOSE f : f = Body(f)
<1>14. g = Body(g)
  BY <1>13
<1> HIDE DEF g
<1>15. \A i \in D : g[i] = At(g, i)
  <2>1. g = [i \in D |-> At(g, i)]
    BY <1>9, <1>14
  <2> QED
    BY <2>1
<1>16. g[0] = <<>> /\ \A i \in 1..d : g[i] = Append(g[i - 1], p[i])
  BY <1>10, <1>11, <1>12, <1>15
<1> DEFINE Same == { i \in 0..d : g[i] = h[i] }
<1>17. 0 \in Same
  BY <1>3, <1>7, <1>16
<1>18. ASSUME NEW i \in 0..d - 1, i \in Same PROVE i + 1 \in Same
  <2>1. i + 1 \in 1..d /\ i + 1 \in 0..d /\ (i + 1) - 1 = i
    BY <1>3
  <2>2. g[i + 1] = Append(g[i], p[i + 1]) /\ h[i + 1] = Append(h[i], p[i + 1])
    BY <1>8, <1>16, <2>1
  <2>3. g[i] = h[i]
    BY <1>18
  <2> QED
    BY <2>1, <2>2, <2>3
<1> HIDE DEF Same
<1>19. d \in Same
  <2>1. d \in 0..d
    BY <1>3
  <2> QED
    BY <1>3, <1>17, <1>18, <2>1, UpTo
<1>20. Normalize(p) = g[d]
  BY <1>1 DEF Body, g, d
<1> QED
  BY <1>7, <1>19, <1>20 DEF Same

-----------------------------------------------------------------------------
(* An inode has an entry exactly when its index is in the array              *)
(* (filesystem.rs:220-224).                                                  *)
LEMMA EntryOfInode ==
  ASSUME NEW n, IsFilesystem(n), NEW ino
  PROVE  /\ EntryIndex(n, ino) # NotFound => ino - INODE_ROOT \in DOMAIN n
         /\ ino - INODE_ROOT \in DOMAIN n => EntryIndex(n, ino) = ino - INODE_ROOT
  BY DEF EntryIndex, NotFound

(* The directory that is open has a number of children.                      *)
LEMMA DirHasChildren ==
  ASSUME IsFilesystem(rofs), NEW i \in DOMAIN rofs, rofs[i].kind = "dir"
  PROVE  rofs[i].child_count \in Nat
  BY DEF IsFilesystem

LEMMA InitInv == Init => IInv
  <1> SUFFICES ASSUME Init PROVE IInv
    OBVIOUS
  <1>1. IsFilesystem(rofs)
    BY FuseDirAssumption DEF Init
  <1>2. at - INODE_ROOT \in DOMAIN rofs
    <2>1. 0 \in DOMAIN rofs
      BY <1>1 DEF IsFilesystem
    <2>2. at - INODE_ROOT = 0
      BY DEF Init, INODE_ROOT
    <2> QED
      BY <2>1, <2>2
  <1>3. fh = NoHandle /\ dh = NoHandle /\ reply = "ok"
    BY DEF Init
  <1> QED
    BY <1>1, <1>2, <1>3 DEF IInv, Opened, ListedSoFar, NoHandleIsStale

-----------------------------------------------------------------------------
(* A step that leaves the listing and the handles alone keeps the invariant  *)
(* when the inode it goes to is one of the filesystem.                       *)
LEMMA Walking ==
  ASSUME IInv, UNCHANGED <<rofs, fh, listing>>,
         at' - INODE_ROOT \in DOMAIN rofs, reply' # "ESTALE"
  PROVE  IInv'
  BY DEF IInv, Opened, ListedSoFar, NoHandleIsStale, listing, NoHandle, Cells, Entry, dir,
         EntryIndex, NodeInode

(* What is listed stays listed under a step that leaves the listing alone.   *)
LEMMA ListingKept ==
  ASSUME IInv, UNCHANGED <<rofs, listing>>
  PROVE  Opened(dh, "dir")' /\ ListedSoFar' /\ IsFilesystem(rofs)'
  BY DEF IInv, Opened, ListedSoFar, listing, NoHandle, Cells, Entry, dir, EntryIndex, NodeInode

(* A fresh listing is empty.                                                 *)
LEMMA ListingAnew ==
  ASSUME IInv, rofs' = rofs,
         offset' = 0, listed' = <<>>, ended' = FALSE,
         Opened(dh', "dir")
  PROVE  Opened(dh, "dir")' /\ ListedSoFar'
  <1>1. Opened(dh, "dir")'
    BY DEF Opened, NoHandle
  <1>2. ASSUME dh' # NoHandle PROVE dir'.child_count \in Nat
    <2>1. IsFilesystem(rofs)
      BY DEF IInv
    <2>2. dh'.ino - INODE_ROOT \in DOMAIN rofs /\ rofs[dh'.ino - INODE_ROOT].kind = "dir"
      BY <1>2 DEF Opened
    <2>3. dir' = rofs[dh'.ino - INODE_ROOT]
      BY <2>1, <2>2, EntryOfInode DEF dir
    <2> QED
      BY <2>1, <2>2, <2>3, DirHasChildren
  <1>3. listed' \in Seq(Cells')
    OBVIOUS
  <1>4. Len(listed') = 0
    OBVIOUS
  <1> QED
    BY <1>1, <1>2, <1>3, <1>4 DEF ListedSoFar, NoHandle

(* One page of a listing: the entries after the ones shown, in order.        *)
LEMMA ReadDirStep ==
  ASSUME IInv, NEW room \in 1..Page, ReadDir(room)
  PROVE  ListedSoFar'
  <1> DEFINE c == dir.child_count
             n == IF c <= offset THEN 0
                  ELSE IF c - offset <= room THEN c - offset ELSE room
             page == [j \in 1..n |-> Entry(offset + j - 1)]
  <1>1. /\ c \in Nat /\ offset \in 0..c /\ listed \in Seq(Cells) /\ Len(listed) = offset
        /\ \A k \in 1..offset : listed[k] = Entry(k - 1)
    BY DEF IInv, ListedSoFar, ReadDir
  <1>2. room \in Nat /\ room >= 1
    BY FuseDirAssumption
  <1>3. /\ listed' = listed \o page
        /\ offset' = IF n = 0 THEN offset ELSE page[n].next
        /\ ended' = (n = 0)
        /\ rofs' = rofs /\ dh' = dh
    BY DEF ReadDir
  <1>4. n \in Nat /\ offset + n <= c /\ (n = 0 => offset = c)
    BY <1>1, <1>2
  <1>5. Cells' = Cells /\ dir' = dir /\ \A k : Entry(k)' = Entry(k)
    BY <1>3 DEF Cells, Entry, dir, EntryIndex, NodeInode
  <1> HIDE DEF n, c
  <1>6. \A j \in 1..n : offset + j - 1 \in 0..(c - 1)
    BY <1>1, <1>4
  <1>7. page \in Seq(Cells) /\ Len(page) = n
    <2>1. \A j \in 1..n : Entry(offset + j - 1) \in Cells
      BY <1>6 DEF Cells, c
    <2>2. page \in [1..n -> Cells]
      BY <2>1
    <2> QED
      BY <2>2, <1>4
  <1>8. \A k : Entry(k).next = k + 1
    BY DEF Entry
  <1>9. offset' = offset + n
    <2>1. CASE n = 0
      BY <2>1, <1>1, <1>3
    <2>2. CASE n # 0
      <3>1. n \in 1..n
        BY <2>2, <1>4
      <3>2. page[n] = Entry(offset + n - 1)
        BY <3>1
      <3>3. page[n].next = (offset + n - 1) + 1
        BY <3>2, <1>8
      <3> QED
        BY <2>2, <3>3, <1>1, <1>3, <1>4
    <2> QED
      BY <2>1, <2>2
  <1>10. \A j \in 1..n : page[j] = Entry(offset + j - 1)
    OBVIOUS
  <1> HIDE DEF page
  <1>11. listed' \in Seq(Cells') /\ Len(listed') = offset'
    <2>1. /\ listed \o page \in Seq(Cells)
          /\ Len(listed \o page) = offset + n
      BY <1>1, <1>4, <1>7
    <2> QED
      BY <2>1, <1>3, <1>5, <1>9
  <1>12. \A k \in 1..offset' : listed'[k] = Entry(k - 1)'
    <2> SUFFICES ASSUME NEW k \in 1..(offset + n) PROVE listed'[k] = Entry(k - 1)
      BY <1>5, <1>9
    <2>1. CASE k <= offset
      <3>1. k \in 1..Len(listed)
        BY <2>1, <1>1, <1>4
      <3>2. listed'[k] = listed[k]
        BY <3>1, <1>1, <1>3, <1>4, <1>7
      <3> QED
        BY <3>1, <3>2, <1>1
    <2>2. CASE k > offset
      <3>1. k - offset \in 1..n
        BY <2>2, <1>1, <1>4
      <3>2. listed'[k] = page[k - offset]
        <4>1. k \in 1..(Len(listed) + Len(page)) /\ k > Len(listed)
          BY <2>2, <1>1, <1>4, <1>7
        <4>2. (listed \o page)[k] = page[k - Len(listed)]
          BY <4>1, <1>1, <1>7
        <4> QED
          BY <4>2, <1>1, <1>3
      <3>3. page[k - offset] = Entry(offset + (k - offset) - 1)
        BY <3>1, <1>10
      <3>4. offset + (k - offset) - 1 = k - 1
        BY <1>1
      <3> QED
        BY <3>2, <3>3, <3>4
    <2> QED
      BY <2>1, <2>2, <1>1, <1>4
  <1>13. offset' \in 0..c
    BY <1>1, <1>4, <1>9
  <1>14. ended' => offset' = c
    BY <1>3, <1>4, <1>9, <1>1
  <1> QED
    BY <1>1, <1>5, <1>11, <1>12, <1>13, <1>14 DEF ListedSoFar, c

(* Going back keeps the entries up to the position.                          *)
LEMMA SeekStep ==
  ASSUME IInv, NEW k \in 0..Len(listed), Seek(k)
  PROVE  ListedSoFar'
  <1>1. /\ dir.child_count \in Nat /\ offset \in 0..dir.child_count
        /\ listed \in Seq(Cells) /\ Len(listed) = offset
        /\ \A j \in 1..offset : listed[j] = Entry(j - 1)
    BY DEF IInv, ListedSoFar, Seek
  <1>2. /\ k < Len(listed)
        /\ listed' = SubSeq(listed, 1, k)
        /\ offset' = IF k = 0 THEN 0 ELSE listed[k].next
        /\ ended' = FALSE
        /\ rofs' = rofs /\ dh' = dh
    BY DEF Seek
  <1>3. k \in Nat /\ k < offset
    BY <1>1, <1>2
  <1>4. Cells' = Cells /\ dir' = dir /\ \A j : Entry(j)' = Entry(j)
    BY <1>2 DEF Cells, Entry, dir, EntryIndex, NodeInode
  <1>5. offset' = k
    <2>1. CASE k = 0
      BY <2>1, <1>2
    <2>2. CASE k # 0
      <3>1. listed[k] = Entry(k - 1)
        BY <2>2, <1>1, <1>3
      <3>2. Entry(k - 1).next = k - 1 + 1
        BY DEF Entry
      <3> QED
        BY <2>2, <3>1, <3>2, <1>2, <1>3
    <2> QED
      BY <2>1, <2>2
  <1>6. /\ listed' \in Seq(Cells) /\ Len(listed') = k
        /\ \A j \in 1..k : listed'[j] = listed[j]
    BY <1>1, <1>2, <1>3
  <1>7. \A j \in 1..k : j \in 1..offset
    BY <1>1, <1>3
  <1>8. \A j \in 1..offset' : listed'[j] = Entry(j - 1)'
    BY <1>1, <1>4, <1>5, <1>6, <1>7
  <1>9. offset' \in 0..dir.child_count
    BY <1>1, <1>3, <1>5
  <1> QED
    BY <1>1, <1>2, <1>4, <1>5, <1>6, <1>8, <1>9 DEF ListedSoFar

-----------------------------------------------------------------------------
LEMMA StepInv == IInv /\ [Next]_vars => IInv'
  <1> SUFFICES ASSUME IInv, [Next]_vars PROVE IInv'
    OBVIOUS
  <1>0. /\ IsFilesystem(rofs) /\ at - INODE_ROOT \in DOMAIN rofs
        /\ NoHandleIsStale /\ INODE_ROOT - INODE_ROOT \in DOMAIN rofs
    <2>1. 0 \in DOMAIN rofs
      BY DEF IInv, IsFilesystem
    <2> QED
      BY <2>1 DEF IInv, INODE_ROOT
  <1>1. ASSUME NEW name \in Names, LookupName(name) PROVE IInv'
    <2>1. UNCHANGED <<rofs, fh, listing>>
      BY <1>1 DEF LookupName
    <2>2. at' - INODE_ROOT \in DOMAIN rofs
      BY <1>0, <1>1, EntryOfInode DEF LookupName
    <2>3. reply' # "ESTALE"
      <3>1. reply' = "ENOENT" \/ (at' - INODE_ROOT \in DOMAIN rofs /\ reply' = Kind(at'))
        BY <1>0, <1>1, EntryOfInode DEF LookupName
      <3>2. at' - INODE_ROOT \in DOMAIN rofs => Kind(at') \in {"file", "dir"}
        BY <1>0, EntryOfInode DEF Kind, IsFilesystem
      <3> QED
        BY <3>1, <3>2
    <2> QED
      BY <2>1, <2>2, <2>3, Walking
  <1>2. CASE FromRoot
    <2>1. UNCHANGED <<rofs, fh, listing>> /\ at' - INODE_ROOT \in DOMAIN rofs
      BY <1>0, <1>2 DEF FromRoot
    <2> QED
      BY <1>0, <1>2, <2>1, Walking DEF FromRoot, NoHandleIsStale
  <1>3. ASSUME NEW flags \in {"O_RDONLY", "O_RDWR"}, Open(flags) PROVE IInv'
    <2>1. UNCHANGED <<rofs, at, listing>> /\ reply' # "ESTALE"
      BY <1>3 DEF Open
    <2>2. Kind(at) = rofs[at - INODE_ROOT].kind
      BY <1>0, EntryOfInode DEF Kind
    <2>3. Opened(fh, "file")'
      BY <1>0, <1>3, <2>1, <2>2 DEF Open, Opened, IInv, NoHandle
    <2> QED
      BY <1>0, <2>1, <2>3, ListingKept DEF IInv, NoHandleIsStale
  <1>4. ASSUME NEW flags \in {"O_RDONLY", "O_RDWR"}, OpenDir(flags) PROVE IInv'
    <2>1. UNCHANGED <<rofs, at, fh>> /\ reply' # "ESTALE"
      BY <1>4 DEF OpenDir
    <2>2. Kind(at) = rofs[at - INODE_ROOT].kind
      BY <1>0, EntryOfInode DEF Kind
    <2>3. Opened(dh, "dir")' /\ ListedSoFar'
      <3>1. CASE UNCHANGED listing
        BY <3>1, <2>1, ListingKept
      <3>2. CASE ~UNCHANGED listing
        <4>1. /\ offset' = 0 /\ listed' = <<>> /\ ended' = FALSE
              /\ dh' = [ino |-> at, fh |-> at] /\ Kind(at) = "dir"
          BY <1>4, <3>2 DEF OpenDir
        <4>2. Opened(dh', "dir")
          BY <4>1, <1>0, <2>2 DEF Opened
        <4> QED
          BY <4>1, <4>2, <2>1, ListingAnew
      <3> QED
        BY <3>1, <3>2
    <2>4. Opened(fh, "file")'
      BY <2>1 DEF IInv, Opened, NoHandle
    <2> QED
      BY <1>0, <2>1, <2>3, <2>4 DEF IInv, NoHandleIsStale
  <1>5. CASE Release
    <2>1. UNCHANGED <<rofs, at, listing>> /\ fh' = NoHandle
      BY <1>5 DEF Release
    <2>2. IsHandleOf(fh, "file")
      BY <1>0, <1>5, EntryOfInode DEF Release, IInv, Opened, IsHandleOf, Kind
    <2> QED
      BY <1>0, <1>5, <2>1, <2>2, ListingKept DEF Release, IInv, Opened, NoHandle, NoHandleIsStale
  <1>6. CASE ReleaseDir
    <2>1. /\ UNCHANGED <<rofs, at, fh>> /\ dh' = NoHandle
          /\ offset' = 0 /\ listed' = <<>> /\ ended' = FALSE
      BY <1>6 DEF ReleaseDir
    <2>2. IsHandleOf(dh, "dir")
      BY <1>0, <1>6, EntryOfInode DEF ReleaseDir, IInv, Opened, IsHandleOf, Kind
    <2>3. Opened(dh', "dir")
      BY <2>1 DEF Opened
    <2>4. Opened(dh, "dir")' /\ ListedSoFar'
      BY <2>1, <2>3, ListingAnew
    <2>5. Opened(fh, "file")'
      BY <2>1 DEF IInv, Opened, NoHandle
    <2> QED
      BY <1>0, <1>6, <2>1, <2>2, <2>4, <2>5 DEF ReleaseDir, IInv, NoHandleIsStale
  <1>7. ASSUME NEW room \in 1..Page, ReadDir(room) PROVE IInv'
    <2>1. UNCHANGED <<rofs, at, fh, dh>> /\ reply' = "ok"
      BY <1>7 DEF ReadDir
    <2>2. ListedSoFar'
      BY <1>7, ReadDirStep
    <2> QED
      BY <1>0, <2>1, <2>2 DEF IInv, Opened, NoHandle, NoHandleIsStale
  <1>8. ASSUME NEW k \in 0..Len(listed), Seek(k) PROVE IInv'
    <2>1. UNCHANGED <<rofs, at, fh, dh, reply>>
      BY <1>8 DEF Seek
    <2>2. ListedSoFar'
      BY <1>8, SeekStep
    <2> QED
      BY <1>0, <2>1, <2>2 DEF IInv, Opened, NoHandle, NoHandleIsStale
  <1>9. CASE UNCHANGED vars
    BY <1>0, <1>9, Walking DEF vars, listing, NoHandleIsStale
  <1> QED
    BY <1>1, <1>2, <1>3, <1>4, <1>5, <1>6, <1>7, <1>8, <1>9 DEF Next

(* The invariant holds in every state: open, release and the listing of      *)
(* fuser.rs keep what the kernel holds in step with the filesystem.          *)
THEOREM InvariantHolds == Spec => []IInv
  <1> QED
    BY InitInv, StepInv, PTL DEF Spec

(* A listing shows the children of its directory, each once and in order,    *)
(* wherever its replies are cut and it is resumed (fuser.rs:292-345).        *)
THEOREM ListingsAreTheDirectory == Spec => []ListingIsTheDirectory
  <1>1. IInv => ListingIsTheDirectory
    <2> SUFFICES ASSUME IInv, dh # NoHandle
        PROVE /\ Len(listed) <= dir.child_count
              /\ \A k \in 1..Len(listed) : listed[k].name = rofs[dir.child_index + k - 1].name
              /\ ended => Len(listed) = dir.child_count
      BY DEF ListingIsTheDirectory
    <2>1. /\ dir.child_count \in Nat /\ offset \in 0..dir.child_count /\ Len(listed) = offset
          /\ \A k \in 1..offset : listed[k] = Entry(k - 1)
          /\ ended => offset = dir.child_count
      BY DEF IInv, ListedSoFar
    <2>2. dir.child_index \in Nat
      <3>1. dh.ino - INODE_ROOT \in DOMAIN rofs /\ rofs[dh.ino - INODE_ROOT].kind = "dir"
        BY DEF IInv, Opened
      <3>2. dir = rofs[dh.ino - INODE_ROOT]
        BY <3>1, EntryOfInode DEF dir, IInv
      <3> QED
        BY <3>1, <3>2 DEF IInv, IsFilesystem
    <2>3. ASSUME NEW k \in 1..Len(listed)
          PROVE  listed[k].name = rofs[dir.child_index + k - 1].name
      <3>1. listed[k].name = rofs[dir.child_index + (k - 1)].name
        BY <2>1, <2>3 DEF Entry
      <3>2. dir.child_index + (k - 1) = dir.child_index + k - 1
        BY <2>1, <2>2
      <3> QED
        BY <3>1, <3>2
    <2> QED
      BY <2>1, <2>3
  <1> QED
    BY <1>1, InvariantHolds, PTL

(* Every handle of the mount is accepted back (fuser.rs:239-279).            *)
THEOREM NoHandleEverStale == Spec => []NoHandleIsStale
  <1>1. IInv => NoHandleIsStale
    BY DEF IInv
  <1> QED
    BY <1>1, InvariantHolds, PTL

-----------------------------------------------------------------------------
(* The children of a directory and what a step into one finds.               *)
LEMMA ChildIs ==
  ASSUME NEW n, IsFilesystem(n), NEW i \in DOMAIN n, n[i].kind = "dir"
  PROVE  /\ n[i].child_index \in Nat \ {0} /\ n[i].child_count \in Nat
         /\ InEytzingerOrder(n, n[i].child_index, n[i].child_count)
         /\ \A k \in 0..(n[i].child_count - 1) :
              LET c == n[i].child_index + k IN
              /\ c \in DOMAIN n
              /\ n[c].name \in DOMAIN Rank /\ n[c].name \notin Skipped
              /\ Lower[n[c].name] = n[c].name
<1>1. /\ n[i].child_index \in Nat \ {0} /\ n[i].child_count \in Nat
      /\ InEytzingerOrder(n, n[i].child_index, n[i].child_count)
      /\ \A c \in Children(n, i) :
           /\ c \in DOMAIN n
           /\ n[c].name \in DOMAIN Rank \ {"", ".", ".."} /\ Lower[n[c].name] = n[c].name
  BY DEF IsFilesystem
<1>2. ASSUME NEW k \in 0..(n[i].child_count - 1)
      PROVE  n[i].child_index + k \in Children(n, i)
  BY DEF Children
<1> QED
  BY <1>1, <1>2 DEF Skipped

LEMMA StepFindsAll ==
  ASSUME Rank \in [DOMAIN Rank -> Nat],
         NEW n, IsFilesystem(n), NEW i \in DOMAIN n, n[i].kind = "dir",
         NEW k \in 0..(n[i].child_count - 1)
  PROVE  Step(n, i, n[n[i].child_index + k].name) = n[i].child_index + k
<1> DEFINE first == n[i].child_index
           count == n[i].child_count
<1>1. /\ first \in Nat /\ count \in Nat /\ InEytzingerOrder(n, first, count)
      /\ \A j \in 0..(count - 1) : n[first + j].name \in DOMAIN Rank
  BY ChildIs
<1>2. \A j \in 0..(count - 1) : Rank[n[first + j].name] \in Int
  BY <1>1
<1> HIDE DEF first, count
<1>3. k \in 0..(count - 1)
  BY DEF count
<1>4. Search(n, first, count, n[first + k].name) = first + k
  BY <1>1, <1>2, <1>3, SearchFindsAll
<1> QED
  BY <1>4 DEF Step, first, count

LEMMA StepFindsOnly ==
  ASSUME NEW n, IsFilesystem(n), NEW i \in DOMAIN n, NEW c, Step(n, i, c) # NotFound
  PROVE  Step(n, i, c) \in DOMAIN n /\ Step(n, i, c) \in Nat /\ Lower[c] = c
<1> DEFINE first == n[i].child_index
           count == n[i].child_count
<1>1. n[i].kind = "dir" /\ Step(n, i, c) = Search(n, first, count, c)
  BY DEF Step
<1>2. /\ first \in Nat /\ count \in Nat
      /\ \A j \in 0..(count - 1) :
           first + j \in DOMAIN n /\ Lower[n[first + j].name] = n[first + j].name
  BY <1>1, ChildIs
<1> HIDE DEF first, count
<1>3. PICK k \in 0..(count - 1) :
        Search(n, first, count, c) = first + k /\ n[first + k].name = c
  <2>1. Search(n, first, count, c) # NotFound /\ first \in Nat /\ count \in Nat
    BY <1>1, <1>2
  <2> QED
    BY <2>1, SearchFindsOnly
<1> QED
  BY <1>1, <1>2, <1>3

LEMMA StepOfNone ==
  ASSUME NEW n, IsFilesystem(n), NEW c
  PROVE  Step(n, NotFound, c) = NotFound
<1>1. NotFound \notin DOMAIN n
  <2>1. DOMAIN n = 0..(Cardinality(DOMAIN n) - 1)
    BY DEF IsFilesystem
  <2>2. \A m : -1 \notin 0..m
    OBVIOUS
  <2> QED
    BY <2>1, <2>2 DEF NotFound
<1> QED
  BY <1>1 DEF Step

(* A single name is looked up as it is spelled, then in lower case.          *)
LEMMA OneName ==
  ASSUME NEW n, NEW i, NEW c
  PROVE  IndexByPath(n, i, <<c>>) = Step(n, i, c) /\ LowerPath(<<c>>) = <<Lower[c]>>
<1> DEFINE none == <<>>
           S == {c}
<1>1. <<c>> = Append(none, c) /\ none \in Seq(S) /\ c \in S
  OBVIOUS
<1>2. IndexByPath(n, i, none) = i
  BY WalkOfNone
<1> HIDE DEF none, S
<1>3. IndexByPath(n, i, <<c>>) = Step(n, i, c)
  <2>1. IndexByPath(n, i, Append(none, c)) = Step(n, IndexByPath(n, i, none), c)
    BY <1>1, WalkGoesOn
  <2> QED
    BY <1>1, <1>2, <2>1
<1>4. LowerPath(<<c>>) = <<Lower[c]>>
  BY DEF LowerPath
<1> QED
  BY <1>3, <1>4

LEMMA LookupOfName ==
  ASSUME NEW n, NEW ino, NEW c, c \notin Skipped
  PROVE  LookupInDir(n, ino, <<c>>) =
           LET i == ino - INODE_ROOT
               found == IF Step(n, i, c) # NotFound THEN Step(n, i, c)
                        ELSE IF Lower[c] = c THEN NotFound ELSE Step(n, i, Lower[c])
           IN IF found = NotFound THEN NotFound ELSE found + INODE_ROOT
<1>1. Normalize(<<c>>) = <<c>>
  <2>1. <<c>> \in Seq({c}) /\ \A i \in 1..Len(<<c>>) : <<c>>[i] \notin Skipped
    OBVIOUS
  <2> QED
    BY <2>1, NormalIsKept
<1>2. <<Lower[c]>> = <<c>> <=> Lower[c] = c
  OBVIOUS
<1> DEFINE i == ino - INODE_ROOT
<1> HIDE DEF i
<1>3. /\ IndexByPath(n, i, <<c>>) = Step(n, i, c)
      /\ LowerPath(<<c>>) = <<Lower[c]>>
      /\ IndexByPath(n, i, <<Lower[c]>>) = Step(n, i, Lower[c])
  BY OneName
<1>4. IndexIgnoreCase(n, i, <<c>>) =
        IF Step(n, i, c) # NotFound THEN Step(n, i, c)
        ELSE IF Lower[c] = c THEN NotFound ELSE Step(n, i, Lower[c])
  BY <1>2, <1>3 DEF IndexIgnoreCase
<1> QED
  BY <1>1, <1>4 DEF LookupInDir, i

(* Whatever the directory and wherever its listing was cut, each name it has *)
(* shown is found in that directory, with the kind it was shown with: the    *)
(* descent through the siblings' implicit tree reaches every place           *)
(* (filesystem.rs:93-108, 142-177).                                          *)
THEOREM ListedNamesAreFound == Spec => []ListedIsFound
<1>1. ASSUME IInv, dh # NoHandle, NEW k \in 1..Len(listed)
      PROVE  LET ino == LookupInDir(rofs, dh.ino, <<listed[k].name>>)
             IN ino # NotFound /\ Kind(ino) = listed[k].kind
  <2> DEFINE d == dh.ino - INODE_ROOT
             c == rofs[d].child_index + (k - 1)
             name == listed[k].name
  <2>1. IsFilesystem(rofs) /\ d \in DOMAIN rofs /\ rofs[d].kind = "dir" /\ dir = rofs[d]
    <3>1. IsFilesystem(rofs) /\ d \in DOMAIN rofs /\ rofs[d].kind = "dir"
      BY <1>1 DEF IInv, Opened
    <3> QED
      BY <3>1, EntryOfInode DEF dir
  <2>2. k - 1 \in 0..(rofs[d].child_count - 1) /\ listed[k] = Entry(k - 1)
    BY <1>1, <2>1 DEF IInv, ListedSoFar
  <2>3. listed[k].name = rofs[c].name /\ listed[k].kind = rofs[c].kind
    BY <2>1, <2>2 DEF Entry
  <2>4. Step(rofs, d, rofs[c].name) = c
    BY <2>1, <2>2, StepFindsAll, FuseDirAssumption
  <2>5. c \in DOMAIN rofs /\ c \in Nat /\ rofs[c].name \notin Skipped
    BY <2>1, <2>2, ChildIs
  <2> HIDE DEF c, d
  <2>6. c # NotFound
    BY <2>5 DEF NotFound
  <2>7. LookupInDir(rofs, dh.ino, <<name>>) = c + INODE_ROOT
    BY <2>3, <2>4, <2>5, <2>6, LookupOfName DEF d
  <2>8. c + INODE_ROOT # NotFound /\ (c + INODE_ROOT) - INODE_ROOT = c
    BY <2>5 DEF NotFound, INODE_ROOT
  <2>9. Kind(c + INODE_ROOT) = rofs[c].kind
    BY <2>1, <2>5, <2>8, EntryOfInode DEF Kind
  <2> QED
    BY <2>3, <2>7, <2>8, <2>9
<1>2. IInv => ListedIsFound
  BY <1>1 DEF ListedIsFound
<1> QED
  BY <1>2, InvariantHolds, PTL

(* Where a walk is: the path it took leads there in lower case, and as it    *)
(* was spelled nowhere else.                                                 *)
WalkInv ==
  /\ path \in Seq(Names) /\ at \in Nat
  /\ IndexByPath(rofs, 0, LowerPath(path)) = at - 1
  /\ IndexByPath(rofs, 0, path) \in {NotFound, at - 1}

LEMMA LowerOfMore ==
  ASSUME NEW S, NEW p \in Seq(S), NEW c \in S
  PROVE  /\ LowerPath(p) \in Seq({ Lower[x] : x \in S })
         /\ LowerPath(Append(p, c)) = Append(LowerPath(p), Lower[c])
<1> DEFINE L == { Lower[x] : x \in S }
           m == Len(p)
           a == LowerPath(p)
           b == LowerPath(Append(p, c))
           e == Append(a, Lower[c])
<1>1. /\ m \in Nat /\ Len(Append(p, c)) = m + 1 /\ \A i \in 1..m : p[i] \in S
      /\ \A i \in 1..m + 1 : Append(p, c)[i] = IF i = m + 1 THEN c ELSE p[i]
  OBVIOUS
<1>2. \A x \in S : Lower[x] \in L
  OBVIOUS
<1> HIDE DEF L
<1>3. a = [i \in 1..m |-> Lower[p[i]]]
  BY DEF LowerPath
<1>4. b = [i \in 1..m + 1 |-> IF i = m + 1 THEN Lower[c] ELSE Lower[p[i]]]
  BY <1>1 DEF LowerPath
<1> HIDE DEF m, a, b
<1>5. a \in Seq(L) /\ Len(a) = m /\ \A i \in 1..m : a[i] = Lower[p[i]]
  BY <1>1, <1>2, <1>3
<1>6. b \in Seq(L) /\ Len(b) = m + 1
      /\ \A i \in 1..m + 1 : b[i] = IF i = m + 1 THEN Lower[c] ELSE Lower[p[i]]
  <2>1. \A i \in 1..m + 1 : (IF i = m + 1 THEN Lower[c] ELSE Lower[p[i]]) \in L
    BY <1>1, <1>2
  <2> QED
    BY <1>1, <1>4, <2>1
<1>7. e \in Seq(L) /\ Len(e) = m + 1
      /\ \A i \in 1..m + 1 : e[i] = IF i = m + 1 THEN Lower[c] ELSE Lower[p[i]]
  BY <1>1, <1>2, <1>5
<1> HIDE DEF e
<1>8. b = e
  BY <1>1, <1>6, <1>7
<1> QED
  BY <1>5, <1>8 DEF a, b, e, L

(* A name that was found is where its lower case leads.                      *)
LEMMA FoundInLower ==
  ASSUME NEW n, IsFilesystem(n), NEW ino \in Nat, ino - 1 \in DOMAIN n, NEW c \in Names,
         LookupInDir(n, ino, <<c>>) # NotFound
  PROVE  /\ LookupInDir(n, ino, <<c>>) \in Nat
         /\ Step(n, ino - 1, Lower[c]) = LookupInDir(n, ino, <<c>>) - 1
         /\ Step(n, ino - 1, c) \in {NotFound, LookupInDir(n, ino, <<c>>) - 1}
<1> DEFINE i == ino - 1
           found == IF Step(n, i, c) # NotFound THEN Step(n, i, c)
                    ELSE IF Lower[c] = c THEN NotFound ELSE Step(n, i, Lower[c])
<1>1. c \notin Skipped
  BY FuseDirAssumption DEF Skipped
<1>2. LookupInDir(n, ino, <<c>>) = IF found = NotFound THEN NotFound ELSE found + 1
  BY <1>1, LookupOfName DEF INODE_ROOT
<1>3. found # NotFound /\ LookupInDir(n, ino, <<c>>) = found + 1
  BY <1>2
<1> HIDE DEF i
<1>4. i \in DOMAIN n
  BY DEF i
<1>5. found \in Nat /\ found = Step(n, i, Lower[c]) /\ Step(n, i, c) \in {NotFound, found}
  <2>1. CASE Step(n, i, c) # NotFound
    <3>1. Step(n, i, c) \in Nat /\ Lower[c] = c
      BY <1>4, <2>1, StepFindsOnly
    <3> QED
      BY <2>1, <3>1
  <2>2. CASE Step(n, i, c) = NotFound
    <3>1. found = Step(n, i, Lower[c]) /\ Step(n, i, Lower[c]) # NotFound
      BY <1>3, <2>2
    <3>2. Step(n, i, Lower[c]) \in Nat
      BY <1>4, <3>1, StepFindsOnly
    <3> QED
      BY <2>2, <3>1, <3>2
  <2> QED
    BY <2>1, <2>2
<1> HIDE DEF found
<1>6. found + 1 \in Nat /\ (found + 1) - 1 = found
  BY <1>5
<1> QED
  BY <1>3, <1>5, <1>6 DEF i

LEMMA InitWalk == Init => WalkInv
<1> SUFFICES ASSUME Init PROVE WalkInv
  OBVIOUS
<1>1. path = <<>> /\ at = 1 /\ at - 1 = 0
  BY DEF Init, INODE_ROOT
<1>2. path \in Seq(Names) /\ LowerPath(path) = <<>> /\ at \in Nat
  BY <1>1 DEF LowerPath
<1> QED
  BY <1>1, <1>2, WalkOfNone DEF WalkInv

LEMMA LookupNameWalks ==
  ASSUME IInv, WalkInv, NEW name \in Names, LookupName(name)
  PROVE  WalkInv'
<1> DEFINE ino == LookupInDir(rofs, at, <<name>>)
<1>1. IsFilesystem(rofs) /\ at \in Nat /\ at - 1 \in DOMAIN rofs /\ rofs' = rofs
  BY DEF IInv, WalkInv, INODE_ROOT, LookupName
<1>2. CASE ino = NotFound \/ EntryIndex(rofs, ino) = NotFound
  <2>1. UNCHANGED <<path, at, rofs>>
    BY <1>2 DEF LookupName
  <2> QED
    BY <2>1 DEF WalkInv
<1>3. CASE ~(ino = NotFound \/ EntryIndex(rofs, ino) = NotFound)
  <2>1. at' = ino /\ path' = Append(path, name) /\ ino # NotFound
    BY <1>3 DEF LookupName
  <2>2. /\ ino \in Nat /\ Step(rofs, at - 1, Lower[name]) = ino - 1
        /\ Step(rofs, at - 1, name) \in {NotFound, ino - 1}
    BY <1>1, <2>1, FoundInLower
  <2> HIDE DEF ino
  <2> DEFINE L == { Lower[x] : x \in Names }
             lower == LowerPath(path)
  <2>3. path \in Seq(Names) /\ Append(path, name) \in Seq(Names)
    BY DEF WalkInv
  <2>4. lower \in Seq(L) /\ LowerPath(Append(path, name)) = Append(lower, Lower[name])
    BY <2>3, LowerOfMore
  <2>5. Lower[name] \in L
    OBVIOUS
  <2> HIDE DEF L, lower
  <2>6. IndexByPath(rofs, 0, Append(lower, Lower[name])) = ino - 1
    <3>1. IndexByPath(rofs, 0, lower) = at - 1
      BY DEF WalkInv, lower
    <3>2. IndexByPath(rofs, 0, Append(lower, Lower[name])) =
            Step(rofs, IndexByPath(rofs, 0, lower), Lower[name])
      BY <2>4, <2>5, WalkGoesOn
    <3> QED
      BY <2>2, <3>1, <3>2
  <2>7. IndexByPath(rofs, 0, Append(path, name)) \in {NotFound, ino - 1}
    <3>1. IndexByPath(rofs, 0, path) \in {NotFound, at - 1}
      BY DEF WalkInv
    <3>2. IndexByPath(rofs, 0, Append(path, name)) =
            Step(rofs, IndexByPath(rofs, 0, path), name)
      BY <2>3, WalkGoesOn
    <3>3. Step(rofs, NotFound, name) = NotFound
      BY <1>1, StepOfNone
    <3> QED
      BY <2>2, <3>1, <3>2, <3>3
  <2> QED
    BY <1>1, <2>1, <2>2, <2>3, <2>4, <2>6, <2>7 DEF WalkInv
<1> QED
  BY <1>2, <1>3

LEMMA StepWalk == IInv /\ WalkInv /\ [Next]_vars => WalkInv'
<1> SUFFICES ASSUME IInv, WalkInv, [Next]_vars PROVE WalkInv'
  OBVIOUS
<1>1. ASSUME NEW name \in Names, LookupName(name) PROVE WalkInv'
  BY <1>1, LookupNameWalks
<1>2. CASE FromRoot
  <2>1. path' = <<>> /\ at' = 1 /\ rofs' = rofs
    BY <1>2 DEF FromRoot, INODE_ROOT
  <2>2. path' \in Seq(Names) /\ LowerPath(path') = <<>> /\ at' \in Nat /\ at' - 1 = 0
    BY <2>1 DEF LowerPath
  <2> QED
    BY <2>1, <2>2, WalkOfNone DEF WalkInv
<1>3. CASE UNCHANGED <<rofs, path, at>>
  BY <1>3 DEF WalkInv
<1>4. \/ \E name \in Names : LookupName(name)
      \/ FromRoot
      \/ UNCHANGED <<rofs, path, at>>
  BY DEF Next, vars, Open, OpenDir, Release, ReleaseDir, ReadDir, Seek
<1> QED
  BY <1>1, <1>2, <1>3, <1>4

(* On every filesystem, a walk of any length ends where a lookup of the      *)
(* whole path does, however its names are spelled: the names of the          *)
(* filesystem are lowercase, so what is found as given is found in lower     *)
(* case too (fuser.rs:115-136, filesystem.rs:132-139, 232-240).              *)
THEOREM WalksAreLookups == Spec => []WalkIsLookup
<1>1. ASSUME IInv, WalkInv PROVE WalkIsLookup
  <2>1. /\ at \in Nat /\ path \in Seq(Names) /\ at - 1 # NotFound /\ (at - 1) + 1 = at
        /\ IndexByPath(rofs, 0, LowerPath(path)) = at - 1
        /\ IndexByPath(rofs, 0, path) \in {NotFound, at - 1}
    <3>1. at - 1 \in DOMAIN rofs /\ DOMAIN rofs = 0..(Cardinality(DOMAIN rofs) - 1)
      BY <1>1 DEF IInv, INODE_ROOT, IsFilesystem
    <3>2. \A m : -1 \notin 0..m
      OBVIOUS
    <3> QED
      BY <1>1, <3>1, <3>2 DEF WalkInv, NotFound
  <2>2. Normalize(path) = path
    <3>1. \A i \in 1..Len(path) : path[i] \notin Skipped
      <4>1. \A c \in Names : c \notin Skipped
        BY FuseDirAssumption DEF Skipped
      <4>2. \A i \in 1..Len(path) : path[i] \in Names
        BY <2>1
      <4> QED
        BY <4>1, <4>2
    <3> QED
      BY <2>1, <3>1, NormalIsKept
  <2>3. IndexIgnoreCase(rofs, 0, path) = at - 1
    BY <2>1 DEF IndexIgnoreCase
  <2>4. INODE_ROOT - INODE_ROOT = 0 /\ INODE_ROOT = 1
    BY DEF INODE_ROOT
  <2>5. Lookup(rofs, path) = at
    BY <2>1, <2>2, <2>3, <2>4 DEF Lookup, LookupInDir
  <2> QED
    BY <2>5 DEF WalkIsLookup
<1>2. Spec => []WalkInv
  BY InitWalk, StepWalk, InvariantHolds, PTL DEF Spec
<1> QED
  BY <1>1, <1>2, InvariantHolds, PTL

(* A function whose value at a place is made of its value at the place       *)
(* before exists.                                                            *)
Recurses(f, d, b, step) ==
  f = [k \in 0..d |-> IF k = 0 THEN b ELSE step[k][f[k - 1]]]

LEMMA RecursionFromBefore ==
  ASSUME NEW d \in Nat, NEW V, NEW b \in V, NEW step \in [1..d -> [V -> V]]
  PROVE  \E f : Recurses(f, d, b, step)
<1> DEFINE Done == { m \in 0..d :
                       \E f \in [0..d -> V] :
                         f[0] = b /\ \A k \in 1..m : f[k] = step[k][f[k - 1]] }
<1>1. 0 \in Done
  <2> DEFINE f == [k \in 0..d |-> b]
  <2>1. f \in [0..d -> V] /\ f[0] = b
    OBVIOUS
  <2> HIDE DEF f
  <2>2. \A k \in 1..0 : f[k] = step[k][f[k - 1]]
    OBVIOUS
  <2> QED
    BY <2>1, <2>2
<1>2. ASSUME NEW m \in 0..d - 1, m \in Done PROVE m + 1 \in Done
  <2>1. PICK f \in [0..d -> V] : f[0] = b /\ \A k \in 1..m : f[k] = step[k][f[k - 1]]
    BY <1>2
  <2> DEFINE v == step[m + 1][f[m]]
             g == [k \in 0..d |-> IF k = m + 1 THEN v ELSE f[k]]
  <2>2. v \in V
    <3>1. m + 1 \in 1..d /\ m \in 0..d
      OBVIOUS
    <3> QED
      BY <3>1
  <2> HIDE DEF v
  <2>3. g \in [0..d -> V] /\ g[0] = b
    BY <2>1, <2>2
  <2>4. ASSUME NEW k \in 1..m + 1 PROVE g[k] = step[k][g[k - 1]]
    <3>1. g[k - 1] = f[k - 1]
      OBVIOUS
    <3>2. CASE k = m + 1
      <4>1. g[k] = v /\ k - 1 = m
        BY <3>2
      <4> HIDE DEF g
      <4> QED
        BY <3>1, <3>2, <4>1 DEF v
    <3>3. CASE k # m + 1
      <4>1. g[k] = f[k] /\ k \in 1..m
        BY <3>3
      <4> HIDE DEF g
      <4> QED
        BY <2>1, <3>1, <4>1
    <3> QED
      BY <3>2, <3>3
  <2> HIDE DEF g
  <2>5. m + 1 \in 0..d
    OBVIOUS
  <2> QED
    BY <2>3, <2>4, <2>5
<1> HIDE DEF Done
<1>3. d \in Done
  <2>1. d \in 0..d
    OBVIOUS
  <2> QED
    BY <1>1, <1>2, <2>1, UpTo
<1>4. PICK f \in [0..d -> V] : f[0] = b /\ \A k \in 1..d : f[k] = step[k][f[k - 1]]
  BY <1>3 DEF Done
<1>5. \A k \in 0..d : f[k] = IF k = 0 THEN b ELSE step[k][f[k - 1]]
  BY <1>4
<1>6. Recurses(f, d, b, step)
  BY <1>4, <1>5 DEF Recurses
<1> QED
  BY <1>6

(* What is defined by such a recursion has its values.                       *)
RunsIn(f, d, V, b, step) ==
  /\ f \in [0..d -> V] /\ f[0] = b
  /\ \A k \in 1..d : f[k] = step[k][f[k - 1]]

LEMMA RecursionIs ==
  ASSUME NEW d \in Nat, NEW V, NEW b \in V, NEW step \in [1..d -> [V -> V]],
         NEW f, Recurses(f, d, b, step)
  PROVE  RunsIn(f, d, V, b, step)
<1>1. f[0] = b /\ \A k \in 1..d : f[k] = step[k][f[k - 1]]
  BY DEF Recurses
<1> DEFINE In == { k \in 0..d : f[k] \in V }
<1>2. 0 \in In
  BY <1>1
<1>3. ASSUME NEW k \in 0..d - 1, k \in In PROVE k + 1 \in In
  <2>1. k + 1 \in 1..d /\ k + 1 \in 0..d /\ (k + 1) - 1 = k
    OBVIOUS
  <2>2. f[k] \in V /\ f[k + 1] = step[k + 1][f[k]]
    BY <1>1, <1>3, <2>1
  <2> QED
    BY <2>1, <2>2
<1> HIDE DEF In
<1>4. 0..d \subseteq In
  BY <1>2, <1>3, UpTo
<1>5. \A k \in 0..d : f[k] \in V
  BY <1>4 DEF In
<1>6. f = [k \in 0..d |-> f[k]]
  BY DEF Recurses
<1> QED
  BY <1>1, <1>5, <1>6 DEF RunsIn

-----------------------------------------------------------------------------
(* The trees of RofsObject: finite, closed under prefixes, with directories  *)
(* above every node and the root always there.                               *)
Component == { c \in DOMAIN Rank \ Skipped : Lower[c] = c }
TreePath == Seq(Component)

IsTree(t) ==
  /\ t \in [DOMAIN t -> Nat] /\ DOMAIN t \subseteq TreePath /\ IsFiniteSet(DOMAIN t)
  /\ <<>> \in DOMAIN t /\ t[<<>>] = Dir
  /\ \A q \in DOMAIN t : \A r \in TreePath :
       IsPrefixOf(r, q) /\ r # q => r \in DOMAIN t /\ t[r] = Dir

LEMMA PrefixesAre ==
  ASSUME NEW q \in TreePath
  PROVE  /\ Prefixes(q) = { r \in TreePath : IsPrefixOf(r, q) }
         /\ q \in Prefixes(q) /\ IsPrefixOf(q, q)
         /\ IsPrefixOf(<<>>, q) /\ IsFiniteSet(Prefixes(q))
<1> DEFINE C == Component
<1>1. q \in Seq(C) /\ TreePath = Seq(C)
  BY DEF TreePath
<1> HIDE DEF C
<1>2. ASSUME NEW r \in Prefixes(q) PROVE r \in TreePath /\ IsPrefixOf(r, q)
  <2>1. PICK k \in 0..Len(q) : r = SubSeq(q, 1, k)
    BY DEF Prefixes
  <2>2. r \in Seq(C) /\ Len(r) = k /\ \A i \in 1..k : r[i] = q[i]
    BY <1>1, <2>1
  <2> QED
    BY <1>1, <2>2 DEF IsPrefixOf
<1>3. ASSUME NEW r \in TreePath, IsPrefixOf(r, q) PROVE r \in Prefixes(q)
  <2>1. r \in Seq(C) /\ Len(r) \in 0..Len(q) /\ \A i \in 1..Len(r) : r[i] = q[i]
    BY <1>1, <1>3 DEF IsPrefixOf
  <2> DEFINE s == SubSeq(q, 1, Len(r))
  <2>2. s \in Seq(C) /\ Len(s) = Len(r) /\ \A i \in 1..Len(r) : s[i] = q[i]
    BY <1>1, <2>1
  <2>3. s = r
    <3> HIDE DEF s
    <3> QED
      BY <2>1, <2>2
  <2> QED
    BY <2>1, <2>3 DEF Prefixes
<1>4. IsPrefixOf(q, q) /\ IsPrefixOf(<<>>, q)
  BY <1>1 DEF IsPrefixOf
<1>5. IsFiniteSet(Prefixes(q))
  <2> DEFINE K == 0..Len(q)
             f == [k \in K |-> SubSeq(q, 1, k)]
  <2>1. IsFiniteSet(K)
    BY <1>1, FS_Interval
  <2> HIDE DEF K
  <2>2. f \in Surjection(K, Prefixes(q))
    BY DEF Surjection, Prefixes, K
  <2> HIDE DEF f
  <2> QED
    BY <2>1, <2>2, FS_Surjection
<1> QED
  BY <1>1, <1>2, <1>3, <1>4, <1>5

LEMMA PrefixOfPrefix ==
  ASSUME NEW p \in TreePath, NEW q \in TreePath, NEW r \in TreePath,
         IsPrefixOf(p, q), IsPrefixOf(q, r)
  PROVE  IsPrefixOf(p, r)
<1>1. Len(p) \in Nat /\ Len(q) \in Nat /\ Len(r) \in Nat
  BY DEF TreePath
<1> QED
  BY <1>1 DEF IsPrefixOf

LEMMA PrefixIsSame ==
  ASSUME NEW p \in TreePath, NEW q \in TreePath, IsPrefixOf(p, q), IsPrefixOf(q, p)
  PROVE  p = q
<1> DEFINE C == Component
<1>1. p \in Seq(C) /\ q \in Seq(C)
  BY DEF TreePath
<1> HIDE DEF C
<1> QED
  BY <1>1 DEF IsPrefixOf

(* Inserting keeps the nodes there are, and adds at most one file.           *)
LEMMA InsertIsTree ==
  ASSUME NEW t, IsTree(t), NEW p \in TreePath, NEW n \in Nat \ {0}
  PROVE  /\ IsTree(Insert(t, p, n))
         /\ \A q \in DOMAIN Insert(t, p, n) :
              IsLeaf(Insert(t, p, n)[q]) =>
                \/ q \in DOMAIN t /\ Insert(t, p, n)[q] = t[q]
                \/ q = p /\ Insert(t, p, n)[q] = n
<1>1. CASE p \in DOMAIN t \/ ~NoLeafAbove(t, p)
  BY <1>1 DEF Insert
<1>2. CASE p \notin DOMAIN t /\ NoLeafAbove(t, p)
  <2> DEFINE D == DOMAIN t \cup Prefixes(p)
             u == [q \in D |-> IF q \in DOMAIN t THEN t[q] ELSE IF q = p THEN n ELSE Dir]
  <2>1. Insert(t, p, n) = u
    BY <1>2 DEF Insert
  <2>2. D \subseteq TreePath /\ Prefixes(p) = { r \in TreePath : IsPrefixOf(r, p) }
        /\ <<>> \in D /\ IsFiniteSet(D)
    BY PrefixesAre, FS_Union DEF IsTree
  <2>3. u \in [D -> Nat]
    BY DEF IsTree, Dir
  <2>4. /\ DOMAIN u = D
        /\ \A q \in D : u[q] = IF q \in DOMAIN t THEN t[q] ELSE IF q = p THEN n ELSE Dir
    OBVIOUS
  <2> HIDE DEF u
  <2>5. u[<<>>] = Dir
    BY <2>2, <2>4 DEF IsTree
  <2>6. ASSUME NEW q \in D, NEW r \in TreePath, IsPrefixOf(r, q), r # q
        PROVE  r \in D /\ u[r] = Dir
    <3>1. CASE q \in DOMAIN t
      BY <2>4, <2>6, <3>1 DEF IsTree
    <3>2. CASE q \notin DOMAIN t
      <4>1. q \in TreePath /\ IsPrefixOf(q, p)
        BY <2>2, <3>2
      <4>2. IsPrefixOf(r, p)
        BY <2>6, <4>1, PrefixOfPrefix
      <4>3. r \in D
        BY <2>2, <4>2
      <4>4. r # p
        BY <2>6, <4>1, PrefixIsSame
      <4>5. r \in DOMAIN t => t[r] = Dir
        BY <1>2, <4>2 DEF NoLeafAbove, IsLeaf
      <4> QED
        BY <2>4, <4>3, <4>4, <4>5
    <3> QED
      BY <3>1, <3>2
  <2>7. IsTree(u)
    BY <2>2, <2>3, <2>4, <2>5, <2>6 DEF IsTree
  <2>8. ASSUME NEW q \in D, IsLeaf(u[q])
        PROVE  (q \in DOMAIN t /\ u[q] = t[q]) \/ (q = p /\ u[q] = n)
    BY <2>4, <2>8 DEF IsLeaf
  <2> QED
    BY <2>1, <2>4, <2>7, <2>8
<1> QED
  BY <1>1, <1>2

(* All paths of an archive: each file of the tree is at the path that was    *)
(* given for it (object.rs:30-88).                                           *)
LEMMA InsertAllIsTree ==
  ASSUME NEW ps \in Seq(TreePath)
  PROVE  LET t == InsertAll(ps)
         IN  /\ IsTree(t)
             /\ \A q \in DOMAIN t : IsLeaf(t[q]) => t[q] \in 1..Len(ps) /\ ps[t[q]] = q
<1> DEFINE d == Len(ps)
           V == UNION { [D -> Nat] : D \in SUBSET TreePath }
           b == [q \in {<<>>} |-> Dir]
           step == [k \in 1..d |-> [t \in V |-> Insert(t, ps[k], k)]]
           Body(f) == [k \in 0..d |-> IF k = 0 THEN b ELSE Insert(f[k - 1], ps[k], k)]
<1>1. d \in Nat /\ \A k \in 1..d : ps[k] \in TreePath
  OBVIOUS
<1>2. InsertAll(ps) = (CHOOSE f : f = Body(f))[d]
  BY DEF InsertAll
<1>3. b \in V /\ IsTree(b)
  <2>1. b \in [{<<>>} -> Nat] /\ {<<>>} \subseteq TreePath
    BY DEF TreePath, Dir
  <2>2. b \in V
    BY <2>1
  <2>3. ASSUME NEW r \in TreePath, IsPrefixOf(r, <<>>) PROVE r = <<>>
    BY <2>1, <2>3, PrefixesAre, PrefixIsSame
  <2>4. IsFiniteSet({<<>>})
    BY FS_Singleton
  <2> QED
    BY <2>1, <2>2, <2>3, <2>4 DEF IsTree
<1>4. ASSUME NEW t \in V, NEW k \in 1..d PROVE Insert(t, ps[k], k) \in V
  <2>1. PICK D \in SUBSET TreePath : t \in [D -> Nat]
    OBVIOUS
  <2>2. CASE ps[k] \in DOMAIN t \/ ~NoLeafAbove(t, ps[k])
    BY <2>2 DEF Insert
  <2>3. CASE ~(ps[k] \in DOMAIN t \/ ~NoLeafAbove(t, ps[k]))
    <3> DEFINE E == DOMAIN t \cup Prefixes(ps[k])
    <3>1. E \in SUBSET TreePath
      BY <1>1, <2>1, PrefixesAre
    <3>2. k \in Nat /\ \A q \in DOMAIN t : t[q] \in Nat
      BY <1>1, <2>1
    <3>3. Insert(t, ps[k], k) =
            [q \in E |-> IF q \in DOMAIN t THEN t[q] ELSE IF q = ps[k] THEN k ELSE Dir]
      BY <2>3 DEF Insert
    <3>4. Insert(t, ps[k], k) \in [E -> Nat]
      BY <3>2, <3>3 DEF Dir
    <3> QED
      BY <3>1, <3>4
  <2> QED
    BY <2>2, <2>3
<1>5. step \in [1..d -> [V -> V]]
  <2> HIDE DEF V, d
  <2> QED
    BY <1>4
<1> HIDE DEF d, V, b
<1>6. ASSUME NEW f PROVE f = Body(f) <=> f = [k \in 0..d |-> IF k = 0 THEN b ELSE Insert(f[k - 1], ps[k], k)]
  OBVIOUS
<1>7. PICK f : Recurses(f, d, b, step)
  <2> HIDE DEF step
  <2> QED
    BY <1>1, <1>3, <1>5, RecursionFromBefore
<1>8. /\ f \in [0..d -> V] /\ f[0] = b
      /\ \A k \in 1..d : f[k] = step[k][f[k - 1]]
  <2> HIDE DEF step
  <2>1. RunsIn(f, d, V, b, step)
    BY <1>1, <1>3, <1>5, <1>7, RecursionIs
  <2> QED
    BY <2>1 DEF RunsIn
<1>9. f = Body(f)
  <2>1. \A k \in 0..d : f[k] = IF k = 0 THEN b ELSE Insert(f[k - 1], ps[k], k)
    <3>1. \A k \in 1..d : k - 1 \in 0..d
      BY <1>1
    <3> QED
      BY <1>1, <1>8, <3>1
  <2>2. f = [k \in 0..d |-> f[k]]
    BY <1>8
  <2> QED
    BY <2>1, <2>2
<1> DEFINE g == CHOOSE h : h = Body(h)
<1>10. g = Body(g)
  <2> HIDE DEF Body
  <2> QED
    BY <1>9
<1>11. InsertAll(ps) = g[d]
  BY <1>2
<1> HIDE DEF g
<1>12. g[0] = b /\ \A k \in 1..d : g[k] = Insert(g[k - 1], ps[k], k)
  <2>1. 0 \in 0..d /\ \A k \in 1..d : k \in 0..d /\ k # 0
    BY <1>1
  <2> QED
    BY <1>10, <2>1
<1> DEFINE Good == { k \in 0..d :
                       /\ IsTree(g[k])
                       /\ \A q \in DOMAIN g[k] :
                            IsLeaf(g[k][q]) => g[k][q] \in 1..k /\ ps[g[k][q]] = q }
<1>13. 0 \in Good
  <2>1. DOMAIN b = {<<>>} /\ b[<<>>] = Dir
    BY DEF b
  <2> QED
    BY <1>1, <1>3, <1>12, <2>1 DEF IsLeaf
<1>14. ASSUME NEW k \in 0..d - 1, k \in Good PROVE k + 1 \in Good
  <2> DEFINE t == g[k]
             u == g[k + 1]
  <2>1. k + 1 \in 1..d /\ k + 1 \in 0..d /\ (k + 1) - 1 = k /\ k + 1 \in Nat \ {0}
    BY <1>1
  <2>2. u = Insert(t, ps[k + 1], k + 1) /\ ps[k + 1] \in TreePath
    BY <1>1, <1>12, <2>1
  <2>3. /\ IsTree(t)
        /\ \A q \in DOMAIN t : IsLeaf(t[q]) => t[q] \in 1..k /\ ps[t[q]] = q
    BY <1>14
  <2> HIDE DEF t, u
  <2>4. /\ IsTree(u)
        /\ \A q \in DOMAIN u : IsLeaf(u[q]) =>
             (q \in DOMAIN t /\ u[q] = t[q]) \/ (q = ps[k + 1] /\ u[q] = k + 1)
    BY <2>1, <2>2, <2>3, InsertIsTree
  <2>5. ASSUME NEW q \in DOMAIN u, IsLeaf(u[q])
        PROVE  u[q] \in 1..k + 1 /\ ps[u[q]] = q
    <3>1. CASE q \in DOMAIN t /\ u[q] = t[q]
      BY <1>1, <2>3, <2>5, <3>1
    <3>2. CASE q = ps[k + 1] /\ u[q] = k + 1
      BY <1>1, <3>2
    <3> QED
      BY <2>4, <2>5, <3>1, <3>2
  <2> QED
    BY <2>1, <2>4, <2>5 DEF u
<1> HIDE DEF Good
<1>15. d \in Good
  <2>1. d \in 0..d
    BY <1>1
  <2> QED
    BY <1>1, <1>13, <1>14, <2>1, UpTo
<1>16. /\ IsTree(g[d])
       /\ \A q \in DOMAIN g[d] : IsLeaf(g[d][q]) => g[d][q] \in 1..d /\ ps[g[d][q]] = q
  BY <1>15 DEF Good
<1> QED
  BY <1>11, <1>16 DEF d

(* What normalize_path leaves are names.                                     *)
LEMMA NormalIsNames ==
  ASSUME NEW S, NEW p \in Seq(S)
  PROVE  Normalize(p) \in Seq(S \ Skipped)
<1> DEFINE d == Len(p)
           V == Seq(S \ Skipped)
           none == <<>>
           Add(s, c) == IF c \in {"", "."} THEN s
                        ELSE IF c = ".."
                             THEN IF s = <<>> THEN s ELSE SubSeq(s, 1, Len(s) - 1)
                             ELSE Append(s, c)
           step == [k \in 1..d |-> [s \in V |-> Add(s, p[k])]]
           Body(f) == [k \in 0..d |-> IF k = 0 THEN none ELSE Add(f[k - 1], p[k])]
<1>1. d \in Nat /\ \A k \in 1..d : p[k] \in S
  OBVIOUS
<1>2. Normalize(p) = (CHOOSE f : f = Body(f))[d]
  BY DEF Normalize
<1>3. none \in V
  OBVIOUS
<1>4. ASSUME NEW s \in V, NEW c \in S PROVE Add(s, c) \in V
  <2>1. CASE c \in {"", "."}
    BY <2>1
  <2>2. CASE c = ".."
    <3>1. CASE s = <<>>
      BY <2>2, <3>1
    <3>2. CASE s # <<>>
      <4>1. SubSeq(s, 1, Len(s) - 1) \in V
        <5> HIDE DEF Add
        <5>1. s \in Seq(S \ Skipped) /\ Len(s) \in Nat /\ s # <<>>
          BY <3>2
        <5>2. Len(s) # 0
          BY <5>1
        <5>3. Len(s) - 1 \in 0..Len(s)
          BY <5>1, <5>2
        <5> QED
          BY <5>1, <5>3
      <4> QED
        BY <2>2, <3>2, <4>1
    <3> QED
      BY <3>1, <3>2
  <2>3. CASE c \notin {"", "."} /\ c # ".."
    <3>1. c \in S \ Skipped
      BY <2>3 DEF Skipped
    <3>2. Add(s, c) = Append(s, c)
      BY <2>3
    <3> DEFINE T == S \ Skipped
    <3>3. c \in T /\ s \in Seq(T)
      BY <3>1
    <3> HIDE DEF T
    <3>4. Append(s, c) \in Seq(T)
      BY <3>3
    <3> QED
      BY <3>2, <3>4 DEF T
  <2> QED
    BY <2>1, <2>2, <2>3
<1> HIDE DEF d, V, Add, none
<1>5. step \in [1..d -> [V -> V]]
  BY <1>1, <1>4
<1>6. PICK f : Recurses(f, d, none, step)
  <2> HIDE DEF step
  <2> QED
    BY <1>1, <1>3, <1>5, RecursionFromBefore
<1>7. /\ f \in [0..d -> V] /\ f[0] = none
      /\ \A k \in 1..d : f[k] = step[k][f[k - 1]]
  <2> HIDE DEF step
  <2>1. RunsIn(f, d, V, none, step)
    BY <1>1, <1>3, <1>5, <1>6, RecursionIs
  <2> QED
    BY <2>1 DEF RunsIn
<1>8. f = Body(f)
  <2>1. \A k \in 0..d : f[k] = IF k = 0 THEN none ELSE Add(f[k - 1], p[k])
    <3>1. ASSUME NEW k \in 1..d PROVE f[k] = Add(f[k - 1], p[k])
      <4>1. k - 1 \in 0..d /\ f[k] = step[k][f[k - 1]]
        BY <1>1, <1>7
      <4>2. f[k - 1] \in V
        BY <1>7, <4>1
      <4> QED
        BY <4>1, <4>2
    <3>2. \A k \in 0..d : k = 0 \/ k \in 1..d
      BY <1>1
    <3>3. \A k \in 1..d : k # 0
      BY <1>1
    <3> HIDE DEF step
    <3> QED
      BY <1>7, <3>1, <3>2, <3>3, Zenon
  <2>2. f = [k \in 0..d |-> f[k]]
    BY <1>7
  <2> QED
    BY <2>1, <2>2
<1> DEFINE g == CHOOSE h : h = Body(h)
<1>9. g = Body(g)
  <2> HIDE DEF Body
  <2> QED
    BY <1>8
<1>10. Normalize(p) = g[d]
  BY <1>2
<1> HIDE DEF g
<1> DEFINE In == { k \in 0..d : g[k] \in V }
<1>11. g[0] = none /\ \A k \in 1..d : g[k] = Add(g[k - 1], p[k])
  <2>1. 0 \in 0..d /\ \A k \in 1..d : k \in 0..d /\ k # 0
    BY <1>1
  <2> QED
    BY <1>9, <2>1
<1>12. 0 \in In
  BY <1>1, <1>3, <1>11
<1>13. ASSUME NEW k \in 0..d - 1, k \in In PROVE k + 1 \in In
  <2>1. k + 1 \in 1..d /\ k + 1 \in 0..d /\ (k + 1) - 1 = k
    BY <1>1
  <2>2. g[k + 1] = Add(g[k], p[k + 1]) /\ p[k + 1] \in S /\ g[k] \in V
    BY <1>1, <1>11, <1>13, <2>1
  <2> QED
    BY <1>4, <2>1, <2>2
<1> HIDE DEF In
<1>14. d \in In
  <2>1. d \in 0..d
    BY <1>1
  <2> QED
    BY <1>1, <1>12, <1>13, <2>1, UpTo
<1> QED
  BY <1>10, <1>14 DEF In, V

LEMMA LowerIsTreePath ==
  ASSUME NEW p \in Seq(DOMAIN Lower)
  PROVE  LowerPath(Normalize(p)) \in TreePath
<1> DEFINE s == Normalize(p)
           S == DOMAIN Lower \ Skipped
<1>1. s \in Seq(S)
  BY NormalIsNames
<1>2. \A c \in S : Lower[c] \in Component
  BY RofsBuildAssumption DEF Component, Skipped
<1> HIDE DEF s, S
<1>3. \A n \in 1..Len(s) : Lower[s[n]] \in Component
  BY <1>1, <1>2
<1>4. [n \in 1..Len(s) |-> Lower[s[n]]] \in Seq(Component)
  BY <1>1, <1>3
<1> QED
  BY <1>4 DEF LowerPath, TreePath, s

-----------------------------------------------------------------------------
(* What an object holds of the archives lo to hi, whose trees are T: every   *)
(* node is a node of one of them, a file's data is that archive's.           *)
ComesFrom(o, T, lo, hi) ==
  \A q \in DOMAIN o.tree :
    \E a \in lo..hi :
      /\ q \in DOMAIN T[a] /\ (IsLeaf(T[a][q]) <=> IsLeaf(o.tree[q]))
      /\ IsLeaf(o.tree[q]) => /\ o.tree[q] \in 1..Len(o.files)
                              /\ o.files[o.tree[q]] = <<a, T[a][q]>>

(* Only files above them hide paths.                                         *)
OnlyHidden(o, T, lo, hi) ==
  \A a \in lo..hi : \A q \in DOMAIN T[a] :
    q \in DOMAIN o.tree \/ \E b \in lo..hi : HasFileAbove(T[b], q)

(* Nothing is hidden, and of several files at a path the first is there.     *)
FirstWins(o, T, lo, hi) ==
  /\ \A a \in lo..hi : DOMAIN T[a] \subseteq DOMAIN o.tree
  /\ \A q \in DOMAIN o.tree : IsLeaf(o.tree[q]) =>
       \A a \in lo..(o.files[o.tree[q]][1] - 1) : q \notin DOMAIN T[a]

SomeTree == UNION { [D -> Nat] : D \in SUBSET TreePath }
SomeObject == [tree : SomeTree, files : Seq(Nat \X Nat)]

NoneConflict(T, n) == \A a, b \in 1..n : ~Conflict(T[a], T[b])

Unites(o, T, n, lo, hi) ==
  /\ o \in SomeObject /\ IsTree(o.tree)
  /\ ComesFrom(o, T, lo, hi)
  /\ OnlyHidden(o, T, lo, hi)
  /\ NoneConflict(T, n) => FirstWins(o, T, lo, hi)

IsMerged(w, t, u, m) ==
  /\ IsTree(w)
  /\ DOMAIN w = DOMAIN t \cup { q \in DOMAIN u : NoLeafAbove(t, q) }
  /\ \A q \in DOMAIN w : w[q] = IF q \in DOMAIN t THEN t[q] ELSE Adjust(u[q], m)

LEMMA MergeTreeIsTree ==
  ASSUME NEW t, IsTree(t), NEW u, IsTree(u), NEW m \in Nat
  PROVE  IsMerged(MergeTree(t, u, m), t, u, m)
<1> DEFINE D == DOMAIN t \cup { q \in DOMAIN u : NoLeafAbove(t, q) }
           w == MergeTree(t, u, m)
<1>1. w = [q \in D |-> IF q \in DOMAIN t THEN t[q] ELSE Adjust(u[q], m)]
  BY DEF MergeTree
<1>2. /\ DOMAIN w = D
      /\ \A q \in D : w[q] = IF q \in DOMAIN t THEN t[q] ELSE Adjust(u[q], m)
      /\ w = [q \in D |-> w[q]]
  BY <1>1
<1>3. D \subseteq TreePath /\ <<>> \in D /\ IsFiniteSet(D)
  <2>1. IsFiniteSet(DOMAIN t) /\ IsFiniteSet(DOMAIN u)
    BY DEF IsTree
  <2>2. IsFiniteSet({ q \in DOMAIN u : NoLeafAbove(t, q) })
    BY <2>1, FS_Subset
  <2>3. IsFiniteSet(D)
    BY <2>1, <2>2, FS_Union
  <2> QED
    BY <2>3 DEF IsTree
<1>4. \A q \in D : w[q] \in Nat
  <2>1. \A q \in DOMAIN t : t[q] \in Nat
    BY DEF IsTree
  <2>2. \A q \in DOMAIN u : Adjust(u[q], m) \in Nat
    BY DEF IsTree, Adjust
  <2> QED
    BY <1>2, <2>1, <2>2
<1> HIDE DEF w
<1>5. w[<<>>] = Dir
  BY <1>2, <1>3 DEF IsTree
<1>6. ASSUME NEW q \in D, NEW r \in TreePath, IsPrefixOf(r, q), r # q
      PROVE  r \in D /\ w[r] = Dir
  <2>1. CASE q \in DOMAIN t
    BY <1>2, <1>6, <2>1 DEF IsTree
  <2>2. CASE q \notin DOMAIN t
    <3>1. q \in DOMAIN u /\ NoLeafAbove(t, q) /\ q \in TreePath
      BY <1>3, <2>2
    <3>2. r \in DOMAIN u /\ u[r] = Dir
      BY <1>6, <3>1 DEF IsTree
    <3>3. NoLeafAbove(t, r)
      <4>1. DOMAIN t \subseteq TreePath
        BY DEF IsTree
      <4>2. ASSUME NEW s \in DOMAIN t, IsPrefixOf(s, r) PROVE ~IsLeaf(t[s])
        <5>1. IsPrefixOf(s, q)
          BY <1>6, <3>1, <4>1, <4>2, PrefixOfPrefix
        <5> QED
          BY <3>1, <5>1 DEF NoLeafAbove
      <4> QED
        BY <4>2 DEF NoLeafAbove
    <3>4. r \in DOMAIN t => t[r] = Dir
      BY <1>6, <3>1 DEF NoLeafAbove, IsLeaf
    <3>5. Adjust(u[r], m) = Dir
      BY <3>2 DEF Adjust, IsLeaf
    <3> QED
      BY <1>2, <3>2, <3>3, <3>4, <3>5
  <2> QED
    BY <2>1, <2>2
<1>7. IsTree(w)
  BY <1>2, <1>3, <1>4, <1>5, <1>6 DEF IsTree
<1> QED
  BY <1>2, <1>7 DEF w, IsMerged

LEMMA ConcatIs ==
  ASSUME NEW S, NEW s \in Seq(S), NEW t \in Seq(S)
  PROVE  /\ s \o t \in Seq(S) /\ Len(s \o t) = Len(s) + Len(t)
         /\ Len(s) \in Nat /\ Len(t) \in Nat
         /\ \A i \in 1..Len(s) : (s \o t)[i] = s[i]
         /\ \A i \in 1..Len(t) : (s \o t)[i + Len(s)] = t[i]
OBVIOUS

(* Merging two neighbours unites the archives of both.                       *)
LEMMA MergeUnites ==
  ASSUME NEW T, NEW n \in Nat, NEW lo \in Nat, NEW mid \in Nat, NEW hi \in Nat,
         1 <= lo, lo <= mid + 1, mid <= hi, hi <= n,
         \A a \in 1..n : IsTree(T[a]),
         NEW x, Unites(x, T, n, lo, mid), NEW y, Unites(y, T, n, mid + 1, hi)
  PROVE  Unites(Merge(x, y), T, n, lo, hi)
<1> DEFINE t == x.tree
           u == y.tree
           xs == x.files
           ys == y.files
           m == Len(xs)
           w == MergeTree(t, u, m)
           fs == xs \o ys
           F == Nat \X Nat
<1>1. IsTree(t) /\ IsTree(u) /\ xs \in Seq(F) /\ ys \in Seq(F)
  BY DEF Unites, SomeObject
<1> HIDE DEF F, t, u, xs, ys
<1>2. Merge(x, y) = [tree |-> w, files |-> fs]
  <2>1. DOMAIN t # {} /\ DOMAIN u # {}
    BY <1>1 DEF IsTree
  <2> QED
    BY <2>1 DEF Merge, t, u, xs, ys
<1>3. /\ m \in Nat /\ fs \in Seq(F) /\ Len(fs) = m + Len(ys)
      /\ Len(ys) \in Nat
      /\ \A i \in 1..m : fs[i] = xs[i]
      /\ \A i \in 1..Len(ys) : fs[i + m] = ys[i]
  BY <1>1, ConcatIs
<1>4. /\ IsTree(w)
      /\ DOMAIN w = DOMAIN t \cup { q \in DOMAIN u : NoLeafAbove(t, q) }
      /\ \A q \in DOMAIN w :
           w[q] = IF q \in DOMAIN t THEN t[q] ELSE Adjust(u[q], m)
  <2> HIDE DEF m, fs
  <2>1. IsMerged(MergeTree(t, u, m), t, u, m)
    BY <1>1, <1>3, MergeTreeIsTree
  <2> QED
    BY <2>1 DEF IsMerged
<1> DEFINE o == [tree |-> w, files |-> fs]
<1>5. o.tree = w /\ o.files = fs
  OBVIOUS
<1>6. o \in SomeObject
  <2>1. w \in [DOMAIN w -> Nat] /\ DOMAIN w \in SUBSET TreePath
    BY <1>4 DEF IsTree
  <2>2. w \in SomeTree
    BY <2>1 DEF SomeTree
  <2> QED
    BY <1>3, <2>2 DEF SomeObject, F
<1> HIDE DEF w, fs, m
<1>7. ComesFrom(o, T, lo, hi)
  <2> SUFFICES ASSUME NEW q \in DOMAIN w
               PROVE  \E a \in lo..hi :
                        /\ q \in DOMAIN T[a] /\ (IsLeaf(T[a][q]) <=> IsLeaf(w[q]))
                        /\ IsLeaf(w[q]) => /\ w[q] \in 1..Len(fs)
                                           /\ fs[w[q]] = <<a, T[a][q]>>
    BY <1>5 DEF ComesFrom
  <2>1. CASE q \in DOMAIN t
    <3>1. PICK a \in lo..mid :
            /\ q \in DOMAIN T[a] /\ (IsLeaf(T[a][q]) <=> IsLeaf(t[q]))
            /\ IsLeaf(t[q]) => /\ t[q] \in 1..m /\ xs[t[q]] = <<a, T[a][q]>>
      BY <2>1 DEF Unites, ComesFrom, t, xs, m
    <3>2. a \in lo..hi /\ w[q] = t[q]
      BY <1>4, <2>1
    <3>3. IsLeaf(t[q]) => t[q] \in 1..Len(fs) /\ fs[t[q]] = xs[t[q]]
      BY <1>3, <3>1
    <3> QED
      BY <3>1, <3>2, <3>3
  <2>2. CASE q \notin DOMAIN t
    <3>1. q \in DOMAIN u /\ w[q] = Adjust(u[q], m) /\ u[q] \in Nat
      BY <1>1, <1>4, <2>2 DEF IsTree
    <3>2. PICK a \in mid + 1..hi :
            /\ q \in DOMAIN T[a] /\ (IsLeaf(T[a][q]) <=> IsLeaf(u[q]))
            /\ IsLeaf(u[q]) => /\ u[q] \in 1..Len(ys)
                               /\ ys[u[q]] = <<a, T[a][q]>>
      BY <3>1 DEF Unites, ComesFrom, u, ys
    <3>3. a \in lo..hi
      OBVIOUS
    <3>4. IsLeaf(w[q]) <=> IsLeaf(u[q])
      BY <1>3, <3>1 DEF Adjust, IsLeaf, Dir
    <3>5. IsLeaf(u[q]) => w[q] = u[q] + m
      BY <3>1 DEF Adjust
    <3>6. IsLeaf(u[q]) => w[q] \in 1..Len(fs) /\ fs[w[q]] = ys[u[q]]
      BY <1>3, <3>2, <3>5
    <3> QED
      BY <3>2, <3>3, <3>4, <3>6
  <2> QED
    BY <2>1, <2>2
<1>8. OnlyHidden(o, T, lo, hi)
  <2> SUFFICES ASSUME NEW a \in lo..hi, NEW q \in DOMAIN T[a], q \notin DOMAIN w
               PROVE  \E b \in lo..hi : HasFileAbove(T[b], q)
    BY <1>5 DEF OnlyHidden
  <2>1. CASE a \in lo..mid
    <3>1. PICK b \in lo..mid : HasFileAbove(T[b], q)
      BY <1>4, <2>1 DEF Unites, OnlyHidden, t
    <3> QED
      BY <3>1
  <2>2. CASE a \notin lo..mid
    <3>1. a \in mid + 1..hi
      BY <2>2
    <3>2. CASE q \in DOMAIN u
      <4>1. PICK r \in DOMAIN t : IsPrefixOf(r, q) /\ IsLeaf(t[r])
        BY <1>4, <3>2 DEF NoLeafAbove
      <4>2. PICK b \in lo..mid : r \in DOMAIN T[b] /\ IsLeaf(T[b][r])
        BY <4>1 DEF Unites, ComesFrom, t
      <4>3. r # q
        BY <1>4, <4>1
      <4>4. b \in lo..hi /\ HasFileAbove(T[b], q)
        BY <4>1, <4>2, <4>3 DEF HasFileAbove
      <4> QED
        BY <4>4
    <3>3. CASE q \notin DOMAIN u
      <4>1. PICK b \in mid + 1..hi : HasFileAbove(T[b], q)
        BY <3>1, <3>3 DEF Unites, OnlyHidden, u
      <4>2. b \in lo..hi
        OBVIOUS
      <4> QED
        BY <4>1, <4>2
    <3> QED
      BY <3>2, <3>3
  <2> QED
    BY <2>1, <2>2
<1>9. ASSUME NoneConflict(T, n) PROVE FirstWins(o, T, lo, hi)
  <2>1. FirstWins(x, T, lo, mid) /\ FirstWins(y, T, mid + 1, hi)
    BY <1>9 DEF Unites
  <2>2. DOMAIN u \subseteq DOMAIN w
    <3> SUFFICES ASSUME NEW q \in DOMAIN u, q \notin DOMAIN t, ~NoLeafAbove(t, q)
                 PROVE  FALSE
      BY <1>4
    <3>1. PICK r \in DOMAIN t : IsPrefixOf(r, q) /\ IsLeaf(t[r])
      BY DEF NoLeafAbove
    <3>2. PICK b \in lo..mid : r \in DOMAIN T[b] /\ IsLeaf(T[b][r])
      BY <3>1 DEF Unites, ComesFrom, t
    <3>3. PICK a \in mid + 1..hi : q \in DOMAIN T[a]
      BY DEF Unites, ComesFrom, u
    <3>4. a \in 1..n /\ b \in 1..n
      OBVIOUS
    <3>5. r # q /\ r \in TreePath
      BY <1>1 DEF IsTree
    <3>6. r \in DOMAIN T[a] /\ T[a][r] = Dir
      BY <3>1, <3>3, <3>4, <3>5 DEF IsTree
    <3>7. Conflict(T[a], T[b])
      BY <3>2, <3>6 DEF Conflict, IsLeaf
    <3> QED
      BY <1>9, <3>4, <3>7 DEF NoneConflict
  <2>3. ASSUME NEW a \in lo..hi PROVE DOMAIN T[a] \subseteq DOMAIN w
    <3>1. a \in lo..mid \/ a \in mid + 1..hi
      OBVIOUS
    <3>2. a \in lo..mid => DOMAIN T[a] \subseteq DOMAIN t
      BY <2>1 DEF FirstWins, t
    <3>3. a \in mid + 1..hi => DOMAIN T[a] \subseteq DOMAIN u
      BY <2>1 DEF FirstWins, u
    <3> QED
      BY <1>4, <2>2, <3>1, <3>2, <3>3
  <2>4. ASSUME NEW q \in DOMAIN w, IsLeaf(w[q]), NEW a \in lo..(fs[w[q]][1] - 1)
        PROVE  q \notin DOMAIN T[a]
    <3>1. CASE q \in DOMAIN t
      <4>1. w[q] = t[q] /\ IsLeaf(t[q])
        BY <1>4, <2>4, <3>1
      <4>2. PICK b \in lo..mid : t[q] \in 1..m /\ xs[t[q]] = <<b, T[b][q]>>
        BY <3>1, <4>1 DEF Unites, ComesFrom, t, xs, m
      <4>3. fs[w[q]] = xs[t[q]]
        BY <1>3, <4>1, <4>2
      <4> QED
        BY <2>1, <2>4, <3>1, <4>1, <4>3 DEF FirstWins, t, xs
    <3>2. CASE q \notin DOMAIN t
      <4>1. q \in DOMAIN u /\ w[q] = Adjust(u[q], m) /\ u[q] \in Nat
        BY <1>1, <1>4, <3>2 DEF IsTree
      <4>2. IsLeaf(u[q]) /\ w[q] = u[q] + m
        BY <2>4, <4>1 DEF Adjust
      <4>3. PICK b \in mid + 1..hi :
              u[q] \in 1..Len(ys) /\ ys[u[q]] = <<b, T[b][q]>>
        BY <4>1, <4>2 DEF Unites, ComesFrom, u, ys
      <4>4. fs[w[q]] = ys[u[q]] /\ fs[w[q]][1] = b
        <5>1. fs[w[q]] = ys[u[q]]
          BY <1>3, <4>2, <4>3
        <5>2. ys[u[q]][1] = b
          BY <4>3
        <5> QED
          BY <5>1, <5>2
      <4>5. a \in lo..mid \/ a \in mid + 1..(ys[u[q]][1] - 1)
        BY <2>4, <4>3, <4>4
      <4>6. a \in lo..mid => DOMAIN T[a] \subseteq DOMAIN t
        BY <2>1 DEF FirstWins, t
      <4>7. a \in mid + 1..(ys[u[q]][1] - 1) => q \notin DOMAIN T[a]
        BY <2>1, <4>1, <4>2 DEF FirstWins, u, ys
      <4> QED
        BY <3>2, <4>5, <4>6, <4>7
    <3> QED
      BY <3>1, <3>2
  <2> QED
    BY <1>5, <2>3, <2>4 DEF FirstWins
<1>10. Unites(o, T, n, lo, hi)
  <2>1. IsTree(o.tree)
    BY <1>4, <1>5
  <2> HIDE DEF o
  <2> QED
    BY <1>6, <1>7, <1>8, <1>9, <2>1 DEF Unites
<1> QED
  BY <1>2, <1>10

(* The objects, in order, unite groups of neighbouring archives: those up to *)
(* cut[k] are in the first k objects.                                        *)
Grouped(os, T, n, cut, last) ==
  /\ cut \in [0..Len(os) -> 0..n] /\ cut[0] = 0 /\ cut[Len(os)] = last
  /\ \A k \in 1..Len(os) :
       cut[k - 1] <= cut[k] /\ Unites(os[k], T, n, cut[k - 1] + 1, cut[k])

Done == IF stage = "new" THEN Len(objs) ELSE Len(archives)

MergeInv ==
  /\ archives \in Inputs
  /\ stage \in {"new", "reduce", "flatten", "done"}
  /\ objs \in Seq(SomeObject) /\ Done \in 0..Len(archives)
  /\ \E cut : Grouped(objs, Trees, Len(archives), cut, Done)
  /\ stage \in {"flatten", "done"} => Len(objs) <= 1

LEMMA ArchiveIs ==
  ASSUME archives \in Inputs
  PROVE  /\ Len(archives) \in Nat
         /\ \A a \in 1..Len(archives) :
              /\ Len(archives[a]) \in Nat
              /\ \A i \in 1..Len(archives[a]) :
                   LowerPath(Normalize(archives[a][i])) \in TreePath
<1> DEFINE P == Seq(DOMAIN Lower)
           A == Seq(P)
<1>1. archives \in Seq(A)
  BY RofsBuildAssumption
<1> HIDE DEF A
<1>2. Len(archives) \in Nat /\ \A a \in 1..Len(archives) : archives[a] \in A
  BY <1>1
<1>3. ASSUME NEW a \in 1..Len(archives)
      PROVE  /\ Len(archives[a]) \in Nat
             /\ \A i \in 1..Len(archives[a]) : archives[a][i] \in P
  <2>1. archives[a] \in Seq(P)
    BY <1>2 DEF A
  <2> HIDE DEF P
  <2> QED
    BY <2>1
<1> QED
  BY <1>2, <1>3, LowerIsTreePath

(* The tree of an archive, whose files are at their own paths.               *)
LEMMA ObjectIs ==
  ASSUME archives \in Inputs, NEW a \in 1..Len(archives)
  PROVE  /\ IsTree(Object(a).tree) /\ Object(a) \in SomeObject
         /\ Trees[a] = Object(a).tree
         /\ \A q \in DOMAIN Trees[a] : IsLeaf(Trees[a][q]) =>
              /\ Trees[a][q] \in 1..Len(Object(a).files)
              /\ Object(a).files[Trees[a][q]] = <<a, Trees[a][q]>>
              /\ PathOf(<<a, Trees[a][q]>>) = q
<1> DEFINE L == Len(archives[a])
           ps == [i \in 1..L |-> LowerPath(Normalize(archives[a][i]))]
           fs == [i \in 1..L |-> <<a, i>>]
           t == InsertAll(ps)
<1>1. Len(archives) \in Nat /\ L \in Nat
      /\ \A i \in 1..L : LowerPath(Normalize(archives[a][i])) \in TreePath
  BY ArchiveIs
<1>2. Object(a) = [tree |-> t, files |-> fs]
  BY DEF Object, New
<1>3. Trees[a] = t /\ Object(a).tree = t /\ Object(a).files = fs
  BY <1>2 DEF Trees
<1>4. ASSUME NEW i \in 1..L PROVE ps[i] = PathOf(<<a, i>>)
  BY DEF PathOf
<1> HIDE DEF L
<1>5. ps \in Seq(TreePath) /\ Len(ps) = L
  BY <1>1
<1>6. fs \in Seq(Nat \X Nat) /\ Len(fs) = L /\ \A i \in 1..L : fs[i] = <<a, i>>
  <2> DEFINE F == Nat \X Nat
  <2>1. \A i \in 1..L : <<a, i>> \in F
    BY <1>1
  <2> HIDE DEF F
  <2>2. fs \in Seq(F) /\ Len(fs) = L
    BY <1>1, <2>1
  <2> QED
    BY <2>2 DEF F
<1> HIDE DEF ps, fs
<1>7. /\ IsTree(t)
      /\ \A q \in DOMAIN t : IsLeaf(t[q]) => t[q] \in 1..L /\ ps[t[q]] = q
  BY <1>5, InsertAllIsTree
<1> HIDE DEF t
<1>8. t \in SomeTree
  <2>1. t \in [DOMAIN t -> Nat] /\ DOMAIN t \in SUBSET TreePath
    BY <1>7 DEF IsTree
  <2> QED
    BY <2>1 DEF SomeTree
<1>9. Object(a) \in SomeObject
  BY <1>2, <1>6, <1>8 DEF SomeObject
<1>10. ASSUME NEW q \in DOMAIN t, IsLeaf(t[q])
       PROVE  t[q] \in 1..Len(fs) /\ fs[t[q]] = <<a, t[q]>> /\ PathOf(<<a, t[q]>>) = q
  BY <1>4, <1>6, <1>7, <1>10
<1> QED
  BY <1>3, <1>7, <1>9, <1>10

LEMMA ObjectUnites ==
  ASSUME archives \in Inputs, NEW a \in 1..Len(archives)
  PROVE  Unites(Object(a), Trees, Len(archives), a, a)
<1> DEFINE o == Object(a)
           t == Trees[a]
<1>1. Len(archives) \in Nat /\ a \in Nat /\ \A b \in a..a : b = a
  BY ArchiveIs
<1>2. /\ IsTree(t) /\ o \in SomeObject /\ t = o.tree
      /\ \A q \in DOMAIN t : IsLeaf(t[q]) =>
           t[q] \in 1..Len(o.files) /\ o.files[t[q]] = <<a, t[q]>>
  BY ObjectIs
<1> HIDE DEF o
<1>3. a \in a..a
  BY <1>1
<1>4. ComesFrom(o, Trees, a, a)
  BY <1>2, <1>3 DEF ComesFrom
<1>5. OnlyHidden(o, Trees, a, a)
  BY <1>1, <1>2 DEF OnlyHidden
<1>6. FirstWins(o, Trees, a, a)
  <2>1. ASSUME NEW q \in DOMAIN o.tree, IsLeaf(o.tree[q])
        PROVE  o.files[o.tree[q]][1] = a
    BY <1>2, <2>1
  <2>2. \A b \in a..(a - 1) : FALSE
    BY <1>1
  <2> QED
    BY <1>1, <1>2, <2>1, <2>2 DEF FirstWins
<1>7. IsTree(o.tree)
  BY <1>2
<1> QED
  BY <1>2, <1>4, <1>5, <1>6, <1>7 DEF Unites, o

LEMMA TreesAreTrees ==
  ASSUME archives \in Inputs
  PROVE  \A a \in 1..Len(archives) : IsTree(Trees[a])
BY ObjectIs

(* One more object.                                                          *)
LEMMA GroupOfOne ==
  ASSUME NEW os \in Seq(SomeObject), NEW T, NEW n \in Nat, NEW cut,
         Grouped(os, T, n, cut, Len(os)), Len(os) < n,
         NEW o \in SomeObject, Unites(o, T, n, Len(os) + 1, Len(os) + 1)
  PROVE  \E new : Grouped(Append(os, o), T, n, new, Len(os) + 1)
<1> DEFINE L == Len(os)
           more == Append(os, o)
           new == [k \in 0..L + 1 |-> IF k = L + 1 THEN L + 1 ELSE cut[k]]
<1>1. /\ L \in Nat /\ Len(more) = L + 1 /\ more[L + 1] = o
      /\ \A k \in 1..L : more[k] = os[k]
  OBVIOUS
<1>2. /\ cut \in [0..L -> 0..n] /\ cut[0] = 0 /\ cut[L] = L
      /\ \A k \in 1..L :
           cut[k - 1] <= cut[k] /\ Unites(os[k], T, n, cut[k - 1] + 1, cut[k])
  BY DEF Grouped
<1> HIDE DEF L, more
<1>3. new \in [0..L + 1 -> 0..n] /\ new[0] = 0 /\ new[L + 1] = L + 1
  BY <1>1, <1>2 DEF L
<1>4. \A k \in 0..L : new[k] = cut[k]
  BY <1>1
<1> HIDE DEF new
<1>5. ASSUME NEW k \in 1..L + 1
      PROVE  new[k - 1] <= new[k] /\ Unites(more[k], T, n, new[k - 1] + 1, new[k])
  <2>1. CASE k = L + 1
    <3>1. k - 1 = L /\ new[k - 1] = L
      BY <1>1, <1>2, <1>4, <2>1
    <3>2. Unites(o, T, n, L + 1, L + 1)
      BY DEF L
    <3> QED
      BY <1>1, <1>3, <2>1, <3>1, <3>2
  <2>2. CASE k # L + 1
    <3>1. k \in 1..L /\ k - 1 \in 0..L /\ k \in 0..L
      BY <1>1, <2>2
    <3> QED
      BY <1>1, <1>2, <1>4, <3>1
  <2> QED
    BY <2>1, <2>2
<1>6. Grouped(more, T, n, new, L + 1)
  BY <1>1, <1>3, <1>5 DEF Grouped
<1> QED
  BY <1>6 DEF more, L

(* The sequence os with its elements i and i + 1 replaced by m.              *)
IsReduced(more, S, os, i, m) ==
  /\ more \in Seq(S) /\ Len(more) = Len(os) - 1 /\ more[i] = m
  /\ \A k \in 1..(i - 1) : more[k] = os[k]
  /\ \A k \in (i + 1)..(Len(os) - 1) : more[k] = os[k + 1]

LEMMA ReducedIs ==
  ASSUME NEW S, NEW os \in Seq(S), NEW i \in 1..(Len(os) - 1), NEW m \in S,
         NEW more, more = SubSeq(os, 1, i - 1) \o <<m>> \o SubSeq(os, i + 2, Len(os))
  PROVE  IsReduced(more, S, os, i, m)
<1> DEFINE L == Len(os)
           s == SubSeq(os, 1, i - 1)
           t == SubSeq(os, i + 2, L)
           u == s \o <<m>>
<1>1. L \in Nat /\ L >= 2 /\ i \in Nat /\ i >= 1 /\ i <= L - 1
  OBVIOUS
<1>2. s \in Seq(S) /\ Len(s) = i - 1 /\ \A k \in 1..(i - 1) : s[k] = os[k]
  BY <1>1
<1>3. t \in Seq(S) /\ Len(t) = L - i - 1 /\ \A k \in 1..(L - i - 1) : t[k] = os[i + 1 + k]
  <2>1. i + 2 \in 1..L + 1
    BY <1>1
  <2>2. t = [k \in 1..(L - (i + 2) + 1) |-> os[k + (i + 2) - 1]]
    BY <1>1
  <2>3. \A k \in 1..(L - (i + 2) + 1) : k + (i + 2) - 1 = i + 1 + k /\ i + 1 + k \in 1..L
    BY <1>1
  <2>4. L - (i + 2) + 1 = L - i - 1 /\ L - i - 1 \in Nat
    BY <1>1
  <2> HIDE DEF t
  <2>5. DOMAIN t = 1..(L - i - 1) /\ \A k \in 1..(L - i - 1) : t[k] = os[i + 1 + k]
    BY <2>2, <2>3, <2>4
  <2>6. \A k \in 1..(L - i - 1) : t[k] \in S
    <3>1. \A k \in 1..L : os[k] \in S
      OBVIOUS
    <3> QED
      BY <2>3, <2>4, <2>5, <3>1
  <2> QED
    BY <2>2, <2>4, <2>5, <2>6
<1> HIDE DEF s, t, L
<1>4. u \in Seq(S) /\ Len(u) = i /\ u[i] = m /\ \A k \in 1..(i - 1) : u[k] = os[k]
  BY <1>1, <1>2
<1> HIDE DEF u
<1>5. /\ u \o t \in Seq(S) /\ Len(u \o t) = L - 1
      /\ \A k \in 1..i : (u \o t)[k] = u[k]
      /\ \A k \in 1..(L - i - 1) : (u \o t)[k + i] = t[k]
  <2>1. /\ u \o t \in Seq(S) /\ Len(u \o t) = Len(u) + Len(t)
        /\ \A k \in 1..Len(u) : (u \o t)[k] = u[k]
        /\ \A k \in 1..Len(t) : (u \o t)[k + Len(u)] = t[k]
    <3>1. u \in Seq(S) /\ t \in Seq(S)
      BY <1>3, <1>4
    <3> QED
      BY <3>1, ConcatIs
  <2>2. Len(u) + Len(t) = L - 1
    BY <1>1, <1>3, <1>4
  <2> QED
    BY <1>3, <1>4, <2>1, <2>2
<1>6. ASSUME NEW k \in (i + 1)..(L - 1) PROVE (u \o t)[k] = os[k + 1]
  <2>1. k - i \in 1..(L - i - 1) /\ (k - i) + i = k /\ i + 1 + (k - i) = k + 1
    BY <1>1
  <2> QED
    BY <1>3, <1>5, <2>1
<1>7. (u \o t)[i] = m /\ \A k \in 1..(i - 1) : (u \o t)[k] = os[k]
  BY <1>1, <1>4, <1>5
<1>8. more = u \o t
  BY DEF L, u, s, t
<1> QED
  BY <1>5, <1>6, <1>7, <1>8 DEF L, IsReduced

(* The default object a split starts from leaves the first operand alone.    *)
LEMMA DefaultIsNeutral ==
  ASSUME NEW x, IsTree(x.tree)
  PROVE  Merge(Default, x) = x
<1>1. Default.tree = <<>> /\ DOMAIN Default.tree = {}
  BY DEF Default
<1> QED
  BY <1>1 DEF Merge

LEMMA GroupsMerge ==
  ASSUME NEW os \in Seq(SomeObject), NEW T, NEW n \in Nat, NEW cut, NEW last,
         Grouped(os, T, n, cut, last), \A a \in 1..n : IsTree(T[a]),
         NEW i \in 1..(Len(os) - 1), NEW more,
         more = SubSeq(os, 1, i - 1) \o <<Merge(Merge(Default, os[i]), os[i + 1])>>
                  \o SubSeq(os, i + 2, Len(os))
  PROVE  /\ more \in Seq(SomeObject)
         /\ \E new : Grouped(more, T, n, new, last)
<1> DEFINE L == Len(os)
           m == Merge(Merge(Default, os[i]), os[i + 1])
           new == [k \in 0..(L - 1) |-> IF k < i THEN cut[k] ELSE cut[k + 1]]
<1>1. L \in Nat /\ L >= 2 /\ i \in Nat /\ i >= 1 /\ i <= L - 1
  OBVIOUS
<1>2. /\ cut \in [0..L -> 0..n] /\ cut[0] = 0 /\ cut[L] = last
      /\ \A k \in 1..L :
           cut[k - 1] <= cut[k] /\ Unites(os[k], T, n, cut[k - 1] + 1, cut[k])
  BY DEF Grouped
<1> HIDE DEF L
<1>3. /\ i - 1 \in 0..L /\ i \in 0..L /\ i + 1 \in 0..L /\ i \in 1..L /\ i + 1 \in 1..L
      /\ (i + 1) - 1 = i
  BY <1>1
<1>4. /\ cut[i - 1] \in 0..n /\ cut[i] \in 0..n /\ cut[i + 1] \in 0..n
      /\ cut[i - 1] <= cut[i] /\ cut[i] <= cut[i + 1]
      /\ Unites(os[i], T, n, cut[i - 1] + 1, cut[i])
      /\ Unites(os[i + 1], T, n, cut[i] + 1, cut[i + 1])
  BY <1>2, <1>3
<1>5. m = Merge(os[i], os[i + 1])
  BY <1>4, DefaultIsNeutral DEF Unites
<1> HIDE DEF m
<1>6. Unites(m, T, n, cut[i - 1] + 1, cut[i + 1])
  <2>1. /\ cut[i - 1] + 1 \in Nat /\ cut[i] \in Nat /\ cut[i + 1] \in Nat
        /\ 1 <= cut[i - 1] + 1 /\ cut[i - 1] + 1 <= cut[i] + 1
        /\ cut[i] <= cut[i + 1] /\ cut[i + 1] <= n
    BY <1>4
  <2> QED
    BY <1>4, <1>5, <2>1, MergeUnites
<1>7. m \in SomeObject
  BY <1>6 DEF Unites
<1>8. /\ more \in Seq(SomeObject) /\ Len(more) = L - 1 /\ more[i] = m
      /\ \A k \in 1..(i - 1) : more[k] = os[k]
      /\ \A k \in (i + 1)..(L - 1) : more[k] = os[k + 1]
  <2> DEFINE S == SomeObject
  <2>1. os \in Seq(S) /\ m \in S
    BY <1>7
  <2>2. more = SubSeq(os, 1, i - 1) \o <<m>> \o SubSeq(os, i + 2, Len(os))
    BY DEF m
  <2> HIDE DEF S
  <2>3. IsReduced(more, S, os, i, m)
    BY <2>1, <2>2, ReducedIs
  <2> QED
    BY <2>3 DEF S, L, IsReduced
<1>9. /\ \A k \in 0..(i - 1) : new[k] = cut[k]
      /\ \A k \in i..(L - 1) : new[k] = cut[k + 1]
      /\ new \in [0..(L - 1) -> 0..n]
  <2>1. ASSUME NEW k \in 0..(i - 1) PROVE new[k] = cut[k] /\ cut[k] \in 0..n
    <3>1. k \in 0..(L - 1) /\ k < i /\ k \in 0..L
      BY <1>1
    <3> QED
      BY <1>2, <3>1
  <2>2. ASSUME NEW k \in i..(L - 1) PROVE new[k] = cut[k + 1] /\ cut[k + 1] \in 0..n
    <3>1. k \in 0..(L - 1) /\ ~(k < i) /\ k + 1 \in 0..L
      BY <1>1
    <3> QED
      BY <1>2, <3>1
  <2>3. \A k \in 0..(L - 1) : k \in 0..(i - 1) \/ k \in i..(L - 1)
    BY <1>1
  <2>4. new = [k \in 0..(L - 1) |-> new[k]]
    OBVIOUS
  <2> HIDE DEF new
  <2> QED
    BY <2>1, <2>2, <2>3, <2>4
<1> HIDE DEF new
<1>10. new[0] = 0 /\ new[L - 1] = last
  <2>1. 0 \in 0..(i - 1) /\ L - 1 \in i..(L - 1) /\ (L - 1) + 1 = L
    BY <1>1
  <2> QED
    BY <1>2, <1>9, <2>1
<1>11. ASSUME NEW k \in 1..(L - 1)
       PROVE  new[k - 1] <= new[k] /\ Unites(more[k], T, n, new[k - 1] + 1, new[k])
  <2>1. CASE k < i
    <3>1. k - 1 \in 0..(i - 1) /\ k \in 0..(i - 1) /\ k \in 1..(i - 1) /\ k \in 1..L
      BY <1>1, <2>1
    <3> QED
      BY <1>2, <1>8, <1>9, <3>1
  <2>2. CASE k = i
    <3>1. k - 1 \in 0..(i - 1) /\ k \in i..(L - 1)
      BY <1>1, <2>2
    <3>2. new[k - 1] = cut[i - 1] /\ new[k] = cut[i + 1] /\ more[k] = m
      BY <1>8, <1>9, <2>2, <3>1
    <3>3. cut[i - 1] <= cut[i + 1]
      BY <1>4
    <3> QED
      BY <1>6, <3>2, <3>3
  <2>3. CASE k > i
    <3>1. /\ k - 1 \in i..(L - 1) /\ k \in i..(L - 1) /\ k \in (i + 1)..(L - 1)
          /\ k + 1 \in 1..L /\ (k - 1) + 1 = (k + 1) - 1
      BY <1>1, <2>3
    <3> QED
      BY <1>2, <1>8, <1>9, <3>1
  <2>4. k < i \/ k = i \/ k > i
    BY <1>1
  <2> QED
    BY <2>1, <2>2, <2>3, <2>4
<1>12. Grouped(more, T, n, new, last)
  BY <1>8, <1>10, <1>11, <1>9 DEF Grouped
<1> QED
  BY <1>8, <1>12

LEMMA TreesKept ==
  ASSUME archives' = archives
  PROVE  Trees' = Trees
BY DEF Trees, Object

LEMMA BuildInitInv == BuildInit => MergeInv
<1> SUFFICES ASSUME BuildInit PROVE MergeInv
  OBVIOUS
<1>1. archives \in Inputs /\ stage = "new" /\ objs = <<>>
  BY DEF BuildInit
<1>2. Len(archives) \in Nat
  BY <1>1, ArchiveIs
<1>3. Len(objs) = 0 /\ objs \in Seq(SomeObject) /\ Done = 0
  BY <1>1 DEF Done
<1> DEFINE cut == [k \in 0..0 |-> 0]
<1>4. cut \in [0..0 -> 0..Len(archives)] /\ cut[0] = 0 /\ \A k \in 1..0 : FALSE
  BY <1>2
<1> HIDE DEF cut
<1>5. Grouped(objs, Trees, Len(archives), cut, Done)
  BY <1>3, <1>4 DEF Grouped
<1> QED
  BY <1>1, <1>2, <1>3, <1>5 DEF MergeInv

LEMMA BuildStepInv == MergeInv /\ [BuildNext]_buildVars => MergeInv'
<1> SUFFICES ASSUME MergeInv, [BuildNext]_buildVars PROVE MergeInv'
  OBVIOUS
<1> DEFINE N == Len(archives)
<1>1. /\ archives \in Inputs /\ stage \in {"new", "reduce", "flatten", "done"}
      /\ objs \in Seq(SomeObject) /\ Done \in 0..N /\ N \in Nat
      /\ stage \in {"flatten", "done"} => Len(objs) <= 1
  BY ArchiveIs DEF MergeInv
<1>2. PICK cut : Grouped(objs, Trees, N, cut, Done)
  BY DEF MergeInv
<1>3. ASSUME archives' = archives, objs' = objs, Done' = Done,
             stage' \in {"new", "reduce", "flatten", "done"},
             stage' \in {"flatten", "done"} => Len(objs) <= 1
      PROVE  MergeInv'
  <2>1. Trees' = Trees
    BY <1>3, TreesKept
  <2>2. Grouped(objs, Trees, N, cut, Done)'
    BY <1>2, <1>3, <2>1 DEF Grouped
  <2> QED
    BY <1>1, <1>3, <2>2 DEF MergeInv
<1>4. CASE NewObject
  <2> DEFINE a == Len(objs) + 1
  <2>1. /\ archives' = archives /\ stage = "new" /\ stage' = "new"
        /\ Len(objs) < N /\ objs' = Append(objs, Object(a))
    BY <1>4 DEF NewObject
  <2>2. Len(objs) \in Nat /\ a \in 1..N /\ Done = Len(objs)
    BY <1>1, <2>1 DEF Done
  <2>3. Unites(Object(a), Trees, N, a, a) /\ Object(a) \in SomeObject
    BY <1>1, <2>2, ObjectUnites, ObjectIs
  <2> DEFINE o == Object(a)
             S == SomeObject
  <2>4. o \in S /\ objs \in Seq(S) /\ objs' = Append(objs, o)
    BY <1>1, <2>1, <2>3
  <2> HIDE DEF S, o
  <2>5. objs' \in Seq(S) /\ Len(objs') = a
    BY <2>4
  <2> USE DEF S, o
  <2>6. PICK new : Grouped(objs', Trees, N, new, a)
    BY <1>1, <1>2, <2>1, <2>2, <2>3, GroupOfOne
  <2>7. Trees' = Trees
    BY <2>1, TreesKept
  <2>8. Done' = a
    BY <2>1, <2>5 DEF Done
  <2>9. Grouped(objs', Trees', N', new, Done')
    BY <2>1, <2>6, <2>7, <2>8
  <2> HIDE DEF a
  <2> QED
    BY <1>1, <2>1, <2>2, <2>5, <2>8, <2>9 DEF MergeInv
<1>5. CASE StartReduce
  <2>1. Done' = Done
    BY <1>5 DEF StartReduce, Done
  <2> QED
    BY <1>3, <1>5, <2>1 DEF StartReduce
<1>6. CASE Reduce
  <2>1. archives' = archives /\ stage = "reduce" /\ stage' = "reduce"
    BY <1>6 DEF Reduce
  <2>2. PICK i \in 1..(Len(objs) - 1) :
          objs' = SubSeq(objs, 1, i - 1)
                    \o <<Merge(Merge(Default, objs[i]), objs[i + 1])>>
                    \o SubSeq(objs, i + 2, Len(objs))
    BY <1>6 DEF Reduce
  <2>3. \A a \in 1..N : IsTree(Trees[a])
    BY <1>1, TreesAreTrees
  <2>4. objs' \in Seq(SomeObject) /\ \E new : Grouped(objs', Trees, N, new, Done)
    BY <1>1, <1>2, <2>2, <2>3, GroupsMerge
  <2>5. Trees' = Trees /\ Done' = Done
    BY <2>1, TreesKept DEF Done
  <2>6. PICK new : Grouped(objs', Trees, N, new, Done)
    BY <2>4
  <2>7. Grouped(objs', Trees', N', new, Done')
    BY <2>1, <2>5, <2>6
  <2> QED
    BY <1>1, <2>1, <2>4, <2>5, <2>7 DEF MergeInv
<1>7. CASE StartFlatten
  <2>1. Done' = Done
    BY <1>7 DEF StartFlatten, Done
  <2> QED
    BY <1>3, <1>7, <2>1 DEF StartFlatten
<1>8. CASE FlattenBranch
  <2>1. Done' = Done
    BY <1>8 DEF FlattenBranch, Done
  <2> QED
    BY <1>1, <1>3, <1>8, <2>1 DEF FlattenBranch
<1>9. CASE FlattenDone
  <2>1. Done' = Done
    BY <1>9 DEF FlattenDone, Done
  <2> QED
    BY <1>1, <1>3, <1>9, <2>1 DEF FlattenDone
<1>10. CASE Mounted \/ UNCHANGED buildVars
  <2>1. Done' = Done
    BY <1>10 DEF Mounted, buildVars, Done
  <2> QED
    BY <1>1, <1>3, <1>10, <2>1 DEF Mounted, buildVars
<1> QED
  BY <1>4, <1>5, <1>6, <1>7, <1>8, <1>9, <1>10 DEF BuildNext

(* Through every merge of the parallel reduce, in whatever grouping, a leaf  *)
(* names the data of a file that an archive stores under the leaf's path:    *)
(* for every set of archives, by the groups of neighbours MergeInv keeps.    *)
THEOREM FilesKeepTheirData == BuildSpec => []FileDataIsItsOwn
<1>1. MergeInv => FileDataIsItsOwn
  <2> SUFFICES ASSUME MergeInv, NEW k \in 1..Len(objs),
                      NEW q \in DOMAIN objs[k].tree, IsLeaf(objs[k].tree[q])
               PROVE  /\ objs[k].tree[q] \in 1..Len(objs[k].files)
                      /\ PathOf(objs[k].files[objs[k].tree[q]]) = q
    BY DEF FileDataIsItsOwn
  <2>1. PICK cut : Grouped(objs, Trees, Len(archives), cut, Done)
    BY DEF MergeInv
  <2>2. /\ archives \in Inputs /\ Len(archives) \in Nat /\ Len(objs) \in Nat
    BY ArchiveIs DEF MergeInv
  <2>3. /\ cut[k - 1] \in Nat /\ cut[k] \in 0..Len(archives)
        /\ ComesFrom(objs[k], Trees, cut[k - 1] + 1, cut[k])
    <3>1. k - 1 \in 0..Len(objs) /\ k \in 0..Len(objs)
      BY <2>2
    <3>2. cut \in [0..Len(objs) -> 0..Len(archives)]
      BY <2>1 DEF Grouped
    <3>3. Unites(objs[k], Trees, Len(archives), cut[k - 1] + 1, cut[k])
      BY <2>1 DEF Grouped
    <3>4. cut[k - 1] \in Nat /\ cut[k] \in 0..Len(archives)
      BY <2>2, <3>1, <3>2
    <3> QED
      BY <3>3, <3>4 DEF Unites
  <2>4. PICK a \in cut[k - 1] + 1..cut[k] :
          /\ q \in DOMAIN Trees[a] /\ IsLeaf(Trees[a][q])
          /\ objs[k].tree[q] \in 1..Len(objs[k].files)
          /\ objs[k].files[objs[k].tree[q]] = <<a, Trees[a][q]>>
    BY <2>3 DEF ComesFrom
  <2>5. a \in 1..Len(archives)
    BY <2>2, <2>3
  <2>6. PathOf(<<a, Trees[a][q]>>) = q
    BY <2>2, <2>4, <2>5, ObjectIs
  <2> QED
    BY <2>4, <2>6
<1> QED
  BY <1>1, BuildInitInv, BuildStepInv, PTL DEF BuildSpec

(* What is mounted is the union of the archives: a path of one is missing    *)
(* only where another has a file in the place of one of its directories, and *)
(* without such conflicts each path has the data of the first archive that   *)
(* has it, whatever the grouping.                                            *)
THEOREM MergesAreUnions == BuildSpec => []MergeIsUnion
<1>1. MergeInv => MergeIsUnion
  <2> SUFFICES ASSUME MergeInv, stage = "done"
               PROVE  /\ \A a \in 1..Len(archives) : \A q \in DOMAIN Trees[a] :
                           \/ q \in DOMAIN tree
                           \/ \E b \in 1..Len(archives) \ {a} : HasFileAbove(Trees[b], q)
                      /\ NoConflict =>
                           \A q \in DOMAIN tree : IsLeaf(tree[q]) =>
                             \A a \in 1..(Owner(q)[1] - 1) : q \notin DOMAIN Trees[a]
    BY DEF MergeIsUnion
  <2> DEFINE N == Len(archives)
  <2>1. PICK cut : Grouped(objs, Trees, N, cut, N)
    BY DEF MergeInv, Done
  <2>2. N \in Nat /\ Len(objs) \in {0, 1} /\ objs \in Seq(SomeObject)
    <3>1. archives \in Inputs /\ objs \in Seq(SomeObject) /\ Len(objs) <= 1
      BY DEF MergeInv
    <3>2. N \in Nat
      BY <3>1, ArchiveIs
    <3>3. Len(objs) \in Nat
      BY <3>1
    <3>4. Len(objs) = 0 \/ Len(objs) = 1
      <4> DEFINE m == Len(objs)
      <4>1. m \in Nat /\ m <= 1
        BY <3>1, <3>3
      <4> HIDE DEF m
      <4>2. m = 0 \/ m = 1
        BY <4>1
      <4> QED
        BY <4>2 DEF m
    <3> QED
      BY <3>1, <3>2, <3>4
  <2>3. CASE Len(objs) = 0
    <3>1. N = 0 /\ objs = <<>>
      BY <2>1, <2>2, <2>3 DEF Grouped
    <3>2. tree = <<>> /\ DOMAIN tree = {}
      BY <3>1 DEF tree, obj, Default
    <3>3. \A a \in 1..N : FALSE
      BY <3>1
    <3> QED
      BY <3>2, <3>3
  <2>4. CASE Len(objs) = 1
    <3>1. Unites(objs[1], Trees, N, 1, N)
      <4>1. 1 \in 1..Len(objs) /\ 1 - 1 = 0 /\ 0 + 1 = 1
        BY <2>4
      <4> QED
        BY <2>1, <2>4, <4>1 DEF Grouped
    <3>2. obj = objs[1]
      BY <2>4 DEF obj
    <3>3. OnlyHidden(obj, Trees, 1, N) /\ (NoConflict => FirstWins(obj, Trees, 1, N))
      BY <3>1, <3>2 DEF Unites, NoConflict, NoneConflict
    <3>4. ASSUME NEW a \in 1..N, NEW q \in DOMAIN Trees[a], q \notin DOMAIN tree
          PROVE  \E b \in 1..N \ {a} : HasFileAbove(Trees[b], q)
      <4>1. PICK b \in 1..N : HasFileAbove(Trees[b], q)
        BY <3>3, <3>4 DEF OnlyHidden, tree
      <4>2. PICK r \in DOMAIN Trees[b] :
              r # q /\ IsPrefixOf(r, q) /\ IsLeaf(Trees[b][r])
        BY <4>1 DEF HasFileAbove
      <4>3. archives \in Inputs
        BY DEF MergeInv
      <4>4. IsTree(Trees[a]) /\ IsTree(Trees[b])
        BY <4>3, TreesAreTrees
      <4>5. r \in TreePath
        BY <4>4 DEF IsTree
      <4>6. b # a
        BY <4>2, <4>4, <4>5 DEF IsTree, IsLeaf
      <4> QED
        BY <4>1, <4>6
    <3> QED
      BY <3>3, <3>4 DEF FirstWins, tree, Owner
  <2> QED
    BY <2>2, <2>3, <2>4
<1> QED
  BY <1>1, BuildInitInv, BuildStepInv, PTL DEF BuildSpec

-----------------------------------------------------------------------------
(* The implicit tree of siblings: being under a place is a forest order, and *)
(* what lies left and right of its places is one total order of them.        *)
Up(k) == (k - 1) \div 2

LEMMA UpIs ==
  ASSUME NEW c \in Nat
  PROVE  /\ c # 0 => Up(c) \in Nat /\ Up(c) < c /\ (c = 2 * Up(c) + 1 \/ c = 2 * Up(c) + 2)
         /\ Up(2 * c + 1) = c /\ Up(2 * c + 2) = c
BY DEF Up

LEMMA UnderIs ==
  ASSUME NEW k \in Nat, NEW c
  PROVE  IsUnder(k, c) <=>
           \A above \in SUBSET (0..k) :
             k \in above /\ (\A i \in above \ {0} : Up(i) \in above) => c \in above
BY DEF IsUnder, Up

LEMMA UnderIsUp ==
  ASSUME NEW k \in Nat, NEW c, IsUnder(k, c)
  PROVE  c \in 0..k
<1>1. ASSUME NEW i \in (0..k) \ {0} PROVE Up(i) \in 0..k
  <2>1. Up(i) \in Nat /\ Up(i) < i /\ i <= k
    BY UpIs
  <2> HIDE DEF Up
  <2> QED
    BY <2>1
<1>2. k \in 0..k
  OBVIOUS
<1> QED
  BY <1>1, <1>2, UnderIs

LEMMA UnderStep ==
  ASSUME NEW k \in Nat \ {0}, NEW c
  PROVE  /\ IsUnder(Up(k), c) => IsUnder(k, c)
         /\ IsUnder(k, c) /\ k # c => IsUnder(Up(k), c)
<1> DEFINE p == Up(k)
<1>1. p \in Nat /\ p < k
  BY UpIs
<1>2. ASSUME NEW i \in Nat \ {0} PROVE Up(i) \in Nat /\ Up(i) < i
  BY UpIs
<1>3. ASSUME IsUnder(p, c) PROVE IsUnder(k, c)
  <2> SUFFICES ASSUME NEW above \in SUBSET (0..k), k \in above,
                      \A i \in above \ {0} : Up(i) \in above
               PROVE  c \in above
    BY UnderIs
  <2> DEFINE lower == above \cap 0..p
  <2>1. p \in above
    OBVIOUS
  <2> HIDE DEF p
  <2>2. lower \in SUBSET (0..p) /\ p \in lower
    BY <1>1, <2>1
  <2>3. ASSUME NEW i \in lower \ {0} PROVE Up(i) \in lower
    <3>1. i \in above \ {0} /\ i \in 0..p /\ i \in Nat \ {0}
      BY <1>1
    <3>2. Up(i) \in above /\ Up(i) \in Nat /\ Up(i) < i
      BY <1>2, <3>1
    <3> QED
      BY <1>1, <3>1, <3>2
  <2> HIDE DEF lower
  <2>4. c \in lower
    BY <1>1, <1>3, <2>2, <2>3, UnderIs
  <2> QED
    BY <2>4 DEF lower
<1>4. ASSUME IsUnder(k, c), k # c PROVE IsUnder(p, c)
  <2> SUFFICES ASSUME NEW above \in SUBSET (0..p), p \in above,
                      \A i \in above \ {0} : Up(i) \in above
               PROVE  c \in above
    BY <1>1, UnderIs
  <2> DEFINE more == above \cup {k}
  <2>1. \A i \in more \ {0} : Up(i) \in more
    OBVIOUS
  <2> HIDE DEF p
  <2>2. more \in SUBSET (0..k) /\ k \in more
    BY <1>1
  <2> HIDE DEF more
  <2>3. c \in more
    BY <1>4, <2>1, <2>2, UnderIs
  <2> QED
    BY <1>4, <2>3 DEF more
<1> QED
  BY <1>3, <1>4

LEMMA UnderUnder ==
  ASSUME NEW k \in Nat, NEW c \in Nat, NEW e, IsUnder(k, c), IsUnder(c, e)
  PROVE  IsUnder(k, e)
<1> SUFFICES ASSUME NEW above \in SUBSET (0..k), k \in above,
                    \A i \in above \ {0} : Up(i) \in above
             PROVE  e \in above
  BY UnderIs
<1>1. c \in above
  BY UnderIs
<1> DEFINE lower == above \cap 0..c
<1>2. lower \in SUBSET (0..c) /\ c \in lower
  BY <1>1
<1>3. ASSUME NEW i \in lower \ {0} PROVE Up(i) \in lower
  <2>1. i \in Nat \ {0} /\ i <= c /\ Up(i) \in above
    OBVIOUS
  <2>2. Up(i) \in Nat /\ Up(i) < i
    BY <2>1, UpIs
  <2> HIDE DEF Up
  <2> QED
    BY <2>1, <2>2
<1> HIDE DEF lower
<1>4. e \in lower
  BY <1>2, <1>3, UnderIs
<1> QED
  BY <1>4 DEF lower

(* Of two places above one, one is above the other.                          *)
LEMMA UnderBoth ==
  ASSUME NEW k \in Nat, NEW c, NEW e, IsUnder(k, c), IsUnder(k, e)
  PROVE  IsUnder(c, e) \/ IsUnder(e, c)
<1> DEFINE Bad == { j \in Nat : IsUnder(j, c) /\ IsUnder(j, e)
                                /\ ~(IsUnder(c, e) \/ IsUnder(e, c)) }
<1> SUFFICES ASSUME Bad # {} PROVE FALSE
  OBVIOUS
<1>1. Bad \in SUBSET Nat
  OBVIOUS
<1>2. PICK j \in Bad : \A i \in Bad : j <= i
  <2> HIDE DEF Bad
  <2> QED
    BY <1>1, LowestExists
<1>3. /\ j \in Nat /\ IsUnder(j, c) /\ IsUnder(j, e) /\ j # c /\ j # e
      /\ ~(IsUnder(c, e) \/ IsUnder(e, c))
  BY <1>2
<1>4. j # 0
  <2>1. c \in 0..j
    BY <1>3, UnderIsUp
  <2> QED
    BY <1>3, <2>1
<1>5. IsUnder(Up(j), c) /\ IsUnder(Up(j), e) /\ Up(j) \in Nat /\ Up(j) < j
  BY <1>3, <1>4, UnderStep, UpIs
<1>6. j <= Up(j)
  BY <1>2, <1>3, <1>5
<1> HIDE DEF Up
<1> QED
  BY <1>3, <1>5, <1>6

(* What is under a place and not it lies left or right, and not both.        *)
LEMMA UnderLeftOrRight ==
  ASSUME NEW k \in Nat, NEW c \in Nat, IsUnder(k, c), k # c
  PROVE  IsUnder(k, 2 * c + 1) \/ IsUnder(k, 2 * c + 2)
<1> DEFINE Bad == { j \in Nat : IsUnder(j, c) /\ j # c
                                /\ ~(IsUnder(j, 2 * c + 1) \/ IsUnder(j, 2 * c + 2)) }
<1> SUFFICES ASSUME Bad # {} PROVE FALSE
  OBVIOUS
<1>1. Bad \in SUBSET Nat
  OBVIOUS
<1>2. PICK j \in Bad : \A i \in Bad : j <= i
  <2> HIDE DEF Bad
  <2> QED
    BY <1>1, LowestExists
<1>3. /\ j \in Nat /\ IsUnder(j, c) /\ j # c
      /\ ~IsUnder(j, 2 * c + 1) /\ ~IsUnder(j, 2 * c + 2)
  BY <1>2
<1>4. j # 0
  <2>1. c \in 0..j
    BY <1>3, UnderIsUp
  <2> QED
    BY <1>3, <2>1
<1>5. /\ IsUnder(Up(j), c) /\ Up(j) \in Nat /\ Up(j) < j
      /\ ~IsUnder(Up(j), 2 * c + 1) /\ ~IsUnder(Up(j), 2 * c + 2)
      /\ j = 2 * Up(j) + 1 \/ j = 2 * Up(j) + 2
  BY <1>3, <1>4, UnderStep, UpIs
<1>6. Up(j) # c
  BY <1>3, <1>5, UnderSelf
<1>7. j <= Up(j)
  BY <1>2, <1>5, <1>6
<1> HIDE DEF Up
<1> QED
  BY <1>3, <1>5, <1>7

LEMMA LeftAndRightUnder ==
  ASSUME NEW c \in Nat
  PROVE  IsUnder(2 * c + 1, c) /\ IsUnder(2 * c + 2, c)
<1>1. Up(2 * c + 1) = c /\ Up(2 * c + 2) = c /\ IsUnder(c, c)
  BY UpIs, UnderSelf
<1>2. 2 * c + 1 \in Nat \ {0} /\ 2 * c + 2 \in Nat \ {0}
  OBVIOUS
<1> HIDE DEF Up
<1> QED
  BY <1>1, <1>2, UnderStep

LEMMA NotLeftAndRight ==
  ASSUME NEW k \in Nat, NEW c \in Nat
  PROVE  /\ ~(IsUnder(k, 2 * c + 1) /\ IsUnder(k, 2 * c + 2))
         /\ IsUnder(k, 2 * c + 1) \/ IsUnder(k, 2 * c + 2) => IsUnder(k, c) /\ k # c
<1> DEFINE a == 2 * c + 1
           b == 2 * c + 2
<1>1. a \in Nat /\ b \in Nat /\ a # b /\ b \in Nat \ {0}
  OBVIOUS
<1>2. ~IsUnder(a, b)
  <2>1. b \notin 0..a
    OBVIOUS
  <2> HIDE DEF a, b
  <2> QED
    BY <1>1, <2>1, UnderIsUp
<1>3. ~IsUnder(b, a)
  <2>1. Up(b) = c /\ a \notin 0..c
    BY UpIs
  <2> HIDE DEF a, b
  <2>2. ~IsUnder(c, a)
    BY <2>1, UnderIsUp
  <2> QED
    BY <1>1, <2>1, <2>2, UnderStep
<1>4. IsUnder(a, c) /\ IsUnder(b, c)
  BY LeftAndRightUnder
<1>5. a \notin 0..c /\ b \notin 0..c
  OBVIOUS
<1> HIDE DEF a, b
<1>6. ~(IsUnder(k, a) /\ IsUnder(k, b))
  BY <1>1, <1>2, <1>3, UnderBoth
<1>7. ASSUME IsUnder(k, a) \/ IsUnder(k, b) PROVE IsUnder(k, c) /\ k # c
  <2>1. IsUnder(k, c)
    BY <1>1, <1>4, <1>7, UnderUnder
  <2>2. k # c
    BY <1>5, <1>7, UnderIsUp
  <2> QED
    BY <2>1, <2>2
<1> QED
  BY <1>6, <1>7 DEF a, b

Left(k, c) == IsUnder(k, 2 * c + 1)
Right(k, c) == IsUnder(k, 2 * c + 2)

Before(i, k) ==
  \E c \in Nat : (i = c \/ Left(i, c)) /\ (k = c \/ Right(k, c)) /\ i # k

LEMMA SidesAre ==
  ASSUME NEW k \in Nat, NEW c \in Nat
  PROVE  /\ ~(Left(k, c) /\ Right(k, c))
         /\ Left(k, c) \/ Right(k, c) => IsUnder(k, c) /\ k # c
         /\ IsUnder(k, c) /\ k # c => Left(k, c) \/ Right(k, c)
         /\ IsUnder(k, k)
BY NotLeftAndRight, UnderLeftOrRight, UnderSelf DEF Left, Right

(* A place under another one lies on the same side.                          *)
LEMMA SidesKept ==
  ASSUME NEW k \in Nat, NEW c \in Nat, NEW e \in Nat, IsUnder(k, c)
  PROVE  (Left(c, e) => Left(k, e)) /\ (Right(c, e) => Right(k, e))
BY UnderUnder DEF Left, Right

LEMMA BeforeBefore ==
  ASSUME NEW i \in Nat, NEW j \in Nat, NEW k \in Nat, Before(i, j), Before(j, k)
  PROVE  Before(i, k)
<1>1. PICK c \in Nat : (i = c \/ Left(i, c)) /\ (j = c \/ Right(j, c)) /\ i # j
  BY DEF Before
<1>2. PICK e \in Nat : (j = e \/ Left(j, e)) /\ (k = e \/ Right(k, e)) /\ j # k
  BY DEF Before
<1>3. IsUnder(i, c) /\ IsUnder(j, c) /\ IsUnder(j, e) /\ IsUnder(k, e)
  BY <1>1, <1>2, SidesAre
<1>4. CASE c = e
  <2>1. j = c
    BY <1>1, <1>2, <1>4, SidesAre
  <2>2. Left(i, c) /\ Right(k, c)
    BY <1>1, <1>2, <1>4, <2>1
  <2>3. i # k
    BY <2>2, SidesAre
  <2> QED
    BY <2>2, <2>3 DEF Before
<1>5. CASE c # e /\ IsUnder(c, e)
  <2>1. Left(c, e) \/ Right(c, e)
    BY <1>5, SidesAre
  <2>2. Left(j, e)
    <3>1. Left(j, e) \/ Right(j, e)
      BY <1>3, <2>1, SidesKept
    <3>2. j # e
      BY <3>1, SidesAre
    <3> QED
      BY <1>2, <3>2
  <2>3. Left(c, e)
    BY <1>3, <2>1, <2>2, SidesAre, SidesKept
  <2>4. Left(i, e)
    BY <1>3, <2>3, SidesKept
  <2>5. i # k
    BY <1>2, <2>4, SidesAre
  <2> QED
    BY <1>2, <2>4, <2>5 DEF Before
<1>6. CASE c # e /\ IsUnder(e, c)
  <2>1. Left(e, c) \/ Right(e, c)
    BY <1>6, SidesAre
  <2>2. Right(j, c)
    <3>1. Left(j, c) \/ Right(j, c)
      BY <1>3, <2>1, SidesKept
    <3>2. j # c
      BY <3>1, SidesAre
    <3> QED
      BY <1>1, <3>2
  <2>3. Right(e, c)
    BY <1>3, <2>1, <2>2, SidesAre, SidesKept
  <2>4. Right(k, c)
    BY <1>3, <2>3, SidesKept
  <2>5. i # k
    BY <1>1, <2>4, SidesAre
  <2> QED
    BY <1>1, <2>4, <2>5 DEF Before
<1> QED
  BY <1>3, <1>4, <1>5, <1>6, UnderBoth

LEMMA UnderRoot ==
  ASSUME NEW k \in Nat
  PROVE  IsUnder(k, 0)
<1> DEFINE Bad == { j \in Nat : ~IsUnder(j, 0) }
<1> SUFFICES ASSUME Bad # {} PROVE FALSE
  OBVIOUS
<1>1. Bad \in SUBSET Nat
  OBVIOUS
<1>2. PICK j \in Bad : \A i \in Bad : j <= i
  <2> HIDE DEF Bad
  <2> QED
    BY <1>1, LowestExists
<1>3. j \in Nat /\ ~IsUnder(j, 0) /\ j # 0
  BY <1>2, UnderSelf
<1>4. ~IsUnder(Up(j), 0) /\ Up(j) \in Nat /\ Up(j) < j
  BY <1>3, UnderStep, UpIs
<1>5. j <= Up(j)
  BY <1>2, <1>4
<1> HIDE DEF Up
<1> QED
  BY <1>3, <1>4, <1>5

(* The lowest place above both of two places has them on different sides.    *)
LEMMA BeforeOrAfter ==
  ASSUME NEW i \in Nat, NEW k \in Nat, i # k
  PROVE  Before(i, k) \/ Before(k, i)
<1> DEFINE Rest == { m \in Nat : \E c \in Nat : m = i - c /\ IsUnder(i, c) /\ IsUnder(k, c) }
<1>1. i \in Rest
  BY UnderRoot
<1>2. Rest \in SUBSET Nat
  OBVIOUS
<1>3. PICK m \in Rest : \A j \in Rest : m <= j
  <2> HIDE DEF Rest
  <2> QED
    BY <1>1, <1>2, LowestExists
<1>4. PICK c \in Nat : m = i - c /\ IsUnder(i, c) /\ IsUnder(k, c) /\ m \in Nat
  BY <1>3
<1>5. ASSUME NEW e \in Nat, IsUnder(i, e), IsUnder(k, e) PROVE e <= c
  <2>1. e \in 0..i
    BY <1>5, UnderIsUp
  <2>2. i - e \in Nat /\ i - e \in Rest
    BY <1>5, <2>1
  <2>3. m <= i - e
    BY <1>3, <2>2
  <2> QED
    BY <1>4, <2>2, <2>3
<1> HIDE DEF Rest
<1>6. ~(Left(i, c) /\ Left(k, c)) /\ ~(Right(i, c) /\ Right(k, c))
  <2>1. 2 * c + 1 \in Nat /\ 2 * c + 2 \in Nat /\ ~(2 * c + 1 <= c) /\ ~(2 * c + 2 <= c)
    OBVIOUS
  <2> QED
    BY <1>5, <2>1 DEF Left, Right
<1>7. (i = c \/ Left(i, c) \/ Right(i, c)) /\ (k = c \/ Left(k, c) \/ Right(k, c))
  BY <1>4, SidesAre
<1> QED
  BY <1>6, <1>7 DEF Before

LEMMA NotBeforeSelf ==
  ASSUME NEW i
  PROVE  ~Before(i, i)
BY DEF Before

-----------------------------------------------------------------------------
(* A finite total order numbers its elements.                                *)
IsOrder(R, S) ==
  /\ \A x \in S : <<x, x>> \notin R
  /\ \A x, y, z \in S : <<x, y>> \in R /\ <<y, z>> \in R => <<x, z>> \in R
  /\ \A x, y \in S : x # y => <<x, y>> \in R \/ <<y, x>> \in R

Numbers(r, R, S) ==
  /\ r \in [S -> 0..(Cardinality(S) - 1)]
  /\ \A x, y \in S : (<<x, y>> \in R => r[x] < r[y]) /\ (r[x] = r[y] => x = y)
  /\ \A m \in 0..(Cardinality(S) - 1) : \E x \in S : r[x] = m

LEMMA OrderNumbers ==
  ASSUME NEW S, IsFiniteSet(S), NEW R, IsOrder(R, S)
  PROVE  \E r : Numbers(r, R, S)
<1> DEFINE n == Cardinality(S)
           low(x) == { y \in S : <<y, x>> \in R }
           r == [x \in S |-> Cardinality(low(x))]
           M == 0..(n - 1)
<1>1. n \in Nat
  BY FS_CardinalityType
<1>2. ASSUME NEW x \in S
      PROVE  /\ IsFiniteSet(low(x)) /\ Cardinality(low(x)) \in M
             /\ low(x) \in SUBSET S /\ x \notin low(x)
  <2>1. low(x) \in SUBSET S /\ x \notin low(x) /\ low(x) # S
    BY DEF IsOrder
  <2> HIDE DEF low
  <2>2. IsFiniteSet(low(x)) /\ Cardinality(low(x)) <= n /\ Cardinality(low(x)) # n
    BY <2>1, FS_Subset
  <2>3. Cardinality(low(x)) \in Nat
    BY <2>2, FS_CardinalityType
  <2> HIDE DEF n
  <2> QED
    BY <1>1, <2>1, <2>2, <2>3
<1>3. ASSUME NEW x \in S, NEW y \in S, <<x, y>> \in R
      PROVE  Cardinality(low(x)) < Cardinality(low(y))
  <2>1. low(x) \in SUBSET low(y)
    BY <1>3 DEF IsOrder
  <2>2. x \in low(y)
    BY <1>3
  <2>3. IsFiniteSet(low(y)) /\ x \notin low(x) /\ IsFiniteSet(low(x))
    BY <1>2
  <2> HIDE DEF low
  <2>4. Cardinality(low(x)) <= Cardinality(low(y)) /\ Cardinality(low(x)) # Cardinality(low(y))
    BY <2>1, <2>2, <2>3, FS_Subset
  <2>5. Cardinality(low(x)) \in Nat /\ Cardinality(low(y)) \in Nat
    BY <2>3, FS_CardinalityType
  <2> QED
    BY <2>4, <2>5
<1> HIDE DEF low, M
<1>4. r \in [S -> M] /\ \A x \in S : r[x] = Cardinality(low(x))
  BY <1>2
<1> HIDE DEF r
<1>5. ASSUME NEW x \in S, NEW y \in S PROVE r[x] \in Nat /\ (<<x, y>> \in R => r[x] < r[y])
  BY <1>1, <1>2, <1>3, <1>4 DEF M
<1>6. ASSUME NEW x \in S, NEW y \in S, r[x] = r[y] PROVE x = y
  <2> SUFFICES ASSUME x # y PROVE FALSE
    OBVIOUS
  <2>1. <<x, y>> \in R \/ <<y, x>> \in R
    BY DEF IsOrder
  <2>2. r[x] < r[y] \/ r[y] < r[x]
    BY <1>5, <2>1
  <2>3. r[x] \in Nat /\ r[y] \in Nat
    BY <1>5
  <2> QED
    BY <1>6, <2>2, <2>3
<1>7. r \in Injection(S, M)
  BY <1>4, <1>6 DEF Injection, IsInjective
<1>8. IsFiniteSet(M) /\ Cardinality(M) = n
  <2>1. 0 \in Int /\ n - 1 \in Int
    BY <1>1
  <2> HIDE DEF n
  <2>2. IsFiniteSet(0..(n - 1)) /\ Cardinality(0..(n - 1)) = IF 0 > n - 1 THEN 0 ELSE (n - 1) - 0 + 1
    BY <2>1, FS_Interval
  <2> QED
    BY <1>1, <2>2 DEF M
<1>9. r \in Surjection(S, M)
  BY <1>7, <1>8, FS_Injection
<1>10. \A m \in M : \E x \in S : r[x] = m
  BY <1>9 DEF Surjection
<1>11. Numbers(r, R, S)
  BY <1>4, <1>5, <1>6, <1>10 DEF Numbers, M
<1> QED
  BY <1>11

(* Siblings whose names can be told apart have an Eytzinger order.           *)
Siblings(S) ==
  /\ IsFiniteSet(S)
  /\ \A p \in S : Name(p) \in DOMAIN Rank
  /\ \A p, q \in S : Name(p) = Name(q) => p = q

SortedBy(f, S) ==
  /\ f \in Orders(S)
  /\ \A i, k \in 0..(Cardinality(S) - 1) :
       /\ Left(k, i) => Rank[Name(f[k + 1])] < Rank[Name(f[i + 1])]
       /\ Right(k, i) => Rank[Name(f[i + 1])] < Rank[Name(f[k + 1])]

LEMMA SortedByIs ==
  ASSUME NEW S, Cardinality(S) \in Nat, NEW f
  PROVE  SortedBy(f, S) <=>
           /\ f \in Orders(S)
           /\ InEytzingerOrder([i \in 0..(Cardinality(S) - 1) |-> [name |-> Name(f[i + 1])]],
                               0, Cardinality(S))
<1> DEFINE n == Cardinality(S)
           g == [i \in 0..(n - 1) |-> [name |-> Name(f[i + 1])]]
<1>1. ASSUME NEW i \in 0..(n - 1) PROVE 0 + i = i /\ g[0 + i].name = Name(f[i + 1])
  OBVIOUS
<1> HIDE DEF g
<1>2. InEytzingerOrder(g, 0, n) <=>
        \A i, k \in 0..(n - 1) :
          /\ Left(k, i) => Rank[Name(f[k + 1])] < Rank[Name(f[i + 1])]
          /\ Right(k, i) => Rank[Name(f[i + 1])] < Rank[Name(f[k + 1])]
  BY <1>1 DEF InEytzingerOrder, Left, Right
<1> QED
  BY <1>2 DEF SortedBy, g

LEMMA PlacesAreOrdered ==
  ASSUME NEW n \in Nat
  PROVE  \E r : /\ r \in [0..(n - 1) -> 0..(n - 1)]
                /\ \A i, k \in 0..(n - 1) : r[i] = r[k] => i = k
                /\ \A i, k \in 0..(n - 1) :
                     (Left(k, i) => r[k] < r[i]) /\ (Right(k, i) => r[i] < r[k])
<1> DEFINE S == 0..(n - 1)
           R == { e \in S \X S : Before(e[1], e[2]) }
<1>1. IsFiniteSet(S) /\ Cardinality(S) = n
  <2>1. 0 \in Int /\ n - 1 \in Int
    OBVIOUS
  <2>2. IsFiniteSet(0..(n - 1)) /\ Cardinality(0..(n - 1)) = IF 0 > n - 1 THEN 0 ELSE (n - 1) - 0 + 1
    BY <2>1, FS_Interval
  <2> QED
    BY <2>2
<1>2. \A i \in S : i \in Nat
  OBVIOUS
<1> HIDE DEF S
<1>3. \A i, k \in S : <<i, k>> \in R <=> Before(i, k)
  OBVIOUS
<1> HIDE DEF R
<1>4. IsOrder(R, S)
  <2>1. \A x \in S : <<x, x>> \notin R
    BY <1>3, NotBeforeSelf
  <2>2. \A x, y, z \in S : <<x, y>> \in R /\ <<y, z>> \in R => <<x, z>> \in R
    BY <1>2, <1>3, BeforeBefore
  <2>3. \A x, y \in S : x # y => <<x, y>> \in R \/ <<y, x>> \in R
    BY <1>2, <1>3, BeforeOrAfter
  <2> QED
    BY <2>1, <2>2, <2>3 DEF IsOrder
<1>5. PICK r : Numbers(r, R, S)
  BY <1>1, <1>4, OrderNumbers
<1>6. r \in [S -> 0..(n - 1)] /\ \A i, k \in S : (<<i, k>> \in R => r[i] < r[k]) /\ (r[i] = r[k] => i = k)
  BY <1>1, <1>5 DEF Numbers
<1>7. ASSUME NEW i \in S, NEW k \in S
      PROVE  (Left(k, i) => r[k] < r[i]) /\ (Right(k, i) => r[i] < r[k])
  <2>1. i \in Nat /\ k \in Nat
    BY <1>2
  <2>2. Left(k, i) \/ Right(k, i) => k # i
    BY <2>1, SidesAre
  <2>3. (Left(k, i) => Before(k, i)) /\ (Right(k, i) => Before(i, k))
    BY <2>1, <2>2 DEF Before
  <2> QED
    BY <1>3, <1>6, <2>3
<1> QED
  BY <1>6, <1>7 DEF S

LEMMA NamesAreOrdered ==
  ASSUME NEW S, Siblings(S)
  PROVE  \E r : /\ r \in [S -> 0..(Cardinality(S) - 1)]
                /\ \A p, q \in S : r[p] < r[q] => Rank[Name(p)] < Rank[Name(q)]
                /\ \A m \in 0..(Cardinality(S) - 1) : \E p \in S : r[p] = m
<1> DEFINE key(p) == Rank[Name(p)]
           R == { e \in S \X S : key(e[1]) < key(e[2]) }
           n == Cardinality(S)
<1>1. \A p \in S : key(p) \in Nat
  BY RofsBuildAssumption DEF Siblings
<1>2. \A p, q \in S : key(p) = key(q) => p = q
  BY RofsBuildAssumption DEF Siblings
<1> HIDE DEF key
<1>3. \A p, q \in S : <<p, q>> \in R <=> key(p) < key(q)
  OBVIOUS
<1> HIDE DEF R
<1>4. IsOrder(R, S)
  <2>1. \A x \in S : <<x, x>> \notin R
    BY <1>1, <1>3
  <2>2. \A x, y, z \in S : <<x, y>> \in R /\ <<y, z>> \in R => <<x, z>> \in R
    <3> SUFFICES ASSUME NEW x \in S, NEW y \in S, NEW z \in S, key(x) < key(y), key(y) < key(z)
                 PROVE  key(x) < key(z)
      BY <1>3
    <3>1. key(x) \in Nat /\ key(y) \in Nat /\ key(z) \in Nat
      BY <1>1
    <3> QED
      BY <3>1
  <2>3. ASSUME NEW x \in S, NEW y \in S, x # y PROVE <<x, y>> \in R \/ <<y, x>> \in R
    <3>1. key(x) \in Nat /\ key(y) \in Nat /\ key(x) # key(y)
      BY <1>1, <1>2, <2>3
    <3>2. key(x) < key(y) \/ key(y) < key(x)
      BY <3>1
    <3> QED
      BY <1>3, <3>2
  <2> QED
    BY <2>1, <2>2, <2>3 DEF IsOrder
<1>5. PICK r : Numbers(r, R, S)
  BY <1>4, OrderNumbers DEF Siblings
<1>6. /\ r \in [S -> 0..(n - 1)]
      /\ \A x, y \in S : <<x, y>> \in R => r[x] < r[y]
      /\ \A m \in 0..(n - 1) : \E p \in S : r[p] = m
  BY <1>5 DEF Numbers
<1>7. ASSUME NEW p \in S, NEW q \in S, r[p] < r[q] PROVE key(p) < key(q)
  <2>1. r[p] \in 0..(n - 1) /\ r[q] \in 0..(n - 1)
    BY <1>6
  <2>2. ~(r[q] < r[p]) /\ r[p] # r[q]
    BY <1>7, <2>1
  <2>3. ~(key(q) < key(p)) /\ p # q
    BY <1>3, <1>6, <2>2
  <2>4. key(p) \in Nat /\ key(q) \in Nat /\ key(p) # key(q)
    BY <1>1, <1>2, <2>3
  <2> QED
    BY <2>3, <2>4
<1> QED
  BY <1>6, <1>7 DEF key

LEMMA EytzingerOrderIs ==
  ASSUME NEW S, Siblings(S)
  PROVE  SortedBy(EytzingerOrder(S), S)
<1> DEFINE n == Cardinality(S)
           M == 0..(n - 1)
<1>1. n \in Nat
  BY FS_CardinalityType DEF Siblings
<1>2. PICK a : /\ a \in [M -> M]
               /\ \A i, k \in M : a[i] = a[k] => i = k
               /\ \A i, k \in M : (Left(k, i) => a[k] < a[i]) /\ (Right(k, i) => a[i] < a[k])
  BY <1>1, PlacesAreOrdered
<1>3. PICK r : /\ r \in [S -> M]
               /\ \A p, q \in S : r[p] < r[q] => Rank[Name(p)] < Rank[Name(q)]
               /\ \A m \in M : \E p \in S : r[p] = m
  BY NamesAreOrdered
<1> HIDE DEF n
<1> DEFINE inv == [m \in M |-> CHOOSE p \in S : r[p] = m]
           f == [i \in 1..n |-> inv[a[i - 1]]]
<1>4. \A m \in M : inv[m] \in S /\ r[inv[m]] = m
  BY <1>3
<1> HIDE DEF inv
<1>5. \A i \in 1..n : i - 1 \in M /\ (i - 1) + 1 = i
  BY <1>1
<1>6. \A i \in M : i + 1 \in 1..n /\ (i + 1) - 1 = i
  BY <1>1
<1> HIDE DEF M
<1>7. f \in [1..n -> S] /\ \A i \in 1..n : r[f[i]] = a[i - 1]
  BY <1>2, <1>4, <1>5
<1> HIDE DEF f
<1>8. \A i, j \in 1..n : f[i] = f[j] => i = j
  <2> SUFFICES ASSUME NEW i \in 1..n, NEW j \in 1..n, f[i] = f[j] PROVE i = j
    OBVIOUS
  <2>1. a[i - 1] = a[j - 1]
    BY <1>7
  <2>2. i - 1 = j - 1
    BY <1>2, <1>5, <2>1
  <2> QED
    BY <1>5, <2>2
<1>9. f \in Orders(S)
  BY <1>7, <1>8 DEF Orders, n
<1>10. ASSUME NEW i \in M, NEW k \in M
       PROVE  /\ Left(k, i) => Rank[Name(f[k + 1])] < Rank[Name(f[i + 1])]
              /\ Right(k, i) => Rank[Name(f[i + 1])] < Rank[Name(f[k + 1])]
  <2>1. f[i + 1] \in S /\ f[k + 1] \in S /\ r[f[i + 1]] = a[i] /\ r[f[k + 1]] = a[k]
    BY <1>6, <1>7
  <2> QED
    BY <1>2, <1>3, <2>1
<1>11. SortedBy(f, S)
  BY <1>9, <1>10 DEF SortedBy, M, n
<1> DEFINE Good(g) == InEytzingerOrder([i \in 0..(Cardinality(S) - 1) |-> [name |-> Name(g[i + 1])]],
                                       0, Cardinality(S))
<1>12. Cardinality(S) \in Nat
  BY <1>1 DEF n
<1>13. ASSUME NEW g PROVE SortedBy(g, S) <=> g \in Orders(S) /\ Good(g)
  BY <1>12, SortedByIs
<1>14. EytzingerOrder(S) = CHOOSE g \in Orders(S) : Good(g)
  BY DEF EytzingerOrder
<1> HIDE DEF Good
<1>15. \E g \in Orders(S) : Good(g)
  BY <1>11, <1>13
<1>16. EytzingerOrder(S) \in Orders(S) /\ Good(EytzingerOrder(S))
  BY <1>14, <1>15
<1> QED
  BY <1>13, <1>16

-----------------------------------------------------------------------------
(* Laying out one directory.                                                 *)
LEMMA OrdersAre ==
  ASSUME NEW S, IsFiniteSet(S), NEW f \in Orders(S)
  PROVE  /\ f \in Seq(S) /\ Len(f) = Cardinality(S) /\ Cardinality(S) \in Nat
         /\ \A p \in S : \E i \in 1..Len(f) : f[i] = p
<1> DEFINE n == Cardinality(S)
           D == 1..n
<1>1. n \in Nat
  BY FS_CardinalityType
<1>2. f \in [D -> S] /\ \A i, j \in D : f[i] = f[j] => i = j
  BY DEF Orders
<1>3. IsFiniteSet(D) /\ Cardinality(D) = n
  <2>1. 1 \in Int /\ n \in Int
    BY <1>1
  <2> HIDE DEF n
  <2>2. IsFiniteSet(1..n) /\ Cardinality(1..n) = IF 1 > n THEN 0 ELSE n - 1 + 1
    BY <2>1, FS_Interval
  <2> QED
    BY <1>1, <2>2
<1> HIDE DEF D
<1>4. f \in Injection(D, S)
  BY <1>2 DEF Injection, IsInjective
<1>5. f \in Surjection(D, S)
  BY <1>3, <1>4, FS_Injection
<1>6. \A p \in S : \E i \in D : f[i] = p
  BY <1>5 DEF Surjection
<1> HIDE DEF n
<1>7. f \in Seq(S) /\ Len(f) = n
  BY <1>1, <1>2 DEF D
<1> QED
  BY <1>1, <1>6, <1>7 DEF D, n

(* The children of a path of tree t.                                         *)
KidsOf(t, d) ==
  IF d = Top THEN DOMAIN t \cap {<<>>}
  ELSE { p \in DOMAIN t : Len(p) = Len(d) + 1 /\ IsPrefixOf(d, p) }

Kids(t, d) == Cardinality(KidsOf(t, d))
Weight(t, p) == IF IsLeaf(t[p]) THEN 0 ELSE Kids(t, p)

LEMMA ChildrenAre ==
  ASSUME NEW d
  PROVE  ChildrenOf(d) = KidsOf(tree, d)
BY DEF ChildrenOf, KidsOf

Firsts(f, t, ci, order) ==
  /\ f \in [1..(Len(order) + 1) -> Nat \ {0}] /\ f[1] = ci
  /\ \A i \in 1..Len(order) : f[i + 1] = f[i] + Weight(t, order[i])

LEMMA FirstChildIs ==
  ASSUME NEW S, NEW order \in Seq(S), child_index \in Nat \ {0},
         \A p \in S : Kids(tree, p) \in Nat
  PROVE  Firsts(FirstChild(order), tree, child_index, order)
<1> DEFINE d == Len(order)
           V == Nat \ {0}
           w(i) == Weight(tree, order[i])
           step == [k \in 1..d |-> [v \in V |-> v + w(k)]]
           Body(f) == [i \in 1..(d + 1) |-> IF i = 1 THEN child_index ELSE f[i - 1] + w(i - 1)]
<1>1. d \in Nat /\ \A i \in 1..d : order[i] \in S
  OBVIOUS
<1>2. \A i \in 1..d : w(i) \in Nat
  BY <1>1 DEF Weight
<1>3. FirstChild(order) = CHOOSE f : f = Body(f)
  <2>1. \A p : Weight(tree, p) = (IF IsLeaf(tree[p]) THEN 0 ELSE Cardinality(ChildrenOf(p)))
    BY ChildrenAre DEF Weight, Kids
  <2> QED
    BY <2>1 DEF FirstChild
<1> HIDE DEF w, d
<1>4. child_index \in V /\ step \in [1..d -> [V -> V]]
  <2>1. ASSUME NEW k \in 1..d, NEW v \in V PROVE v + w(k) \in V
    BY <1>2
  <2> HIDE DEF V
  <2>2. child_index \in V
    BY DEF V
  <2> QED
    BY <2>1, <2>2
<1>5. PICK h : Recurses(h, d, child_index, step)
  <2> HIDE DEF V, step
  <2> QED
    BY <1>1, <1>4, RecursionFromBefore
<1>6. h \in [0..d -> V] /\ h[0] = child_index /\ \A k \in 1..d : h[k] = step[k][h[k - 1]]
  <2> HIDE DEF V, step
  <2>1. RunsIn(h, d, V, child_index, step)
    BY <1>1, <1>4, <1>5, RecursionIs
  <2> QED
    BY <2>1 DEF RunsIn
<1>7. ASSUME NEW k \in 1..d PROVE h[k] = h[k - 1] + w(k)
  <2>1. k - 1 \in 0..d
    BY <1>1
  <2>2. h[k - 1] \in V
    BY <1>6, <2>1
  <2> HIDE DEF V
  <2> QED
    BY <1>6, <2>2
<1> HIDE DEF V, step
<1> DEFINE e == [i \in 1..(d + 1) |-> h[i - 1]]
<1>8. e = Body(e)
  <2>1. ASSUME NEW i \in 1..(d + 1)
        PROVE  h[i - 1] = IF i = 1 THEN child_index ELSE e[i - 1] + w(i - 1)
    <3>1. CASE i = 1
      BY <1>6, <3>1
    <3>2. CASE i # 1
      <4>1. i - 1 \in 1..d /\ i - 1 \in 1..(d + 1)
        BY <1>1, <3>2
      <4>2. e[i - 1] = h[(i - 1) - 1]
        BY <4>1
      <4> QED
        BY <1>7, <3>2, <4>1, <4>2
    <3> QED
      BY <3>1, <3>2
  <2> DEFINE u == [i \in 1..(d + 1) |-> IF i = 1 THEN child_index ELSE e[i - 1] + w(i - 1)]
  <2>2. e = u
    BY <2>1
  <2> QED
    BY <2>2
<1> DEFINE g == CHOOSE f : f = Body(f)
<1>9. g = Body(g)
  <2> HIDE DEF Body, e
  <2> QED
    BY <1>8
<1>10. FirstChild(order) = g
  BY <1>3
<1> HIDE DEF g
<1>11. /\ DOMAIN g = 1..(d + 1) /\ g[1] = child_index
       /\ g = [i \in 1..(d + 1) |-> g[i]]
       /\ \A i \in 1..d : g[i + 1] = g[i] + w(i)
  <2>1. DOMAIN g = 1..(d + 1) /\ g = [i \in 1..(d + 1) |-> g[i]]
    BY <1>9
  <2>2. \A i \in 1..(d + 1) : g[i] = IF i = 1 THEN child_index ELSE g[i - 1] + w(i - 1)
    BY <1>9
  <2>3. 1 \in 1..(d + 1) /\ \A i \in 1..d : i + 1 \in 1..(d + 1) /\ i + 1 # 1 /\ (i + 1) - 1 = i
    BY <1>1
  <2> QED
    BY <2>1, <2>2, <2>3
<1> DEFINE In == { k \in 0..d : g[k + 1] \in Nat \ {0} }
<1>12. 0 \in In
  BY <1>1, <1>11
<1>13. ASSUME NEW k \in 0..d - 1, k \in In PROVE k + 1 \in In
  <2>1. k + 1 \in 1..d /\ k + 1 \in 0..d
    BY <1>1
  <2>2. g[(k + 1) + 1] = g[k + 1] + w(k + 1) /\ w(k + 1) \in Nat /\ g[k + 1] \in Nat \ {0}
    BY <1>2, <1>11, <1>13, <2>1
  <2> QED
    BY <2>1, <2>2
<1> HIDE DEF In
<1>14. 0..d \subseteq In
  BY <1>1, <1>12, <1>13, UpTo
<1>15. \A i \in 1..(d + 1) : g[i] \in Nat \ {0}
  <2> SUFFICES ASSUME NEW i \in 1..(d + 1) PROVE g[i] \in Nat \ {0}
    OBVIOUS
  <2>1. i - 1 \in 0..d /\ (i - 1) + 1 = i
    BY <1>1
  <2>2. i - 1 \in In
    BY <1>14, <2>1
  <2> QED
    BY <2>1, <2>2 DEF In
<1>16. Firsts(g, tree, child_index, order)
  BY <1>11, <1>15 DEF Firsts, w, d
<1> QED
  BY <1>10, <1>16

(* Where the children of the directories in a queue start, the first at b,   *)
(* and where the last of them end.                                           *)
Chained(s, e, t, b, last) ==
  /\ e \in [1..(Len(s) + 1) -> Nat] /\ e[1] = b /\ e[Len(s) + 1] = last
  /\ \A m \in 1..Len(s) : e[m + 1] = e[m] + Kids(t, s[m])

(* The directories of order up to place k, and where their children start.   *)
Queues(s, e, t, order, f, k) ==
  /\ Chained(s, e, t, f[1], f[k + 1])
  /\ \A i \in 1..k : ~IsLeaf(t[order[i]]) =>
       \E m \in 1..Len(s) : s[m] = order[i] /\ e[m] = f[i]

LEMMA QueuesMore ==
  ASSUME NEW S, NEW s \in Seq(S), NEW e, NEW t, NEW order, NEW f, NEW k \in Nat,
         Queues(s, e, t, order, f, k), NEW p \in S, p = order[k + 1], ~IsLeaf(t[p]),
         f[k + 2] = f[k + 1] + Kids(t, p), Kids(t, p) \in Nat
  PROVE  \E g : Queues(Append(s, p), g, t, order, f, k + 1)
<1> DEFINE L == Len(s)
           u == Append(s, p)
           g == [m \in 1..(L + 2) |-> IF m = L + 2 THEN f[k + 2] ELSE e[m]]
<1>1. L \in Nat /\ Len(u) = L + 1 /\ u[L + 1] = p /\ \A m \in 1..L : u[m] = s[m]
  OBVIOUS
<1> HIDE DEF L, u
<1>2. /\ e \in [1..(L + 1) -> Nat] /\ e[1] = f[1] /\ e[L + 1] = f[k + 1]
      /\ \A m \in 1..L : e[m + 1] = e[m] + Kids(t, s[m])
      /\ \A i \in 1..k : ~IsLeaf(t[order[i]]) =>
           \E m \in 1..L : s[m] = order[i] /\ e[m] = f[i]
  BY DEF Queues, Chained, L
<1>3. f[k + 1] \in Nat /\ f[k + 2] \in Nat
  <2>1. L + 1 \in 1..(L + 1)
    BY <1>1
  <2>2. f[k + 1] \in Nat
    BY <1>2, <2>1
  <2> QED
    BY <2>2
<1>4. g[L + 2] = f[k + 2] /\ \A m \in 1..(L + 1) : g[m] = e[m]
  <2>1. L + 2 \in 1..(L + 2) /\ \A m \in 1..(L + 1) : m \in 1..(L + 2) /\ m # L + 2
    BY <1>1
  <2> QED
    BY <2>1
<1>5. g \in [1..(L + 2) -> Nat]
  <2>1. ASSUME NEW m \in 1..(L + 2), m # L + 2 PROVE e[m] \in Nat
    <3>1. m \in 1..(L + 1)
      BY <1>1, <2>1
    <3> QED
      BY <1>2, <3>1
  <2> QED
    BY <1>3, <2>1
<1> HIDE DEF g
<1>6. g[1] = f[1]
  <2>1. 1 \in 1..(L + 1)
    BY <1>1
  <2> QED
    BY <1>2, <1>4, <2>1
<1>7. ASSUME NEW m \in 1..(L + 1) PROVE g[m + 1] = g[m] + Kids(t, u[m])
  <2>1. CASE m = L + 1
    <3>1. m + 1 = L + 2 /\ g[m] = f[k + 1] /\ u[m] = p
      BY <1>1, <1>2, <1>4, <2>1
    <3> QED
      BY <1>4, <3>1
  <2>2. CASE m # L + 1
    <3>1. m \in 1..L /\ m + 1 \in 1..(L + 1)
      BY <1>1, <2>2
    <3> QED
      BY <1>1, <1>2, <1>4, <3>1
  <2> QED
    BY <2>1, <2>2
<1>8. Chained(u, g, t, f[1], f[k + 2])
  <2>1. (L + 1) + 1 = L + 2
    BY <1>1
  <2> QED
    BY <1>1, <1>4, <1>5, <1>6, <1>7, <2>1 DEF Chained
<1>9. ASSUME NEW i \in 1..(k + 1), ~IsLeaf(t[order[i]])
      PROVE  \E m \in 1..(L + 1) : u[m] = order[i] /\ g[m] = f[i]
  <2>1. CASE i = k + 1
    <3>1. L + 1 \in 1..(L + 1)
      BY <1>1
    <3> QED
      BY <1>1, <1>2, <1>4, <2>1, <3>1
  <2>2. CASE i # k + 1
    <3>1. i \in 1..k
      BY <2>2
    <3>2. PICK m \in 1..L : s[m] = order[i] /\ e[m] = f[i]
      BY <1>2, <1>9, <3>1
    <3>3. m \in 1..(L + 1)
      BY <1>1
    <3> QED
      BY <1>1, <1>4, <3>2, <3>3
  <2> QED
    BY <2>1, <2>2
<1>10. Queues(u, g, t, order, f, k + 1)
  <2>1. (k + 1) + 1 = k + 2
    OBVIOUS
  <2> QED
    BY <1>1, <1>8, <1>9, <2>1 DEF Queues
<1> QED
  BY <1>10 DEF u

LEMMA BranchesAre ==
  ASSUME NEW S, NEW order \in Seq(S), NEW f, Firsts(f, tree, child_index, order),
         \A p \in S : Kids(tree, p) \in Nat
  PROVE  /\ Branches(order) \in Seq({ p \in S : ~IsLeaf(tree[p]) })
         /\ \E e : Queues(Branches(order), e, tree, order, f, Len(order))
<1> DEFINE d == Len(order)
           D == { p \in S : ~IsLeaf(tree[p]) }
           V == Seq(D)
           none == <<>>
           Add(s, p) == IF IsLeaf(tree[p]) THEN s ELSE Append(s, p)
           step == [k \in 1..d |-> [s \in V |-> Add(s, order[k])]]
           Body(g) == [k \in 0..d |-> IF k = 0 THEN none ELSE Add(g[k - 1], order[k])]
<1>1. d \in Nat /\ \A k \in 1..d : order[k] \in S
  OBVIOUS
<1>2. Branches(order) = (CHOOSE g : g = Body(g))[d]
  BY DEF Branches
<1>3. none \in V
  OBVIOUS
<1>4. ASSUME NEW s \in V, NEW p \in S PROVE Add(s, p) \in V
  <2>1. CASE IsLeaf(tree[p])
    BY <2>1
  <2>2. CASE ~IsLeaf(tree[p])
    <3>1. p \in D /\ Add(s, p) = Append(s, p)
      BY <2>2
    <3> HIDE DEF D, Add
    <3>2. Append(s, p) \in Seq(D)
      BY <3>1
    <3> QED
      BY <3>1, <3>2
  <2> QED
    BY <2>1, <2>2
<1> HIDE DEF d, V, Add, none
<1>5. step \in [1..d -> [V -> V]]
  BY <1>1, <1>4
<1>6. PICK h : Recurses(h, d, none, step)
  <2> HIDE DEF step
  <2> QED
    BY <1>1, <1>3, <1>5, RecursionFromBefore
<1>7. /\ h \in [0..d -> V] /\ h[0] = none
      /\ \A k \in 1..d : h[k] = step[k][h[k - 1]]
  <2> HIDE DEF step
  <2>1. RunsIn(h, d, V, none, step)
    BY <1>1, <1>3, <1>5, <1>6, RecursionIs
  <2> QED
    BY <2>1 DEF RunsIn
<1>8. h = Body(h)
  <2>1. \A k \in 0..d : h[k] = IF k = 0 THEN none ELSE Add(h[k - 1], order[k])
    <3>1. ASSUME NEW k \in 1..d PROVE h[k] = Add(h[k - 1], order[k])
      <4>1. k - 1 \in 0..d /\ h[k] = step[k][h[k - 1]]
        BY <1>1, <1>7
      <4>2. h[k - 1] \in V
        BY <1>7, <4>1
      <4> QED
        BY <4>1, <4>2
    <3>2. \A k \in 0..d : k = 0 \/ k \in 1..d
      BY <1>1
    <3>3. \A k \in 1..d : k # 0
      BY <1>1
    <3> HIDE DEF step
    <3> QED
      BY <1>7, <3>1, <3>2, <3>3, Zenon
  <2>2. h = [k \in 0..d |-> h[k]]
    BY <1>7
  <2> QED
    BY <2>1, <2>2
<1> DEFINE g == CHOOSE x : x = Body(x)
<1>9. g = Body(g)
  <2> HIDE DEF Body
  <2> QED
    BY <1>8
<1>10. Branches(order) = g[d]
  BY <1>2
<1> HIDE DEF g
<1>11. g[0] = none /\ \A k \in 1..d : g[k] = Add(g[k - 1], order[k])
  <2>1. 0 \in 0..d /\ \A k \in 1..d : k \in 0..d /\ k # 0
    BY <1>1
  <2> QED
    BY <1>9, <2>1
<1> DEFINE In == { k \in 0..d : g[k] \in V /\ \E e : Queues(g[k], e, tree, order, f, k) }
<1>12. 0 \in In
  <2>1. f \in [1..(d + 1) -> Nat \ {0}]
    BY DEF Firsts, d
  <2>2. 1 \in 1..(d + 1)
    BY <1>1
  <2>3. f[1] \in Nat
    BY <2>1, <2>2
  <2> DEFINE e == [m \in 1..1 |-> f[1]]
  <2>4. e \in [1..(0 + 1) -> Nat] /\ e[1] = f[1] /\ e[0 + 1] = f[0 + 1]
    BY <2>3
  <2> HIDE DEF e
  <2>5. Len(none) = 0 /\ \A m \in 1..0 : FALSE
    BY DEF none
  <2>6. Queues(none, e, tree, order, f, 0)
    BY <2>4, <2>5 DEF Queues, Chained
  <2> QED
    BY <1>1, <1>3, <1>11, <2>6
<1>13. ASSUME NEW k \in 0..d - 1, k \in In PROVE k + 1 \in In
  <2> DEFINE p == order[k + 1]
             s == g[k]
  <2>1. k + 1 \in 1..d /\ k + 1 \in 0..d /\ (k + 1) - 1 = k /\ k \in Nat
    BY <1>1
  <2>2. g[k + 1] = Add(s, p) /\ p \in S /\ s \in V
    BY <1>1, <1>11, <1>13, <2>1
  <2>3. PICK e : Queues(s, e, tree, order, f, k)
    BY <1>13
  <2>4. f[k + 2] = f[k + 1] + Weight(tree, p)
    <3>1. f[(k + 1) + 1] = f[k + 1] + Weight(tree, p)
      BY <2>1 DEF Firsts, d
    <3>2. (k + 1) + 1 = k + 2
      BY <2>1
    <3> QED
      BY <3>1, <3>2
  <2>5. g[k + 1] \in V
    BY <1>4, <2>2
  <2>6. CASE IsLeaf(tree[p])
    <3>1. g[k + 1] = s
      BY <2>2, <2>6 DEF Add
    <3>2. f[k + 2] = f[k + 1]
      <4>1. f \in [1..(d + 1) -> Nat \ {0}] /\ k + 1 \in 1..(d + 1)
        BY <1>1, <2>1 DEF Firsts, d
      <4>2. f[k + 1] \in Nat
        BY <4>1
      <4>3. Weight(tree, p) = 0
        BY <2>6 DEF Weight
      <4> QED
        BY <2>4, <4>2, <4>3
    <3>3. Queues(s, e, tree, order, f, k + 1)
      <4>1. (k + 1) + 1 = k + 2 /\ \A i \in 1..(k + 1) : i = k + 1 \/ i \in 1..k
        BY <2>1
      <4> QED
        BY <2>3, <2>6, <3>2, <4>1 DEF Queues
    <3> QED
      BY <2>1, <2>5, <3>1, <3>3
  <2>7. CASE ~IsLeaf(tree[p])
    <3>1. g[k + 1] = Append(s, p)
      BY <2>2, <2>7 DEF Add
    <3>2. p \in D /\ s \in Seq(D)
      BY <2>2, <2>7 DEF V
    <3>3. Weight(tree, p) = Kids(tree, p) /\ Kids(tree, p) \in Nat
      BY <2>2, <2>7 DEF Weight
    <3> HIDE DEF D
    <3>4. PICK new : Queues(Append(s, p), new, tree, order, f, k + 1)
      BY <2>1, <2>3, <2>4, <2>7, <3>2, <3>3, QueuesMore
    <3> QED
      BY <2>1, <2>5, <3>1, <3>4
  <2> QED
    BY <2>6, <2>7
<1> HIDE DEF In
<1>14. d \in In
  <2>1. d \in 0..d
    BY <1>1
  <2> QED
    BY <1>1, <1>12, <1>13, <2>1, UpTo
<1> QED
  BY <1>10, <1>14 DEF In, V, d

(* One queue after another.                                                  *)
Joins(h, s, u, e, g) ==
  /\ \A m \in 1..Len(s) : h[m] = e[m]
  /\ \A m \in 1..Len(u) : h[m + Len(s)] = g[m]

LEMMA ChainsJoin ==
  ASSUME NEW S, NEW s \in Seq(S), NEW u \in Seq(S), NEW e, NEW g, NEW t, NEW a, NEW b, NEW c,
         Chained(s, e, t, a, b), Chained(u, g, t, b, c)
  PROVE  \E h : Chained(s \o u, h, t, a, c) /\ Joins(h, s, u, e, g)
<1> DEFINE L == Len(s)
           M == Len(u)
           v == s \o u
           h == [m \in 1..(L + M + 1) |-> IF m <= L THEN e[m] ELSE g[m - L]]
<1>1. /\ L \in Nat /\ M \in Nat /\ Len(v) = L + M
      /\ \A i \in 1..L : v[i] = s[i]
      /\ \A i \in 1..M : v[i + L] = u[i]
  BY ConcatIs
<1>2. /\ e \in [1..(L + 1) -> Nat] /\ e[1] = a /\ e[L + 1] = b
      /\ \A m \in 1..L : e[m + 1] = e[m] + Kids(t, s[m])
  BY DEF Chained
<1>3. /\ g \in [1..(M + 1) -> Nat] /\ g[1] = b /\ g[M + 1] = c
      /\ \A m \in 1..M : g[m + 1] = g[m] + Kids(t, u[m])
  BY DEF Chained
<1> HIDE DEF L, M, v
<1>4. ASSUME NEW m \in 1..L PROVE h[m] = e[m] /\ e[m] \in Nat
  <2>1. m \in 1..(L + M + 1) /\ m <= L /\ m \in 1..(L + 1)
    BY <1>1
  <2> QED
    BY <1>2, <2>1
<1>5. ASSUME NEW m \in 1..(M + 1) PROVE h[m + L] = g[m] /\ g[m] \in Nat
  <2>1. m + L \in 1..(L + M + 1) /\ ~(m + L <= L) /\ (m + L) - L = m
    BY <1>1
  <2> QED
    BY <1>3, <2>1
<1>6. h \in [1..(L + M + 1) -> Nat]
  <2>1. ASSUME NEW m \in 1..(L + M + 1) PROVE h[m] \in Nat
    <3>1. m \in 1..L \/ (m - L \in 1..(M + 1) /\ (m - L) + L = m)
      BY <1>1
    <3> HIDE DEF h
    <3> QED
      BY <1>4, <1>5, <3>1
  <2> QED
    BY <2>1
<1> HIDE DEF h
<1>7. h[L + 1] = b
  <2>1. 1 \in 1..(M + 1) /\ 1 + L = L + 1
    BY <1>1
  <2> QED
    BY <1>3, <1>5, <2>1
<1>8. h[1] = a
  <2>1. CASE L = 0
    BY <1>2, <1>7, <2>1
  <2>2. CASE L # 0
    <3>1. 1 \in 1..L
      BY <1>1, <2>2
    <3> QED
      BY <1>2, <1>4, <3>1
  <2> QED
    BY <2>1, <2>2
<1>9. h[L + M + 1] = c
  <2>1. M + 1 \in 1..(M + 1) /\ (M + 1) + L = L + M + 1
    BY <1>1
  <2> QED
    BY <1>3, <1>5, <2>1
<1>10. ASSUME NEW m \in 1..(L + M) PROVE h[m + 1] = h[m] + Kids(t, v[m])
  <2>1. CASE m <= L
    <3>1. m \in 1..L
      BY <1>1, <2>1
    <3>2. h[m] = e[m] /\ v[m] = s[m] /\ e[m + 1] = e[m] + Kids(t, s[m])
      BY <1>1, <1>2, <1>4, <3>1
    <3>3. h[m + 1] = e[m + 1]
      <4>1. CASE m = L
        BY <1>2, <1>7, <4>1
      <4>2. CASE m # L
        <5>1. m + 1 \in 1..L
          BY <1>1, <3>1, <4>2
        <5> QED
          BY <1>4, <5>1
      <4> QED
        BY <4>1, <4>2
    <3> QED
      BY <3>2, <3>3
  <2>2. CASE ~(m <= L)
    <3> DEFINE k == m - L
    <3>1. k \in 1..M /\ k + L = m /\ (k + 1) + L = m + 1 /\ k + 1 \in 1..(M + 1) /\ k \in 1..(M + 1)
      BY <1>1, <2>2
    <3> HIDE DEF k
    <3>2. h[k + L] = g[k] /\ h[(k + 1) + L] = g[k + 1] /\ v[k + L] = u[k]
      BY <1>1, <1>5, <3>1
    <3>3. g[k + 1] = g[k] + Kids(t, u[k])
      BY <1>3, <3>1
    <3> QED
      BY <3>1, <3>2, <3>3
  <2> QED
    BY <2>1, <2>2
<1>11. Chained(v, h, t, a, c)
  BY <1>1, <1>6, <1>8, <1>9, <1>10 DEF Chained
<1>12. \A m \in 1..M : h[m + L] = g[m]
  <2>1. \A m \in 1..M : m \in 1..(M + 1)
    BY <1>1
  <2> QED
    BY <1>5, <2>1
<1> QED
  BY <1>4, <1>11, <1>12 DEF L, M, v, Joins

LEMMA ChainTail ==
  ASSUME NEW S, NEW s \in Seq(S), s # <<>>, NEW e, NEW t, NEW a, NEW c, Chained(s, e, t, a, c)
  PROVE  \E g : /\ Chained(Tail(s), g, t, a + Kids(t, Head(s)), c)
                /\ \A m \in 1..Len(Tail(s)) : g[m] = e[m + 1]
<1> DEFINE L == Len(s)
           u == Tail(s)
           g == [m \in 1..L |-> e[m + 1]]
<1>1. L \in Nat /\ L >= 1
  <2>1. L \in Nat /\ L # 0
    OBVIOUS
  <2> QED
    BY <2>1
<1>2. Len(u) = L - 1 /\ Head(s) = s[1] /\ \A m \in 1..(L - 1) : u[m] = s[m + 1]
  BY <1>1
<1>3. /\ e \in [1..(L + 1) -> Nat] /\ e[1] = a /\ e[L + 1] = c
      /\ \A m \in 1..L : e[m + 1] = e[m] + Kids(t, s[m])
  BY DEF Chained
<1> HIDE DEF L, u
<1>4. \A m \in 1..L : g[m] = e[m + 1] /\ m + 1 \in 1..(L + 1)
  BY <1>1
<1>5. g \in [1..L -> Nat]
  BY <1>3, <1>4
<1> HIDE DEF g
<1>6. g[1] = a + Kids(t, s[1]) /\ g[L] = c
  <2>1. 1 \in 1..L /\ L \in 1..L /\ 1 + 1 = 2
    BY <1>1
  <2>2. g[1] = e[2] /\ e[2] = e[1] + Kids(t, s[1]) /\ g[L] = e[L + 1]
    BY <1>3, <1>4, <2>1
  <2> QED
    BY <1>3, <2>2
<1>7. ASSUME NEW m \in 1..(L - 1) PROVE g[m + 1] = g[m] + Kids(t, u[m])
  <2>1. m \in 1..L /\ m + 1 \in 1..L
    BY <1>1
  <2>2. g[m + 1] = e[(m + 1) + 1] /\ g[m] = e[m + 1] /\ u[m] = s[m + 1]
    BY <1>2, <1>4, <2>1
  <2> QED
    BY <1>3, <2>1, <2>2
<1>8. Chained(u, g, t, a + Kids(t, s[1]), c)
  <2>1. Len(u) + 1 = L
    BY <1>1, <1>2
  <2> QED
    BY <1>2, <1>5, <1>6, <1>7, <2>1 DEF Chained
<1>9. \A m \in 1..Len(u) : g[m] = e[m + 1]
  <2>1. \A m \in 1..(L - 1) : m \in 1..L
    BY <1>1
  <2> QED
    BY <1>2, <1>4, <2>1
<1> QED
  BY <1>2, <1>8, <1>9 DEF u

-----------------------------------------------------------------------------
Dirs(t) == { p \in DOMAIN t : ~IsLeaf(t[p]) }

(* The children of a directory can be told apart by their names.             *)
LEMMA KidsAre ==
  ASSUME NEW t, IsTree(t), NEW d \in {Top} \cup Dirs(t)
  PROVE  /\ Siblings(KidsOf(t, d)) /\ KidsOf(t, d) \subseteq DOMAIN t
         /\ Kids(t, d) \in Nat
         /\ d = Top => KidsOf(t, d) = {<<>>}
         /\ d # Top => \A p \in KidsOf(t, d) : Name(p) \in Component
<1> DEFINE S == KidsOf(t, d)
<1>1. S \subseteq DOMAIN t /\ IsFiniteSet(S)
  <2>1. S \in SUBSET (DOMAIN t)
    BY DEF KidsOf
  <2> HIDE DEF S
  <2>2. IsFiniteSet(DOMAIN t)
    BY DEF IsTree
  <2> QED
    BY <2>1, <2>2, FS_Subset
<1>2. Kids(t, d) \in Nat
  BY <1>1, FS_CardinalityType DEF Kids
<1>3. CASE d = Top
  <2>1. S = {<<>>}
    BY <1>3 DEF KidsOf, IsTree
  <2>2. Name(<<>>) = ""
    BY DEF Name
  <2>3. Siblings(S)
    BY <1>1, <2>1, <2>2, RofsBuildAssumption DEF Siblings
  <2> QED
    BY <1>1, <1>2, <1>3, <2>1, <2>3
<1>4. CASE d # Top
  <2> DEFINE C == Component
  <2>1. d \in Seq(C) /\ DOMAIN t \subseteq Seq(C)
    BY <1>4 DEF Dirs, IsTree, TreePath
  <2>2. S = { p \in DOMAIN t : Len(p) = Len(d) + 1 /\ IsPrefixOf(d, p) }
    BY <1>4 DEF KidsOf
  <2> HIDE DEF C, S
  <2>3. ASSUME NEW p \in S
        PROVE  /\ p \in Seq(C) /\ Len(d) \in Nat /\ Len(p) = Len(d) + 1
               /\ \A i \in 1..Len(d) : d[i] = p[i]
    BY <2>1, <2>2 DEF IsPrefixOf
  <2>4. ASSUME NEW p \in S PROVE Name(p) = p[Len(d) + 1] /\ Name(p) \in C
    <3>1. p # <<>> /\ Len(p) \in 1..Len(p)
      BY <2>3
    <3>2. Name(p) = p[Len(p)] /\ p[Len(p)] \in C
      BY <2>3, <3>1 DEF Name
    <3> QED
      BY <2>3, <3>2
  <2>5. ASSUME NEW p \in S, NEW q \in S, Name(p) = Name(q) PROVE p = q
    <3>1. p \in Seq(C) /\ q \in Seq(C) /\ Len(p) = Len(d) + 1 /\ Len(q) = Len(d) + 1 /\ Len(d) \in Nat
      BY <2>3
    <3>2. p[Len(d) + 1] = q[Len(d) + 1]
      BY <2>4, <2>5
    <3>3. \A i \in 1..Len(d) : p[i] = q[i]
      BY <2>3
    <3>4. \A i \in 1..(Len(d) + 1) : p[i] = q[i]
      BY <3>1, <3>2, <3>3
    <3> QED
      BY <3>1, <3>4
  <2>6. \A p \in S : Name(p) \in DOMAIN Rank
    BY <2>4 DEF C, Component
  <2>7. Siblings(S)
    BY <1>1, <2>5, <2>6 DEF Siblings, S
  <2> QED
    BY <1>1, <1>2, <1>4, <2>4, <2>7 DEF C, S
<1> QED
  BY <1>3, <1>4

(* The node of a path.                                                       *)
IsNode(x, t, p) ==
  /\ x.name = Name(p)
  /\ IsLeaf(t[p]) => x.kind = "file" /\ x.data_index = t[p]
  /\ ~IsLeaf(t[p]) =>
       x.kind = "dir" /\ x.child_index \in Nat \ {0} /\ x.child_count = Kids(t, p)

(* The children of node i, of path pl[i], are laid out, or wait in the queue *)
(* for the place they have been given.                                       *)
IsLaid(t, nd, pl, b, i) ==
  /\ nd[i].child_index + Kids(t, pl[i]) <= b
  /\ \A k \in 0..(Kids(t, pl[i]) - 1) :
       pl[nd[i].child_index + k] = EytzingerOrder(KidsOf(t, pl[i]))[k + 1]

IsQueued(nd, qu, e, pl, i) ==
  \E j \in 1..Len(qu) : qu[j] = pl[i] /\ e[j] = nd[i].child_index

(* The inductive invariant of the flattening: pl are the paths of the b      *)
(* nodes, e the places the children of the queued directories will start at. *)
Flattened(t, nd, b, qu, ci, pl, e) ==
  /\ b \in Nat /\ DOMAIN nd = 0..(b - 1)
  /\ ci \in Nat \ {0} /\ qu \in Seq({Top} \cup Dirs(t)) /\ Chained(qu, e, t, b, ci)
  /\ pl \in [0..(b - 1) -> DOMAIN t]
  /\ \A i \in 0..(b - 1) :
       /\ IsNode(nd[i], t, pl[i])
       /\ ~IsLeaf(t[pl[i]]) => IsLaid(t, nd, pl, b, i) \/ IsQueued(nd, qu, e, pl, i)
  /\ b = 0 => qu = <<Top>>
  /\ b # 0 => pl[0] = <<>> /\ qu \in Seq(Dirs(t))

(* The nodes nd2 are those of nd and the children of the first queued        *)
(* directory, in the order laid.                                             *)
LaysOut(nd2, nd, b, n, t, laid, order, f) ==
  /\ DOMAIN nd2 = 0..(b + n - 1)
  /\ \A i \in 0..(b - 1) : nd2[i] = nd[i]
  /\ \A k \in 0..(n - 1) :
       /\ IsNode(nd2[b + k], t, laid[k + 1])
       /\ ~IsLeaf(t[laid[k + 1]]) => nd2[b + k].child_index = f[IndexOf(order, laid[k + 1])]

LEMMA OneIs ==
  ASSUME NEW x
  PROVE  Tail(<<x>>) = <<>> /\ Head(<<x>>) = x /\ <<x>>[1] = x
OBVIOUS

LEMMA TopIsNoPath == Top \notin TreePath
<1>1. "" \notin Component
  BY DEF Component, Skipped
<1> DEFINE C == Component
<1> HIDE DEF C
<1>2. Top \in Seq(C) => "" \in C
  <2>1. Len(Top) = 1 /\ Top[1] = ""
    BY DEF Top
  <2>2. \A s \in Seq(C) : Len(s) = 1 => s[1] \in C
    OBVIOUS
  <2> QED
    BY <2>1, <2>2
<1> QED
  BY <1>1, <1>2 DEF TreePath, C

LEMMA FlattenStep ==
  ASSUME NEW t, IsTree(t), NEW nd, NEW b, NEW qu, NEW ci, NEW pl, NEW e,
         Flattened(t, nd, b, qu, ci, pl, e), qu # <<>>,
         NEW S, S = KidsOf(t, Head(qu)), NEW order \in Orders(S),
         NEW f, Firsts(f, t, ci, order),
         NEW br \in Seq(Dirs(t)), NEW g, Queues(br, g, t, order, f, Len(order)),
         NEW nd2, NEW n, n = Cardinality(S),
         LaysOut(nd2, nd, b, n, t, EytzingerOrder(S), order, f)
  PROVE  \E pl2, e2 : Flattened(t, nd2, b + n, Tail(qu) \o br, f[n + 1], pl2, e2)
<1> DEFINE h == Head(qu)
           laid == EytzingerOrder(S)
           Q == {Top} \cup Dirs(t)
           qu2 == Tail(qu) \o br
           b2 == b + n
           B == 0..(b2 - 1)
           pl2 == [i \in B |-> IF i < b THEN pl[i] ELSE laid[i - b + 1]]
<1>1. /\ b \in Nat /\ DOMAIN nd = 0..(b - 1)
      /\ ci \in Nat \ {0} /\ qu \in Seq(Q) /\ Chained(qu, e, t, b, ci)
      /\ pl \in [0..(b - 1) -> DOMAIN t]
      /\ \A i \in 0..(b - 1) :
           /\ IsNode(nd[i], t, pl[i])
           /\ ~IsLeaf(t[pl[i]]) => IsLaid(t, nd, pl, b, i) \/ IsQueued(nd, qu, e, pl, i)
      /\ b = 0 => qu = <<Top>>
      /\ b # 0 => pl[0] = <<>> /\ qu \in Seq(Dirs(t))
  BY DEF Flattened
<1>2. h \in Q /\ h = qu[1] /\ Tail(qu) \in Seq(Q)
  <2> HIDE DEF Q
  <2> QED
    BY <1>1
<1>3. Siblings(S) /\ S \subseteq DOMAIN t /\ n = Kids(t, h) /\ n \in Nat
      /\ (h = Top => S = {<<>>})
  BY <1>2, KidsAre DEF Kids
<1>4. SortedBy(laid, S)
  BY <1>3, EytzingerOrderIs
<1>5. laid \in Seq(S) /\ Len(laid) = n
  BY <1>3, <1>4, OrdersAre DEF SortedBy, Siblings
<1>6. order \in Seq(S) /\ Len(order) = n /\ \A p \in S : \E i \in 1..n : order[i] = p
  BY <1>3, OrdersAre DEF Siblings
<1> HIDE DEF laid, h
<1>7. /\ f \in [1..(n + 1) -> Nat \ {0}] /\ f[1] = ci
      /\ Chained(br, g, t, ci, f[n + 1])
      /\ \A i \in 1..n : ~IsLeaf(t[order[i]]) =>
           \E m \in 1..Len(br) : br[m] = order[i] /\ g[m] = f[i]
  BY <1>6 DEF Firsts, Queues
<1>8. /\ DOMAIN nd2 = 0..(b + n - 1)
      /\ \A i \in 0..(b - 1) : nd2[i] = nd[i]
      /\ \A k \in 0..(n - 1) :
           /\ IsNode(nd2[b + k], t, laid[k + 1])
           /\ ~IsLeaf(t[laid[k + 1]]) => nd2[b + k].child_index = f[IndexOf(order, laid[k + 1])]
  BY DEF LaysOut, laid
<1>9. PICK e1 : /\ Chained(Tail(qu), e1, t, b2, ci)
                /\ \A m \in 1..Len(Tail(qu)) : e1[m] = e[m + 1]
  <2> HIDE DEF Q
  <2>1. PICK x : /\ Chained(Tail(qu), x, t, b + Kids(t, Head(qu)), ci)
                 /\ \A m \in 1..Len(Tail(qu)) : x[m] = e[m + 1]
    BY <1>1, ChainTail
  <2> QED
    BY <1>3, <2>1 DEF h
<1> DEFINE D == Dirs(t)
<1>10. br \in Seq(D) /\ Tail(qu) \in Seq(D)
  <2>3. br \in Seq(D)
    OBVIOUS
  <2>4. CASE b = 0
    <3>1. Tail(qu) = <<>>
      BY <1>1, <2>4, OneIs
    <3>2. <<>> \in Seq(D)
      OBVIOUS
    <3> QED
      BY <2>3, <3>1, <3>2
  <2>5. CASE b # 0
    <3>1. qu \in Seq(D)
      BY <1>1, <2>5
    <3> HIDE DEF D
    <3>2. Tail(qu) \in Seq(D)
      BY <3>1
    <3> QED
      BY <2>3, <3>2
  <2> QED
    BY <2>4, <2>5
<1> HIDE DEF D
<1>11. /\ qu2 \in Seq(D) /\ Len(qu2) = Len(Tail(qu)) + Len(br)
       /\ Len(Tail(qu)) \in Nat /\ Len(br) \in Nat
       /\ \A m \in 1..Len(Tail(qu)) : qu2[m] = Tail(qu)[m]
       /\ \A m \in 1..Len(br) : qu2[m + Len(Tail(qu))] = br[m]
  BY <1>10, ConcatIs
<1>12. PICK e2 : /\ Chained(qu2, e2, t, b2, f[n + 1])
                 /\ \A m \in 1..Len(Tail(qu)) : e2[m] = e1[m]
                 /\ \A m \in 1..Len(br) : e2[m + Len(Tail(qu))] = g[m]
  <2>1. PICK x : Chained(qu2, x, t, b2, f[n + 1]) /\ Joins(x, Tail(qu), br, e1, g)
    <3> HIDE DEF b2
    <3> QED
      BY <1>7, <1>9, <1>10, ChainsJoin
  <2> QED
    BY <2>1 DEF Joins
<1> HIDE DEF qu2, b2
<1>13. b2 \in Nat /\ b2 = b + n /\ DOMAIN nd2 = 0..(b2 - 1)
  BY <1>1, <1>3, <1>8 DEF b2
<1>13a. b \in Nat /\ n \in Nat /\ b2 \in Nat /\ b2 = b + n
  BY <1>1, <1>3, <1>13
<1> HIDE DEF B
<1>13b. /\ DOMAIN pl2 = B /\ pl2 = [i \in B |-> pl2[i]]
       /\ \A i \in B : pl2[i] = IF i < b THEN pl[i] ELSE laid[i - b + 1]
  OBVIOUS
<1> HIDE DEF pl2
<1> USE DEF B
<1>14. ASSUME NEW i \in 0..(b - 1) PROVE i \in 0..(b2 - 1) /\ pl2[i] = pl[i] /\ pl[i] \in DOMAIN t
  <2>1. i \in 0..(b2 - 1) /\ i < b
    BY <1>13a
  <2> QED
    BY <1>1, <1>13b, <2>1
<1>15. ASSUME NEW k \in 0..(n - 1)
       PROVE  /\ b + k \in 0..(b2 - 1) /\ pl2[b + k] = laid[k + 1]
              /\ laid[k + 1] \in S /\ laid[k + 1] \in DOMAIN t
  <2>1. b + k \in 0..(b2 - 1) /\ ~(b + k < b) /\ (b + k) - b + 1 = k + 1 /\ k + 1 \in 1..n
    BY <1>13a
  <2>2. laid[k + 1] \in S
    BY <1>5, <2>1
  <2>3. pl2[b + k] = laid[(b + k) - b + 1]
    BY <1>13b, <2>1
  <2> QED
    BY <1>3, <2>1, <2>2, <2>3
<1>16. ASSUME NEW i \in 0..(b2 - 1)
       PROVE  i \in 0..(b - 1) \/ (i - b \in 0..(n - 1) /\ i = b + (i - b))
  BY <1>1, <1>3, <1>13
<1>17. pl2 \in [0..(b2 - 1) -> DOMAIN t]
  <2>1. DOMAIN pl2 = 0..(b2 - 1) /\ pl2 = [i \in 0..(b2 - 1) |-> pl2[i]]
    BY <1>13b
  <2>2. ASSUME NEW i \in 0..(b2 - 1) PROVE pl2[i] \in DOMAIN t
    BY <1>14, <1>15, <1>16
  <2> QED
    BY <2>1, <2>2
<1>18. ASSUME NEW i \in 0..(b - 1)
       PROVE  /\ IsNode(nd2[i], t, pl2[i])
              /\ ~IsLeaf(t[pl2[i]]) => IsLaid(t, nd2, pl2, b2, i) \/ IsQueued(nd2, qu2, e2, pl2, i)
  <2>1. nd2[i] = nd[i] /\ pl2[i] = pl[i] /\ IsNode(nd[i], t, pl[i]) /\ pl[i] \in DOMAIN t
    BY <1>1, <1>8, <1>14
  <2> SUFFICES ASSUME ~IsLeaf(t[pl[i]])
               PROVE  IsLaid(t, nd2, pl2, b2, i) \/ IsQueued(nd2, qu2, e2, pl2, i)
    BY <2>1
  <2> DEFINE c == nd[i].child_index
             m == Kids(t, pl[i])
  <2>2. c \in Nat \ {0} /\ m \in Nat
    <3>1. pl[i] \in Dirs(t)
      BY <2>1 DEF Dirs
    <3> QED
      BY <2>1, <3>1, KidsAre DEF IsNode
  <2>3. CASE IsLaid(t, nd, pl, b, i)
    <3>1. c + m <= b /\ \A k \in 0..(m - 1) : pl[c + k] = EytzingerOrder(KidsOf(t, pl[i]))[k + 1]
      BY <2>3 DEF IsLaid
    <3> HIDE DEF c, m
    <3>2. c + m <= b2
      BY <1>1, <1>3, <1>13, <2>2, <3>1
    <3>3. ASSUME NEW k \in 0..(m - 1) PROVE pl2[c + k] = EytzingerOrder(KidsOf(t, pl[i]))[k + 1]
      <4>1. c + k \in 0..(b - 1)
        BY <1>1, <2>2, <3>1
      <4> QED
        BY <1>14, <3>1, <4>1
    <3> QED
      BY <2>1, <3>2, <3>3 DEF IsLaid, c, m
  <2>4. CASE IsQueued(nd, qu, e, pl, i)
    <3>1. PICK j \in 1..Len(qu) : qu[j] = pl[i] /\ e[j] = c
      BY <2>4 DEF IsQueued
    <3>2. CASE j = 1
      <4>1. h = pl[i] /\ c = b /\ m = n
        BY <1>1, <1>2, <1>3, <3>1, <3>2 DEF Chained
      <4>2. S = KidsOf(t, pl[i])
        BY <4>1 DEF h
      <4>3. c + m <= b2
        BY <1>1, <1>3, <1>13, <4>1
      <4>4. \A k \in 0..(m - 1) : pl2[c + k] = EytzingerOrder(KidsOf(t, pl[i]))[k + 1]
        BY <1>15, <4>1, <4>2 DEF laid
      <4> QED
        BY <2>1, <4>3, <4>4 DEF IsLaid
    <3>3. CASE j # 1
      <4>1. Len(qu) \in Nat /\ Len(Tail(qu)) = Len(qu) - 1
            /\ \A k \in 1..(Len(qu) - 1) : Tail(qu)[k] = qu[k + 1]
        <5> HIDE DEF Q
        <5> QED
          BY <1>1
      <4>2. j - 1 \in 1..Len(Tail(qu)) /\ (j - 1) + 1 = j /\ j - 1 \in 1..Len(qu2)
        BY <1>11, <3>3, <4>1
      <4>3. qu2[j - 1] = pl[i] /\ e2[j - 1] = c
        BY <1>9, <1>11, <1>12, <3>1, <4>1, <4>2
      <4> QED
        BY <2>1, <4>2, <4>3 DEF IsQueued
    <3> QED
      BY <3>2, <3>3
  <2> QED
    BY <1>1, <2>3, <2>4
<1>19. ASSUME NEW k \in 0..(n - 1)
       PROVE  /\ IsNode(nd2[b + k], t, pl2[b + k])
              /\ ~IsLeaf(t[pl2[b + k]]) => IsQueued(nd2, qu2, e2, pl2, b + k)
  <2> DEFINE p == laid[k + 1]
  <2>1. pl2[b + k] = p /\ p \in S
    BY <1>15
  <2>2. IsNode(nd2[b + k], t, p)
    BY <1>8
  <2>3. ASSUME ~IsLeaf(t[p]) PROVE IsQueued(nd2, qu2, e2, pl2, b + k)
    <3> DEFINE i == IndexOf(order, p)
    <3>1. i \in 1..n /\ order[i] = p
      BY <1>6, <2>1 DEF IndexOf
    <3>2. nd2[b + k].child_index = f[i]
      BY <1>8, <2>3
    <3> HIDE DEF i
    <3>3. PICK m \in 1..Len(br) : br[m] = p /\ g[m] = f[i]
      BY <1>7, <2>3, <3>1
    <3>4. m + Len(Tail(qu)) \in 1..Len(qu2)
      BY <1>11
    <3>5. qu2[m + Len(Tail(qu))] = p /\ e2[m + Len(Tail(qu))] = f[i]
      BY <1>11, <1>12, <3>3
    <3> QED
      BY <2>1, <3>2, <3>4, <3>5 DEF IsQueued
  <2> QED
    BY <2>1, <2>2, <2>3
<1>20. ASSUME NEW i \in 0..(b2 - 1)
       PROVE  /\ IsNode(nd2[i], t, pl2[i])
              /\ ~IsLeaf(t[pl2[i]]) => IsLaid(t, nd2, pl2, b2, i) \/ IsQueued(nd2, qu2, e2, pl2, i)
  <2>1. CASE i \in 0..(b - 1)
    BY <1>18, <2>1
  <2>2. CASE i \notin 0..(b - 1)
    <3> DEFINE k == i - b
    <3>1. k \in 0..(n - 1) /\ i = b + k
      BY <1>16, <2>2
    <3> HIDE DEF k
    <3> QED
      BY <1>19, <3>1
  <2> QED
    BY <2>1, <2>2
<1>21. f[n + 1] \in Nat \ {0}
  <2>1. n + 1 \in 1..(n + 1)
    BY <1>3
  <2> QED
    BY <1>7, <2>1
<1>22. b2 # 0 /\ pl2[0] = <<>>
  <2>1. CASE b = 0
    <3>1. h = Top /\ S = {<<>>}
      <4>1. qu = <<Top>>
        BY <1>1, <2>1
      <4>2. h = Top
        BY <4>1, OneIs DEF h
      <4> QED
        BY <1>3, <4>2
    <3>2. n = 1
      BY <3>1, FS_Singleton
    <3>3. 0 \in 0..(n - 1) /\ b + 0 = 0
      BY <2>1, <3>2
    <3>4. pl2[0] \in S
      BY <1>15, <3>3
    <3>5. b2 # 0
      BY <1>13, <2>1, <3>2
    <3>6. pl2[0] = <<>>
      BY <3>1, <3>4
    <3> QED
      BY <3>5, <3>6
  <2>2. CASE b # 0
    <3>1. 0 \in 0..(b - 1)
      BY <1>1, <2>2
    <3> QED
      BY <1>1, <1>3, <1>13, <1>14, <2>2, <3>1
  <2> QED
    BY <2>1, <2>2
<1>23. qu2 \in Seq(Q)
  <2>1. D \subseteq Q
    BY DEF D
  <2> HIDE DEF Q
  <2> QED
    BY <1>11, <2>1
<1>24. Flattened(t, nd2, b2, qu2, f[n + 1], pl2, e2)
  BY <1>11, <1>12, <1>13, <1>17, <1>20, <1>21, <1>22, <1>23 DEF Flattened, D, Q
<1> QED
  BY <1>24 DEF b2, qu2

-----------------------------------------------------------------------------
(* What is flattened when the queue is empty: every directory is laid out.   *)
Complete(t, nd, b, pl) ==
  /\ b \in Nat \ {0} /\ DOMAIN nd = 0..(b - 1)
  /\ pl \in [0..(b - 1) -> DOMAIN t] /\ pl[0] = <<>>
  /\ \A i \in 0..(b - 1) :
       /\ IsNode(nd[i], t, pl[i])
       /\ ~IsLeaf(t[pl[i]]) => IsLaid(t, nd, pl, b, i)

LEMMA FlattenedIsComplete ==
  ASSUME NEW t, NEW nd, NEW b, NEW ci, NEW pl, NEW e,
         Flattened(t, nd, b, <<>>, ci, pl, e)
  PROVE  Complete(t, nd, b, pl)
<1>1. <<>> # <<Top>> /\ Len(<<>>) = 0 /\ \A j \in 1..0 : FALSE
  OBVIOUS
<1>2. /\ b \in Nat /\ DOMAIN nd = 0..(b - 1) /\ pl \in [0..(b - 1) -> DOMAIN t]
      /\ \A i \in 0..(b - 1) :
           /\ IsNode(nd[i], t, pl[i])
           /\ ~IsLeaf(t[pl[i]]) => IsLaid(t, nd, pl, b, i) \/ IsQueued(nd, <<>>, e, pl, i)
      /\ b # 0 /\ pl[0] = <<>>
  BY <1>1 DEF Flattened
<1>3. \A i : ~IsQueued(nd, <<>>, e, pl, i)
  BY <1>1 DEF IsQueued
<1> QED
  BY <1>2, <1>3 DEF Complete

(* The nodes of a directory's children.                                      *)
ChildNodes(t, nd, pl, i) ==
  /\ nd[i].kind = "dir" /\ nd[i].child_index \in Nat \ {0}
  /\ nd[i].child_count = Kids(t, pl[i]) /\ Kids(t, pl[i]) \in Nat
  /\ \A k \in 0..(Kids(t, pl[i]) - 1) :
       LET c == nd[i].child_index + k IN
       /\ c \in DOMAIN nd /\ pl[c] = EytzingerOrder(KidsOf(t, pl[i]))[k + 1]
       /\ pl[c] \in KidsOf(t, pl[i]) /\ nd[c].name = Name(pl[c])
       /\ Name(pl[c]) \in Component

LEMMA ChildNodesAre ==
  ASSUME NEW t, IsTree(t), NEW nd, NEW b, NEW pl, Complete(t, nd, b, pl),
         NEW i \in 0..(b - 1), ~IsLeaf(t[pl[i]])
  PROVE  /\ ChildNodes(t, nd, pl, i)
         /\ SortedBy(EytzingerOrder(KidsOf(t, pl[i])), KidsOf(t, pl[i]))
<1> DEFINE p == pl[i]
           S == KidsOf(t, p)
           m == Kids(t, p)
           c == nd[i].child_index
           laid == EytzingerOrder(S)
<1>1. /\ b \in Nat \ {0} /\ DOMAIN nd = 0..(b - 1) /\ pl \in [0..(b - 1) -> DOMAIN t]
      /\ \A j \in 0..(b - 1) : IsNode(nd[j], t, pl[j])
      /\ IsLaid(t, nd, pl, b, i)
  BY DEF Complete
<1>2. p \in Dirs(t) /\ p # Top
  <2>1. p \in DOMAIN t /\ DOMAIN t \subseteq TreePath
    BY <1>1 DEF IsTree
  <2> QED
    BY <2>1, TopIsNoPath DEF Dirs
<1>3. /\ Siblings(S) /\ m \in Nat /\ \A q \in S : Name(q) \in Component
  BY <1>2, KidsAre
<1>4. SortedBy(laid, S)
  BY <1>3, EytzingerOrderIs
<1>5. laid \in Seq(S) /\ Len(laid) = m
  BY <1>3, <1>4, OrdersAre DEF SortedBy, Siblings, Kids
<1>6. nd[i].kind = "dir" /\ c \in Nat \ {0} /\ nd[i].child_count = m
  BY <1>1 DEF IsNode
<1>7. c + m <= b /\ \A k \in 0..(m - 1) : pl[c + k] = laid[k + 1]
  BY <1>1 DEF IsLaid
<1> HIDE DEF p, S, m, c, laid
<1>8. ASSUME NEW k \in 0..(m - 1)
      PROVE  /\ c + k \in DOMAIN nd /\ pl[c + k] = laid[k + 1]
             /\ pl[c + k] \in S /\ nd[c + k].name = Name(pl[c + k])
             /\ Name(pl[c + k]) \in Component
  <2>1. b \in Nat /\ c \in Nat /\ m \in Nat /\ c + m <= b
    BY <1>1, <1>3, <1>6, <1>7
  <2>2. c + k \in 0..(b - 1) /\ k + 1 \in 1..m
    BY <2>1
  <2>3. laid[k + 1] \in S
    BY <1>5, <2>2
  <2>4. pl[c + k] = laid[k + 1] /\ IsNode(nd[c + k], t, pl[c + k])
    BY <1>1, <1>7, <2>2
  <2> QED
    BY <1>1, <1>3, <2>2, <2>3, <2>4 DEF IsNode
<1> QED
  BY <1>3, <1>4, <1>6, <1>8 DEF ChildNodes, p, S, m, c, laid

LEMMA CompleteIsFilesystem ==
  ASSUME NEW t, IsTree(t), NEW nd, NEW b, NEW pl, Complete(t, nd, b, pl)
  PROVE  IsFilesystem(nd)
<1>1. /\ b \in Nat \ {0} /\ DOMAIN nd = 0..(b - 1) /\ pl \in [0..(b - 1) -> DOMAIN t]
      /\ \A j \in 0..(b - 1) : IsNode(nd[j], t, pl[j])
  BY DEF Complete
<1>2. Cardinality(DOMAIN nd) = b
  <2>1. b \in Nat \ {0} /\ 0 \in Int /\ b - 1 \in Int
    BY <1>1
  <2>2. Cardinality(0..(b - 1)) = IF 0 > b - 1 THEN 0 ELSE (b - 1) - 0 + 1
    BY <2>1, FS_Interval
  <2>3. Cardinality(0..(b - 1)) = b
    BY <2>1, <2>2
  <2> QED
    BY <1>1, <2>3
<1>3. DOMAIN nd = 0..(Cardinality(DOMAIN nd) - 1) /\ 0 \in DOMAIN nd
  <2>1. 0 \in 0..(b - 1)
    BY <1>1
  <2> QED
    BY <1>1, <1>2, <2>1
<1>4. ASSUME NEW i \in DOMAIN nd PROVE nd[i].kind \in {"file", "dir"}
  BY <1>1 DEF IsNode
<1>5. ASSUME NEW i \in DOMAIN nd, nd[i].kind = "dir"
      PROVE  /\ nd[i].child_index \in Nat \ {0} /\ nd[i].child_count \in Nat
             /\ Children(nd, i) \subseteq DOMAIN nd
             /\ InEytzingerOrder(nd, nd[i].child_index, nd[i].child_count)
             /\ \A c \in Children(nd, i) :
                  nd[c].name \in DOMAIN Rank \ {"", ".", ".."} /\ Lower[nd[c].name] = nd[c].name
  <2> DEFINE S == KidsOf(t, pl[i])
             m == Kids(t, pl[i])
             c == nd[i].child_index
             laid == EytzingerOrder(S)
  <2>1. i \in 0..(b - 1) /\ ~IsLeaf(t[pl[i]])
    BY <1>1, <1>5 DEF IsNode
  <2>2. ChildNodes(t, nd, pl, i) /\ SortedBy(laid, S)
    BY <2>1, ChildNodesAre
  <2>3. /\ c \in Nat \ {0} /\ nd[i].child_count = m /\ m \in Nat
        /\ \A k \in 0..(m - 1) :
             /\ c + k \in DOMAIN nd /\ pl[c + k] = laid[k + 1]
             /\ nd[c + k].name = Name(laid[k + 1]) /\ nd[c + k].name \in Component
    BY <2>2 DEF ChildNodes
  <2>4. m = Cardinality(S)
    BY DEF Kids
  <2>5. \A j, k \in 0..(m - 1) :
          /\ Left(k, j) => Rank[Name(laid[k + 1])] < Rank[Name(laid[j + 1])]
          /\ Right(k, j) => Rank[Name(laid[j + 1])] < Rank[Name(laid[k + 1])]
    BY <2>2, <2>4 DEF SortedBy
  <2> HIDE DEF S, m, c, laid
  <2>6. InEytzingerOrder(nd, c, m)
    BY <2>3, <2>5 DEF InEytzingerOrder, Left, Right
  <2>7. Children(nd, i) = { c + k : k \in 0..(m - 1) }
    BY <2>3 DEF Children, c
  <2>8. \A x \in Children(nd, i) : x \in DOMAIN nd /\ nd[x].name \in Component
    BY <2>3, <2>7
  <2>9. \A x \in Component : x \in DOMAIN Rank \ {"", ".", ".."} /\ Lower[x] = x
    BY DEF Component, Skipped
  <2> QED
    BY <2>3, <2>6, <2>8, <2>9 DEF c
<1> QED
  BY <1>3, <1>4, <1>5 DEF IsFilesystem

(* What a step finds is a child of that name.                                *)
HasChild(n, i, c) ==
  \E k \in 0..(n[i].child_count - 1) : n[n[i].child_index + k].name = c

LEMMA StepFindsName ==
  ASSUME NEW n, IsFilesystem(n), NEW i \in DOMAIN n, NEW c, Step(n, i, c) # NotFound
  PROVE  HasChild(n, i, c)
<1> DEFINE first == n[i].child_index
           count == n[i].child_count
<1>1. n[i].kind = "dir" /\ Step(n, i, c) = Search(n, first, count, c)
  BY DEF Step
<1>2. first \in Nat /\ count \in Nat
  BY <1>1, ChildIs
<1> HIDE DEF first, count
<1>3. \E k \in 0..(count - 1) :
        Search(n, first, count, c) = first + k /\ n[first + k].name = c
  <2>1. Search(n, first, count, c) # NotFound
    BY <1>1
  <2> QED
    BY <1>2, <2>1, SearchFindsOnly
<1> QED
  BY <1>3 DEF first, count, HasChild

(* Where a path leads from the root.                                         *)
LeadsTo(nd, t, pl, b, s, i) ==
  IF s \in DOMAIN t THEN i \in 0..(b - 1) /\ pl[i] = s ELSE i = NotFound

(* Where a step leads from a path of the tree.                               *)
LEMMA StepInTree ==
  ASSUME NEW t, IsTree(t), NEW nd, NEW b, NEW pl, Complete(t, nd, b, pl),
         NEW X, Component \subseteq X, NEW s \in DOMAIN t, NEW x \in X,
         NEW i \in 0..(b - 1), pl[i] = s
  PROVE  LeadsTo(nd, t, pl, b, Append(s, x), Step(nd, i, x))
<1> DEFINE u == Append(s, x)
           L == Len(s)
           S == KidsOf(t, s)
           m == Kids(t, s)
           c == nd[i].child_index
           laid == EytzingerOrder(S)
<1>1. IsFilesystem(nd) /\ DOMAIN nd = 0..(b - 1) /\ i \in DOMAIN nd /\ IsNode(nd[i], t, s)
  BY CompleteIsFilesystem DEF Complete
<1>2. s \in TreePath /\ s # Top /\ DOMAIN t \subseteq TreePath
  BY TopIsNoPath DEF IsTree
<1>3. s \in Seq(X) /\ \A q \in DOMAIN t : q \in Seq(X)
  <2> DEFINE C == Component
  <2>1. s \in Seq(C) /\ DOMAIN t \subseteq Seq(C) /\ C \subseteq X
    BY <1>2 DEF TreePath
  <2> HIDE DEF C
  <2> QED
    BY <2>1
<1>4. /\ L \in Nat /\ u \in Seq(X) /\ Len(u) = L + 1 /\ u[L + 1] = x
      /\ \A k \in 1..L : u[k] = s[k]
  BY <1>3
<1> HIDE DEF u, L
<1>5. IsPrefixOf(s, u) /\ s # u /\ Name(u) = x
  <2>1. u # <<>> /\ L <= L + 1 /\ L # L + 1
    BY <1>4
  <2> QED
    BY <1>4, <2>1 DEF IsPrefixOf, Name, L
<1>6. CASE IsLeaf(t[s])
  <2>1. Step(nd, i, x) = NotFound
    BY <1>1, <1>6 DEF IsNode, Step
  <2>2. u \notin DOMAIN t
    BY <1>2, <1>5, <1>6 DEF IsTree, IsLeaf
  <2> QED
    BY <2>1, <2>2 DEF LeadsTo, u
<1>7. CASE ~IsLeaf(t[s])
  <2>1. ChildNodes(t, nd, pl, i) /\ SortedBy(laid, S)
    BY <1>7, ChildNodesAre
  <2>2. /\ nd[i].kind = "dir" /\ c \in Nat \ {0} /\ nd[i].child_count = m /\ m \in Nat
        /\ \A k \in 0..(m - 1) :
             /\ c + k \in DOMAIN nd /\ pl[c + k] = laid[k + 1]
             /\ pl[c + k] \in S /\ nd[c + k].name = Name(pl[c + k])
    BY <2>1 DEF ChildNodes
  <2>3. S = { q \in DOMAIN t : Len(q) = L + 1 /\ IsPrefixOf(s, q) }
    BY <1>2 DEF KidsOf, L
  <2>4. s \in {Top} \cup Dirs(t)
    BY <1>7 DEF Dirs
  <2>5. Siblings(S) /\ m = Cardinality(S)
    BY <2>4, KidsAre DEF Kids
  <2> HIDE DEF S, m, c
  <2>6. CASE u \in DOMAIN t
    <3>1. u \in S
      BY <1>4, <1>5, <2>3, <2>6
    <3>2. PICK j \in 1..m : laid[j] = u
      BY <2>1, <2>5, <3>1, OrdersAre DEF SortedBy, Siblings
    <3> DEFINE k == j - 1
    <3>3. k \in 0..(m - 1) /\ k + 1 = j
      BY <2>2
    <3> HIDE DEF k, laid
    <3>4. c + k \in DOMAIN nd /\ pl[c + k] = u /\ nd[c + k].name = x
      BY <1>5, <2>2, <3>2, <3>3
    <3>5. Step(nd, i, nd[c + k].name) = c + k
      <4>1. Rank \in [DOMAIN Rank -> Nat]
        BY RofsBuildAssumption
      <4>2. k \in 0..(nd[i].child_count - 1) /\ nd[i].kind = "dir"
        BY <2>2, <3>3
      <4> QED
        BY <1>1, <4>1, <4>2, StepFindsAll DEF c
    <3> QED
      BY <1>1, <2>6, <3>4, <3>5 DEF LeadsTo, u
  <2>7. CASE u \notin DOMAIN t
    <3> SUFFICES ASSUME Step(nd, i, x) # NotFound PROVE FALSE
      BY <2>7 DEF LeadsTo, u
    <3> HIDE DEF laid
    <3>1. HasChild(nd, i, x)
      BY <1>1, StepFindsName
    <3>2. PICK k \in 0..(m - 1) : nd[c + k].name = x
      BY <2>2, <3>1 DEF c, HasChild
    <3> DEFINE q == pl[c + k]
    <3>3. q \in S /\ Name(q) = x
      BY <2>2, <3>2
    <3> HIDE DEF q
    <3>4. q \in DOMAIN t /\ Len(q) = L + 1 /\ IsPrefixOf(s, q) /\ q \in Seq(X)
      BY <1>3, <2>3, <3>3
    <3>5. q[L + 1] = x
      <4>1. q # <<>>
        BY <1>4, <3>4
      <4> QED
        BY <3>3, <3>4, <4>1 DEF Name
    <3>6. \A j \in 1..L : q[j] = s[j]
      BY <3>4 DEF IsPrefixOf, L
    <3>7. \A j \in 1..(L + 1) : q[j] = u[j]
      BY <1>4, <3>5, <3>6
    <3>8. q = u
      BY <1>4, <3>4, <3>7
    <3> QED
      BY <2>7, <3>4, <3>8
  <2> QED
    BY <2>6, <2>7
<1> QED
  BY <1>6, <1>7

LEMMA WalkInTree ==
  ASSUME NEW t, IsTree(t), NEW nd, NEW b, NEW pl, Complete(t, nd, b, pl),
         NEW X, Component \subseteq X, NEW s \in Seq(X)
  PROVE  LeadsTo(nd, t, pl, b, s, IndexByPath(nd, 0, s))
<1> DEFINE d == Len(s)
           Front(k) == SubSeq(s, 1, k)
<1>1. d \in Nat
  OBVIOUS
<1>2. PICK f : f = WalkFrom(nd, 0, s, f) /\ IndexByPath(nd, 0, s) = f[d]
  BY <1>1, WalkIs
<1>3. f[0] = 0 /\ \A k \in 1..d : f[k] = Step(nd, f[k - 1], s[k])
  BY <1>1, <1>2 DEF WalkFrom
<1> DEFINE In == { k \in 0..d : LeadsTo(nd, t, pl, b, Front(k), f[k]) }
<1>4. 0 \in In
  <2>1. Front(0) = <<>>
    OBVIOUS
  <2>2. <<>> \in DOMAIN t /\ 0 \in 0..(b - 1) /\ pl[0] = <<>>
    BY DEF IsTree, Complete
  <2>3. LeadsTo(nd, t, pl, b, <<>>, f[0])
    BY <1>3, <2>2 DEF LeadsTo
  <2>4. 0 \in 0..d
    BY <1>1
  <2> QED
    BY <2>1, <2>3, <2>4
<1>5. ASSUME NEW k \in 0..d - 1, k \in In PROVE k + 1 \in In
  <2> DEFINE p == Front(k)
             x == s[k + 1]
  <2>1. k + 1 \in 1..d /\ k + 1 \in 0..d /\ (k + 1) - 1 = k
    BY <1>1
  <2>2. x \in X /\ p \in Seq(X) /\ Len(p) = k /\ Front(k + 1) = Append(p, x)
    <3>1. SubSeq(s, 1, k + 1) = Append(SubSeq(s, 1, (k + 1) - 1), s[k + 1])
      BY <2>1, FrontGrows
    <3>2. k \in 0..Len(s)
      BY <1>1
    <3>3. p \in Seq(X) /\ Len(p) = k
      BY <3>2
    <3> QED
      BY <2>1, <3>1, <3>3
  <2>3. f[k + 1] = Step(nd, f[k], x)
    BY <1>3, <2>1
  <2>4. LeadsTo(nd, t, pl, b, p, f[k])
    BY <1>5
  <2> HIDE DEF p, x, Front
  <2>5. CASE p \in DOMAIN t
    <3>1. f[k] \in 0..(b - 1) /\ pl[f[k]] = p
      BY <2>4, <2>5 DEF LeadsTo
    <3>2. LeadsTo(nd, t, pl, b, Append(p, x), Step(nd, f[k], x))
      BY <2>2, <2>5, <3>1, StepInTree
    <3> QED
      BY <2>1, <2>2, <2>3, <3>2
  <2>6. CASE p \notin DOMAIN t
    <3>1. f[k] = NotFound
      BY <2>4, <2>6 DEF LeadsTo
    <3>2. f[k + 1] = NotFound
      BY <2>3, <3>1, CompleteIsFilesystem, StepOfNone
    <3>3. Append(p, x) \notin DOMAIN t
      <4> SUFFICES ASSUME Append(p, x) \in DOMAIN t PROVE FALSE
        OBVIOUS
      <4> DEFINE u == Append(p, x)
                 C == Component
      <4>1. u \in Seq(C)
        BY DEF IsTree, TreePath
      <4>2. Len(u) = k + 1 /\ \A j \in 1..k : u[j] = p[j]
        BY <2>2
      <4> HIDE DEF u, C
      <4>3. \A j \in 1..k : p[j] \in C
        BY <2>1, <4>1, <4>2
      <4>4. p \in Seq(C)
        BY <2>2, <4>3
      <4>5. IsPrefixOf(p, u) /\ p # u
        BY <2>1, <2>2, <4>2 DEF IsPrefixOf
      <4>6. p \in TreePath /\ u \in DOMAIN t
        BY <4>4 DEF TreePath, C, u
      <4> QED
        BY <2>6, <4>5, <4>6 DEF IsTree
    <3> QED
      BY <2>1, <2>2, <3>2, <3>3 DEF LeadsTo
  <2> QED
    BY <2>5, <2>6
<1> HIDE DEF In
<1>6. d \in In
  <2>1. d \in 0..d
    BY <1>1
  <2> HIDE DEF d
  <2> QED
    BY <1>1, <1>4, <1>5, <2>1, UpTo
<1>7. Front(d) = s
  OBVIOUS
<1> QED
  BY <1>2, <1>6, <1>7 DEF In

-----------------------------------------------------------------------------
LEMMA KidsFinite ==
  ASSUME NEW t, IsTree(t), NEW p
  PROVE  Kids(t, p) \in Nat
<1>1. KidsOf(t, p) \in SUBSET (DOMAIN t)
  BY DEF KidsOf
<1>2. IsFiniteSet(DOMAIN t)
  BY DEF IsTree
<1>3. IsFiniteSet(KidsOf(t, p))
  BY <1>1, <1>2, FS_Subset
<1> QED
  BY <1>3, FS_CardinalityType DEF Kids

LEMMA IntervalSize ==
  ASSUME NEW b \in Nat
  PROVE  Cardinality(0..(b - 1)) = b
<1>1. 0 \in Int /\ b - 1 \in Int
  OBVIOUS
<1>2. Cardinality(0..(b - 1)) = IF 0 > b - 1 THEN 0 ELSE (b - 1) - 0 + 1
  BY <1>1, FS_Interval
<1> QED
  BY <1>2

(* What is left of the reduce is a tree, unless there was no archive.        *)
LEMMA ReducedToTree ==
  ASSUME MergeInv, Len(objs) <= 1, DOMAIN tree # {}
  PROVE  IsTree(tree)
<1>1. objs # <<>>
  BY DEF tree, obj, Default
<1>2. PICK cut : Grouped(objs, Trees, Len(archives), cut, Done)
  BY DEF MergeInv
<1>3. 1 \in 1..Len(objs)
  BY <1>1 DEF MergeInv
<1>4. IsTree(objs[1].tree)
  BY <1>2, <1>3 DEF Grouped, Unites
<1> QED
  BY <1>1, <1>4 DEF tree, obj

(* The flattening so far.                                                    *)
FlattenedSoFar ==
  \E pl, e : Flattened(tree, nodes, Cardinality(DOMAIN nodes), queue, child_index, pl, e)

FlattenInv ==
  /\ stage \in {"new", "reduce"} => nodes = <<>> /\ queue = <<>> /\ child_index = 1
  /\ stage = "done" => queue = <<>>
  /\ stage \in {"flatten", "done"} /\ DOMAIN tree # {} => FlattenedSoFar

LEMMA FlattenStarts ==
  ASSUME NEW t, IsTree(t)
  PROVE  \E pl, e : Flattened(t, <<>>, 0, <<Top>>, 1, pl, e)
<1> DEFINE pl == [i \in 0..(0 - 1) |-> <<>>]
           e == [m \in 1..2 |-> IF m = 1 THEN 0 ELSE 1]
           Q == {Top} \cup Dirs(t)
           qu == <<Top>>
           none == <<>>
<1>1. \A i \in 0..(0 - 1) : FALSE
  OBVIOUS
<1>2. DOMAIN none = 0..(0 - 1)
  OBVIOUS
<1>3. pl \in [0..(0 - 1) -> DOMAIN t]
  BY <1>1
<1>4. Kids(t, Top) = 1
  <2>1. KidsOf(t, Top) = {<<>>}
    BY KidsAre
  <2> QED
    BY <2>1, FS_Singleton DEF Kids
<1>5. e \in [1..2 -> Nat] /\ e[1] = 0 /\ e[2] = 1
  OBVIOUS
<1>6. Top \in Q
  OBVIOUS
<1> HIDE DEF Q, e, pl, none
<1>7. qu \in Seq(Q) /\ Len(qu) = 1 /\ qu[1] = Top
  BY <1>6
<1> HIDE DEF qu
<1>8. Chained(qu, e, t, 0, 1)
  <2>1. e[1 + 1] = e[1] + Kids(t, qu[1])
    BY <1>4, <1>5, <1>7
  <2>2. \A m \in 1..Len(qu) : m = 1
    BY <1>7
  <2>3. Len(qu) + 1 = 2
    BY <1>7
  <2> QED
    BY <1>5, <2>1, <2>2, <2>3 DEF Chained
<1>9. 0 \in Nat /\ 1 \in Nat \ {0}
  OBVIOUS
<1>10. Flattened(t, none, 0, qu, 1, pl, e)
  BY <1>1, <1>2, <1>3, <1>7, <1>8, <1>9 DEF Flattened, Q, qu
<1> QED
  BY <1>10 DEF none, qu

LEMMA BranchStep ==
  ASSUME MergeInv, FlattenInv, FlattenBranch, DOMAIN tree # {}
  PROVE  FlattenedSoFar'
<1> DEFINE b == Cardinality(DOMAIN nodes)
           S == ChildrenOf(Head(queue))
           n == Cardinality(S)
           laid == EytzingerOrder(S)
<1>1. stage = "flatten" /\ queue # <<>> /\ objs' = objs
  BY DEF FlattenBranch
<1>2. IsTree(tree) /\ tree' = tree
  <2>1. IsTree(tree)
    BY <1>1, ReducedToTree DEF MergeInv
  <2> QED
    BY <1>1, <2>1 DEF tree, obj
<1>3. PICK pl, e : Flattened(tree, nodes, b, queue, child_index, pl, e)
  BY <1>1 DEF FlattenInv, FlattenedSoFar
<1>4. /\ b \in Nat /\ DOMAIN nodes = 0..(b - 1) /\ child_index \in Nat \ {0}
      /\ Head(queue) \in {Top} \cup Dirs(tree)
  <2> DEFINE Q == {Top} \cup Dirs(tree)
  <2>1. b \in Nat /\ DOMAIN nodes = 0..(b - 1) /\ child_index \in Nat \ {0} /\ queue \in Seq(Q)
    BY <1>3 DEF Flattened
  <2> HIDE DEF Q, b
  <2>2. Head(queue) \in Q
    BY <1>1, <2>1
  <2> QED
    BY <2>1, <2>2 DEF Q
<1>5. S = KidsOf(tree, Head(queue))
  BY ChildrenAre
<1>6. Siblings(S) /\ S \subseteq DOMAIN tree /\ n \in Nat /\ IsFiniteSet(S)
  <2>1. Siblings(S) /\ S \subseteq DOMAIN tree
    BY <1>2, <1>4, <1>5, KidsAre
  <2> QED
    BY <2>1, FS_CardinalityType DEF Siblings
<1>7. PICK order \in Orders(S) :
        /\ nodes' = [i \in 0..(b + Len(order) - 1) |->
                       IF i < b THEN nodes[i]
                       ELSE IF IsLeaf(tree[laid[i - b + 1]])
                       THEN [kind |-> "file", name |-> Name(laid[i - b + 1]),
                             data_index |-> tree[laid[i - b + 1]]]
                       ELSE [kind |-> "dir", name |-> Name(laid[i - b + 1]),
                             child_index |-> FirstChild(order)[IndexOf(order, laid[i - b + 1])],
                             child_count |-> Cardinality(ChildrenOf(laid[i - b + 1]))]]
        /\ child_index' = FirstChild(order)[Len(order) + 1]
        /\ queue' = Tail(queue) \o Branches(order)
  BY DEF FlattenBranch
<1> DEFINE f == FirstChild(order)
           br == Branches(order)
<1> HIDE DEF b, S, n, laid
<1>8. /\ order \in Seq(S) /\ Len(order) = n
      /\ \A q \in S : \E i \in 1..Len(order) : order[i] = q
  BY <1>6, OrdersAre DEF n
<1>9. /\ laid \in Seq(S) /\ Len(laid) = n
  <2>1. SortedBy(laid, S)
    BY <1>6, EytzingerOrderIs DEF laid
  <2> QED
    BY <1>6, <2>1, OrdersAre DEF SortedBy, n
<1>10. \A q \in S : Kids(tree, q) \in Nat
  BY <1>2, KidsFinite
<1>11. Firsts(f, tree, child_index, order)
  BY <1>4, <1>8, <1>10, FirstChildIs
<1> HIDE DEF f
<1>12. /\ br \in Seq({ q \in S : ~IsLeaf(tree[q]) })
       /\ \E g : Queues(br, g, tree, order, f, Len(order))
  BY <1>8, <1>10, <1>11, BranchesAre
<1> HIDE DEF br
<1>13. br \in Seq(Dirs(tree))
  <2> DEFINE D == { q \in S : ~IsLeaf(tree[q]) }
             E == Dirs(tree)
  <2>1. D \subseteq E
    BY <1>6 DEF Dirs
  <2>2. br \in Seq(D)
    BY <1>12
  <2> HIDE DEF D, E
  <2>3. br \in Seq(E)
    BY <2>1, <2>2
  <2> QED
    BY <2>3 DEF E
<1>14. PICK g : Queues(br, g, tree, order, f, Len(order))
  BY <1>12
<1> DEFINE nd == nodes'
           node(q) ==
             IF IsLeaf(tree[q])
             THEN [kind |-> "file", name |-> Name(q), data_index |-> tree[q]]
             ELSE [kind |-> "dir", name |-> Name(q), child_index |-> f[IndexOf(order, q)],
                   child_count |-> Cardinality(ChildrenOf(q))]
<1>15. nd = [i \in 0..(b + n - 1) |-> IF i < b THEN nodes[i] ELSE node(laid[i - b + 1])]
  BY <1>7, <1>8 DEF f
<1>16. ASSUME NEW q \in S
       PROVE  /\ IsNode(node(q), tree, q)
              /\ ~IsLeaf(tree[q]) => node(q).child_index = f[IndexOf(order, q)]
  <2>1. CASE IsLeaf(tree[q])
    BY <2>1 DEF IsNode
  <2>2. CASE ~IsLeaf(tree[q])
    <3>1. Cardinality(ChildrenOf(q)) = Kids(tree, q)
      BY ChildrenAre DEF Kids
    <3>2. IndexOf(order, q) \in 1..Len(order)
      BY <1>8 DEF IndexOf
    <3>3. f[IndexOf(order, q)] \in Nat \ {0}
      <4>1. IndexOf(order, q) \in 1..(Len(order) + 1)
        BY <1>6, <1>8, <3>2
      <4> QED
        BY <1>11, <4>1 DEF Firsts
    <3>4. node(q) = [kind |-> "dir", name |-> Name(q), child_index |-> f[IndexOf(order, q)],
                     child_count |-> Cardinality(ChildrenOf(q))]
      BY <2>2
    <3> QED
      BY <2>2, <3>1, <3>3, <3>4 DEF IsNode
  <2> QED
    BY <2>1, <2>2
<1> HIDE DEF node, nd
<1>17. LaysOut(nd, nodes, b, n, tree, laid, order, f)
  <2>1. DOMAIN nd = 0..(b + n - 1)
    BY <1>15
  <2>2. \A i \in 0..(b - 1) : nd[i] = nodes[i]
    <3>1. \A i \in 0..(b - 1) : i \in 0..(b + n - 1) /\ i < b
      BY <1>4, <1>6
    <3> QED
      BY <1>15, <3>1
  <2>3. ASSUME NEW k \in 0..(n - 1)
        PROVE  nd[b + k] = node(laid[k + 1]) /\ laid[k + 1] \in S
    <3>1. b + k \in 0..(b + n - 1) /\ ~(b + k < b) /\ (b + k) - b + 1 = k + 1 /\ k + 1 \in 1..n
      BY <1>4, <1>6
    <3> QED
      BY <1>9, <1>15, <3>1
  <2> QED
    BY <1>16, <2>1, <2>2, <2>3 DEF LaysOut
<1>18. \E pl2, e2 : Flattened(tree, nd, b + n, Tail(queue) \o br, f[n + 1], pl2, e2)
  <2>1. n = Cardinality(S)
    BY DEF n
  <2>2. LaysOut(nd, nodes, b, n, tree, EytzingerOrder(S), order, f)
    BY <1>17 DEF laid
  <2> QED
    BY <1>1, <1>2, <1>3, <1>5, <1>11, <1>13, <1>14, <2>1, <2>2, FlattenStep
<1>19. Cardinality(DOMAIN nd) = b + n
  <2>1. b + n \in Nat /\ DOMAIN nd = 0..((b + n) - 1)
    BY <1>4, <1>6, <1>15
  <2> QED
    BY <2>1, IntervalSize
<1>20. queue' = Tail(queue) \o br /\ child_index' = f[n + 1]
  BY <1>7, <1>8 DEF f, br
<1> QED
  BY <1>2, <1>18, <1>19, <1>20 DEF FlattenedSoFar, nd

LEMMA FlattenInitInv == BuildInit => FlattenInv
BY DEF BuildInit, FlattenInv

LEMMA FlattenStepInv == MergeInv /\ FlattenInv /\ [BuildNext]_buildVars => FlattenInv'
<1> SUFFICES ASSUME MergeInv, FlattenInv, [BuildNext]_buildVars PROVE FlattenInv'
  OBVIOUS
<1>1. ASSUME objs' = objs PROVE tree' = tree
  BY <1>1 DEF tree, obj
<1>2. ASSUME UNCHANGED <<objs, queue, nodes, child_index>>, FlattenedSoFar
      PROVE  FlattenedSoFar'
  BY <1>1, <1>2 DEF FlattenedSoFar
<1>3. CASE NewObject
  BY <1>3 DEF NewObject, FlattenInv
<1>4. CASE StartReduce
  BY <1>4 DEF StartReduce, FlattenInv
<1>5. CASE Reduce
  BY <1>5 DEF Reduce, FlattenInv
<1>6. CASE StartFlatten
  <2>1. /\ stage = "reduce" /\ stage' = "flatten" /\ queue' = <<Top>> /\ objs' = objs
        /\ nodes' = nodes /\ child_index' = child_index /\ Len(objs) <= 1
    BY <1>6 DEF StartFlatten
  <2>2. nodes' = <<>> /\ child_index' = 1
    BY <2>1 DEF FlattenInv
  <2>3. ASSUME DOMAIN tree # {} PROVE FlattenedSoFar'
    <3>1. IsTree(tree)
      BY <2>1, <2>3, ReducedToTree
    <3>2. \E pl, e : Flattened(tree, <<>>, 0, <<Top>>, 1, pl, e)
      BY <3>1, FlattenStarts
    <3>3. Cardinality(DOMAIN <<>>) = 0
      <4>1. DOMAIN <<>> = {}
        OBVIOUS
      <4> QED
        BY <4>1, FS_EmptySet
    <3> QED
      BY <1>1, <2>1, <2>2, <3>2, <3>3 DEF FlattenedSoFar
  <2>4. DOMAIN tree' # {} => FlattenedSoFar'
    BY <1>1, <2>1, <2>3
  <2> QED
    BY <2>1, <2>4 DEF FlattenInv
<1>7. CASE FlattenBranch
  <2>1. stage = "flatten" /\ stage' = stage /\ objs' = objs
    BY <1>7 DEF FlattenBranch
  <2>2. ASSUME DOMAIN tree # {} PROVE FlattenedSoFar'
    BY <1>7, <2>2, BranchStep
  <2> QED
    BY <1>1, <2>1, <2>2 DEF FlattenInv
<1>8. CASE FlattenDone
  <2>1. /\ stage = "flatten" /\ stage' = "done" /\ queue = <<>> /\ queue' = queue
        /\ UNCHANGED <<objs, queue, nodes, child_index>>
    BY <1>8 DEF FlattenDone
  <2>2. DOMAIN tree # {} => FlattenedSoFar'
    BY <1>2, <2>1 DEF FlattenInv
  <2> QED
    BY <1>1, <2>1, <2>2 DEF FlattenInv
<1>9. CASE UNCHANGED buildVars
  <2>1. UNCHANGED <<stage, objs, queue, nodes, child_index>>
    BY <1>9 DEF buildVars
  <2>2. stage \in {"flatten", "done"} /\ DOMAIN tree # {} => FlattenedSoFar'
    BY <1>2, <2>1 DEF FlattenInv
  <2> QED
    BY <1>1, <2>1, <2>2 DEF FlattenInv
<1>10. CASE Mounted
  BY <1>9, <1>10 DEF Mounted
<1> QED
  BY <1>3, <1>4, <1>5, <1>6, <1>7, <1>8, <1>9, <1>10 DEF BuildNext

(* A query, as it is spelled and in lower case, over one set of names.       *)
Spelled == DOMAIN Lower \cup Component

LEMMA QueryIs ==
  ASSUME NEW q \in Queries
  PROVE  /\ Normalize(q) \in Seq(Spelled) /\ LowerPath(Normalize(q)) \in TreePath
         /\ LowerPath(Normalize(q)) \in Seq(Spelled)
<1> DEFINE A == DOMAIN Lower
           S == A \ Skipped
           X == Spelled
           C == Component
           r == Normalize(q)
           l == LowerPath(r)
<1>1. q \in Seq(A)
  BY RofsBuildAssumption
<1>2. r \in Seq(S) /\ l \in Seq(C)
  BY <1>1, NormalIsNames, LowerIsTreePath DEF TreePath
<1>3. S \subseteq X /\ C \subseteq X
  BY DEF Spelled
<1> HIDE DEF S, X, C, r, l
<1>4. r \in Seq(X) /\ l \in Seq(X)
  BY <1>2, <1>3
<1> QED
  BY <1>2, <1>4 DEF X, C, r, l, TreePath

(* A path of the tree is spelled in lower case.                              *)
LEMMA TreeIsLower ==
  ASSUME NEW p \in TreePath
  PROVE  LowerPath(p) = p
<1> DEFINE C == Component
<1>1. p \in Seq(C)
  BY DEF TreePath
<1>2. \A c \in C : Lower[c] = c
  BY DEF Component
<1> HIDE DEF C
<1>3. p = [i \in 1..Len(p) |-> p[i]] /\ \A i \in 1..Len(p) : Lower[p[i]] = p[i]
  BY <1>1, <1>2
<1>4. [i \in 1..Len(p) |-> Lower[p[i]]] = [i \in 1..Len(p) |-> p[i]]
  BY <1>3
<1> QED
  BY <1>3, <1>4 DEF LowerPath

(* Whatever the spelling, the search ends where the lower case path leads.   *)
LEMMA IgnoreCaseInTree ==
  ASSUME NEW t, IsTree(t), NEW nd, NEW b, NEW pl, Complete(t, nd, b, pl),
         NEW r \in Seq(Spelled), LowerPath(r) \in TreePath, LowerPath(r) \in Seq(Spelled)
  PROVE  LeadsTo(nd, t, pl, b, LowerPath(r), IndexIgnoreCase(nd, 0, r))
<1> DEFINE l == LowerPath(r)
           i == IndexByPath(nd, 0, r)
           j == IndexByPath(nd, 0, l)
<1>1. Component \subseteq Spelled
  BY DEF Spelled
<1>2. LeadsTo(nd, t, pl, b, r, i) /\ LeadsTo(nd, t, pl, b, l, j)
  <2> DEFINE X == Spelled
  <2>1. r \in Seq(X) /\ l \in Seq(X) /\ Component \subseteq X
    BY <1>1
  <2> HIDE DEF X, l
  <2>2. LeadsTo(nd, t, pl, b, r, IndexByPath(nd, 0, r))
    BY <2>1, WalkInTree
  <2>3. LeadsTo(nd, t, pl, b, l, IndexByPath(nd, 0, l))
    BY <2>1, WalkInTree
  <2> QED
    BY <2>2, <2>3
<1>3. IndexIgnoreCase(nd, 0, r) =
        IF i # NotFound THEN i ELSE IF l = r THEN NotFound ELSE j
  BY DEF IndexIgnoreCase
<1> HIDE DEF i, j, l
<1>4. CASE r \in DOMAIN t
  <2>1. l = r
    BY <1>4, TreeIsLower DEF IsTree, l
  <2>2. i \in 0..(b - 1)
    BY <1>2, <1>4 DEF LeadsTo
  <2>3. i # NotFound
    BY <2>2 DEF NotFound
  <2> QED
    BY <1>2, <1>3, <2>1, <2>3 DEF l
<1>5. CASE r \notin DOMAIN t
  <2>1. i = NotFound
    BY <1>2, <1>5 DEF LeadsTo
  <2>2. CASE l = r
    BY <1>2, <1>3, <2>1, <2>2 DEF l
  <2>3. CASE l # r
    BY <1>2, <1>3, <2>1, <2>3 DEF l
  <2> QED
    BY <2>2, <2>3
<1> QED
  BY <1>4, <1>5

(* The archives merged and flattened, lookup agrees with the merged tree: a  *)
(* filesystem as the mounts count on, in which each query finds the node of  *)
(* its path, in whatever spelling, and nothing else is found - for every set *)
(* of archives, grouping of the reduce and order of the hash maps, by the    *)
(* chain of places FlattenInv keeps for the queued directories.              *)
THEOREM LookupsMatchTheTree == BuildSpec => []LookupMatchesTree
<1>1. MergeInv /\ FlattenInv => LookupMatchesTree
  <2> SUFFICES ASSUME MergeInv, FlattenInv, stage = "done", DOMAIN tree # {}
               PROVE  IsFilesystem(nodes) /\ \A q \in Queries :
                        LET p == LowerPath(Normalize(q))
                            inode == Lookup(nodes, q)
                            i == EntryIndex(nodes, inode)
                        IN IF p \in DOMAIN tree
                           THEN /\ i # NotFound
                                /\ nodes[i].name = Name(p)
                                /\ IF IsLeaf(tree[p])
                                   THEN nodes[i].kind = "file" /\ nodes[i].data_index = tree[p]
                                   ELSE nodes[i].kind = "dir"
                           ELSE inode = NotFound
    BY DEF LookupMatchesTree
  <2> DEFINE b == Cardinality(DOMAIN nodes)
  <2>1. IsTree(tree)
    BY ReducedToTree DEF MergeInv
  <2>2. PICK pl, e : Flattened(tree, nodes, b, <<>>, child_index, pl, e)
    BY DEF FlattenInv, FlattenedSoFar
  <2>3. Complete(tree, nodes, b, pl)
    BY <2>2, FlattenedIsComplete
  <2>4. IsFilesystem(nodes)
    BY <2>1, <2>3, CompleteIsFilesystem
  <2>5. /\ b \in Nat \ {0} /\ DOMAIN nodes = 0..(b - 1)
        /\ \A i \in 0..(b - 1) : IsNode(nodes[i], tree, pl[i])
    BY <2>3 DEF Complete
  <2> HIDE DEF b
  <2>6. ASSUME NEW q \in Queries
        PROVE  LET p == LowerPath(Normalize(q))
                   inode == Lookup(nodes, q)
                   i == EntryIndex(nodes, inode)
               IN IF p \in DOMAIN tree
                  THEN /\ i # NotFound
                       /\ nodes[i].name = Name(p)
                       /\ IF IsLeaf(tree[p])
                          THEN nodes[i].kind = "file" /\ nodes[i].data_index = tree[p]
                          ELSE nodes[i].kind = "dir"
                  ELSE inode = NotFound
    <3> DEFINE r == Normalize(q)
               p == LowerPath(r)
               k == IndexIgnoreCase(nodes, 0, r)
    <3>1. r \in Seq(Spelled) /\ p \in TreePath /\ p \in Seq(Spelled)
      BY QueryIs
    <3>2. LeadsTo(nodes, tree, pl, b, p, k)
      <4> HIDE DEF r
      <4> QED
        BY <2>1, <2>3, <3>1, IgnoreCaseInTree
    <3>3. Lookup(nodes, q) = IF k = NotFound THEN NotFound ELSE k + 1
      <4>1. INODE_ROOT - INODE_ROOT = 0 /\ INODE_ROOT = 1
        BY DEF INODE_ROOT
      <4>2. Lookup(nodes, q) =
              IF IndexIgnoreCase(nodes, INODE_ROOT - INODE_ROOT, r) = NotFound THEN NotFound
              ELSE IndexIgnoreCase(nodes, INODE_ROOT - INODE_ROOT, r) + INODE_ROOT
        BY DEF Lookup, LookupInDir
      <4> QED
        BY <4>1, <4>2
    <3> HIDE DEF r, p, k
    <3>4. CASE p \notin DOMAIN tree
      <4>1. Lookup(nodes, q) = NotFound
        BY <3>2, <3>3, <3>4 DEF LeadsTo
      <4> QED
        BY <3>4, <4>1 DEF r, p
    <3>5. CASE p \in DOMAIN tree
      <4>1. k \in 0..(b - 1) /\ pl[k] = p
        BY <3>2, <3>5 DEF LeadsTo
      <4>2. k # NotFound /\ (k + 1) - 1 = k
        BY <4>1 DEF NotFound
      <4>3. Lookup(nodes, q) = k + 1
        BY <3>3, <4>2
      <4>4. EntryIndex(nodes, Lookup(nodes, q)) = k
        BY <2>5, <4>1, <4>2, <4>3 DEF EntryIndex, INODE_ROOT
      <4>5. IsNode(nodes[k], tree, p)
        BY <2>5, <4>1
      <4> QED
        BY <3>5, <4>2, <4>4, <4>5 DEF IsNode, r, p
    <3> QED
      BY <3>4, <3>5
  <2> QED
    BY <2>4, <2>6
<1> QED
  BY <1>1, BuildInitInv, BuildStepInv, FlattenInitInv, FlattenStepInv, PTL DEF BuildSpec
=============================================================================
