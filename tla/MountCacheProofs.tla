-------------------------- MODULE MountCacheProofs --------------------------
(* Proofs about MountCache, for any number of processes, archives, headers   *)
(* and dictionaries, however often the cache is cleared and archives are     *)
(* patched.                                                                  *)
EXTENDS MountCache, TLAPS

(* What each process holds in memory, in step with where it is.              *)
BytesAreRead ==
  \A p \in Procs : pc[p] \in {"process", "put", "mounted"} =>
    \A a \in args[p].archives : bytes[p][a] # None

ObjectsDescribeBytes ==
  \A p \in Procs : \A a \in Archives :
    Has(object[p][a]) => object[p][a].content = bytes[p][a]

NothingAtStart ==
  \A p \in Procs : pc[p] = "start" => \A a \in Archives : ~Has(object[p][a])

MountedIsWhole ==
  \A p \in Procs : pc[p] = "mounted" => Missing(p) = {}

(* The inductive invariant.                                                  *)
IInv ==
  /\ TypeOK /\ EntriesDescribeTheirKey
  /\ BytesAreRead /\ ObjectsDescribeBytes /\ NothingAtStart
  /\ MountedIsWhole

-----------------------------------------------------------------------------
(* Types.                                                                    *)
LEMMA InitTypeOK == Init => TypeOK
<1> SUFFICES ASSUME Init PROVE TypeOK
  OBVIOUS
<1> QED
  BY MountCacheAssumption DEF Init, TypeOK

(* Every step leaves each variable in its set.                              *)
LEMMA NextTypeOK == TypeOK /\ BytesAreRead /\ [Next]_vars => TypeOK'
<1> SUFFICES ASSUME TypeOK, BytesAreRead, [Next]_vars PROVE TypeOK'
  OBVIOUS
<1> USE DEF TypeOK, Goto, Gone, disk
<1>1. ASSUME NEW p \in Procs, OpenCache(p) PROVE TypeOK'
  BY <1>1 DEF OpenCache
<1>2. ASSUME NEW p \in Procs, ReadFails(p) PROVE TypeOK'
  BY <1>2 DEF ReadFails
<1>3. ASSUME NEW p \in Procs, CacheGet(p) PROVE TypeOK'
  <2>1. PICK hits \in SUBSET Found(p) :
          object' = [object EXCEPT ![p] =
                       [a \in Archives |->
                          IF a \in hits THEN store[env[p]][bytes[p][a]] ELSE @[a]]]
    BY <1>3 DEF CacheGet
  <2>2. ASSUME NEW a \in Archives, a \in hits
        PROVE store[env[p]][bytes[p][a]] \in Objects \cup {NoObject}
    <3>1. a \in args[p].archives /\ env[p] \in 0..Clears
      BY <2>2, MountCacheAssumption DEF Found
    <3>2. bytes[p][a] \in Contents
      BY <1>3, <2>2, <3>1 DEF CacheGet
    <3> QED
      BY <3>1, <3>2
  <2>3. object' \in [Procs -> [Archives -> Objects \cup {NoObject}]]
    BY <2>1, <2>2
  <2> QED
    BY <1>3, <2>3 DEF CacheGet
<1>4. ASSUME NEW p \in Procs, ProcessFails(p) PROVE TypeOK'
  BY <1>4 DEF ProcessFails
<1>5. ASSUME NEW p \in Procs, Process(p) PROVE TypeOK'
  BY <1>5 DEF Process
<1>6. ASSUME NEW p \in Procs, Mount(p) PROVE TypeOK'
  BY <1>6 DEF Mount
<1>7. ASSUME NEW p \in Procs, Restart(p) PROVE TypeOK'
  BY <1>7 DEF Restart
<1>8. ASSUME NEW p \in Procs, Kill(p) PROVE TypeOK'
  BY <1>8 DEF Kill
<1>9. ASSUME NEW p \in Procs, NEW a \in Archives, ReadBhd(p, a) PROVE TypeOK'
  BY <1>9 DEF ReadBhd
<1>10. ASSUME NEW p \in Procs, NEW a \in Archives, CachePut(p, a) PROVE TypeOK'
  <2>1. bytes[p][a] \in Contents
    BY <1>10 DEF CachePut, Missing, BytesAreRead
  <2>2. args[p].dict \in Dicts
    OBVIOUS
  <2>3. Made(p, a) \in Objects
    BY <2>1, <2>2 DEF Made, Objects
  <2>4. object' \in [Procs -> [Archives -> Objects \cup {NoObject}]]
    BY <1>10, <2>3 DEF CachePut
  <2>5. store' \in [0..Clears -> [Contents -> Objects \cup {NoObject}]]
    <3>1. CASE UNCHANGED store
      BY <3>1
    <3>2. CASE /\ env[p] # None
               /\ store' = [store EXCEPT ![env[p]][bytes[p][a]] = Made(p, a)]
      <4>1. env[p] \in 0..Clears
        BY <3>2
      <4>2. store[env[p]] \in [Contents -> Objects \cup {NoObject}]
        BY <4>1
      <4> QED
        BY <2>1, <2>3, <3>2, <4>1, <4>2
    <3> QED
      BY <1>10, <3>1, <3>2 DEF CachePut
  <2> QED
    BY <1>10, <2>4, <2>5 DEF CachePut
<1>11. ASSUME ClearCache PROVE TypeOK'
  BY <1>11, MountCacheAssumption DEF ClearCache
<1>12. ASSUME NEW a \in Archives, Patch(a) PROVE TypeOK'
  BY <1>12, MountCacheAssumption DEF Patch
<1>13. CASE UNCHANGED vars
  BY <1>13 DEF vars
<1> QED
  BY <1>1, <1>2, <1>3, <1>4, <1>5, <1>6, <1>7, <1>8, <1>9, <1>10, <1>11, <1>12, <1>13 DEF Next

(* A process leaves "read" only with every header read.                     *)
LEMMA NextBytesAreRead == IInv /\ [Next]_vars => BytesAreRead'
<1> SUFFICES ASSUME IInv, [Next]_vars PROVE BytesAreRead'
  OBVIOUS
<1> USE DEF IInv, TypeOK, Goto, Gone, disk, BytesAreRead
<1>1. ASSUME NEW p \in Procs, OpenCache(p) PROVE BytesAreRead'
  BY <1>1 DEF OpenCache
<1>2. ASSUME NEW p \in Procs, ReadFails(p) PROVE BytesAreRead'
  BY <1>2 DEF ReadFails
<1>3. ASSUME NEW p \in Procs, CacheGet(p) PROVE BytesAreRead'
  BY <1>3 DEF CacheGet
<1>4. ASSUME NEW p \in Procs, ProcessFails(p) PROVE BytesAreRead'
  BY <1>4 DEF ProcessFails
<1>5. ASSUME NEW p \in Procs, Process(p) PROVE BytesAreRead'
  BY <1>5 DEF Process
<1>6. ASSUME NEW p \in Procs, Mount(p) PROVE BytesAreRead'
  BY <1>6 DEF Mount
<1>7. ASSUME NEW p \in Procs, Restart(p) PROVE BytesAreRead'
  BY <1>7 DEF Restart
<1>8. ASSUME NEW p \in Procs, Kill(p) PROVE BytesAreRead'
  BY <1>8 DEF Kill
<1>9. ASSUME NEW p \in Procs, NEW a \in Archives, ReadBhd(p, a) PROVE BytesAreRead'
  BY <1>9 DEF ReadBhd
<1>10. ASSUME NEW p \in Procs, NEW a \in Archives, CachePut(p, a) PROVE BytesAreRead'
  BY <1>10 DEF CachePut
<1>11. ASSUME ClearCache PROVE BytesAreRead'
  BY <1>11 DEF ClearCache
<1>12. ASSUME NEW a \in Archives, Patch(a) PROVE BytesAreRead'
  BY <1>12 DEF Patch
<1>13. CASE UNCHANGED vars
  BY <1>13 DEF vars
<1> QED
  BY <1>1, <1>2, <1>3, <1>4, <1>5, <1>6, <1>7, <1>8, <1>9,
     <1>10, <1>11, <1>12, <1>13 DEF Next

(* A process that starts again has dropped its objects.                      *)
LEMMA NextNothingAtStart == IInv /\ [Next]_vars => NothingAtStart'
<1> SUFFICES ASSUME IInv, [Next]_vars PROVE NothingAtStart'
  OBVIOUS
<1> USE DEF IInv, TypeOK, Goto, Gone, disk, NothingAtStart, Has
<1>1. ASSUME NEW p \in Procs, OpenCache(p) PROVE NothingAtStart'
  BY <1>1 DEF OpenCache
<1>2. ASSUME NEW p \in Procs, ReadFails(p) PROVE NothingAtStart'
  BY <1>2 DEF ReadFails
<1>3. ASSUME NEW p \in Procs, CacheGet(p) PROVE NothingAtStart'
  BY <1>3 DEF CacheGet
<1>4. ASSUME NEW p \in Procs, ProcessFails(p) PROVE NothingAtStart'
  BY <1>4 DEF ProcessFails
<1>5. ASSUME NEW p \in Procs, Process(p) PROVE NothingAtStart'
  BY <1>5 DEF Process
<1>6. ASSUME NEW p \in Procs, Mount(p) PROVE NothingAtStart'
  BY <1>6 DEF Mount
<1>7. ASSUME NEW p \in Procs, Restart(p) PROVE NothingAtStart'
  BY <1>7 DEF Restart
<1>8. ASSUME NEW p \in Procs, Kill(p) PROVE NothingAtStart'
  BY <1>8 DEF Kill
<1>9. ASSUME NEW p \in Procs, NEW a \in Archives, ReadBhd(p, a) PROVE NothingAtStart'
  BY <1>9 DEF ReadBhd
<1>10. ASSUME NEW p \in Procs, NEW a \in Archives, CachePut(p, a) PROVE NothingAtStart'
  BY <1>10 DEF CachePut
<1>11. ASSUME ClearCache PROVE NothingAtStart'
  BY <1>11 DEF ClearCache
<1>12. ASSUME NEW a \in Archives, Patch(a) PROVE NothingAtStart'
  BY <1>12 DEF Patch
<1>13. CASE UNCHANGED vars
  BY <1>13 DEF vars
<1> QED
  BY <1>1, <1>2, <1>3, <1>4, <1>5, <1>6, <1>7, <1>8, <1>9,
     <1>10, <1>11, <1>12, <1>13 DEF Next

(* A process mounts when no object is missing, and then keeps them.          *)
LEMMA NextMountedIsWhole == IInv /\ [Next]_vars => MountedIsWhole'
<1> SUFFICES ASSUME IInv, [Next]_vars PROVE MountedIsWhole'
  OBVIOUS
<1> USE DEF IInv, TypeOK, Goto, Gone, disk, MountedIsWhole, Missing, Has
<1>1. ASSUME NEW p \in Procs, OpenCache(p) PROVE MountedIsWhole'
  BY <1>1 DEF OpenCache
<1>2. ASSUME NEW p \in Procs, ReadFails(p) PROVE MountedIsWhole'
  BY <1>2 DEF ReadFails
<1>3. ASSUME NEW p \in Procs, CacheGet(p) PROVE MountedIsWhole'
  BY <1>3 DEF CacheGet
<1>4. ASSUME NEW p \in Procs, ProcessFails(p) PROVE MountedIsWhole'
  BY <1>4 DEF ProcessFails
<1>5. ASSUME NEW p \in Procs, Process(p) PROVE MountedIsWhole'
  BY <1>5 DEF Process
<1>6. ASSUME NEW p \in Procs, Mount(p) PROVE MountedIsWhole'
  BY <1>6 DEF Mount
<1>7. ASSUME NEW p \in Procs, Restart(p) PROVE MountedIsWhole'
  BY <1>7 DEF Restart
<1>8. ASSUME NEW p \in Procs, Kill(p) PROVE MountedIsWhole'
  BY <1>8 DEF Kill
<1>9. ASSUME NEW p \in Procs, NEW a \in Archives, ReadBhd(p, a) PROVE MountedIsWhole'
  BY <1>9 DEF ReadBhd
<1>10. ASSUME NEW p \in Procs, NEW a \in Archives, CachePut(p, a) PROVE MountedIsWhole'
  BY <1>10 DEF CachePut
<1>11. ASSUME ClearCache PROVE MountedIsWhole'
  BY <1>11 DEF ClearCache
<1>12. ASSUME NEW a \in Archives, Patch(a) PROVE MountedIsWhole'
  BY <1>12 DEF Patch
<1>13. CASE UNCHANGED vars
  BY <1>13 DEF vars
<1> QED
  BY <1>1, <1>2, <1>3, <1>4, <1>5, <1>6, <1>7, <1>8, <1>9,
     <1>10, <1>11, <1>12, <1>13 DEF Next

(* What a process mounts comes from the cache under the hash of the bytes it *)
(* read, or from those bytes.                                                *)
LEMMA NextObjectsDescribeBytes == IInv /\ [Next]_vars => ObjectsDescribeBytes'
<1> SUFFICES ASSUME IInv, [Next]_vars PROVE ObjectsDescribeBytes'
  OBVIOUS
<1> USE DEF IInv, TypeOK, Goto, Gone, disk, ObjectsDescribeBytes, Has
<1>1. ASSUME NEW p \in Procs, OpenCache(p) PROVE ObjectsDescribeBytes'
  BY <1>1 DEF OpenCache
<1>2. ASSUME NEW p \in Procs, ReadFails(p) PROVE ObjectsDescribeBytes'
  BY <1>2 DEF ReadFails
<1>3. ASSUME NEW p \in Procs, CacheGet(p) PROVE ObjectsDescribeBytes'
  <2>1. PICK hits \in SUBSET Found(p) :
          object' = [object EXCEPT ![p] =
                       [a \in Archives |->
                          IF a \in hits THEN store[env[p]][bytes[p][a]] ELSE @[a]]]
    BY <1>3 DEF CacheGet
  <2>2. ASSUME NEW a \in Archives, a \in hits, Has(object'[p][a])
        PROVE object'[p][a].content = bytes[p][a]
    <3>1. a \in args[p].archives /\ env[p] \in 0..Clears
      BY <2>2, MountCacheAssumption DEF Found
    <3>2. bytes[p][a] \in Contents
      BY <1>3, <3>1 DEF CacheGet
    <3>3. object'[p][a] = store[env[p]][bytes[p][a]]
      BY <2>1, <2>2
    <3> QED
      BY <2>2, <3>1, <3>2, <3>3 DEF EntriesDescribeTheirKey
  <2> QED
    BY <1>3, <2>1, <2>2 DEF CacheGet
<1>4. ASSUME NEW p \in Procs, ProcessFails(p) PROVE ObjectsDescribeBytes'
  BY <1>4 DEF ProcessFails
<1>5. ASSUME NEW p \in Procs, Process(p) PROVE ObjectsDescribeBytes'
  BY <1>5 DEF Process
<1>6. ASSUME NEW p \in Procs, Mount(p) PROVE ObjectsDescribeBytes'
  BY <1>6 DEF Mount
<1>7. ASSUME NEW p \in Procs, Restart(p) PROVE ObjectsDescribeBytes'
  BY <1>7 DEF Restart
<1>8. ASSUME NEW p \in Procs, Kill(p) PROVE ObjectsDescribeBytes'
  BY <1>8 DEF Kill
<1>9. ASSUME NEW p \in Procs, NEW a \in Archives, ReadBhd(p, a) PROVE ObjectsDescribeBytes'
  <2>1. ~Has(object[p][a])
    BY <1>9, MountCacheAssumption DEF ReadBhd, Objects
  <2> QED
    BY <1>9, <2>1 DEF ReadBhd
<1>10. ASSUME NEW p \in Procs, NEW a \in Archives, CachePut(p, a) PROVE ObjectsDescribeBytes'
  BY <1>10 DEF CachePut, Made
<1>11. ASSUME ClearCache PROVE ObjectsDescribeBytes'
  BY <1>11 DEF ClearCache
<1>12. ASSUME NEW a \in Archives, Patch(a) PROVE ObjectsDescribeBytes'
  BY <1>12 DEF Patch
<1>13. CASE UNCHANGED vars
  BY <1>13 DEF vars
<1> QED
  BY <1>1, <1>2, <1>3, <1>4, <1>5, <1>6, <1>7, <1>8, <1>9,
     <1>10, <1>11, <1>12, <1>13 DEF Next

(* A put keeps under the hash of a header what was made of that header.      *)
LEMMA NextEntriesDescribeTheirKey == IInv /\ [Next]_vars => EntriesDescribeTheirKey'
<1> SUFFICES ASSUME IInv, [Next]_vars PROVE EntriesDescribeTheirKey'
  OBVIOUS
<1> USE DEF IInv, TypeOK, Goto, Gone, disk, EntriesDescribeTheirKey, Has
<1>1. ASSUME NEW p \in Procs, OpenCache(p) PROVE EntriesDescribeTheirKey'
  BY <1>1 DEF OpenCache
<1>2. ASSUME NEW p \in Procs, ReadFails(p) PROVE EntriesDescribeTheirKey'
  BY <1>2 DEF ReadFails
<1>3. ASSUME NEW p \in Procs, CacheGet(p) PROVE EntriesDescribeTheirKey'
  BY <1>3 DEF CacheGet
<1>4. ASSUME NEW p \in Procs, ProcessFails(p) PROVE EntriesDescribeTheirKey'
  BY <1>4 DEF ProcessFails
<1>5. ASSUME NEW p \in Procs, Process(p) PROVE EntriesDescribeTheirKey'
  BY <1>5 DEF Process
<1>6. ASSUME NEW p \in Procs, Mount(p) PROVE EntriesDescribeTheirKey'
  BY <1>6 DEF Mount
<1>7. ASSUME NEW p \in Procs, Restart(p) PROVE EntriesDescribeTheirKey'
  BY <1>7 DEF Restart
<1>8. ASSUME NEW p \in Procs, Kill(p) PROVE EntriesDescribeTheirKey'
  BY <1>8 DEF Kill
<1>9. ASSUME NEW p \in Procs, NEW a \in Archives, ReadBhd(p, a) PROVE EntriesDescribeTheirKey'
  BY <1>9 DEF ReadBhd
<1>10. ASSUME NEW p \in Procs, NEW a \in Archives, CachePut(p, a) PROVE EntriesDescribeTheirKey'
  <2>1. bytes[p][a] \in Contents
    BY <1>10 DEF CachePut, Missing, BytesAreRead
  <2>2. CASE UNCHANGED store
    BY <2>2
  <2>3. CASE /\ env[p] # None
             /\ store' = [store EXCEPT ![env[p]][bytes[p][a]] = Made(p, a)]
    BY <2>1, <2>3 DEF Made
  <2> QED
    BY <1>10, <2>2, <2>3 DEF CachePut
<1>11. ASSUME ClearCache PROVE EntriesDescribeTheirKey'
  BY <1>11 DEF ClearCache
<1>12. ASSUME NEW a \in Archives, Patch(a) PROVE EntriesDescribeTheirKey'
  BY <1>12 DEF Patch
<1>13. CASE UNCHANGED vars
  BY <1>13 DEF vars
<1> QED
  BY <1>1, <1>2, <1>3, <1>4, <1>5, <1>6, <1>7, <1>8, <1>9,
     <1>10, <1>11, <1>12, <1>13 DEF Next

-----------------------------------------------------------------------------
(* Every cache file is empty at the start, and so is every process.          *)
LEMMA InitIInv == Init => IInv
<1> SUFFICES ASSUME Init PROVE IInv
  OBVIOUS
<1>1. TypeOK
  BY InitTypeOK
<1> QED
  BY <1>1, MountCacheAssumption
  DEF Init, IInv, EntriesDescribeTheirKey, BytesAreRead, ObjectsDescribeBytes,
      NothingAtStart, MountedIsWhole, Has

(* The invariant holds in every state of every behaviour.                    *)
THEOREM InvariantHolds == Spec => []IInv
<1>1. IInv /\ [Next]_vars => IInv'
  <2> SUFFICES ASSUME IInv, [Next]_vars PROVE IInv'
    OBVIOUS
  <2>1. TypeOK'
    BY NextTypeOK DEF IInv
  <2> QED
    BY <2>1, NextBytesAreRead, NextNothingAtStart, NextMountedIsWhole,
       NextObjectsDescribeBytes,
       NextEntriesDescribeTheirKey
    DEF IInv
<1> QED
  BY InitIInv, <1>1, PTL DEF Spec

(* The variables of the cache and of every process keep their types.         *)
THEOREM TypesHold == Spec => []TypeOK
<1>1. IInv => TypeOK
  BY DEF IInv
<1> QED
  BY <1>1, InvariantHolds, PTL

(* Whoever writes the cache and however often it is cleared, an entry        *)
(* describes the header whose hash is its key (cache.rs:48-69).              *)
THEOREM EntriesAlwaysDescribeTheirKey == Spec => []EntriesDescribeTheirKey
<1>1. IInv => EntriesDescribeTheirKey
  BY DEF IInv
<1> QED
  BY <1>1, InvariantHolds, PTL

(* A mount serves every archive it was asked for as the header it read       *)
(* describes it, with hits and misses mixed in any way (mount.rs:70-98).     *)
THEOREM MountsDescribeTheirHeaders == Spec => []MountDescribesItsHeaders
<1>1. IInv => MountDescribesItsHeaders
  BY MountCacheAssumption
  DEF IInv, TypeOK, MountDescribesItsHeaders, MountedIsWhole, Missing,
      ObjectsDescribeBytes
<1> QED
  BY <1>1, InvariantHolds, PTL

=============================================================================
