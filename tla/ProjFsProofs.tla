---------------------------- MODULE ProjFsProofs ----------------------------
(* Proofs about ProjFs, for any number of lives of the process, files,       *)
(* chunks and enumerations.                                                  *)
EXTENDS ProjFs, FiniteSetTheorems, SequenceTheorems, TLAPS

(* The mount point was marked with the GUID in the file, and otherwise with  *)
(* at most one for each time that a whole file was not read.                 *)
GuidIsSaved ==
  /\ lives \in Nat /\ (main # "down" => lives > 0)
  /\ unread \in Nat /\ IsFiniteSet(marks)
  /\ saved \in Int /\ \A g \in marks : g \in Nat /\ g > Partial
  /\ Cardinality(marks \ {saved}) <= unread
  /\ main \in {"new", "write"} => Cardinality(marks) <= unread
  /\ main = "write" => guid \in Nat /\ guid > Partial
  /\ main = "mark" => guid \in Nat /\ guid > Partial /\ saved = guid

(* Callbacks run between the start and the end of PrjStopVirtualizing.       *)
WeakOutlivesCallbacks ==
  /\ main \in {"started", "running", "stopping", "drop"} => weak
  /\ \A f \in Files : file[f] = "called" => main \in {"started", "running", "stopping"}

(* A process that is past remove_dir found no file of the user.              *)
FoundEmpty == user = "before" => main \in {"down", "remove"}

ReadTypes ==
  /\ DOMAIN file = Files
  /\ chunk \in [Files -> Nat]

IInv ==
  /\ GuidIsSaved /\ WeakOutlivesCallbacks /\ FoundEmpty
  /\ ReadTypes /\ FullFilesHaveAllThereIs

LEMMA InitIInv == Init => IInv
<1> SUFFICES ASSUME Init PROVE IInv
  OBVIOUS
<1> USE ProjFsAssumption DEF Init
<1>1. GuidIsSaved
  BY FS_EmptySet DEF GuidIsSaved, NoFile, Partial
<1>2. WeakOutlivesCallbacks
  BY DEF WeakOutlivesCallbacks
<1>3. FoundEmpty
  BY DEF FoundEmpty
<1>4. ReadTypes /\ FullFilesHaveAllThereIs
  BY DEF ReadTypes, FullFilesHaveAllThereIs
<1> QED
  BY <1>1, <1>2, <1>3, <1>4 DEF IInv

(* The steps of the main thread and of the user.                             *)
MainStep ==
  \/ Launch \/ InitRemoveDir \/ InitCreateDir
  \/ ReadGuid \/ ReadGuidFails \/ CreateGuid \/ WriteGuid
  \/ MarkDirectory \/ StartVirtualizing \/ StoreContext
  \/ Interrupt \/ StopVirtualizing \/ DropWeak \/ RemoveDirAll \/ Recreate
  \/ Ends \/ UserFile \/ UserDir

(* The steps of an enumeration change nothing but the enumeration.           *)
LEMMA ScanSteps ==
  StartDirectoryEnumeration \/ GetDirectoryEnumeration \/ EndDirectoryEnumeration
    => UNCHANGED <<disk, process, reads>>
  BY DEF StartDirectoryEnumeration, GetDirectoryEnumeration, EndDirectoryEnumeration

(* Neither do those of a read, but for its file and chunks.                  *)
LEMMA ReadSteps ==
  ASSUME NEW f \in Files, Reads(f) \/ Worker(f)
  PROVE  UNCHANGED <<disk, process>>
  BY DEF Reads, Worker, GetPlaceholderInfo, GetFileData, Call, WriteFileData, ReadEnds,
         CompleteCommand

LEMMA OneLess ==
  ASSUME NEW S, IsFiniteSet(S), NEW x
  PROVE  /\ IsFiniteSet(S \ {x})
         /\ Cardinality(S \ {x}) \in Nat /\ Cardinality(S) \in Nat
         /\ Cardinality(S) <= Cardinality(S \ {x}) + 1
         /\ Cardinality(S \ {x}) <= Cardinality(S)
<1>1. IsFiniteSet(S \ {x})
  BY FS_Subset
<1>2. Cardinality(S) \in Nat /\ Cardinality(S \ {x}) \in Nat
  BY <1>1, FS_CardinalityType
<1>3. CASE x \in S
  BY <1>2, <1>3, FS_RemoveElement
<1>4. CASE x \notin S
  <2>1. S \ {x} = S
    BY <1>4
  <2> QED
    BY <1>2, <2>1
<1> QED
  BY <1>1, <1>2, <1>3, <1>4

LEMMA NextGuidIsSaved == IInv /\ [Next]_vars => GuidIsSaved'
<1> SUFFICES ASSUME GuidIsSaved, [Next]_vars PROVE GuidIsSaved'
  BY DEF IInv
<1> USE DEF GuidIsSaved, disk, process, reads, NoFile, Partial
<1>1. CASE MainStep
  <2> USE DEF Step, Gone
  <2>1. CASE Launch
    BY <2>1 DEF Launch
  <2>2. CASE InitRemoveDir \/ InitCreateDir
    BY <2>2 DEF InitRemoveDir, InitCreateDir
  <2>3. CASE ReadGuid
    BY <2>3 DEF ReadGuid
  <2>4. CASE ReadGuidFails
    <3>1. /\ Cardinality(marks) \in Nat /\ Cardinality(marks \ {saved}) \in Nat
          /\ Cardinality(marks) <= Cardinality(marks \ {saved}) + 1
      BY OneLess
    <3>2. Cardinality(marks) <= unread'
      <4>1. CASE saved > Partial
        BY <2>4, <3>1, <4>1 DEF ReadGuidFails
      <4>2. CASE ~(saved > Partial)
        <5>1. marks \ {saved} = marks
          BY <4>2
        <5> QED
          BY <2>4, <4>2, <5>1 DEF ReadGuidFails
      <4> QED
        BY <4>1, <4>2
    <3>3. Cardinality(marks \ {saved'}) <= Cardinality(marks)
          /\ Cardinality(marks \ {saved'}) \in Nat
      BY OneLess
    <3>4. unread' \in Nat /\ saved' \in Int /\ marks' = marks
      BY <2>4 DEF ReadGuidFails
    <3> QED
      BY <2>4, <3>1, <3>2, <3>3, <3>4 DEF ReadGuidFails
  <2>5. CASE CreateGuid
    <3>1. Cardinality(marks \ {saved'}) <= Cardinality(marks)
          /\ Cardinality(marks \ {saved'}) \in Nat /\ Cardinality(marks) \in Nat
      BY OneLess
    <3> QED
      BY <2>5, <3>1 DEF CreateGuid
  <2>6. CASE WriteGuid
    <3>1. Cardinality(marks \ {saved'}) <= Cardinality(marks)
          /\ Cardinality(marks \ {saved'}) \in Nat /\ Cardinality(marks) \in Nat
      BY OneLess
    <3> QED
      BY <2>6, <3>1 DEF WriteGuid
  <2>7. CASE MarkDirectory
    <3>1. marks' \ {saved'} = marks \ {saved}
      BY <2>7 DEF MarkDirectory
    <3>2. IsFiniteSet(marks')
      BY <2>7, FS_AddElement DEF MarkDirectory
    <3> QED
      BY <2>7, <3>1, <3>2 DEF MarkDirectory
  <2>8. CASE StartVirtualizing \/ StoreContext \/ Interrupt \/ StopVirtualizing \/ DropWeak
    BY <2>8 DEF StartVirtualizing, StoreContext, Interrupt, StopVirtualizing, DropWeak
  <2>9. CASE RemoveDirAll
    BY <2>9 DEF RemoveDirAll
  <2>10. CASE Recreate \/ Ends
    BY <2>10 DEF Recreate, Ends
  <2>11. CASE UserFile \/ UserDir
    BY <2>11 DEF UserFile, UserDir
  <2> QED
    BY <1>1, <2>1, <2>2, <2>3, <2>4, <2>5, <2>6, <2>7, <2>8, <2>9, <2>10, <2>11
    DEF MainStep
<1>2. ASSUME NEW f \in Files, Reads(f) \/ Worker(f) PROVE GuidIsSaved'
  BY <1>2, ReadSteps
<1>3. CASE StartDirectoryEnumeration \/ GetDirectoryEnumeration \/ EndDirectoryEnumeration
  BY <1>3, ScanSteps
<1>4. CASE UNCHANGED vars
  BY <1>4 DEF vars
<1> QED
  BY <1>1, <1>2, <1>3, <1>4 DEF Next, MainStep

LEMMA NextWeakOutlivesCallbacks ==
  IInv /\ [Next]_vars => WeakOutlivesCallbacks' /\ DOMAIN file' = Files
<1> SUFFICES ASSUME WeakOutlivesCallbacks, DOMAIN file = Files, [Next]_vars
             PROVE  WeakOutlivesCallbacks' /\ DOMAIN file' = Files
  BY DEF IInv, ReadTypes
<1> USE DEF WeakOutlivesCallbacks, disk, process, reads
<1>1. CASE MainStep
  <2> USE DEF Step, Gone
  <2>1. CASE Launch \/ InitRemoveDir \/ InitCreateDir \/ CreateGuid \/ WriteGuid
             \/ MarkDirectory \/ UserFile \/ UserDir
    BY <2>1 DEF Launch, InitRemoveDir, InitCreateDir, CreateGuid, WriteGuid,
                MarkDirectory, UserFile, UserDir
  <2>2. CASE ReadGuid \/ ReadGuidFails
    BY <2>2 DEF ReadGuid, ReadGuidFails
  <2>3. CASE StartVirtualizing \/ StoreContext \/ Interrupt
    BY <2>3 DEF StartVirtualizing, StoreContext, Interrupt
  <2>4. CASE StopVirtualizing \/ DropWeak
    BY <2>4 DEF StopVirtualizing, DropWeak
  <2>5. CASE RemoveDirAll
    <3>1. PICK kept \in SUBSET {f \in Files : OnDisk(f)} :
            file' = [f \in Files |-> IF f \in kept THEN file[f] ELSE "virtual"]
      BY <2>5 DEF RemoveDirAll
    <3>2. main = "unmount" /\ main' \in {"unmount", "recreate"} /\ weak' = weak
      BY <2>5 DEF RemoveDirAll
    <3> QED
      BY <3>1, <3>2
  <2>6. CASE Recreate \/ Ends
    BY <2>6 DEF Recreate, Ends
  <2> QED
    BY <1>1, <2>1, <2>2, <2>3, <2>4, <2>5, <2>6 DEF MainStep
<1>2. ASSUME NEW f \in Files, Reads(f) \/ Worker(f)
      PROVE  WeakOutlivesCallbacks' /\ DOMAIN file' = Files
  <2>1. UNCHANGED process
    BY <1>2, ReadSteps
  <2>2. CASE GetFileData(f)
    BY <2>1, <2>2 DEF GetFileData, IsIn, Virtualizes
  <2>3. CASE GetPlaceholderInfo(f) \/ Call(f) \/ WriteFileData(f) \/ ReadEnds(f)
             \/ CompleteCommand(f)
    <3>1. \/ UNCHANGED file
          \/ \E to \in {"placeholder", "queued", "lost", "ok", "failed", "full"} :
               file' = [file EXCEPT ![f] = to]
      BY <2>3 DEF GetPlaceholderInfo, Call, WriteFileData, ReadEnds, CompleteCommand, IsIn
    <3> QED
      BY <2>1, <3>1
  <2> QED
    BY <1>2, <2>2, <2>3 DEF Reads, Worker
<1>3. CASE StartDirectoryEnumeration \/ GetDirectoryEnumeration \/ EndDirectoryEnumeration
  BY <1>3, ScanSteps
<1>4. CASE UNCHANGED vars
  BY <1>4 DEF vars
<1> QED
  BY <1>1, <1>2, <1>3, <1>4 DEF Next, MainStep

LEMMA NextFoundEmpty == IInv /\ [Next]_vars => FoundEmpty'
<1> SUFFICES ASSUME FoundEmpty, [Next]_vars PROVE FoundEmpty'
  BY DEF IInv
<1> USE DEF FoundEmpty, disk, process, reads
<1>1. CASE MainStep
  <2> USE DEF Step, Gone
  <2>1. CASE Launch \/ InitRemoveDir \/ InitCreateDir \/ CreateGuid \/ WriteGuid
             \/ MarkDirectory
    BY <2>1 DEF Launch, InitRemoveDir, InitCreateDir, CreateGuid, WriteGuid,
                MarkDirectory, IsEmpty
  <2>2. CASE ReadGuid \/ ReadGuidFails
    BY <2>2 DEF ReadGuid, ReadGuidFails
  <2>3. CASE StartVirtualizing \/ StoreContext \/ Interrupt \/ StopVirtualizing \/ DropWeak
    BY <2>3 DEF StartVirtualizing, StoreContext, Interrupt, StopVirtualizing, DropWeak
  <2>4. CASE RemoveDirAll
    BY <2>4 DEF RemoveDirAll
  <2>5. CASE Recreate \/ Ends
    BY <2>5 DEF Recreate, Ends
  <2>6. CASE UserFile \/ UserDir
    BY <2>6 DEF UserFile, UserDir
  <2> QED
    BY <1>1, <2>1, <2>2, <2>3, <2>4, <2>5, <2>6 DEF MainStep
<1>2. ASSUME NEW f \in Files, Reads(f) \/ Worker(f) PROVE FoundEmpty'
  BY <1>2, ReadSteps
<1>3. CASE StartDirectoryEnumeration \/ GetDirectoryEnumeration \/ EndDirectoryEnumeration
  BY <1>3, ScanSteps
<1>4. CASE UNCHANGED vars
  BY <1>4 DEF vars
<1> QED
  BY <1>1, <1>2, <1>3, <1>4 DEF Next, MainStep

LEMMA NextFullFilesHaveAllThereIs ==
  IInv /\ [Next]_vars => chunk' \in [Files -> Nat] /\ FullFilesHaveAllThereIs'
<1> SUFFICES ASSUME ReadTypes, FullFilesHaveAllThereIs, [Next]_vars
             PROVE  chunk' \in [Files -> Nat] /\ FullFilesHaveAllThereIs'
  BY DEF IInv
<1> USE ProjFsAssumption DEF ReadTypes, FullFilesHaveAllThereIs, disk, process, reads
<1>1. CASE MainStep
  <2>1. CASE Recreate \/ Ends
    BY <2>1 DEF Recreate, Ends, Gone
  <2>2. CASE RemoveDirAll
    <3>1. PICK kept \in SUBSET {f \in Files : OnDisk(f)} :
            file' = [f \in Files |-> IF f \in kept THEN file[f] ELSE "virtual"]
      BY <2>2 DEF RemoveDirAll
    <3>2. UNCHANGED chunk
      BY <2>2 DEF RemoveDirAll
    <3> QED
      BY <3>1, <3>2
  <2>3. CASE ~(Recreate \/ Ends \/ RemoveDirAll)
    <3>1. UNCHANGED <<file, chunk>>
      BY <1>1, <2>3
      DEF MainStep, Launch, InitRemoveDir, InitCreateDir, ReadGuid, ReadGuidFails, CreateGuid, WriteGuid,
          MarkDirectory, StartVirtualizing, StoreContext, Interrupt, StopVirtualizing,
          DropWeak, UserFile, UserDir
    <3> QED
      BY <3>1
  <2> QED
    BY <2>1, <2>2, <2>3
<1>2. ASSUME NEW f \in Files, Reads(f) \/ Worker(f)
      PROVE  chunk' \in [Files -> Nat] /\ FullFilesHaveAllThereIs'
  <2> USE DEF IsIn
  <2>1. CASE GetPlaceholderInfo(f) \/ Call(f)
    BY <2>1 DEF GetPlaceholderInfo, Call
  <2>2. CASE GetFileData(f)
    BY <2>2 DEF GetFileData
  <2>3. CASE WriteFileData(f)
    BY <2>3 DEF WriteFileData
  <2>4. CASE ReadEnds(f)
    BY <2>4 DEF ReadEnds
  <2>5. CASE CompleteCommand(f)
    BY <2>5 DEF CompleteCommand
  <2> QED
    BY <1>2, <2>1, <2>2, <2>3, <2>4, <2>5 DEF Reads, Worker
<1>3. CASE StartDirectoryEnumeration \/ GetDirectoryEnumeration \/ EndDirectoryEnumeration
  BY <1>3, ScanSteps
<1>4. CASE UNCHANGED vars
  BY <1>4 DEF vars
<1> QED
  BY <1>1, <1>2, <1>3, <1>4 DEF Next, MainStep

(* The invariant holds in every state of every behaviour.                    *)
THEOREM InvariantHolds == Spec => []IInv
<1>1. IInv /\ [Next]_vars => IInv'
  BY NextGuidIsSaved, NextWeakOutlivesCallbacks, NextFoundEmpty, NextFullFilesHaveAllThereIs
  DEF IInv, ReadTypes
<1> QED
  BY InitIInv, <1>1, PTL DEF Spec

-----------------------------------------------------------------------------
(* However often the process ends at whatever step, a mount point is marked  *)
(* with one GUID, and with one more at most for each time that a whole file  *)
(* of the GUID could not be read (projfs.rs:638-668).                        *)
THEOREM MountPointKeepsItsGuid == Spec => []OneGuid
<1>1. IInv => OneGuid
  <2> SUFFICES ASSUME GuidIsSaved PROVE Cardinality(marks) <= 1 + unread
    BY DEF IInv, OneGuid
  <2>1. /\ Cardinality(marks) \in Nat /\ Cardinality(marks \ {saved}) \in Nat
        /\ Cardinality(marks) <= Cardinality(marks \ {saved}) + 1
    BY OneLess DEF GuidIsSaved
  <2> QED
    BY <2>1 DEF GuidIsSaved
<1> QED
  BY <1>1, InvariantHolds, PTL

(* The Weak is dropped after the last callback that upgrades it              *)
(* (projfs.rs:315-319, 525-530).                                             *)
THEOREM CallbacksUpgradeALiveWeak == Spec => []CallbacksFindContext
<1>1. IInv => CallbacksFindContext
  BY DEF IInv, WeakOutlivesCallbacks, CallbacksFindContext
<1> QED
  BY <1>1, InvariantHolds, PTL

(* ProjFS is told that a read is done only after it got all of the data that *)
(* the archive has, the reads that overlap the start and the end of the      *)
(* mount included (projfs.rs:282-306, 357-381).                              *)
THEOREM AnsweredFilesHaveAllThereIs == Spec => []FullFilesHaveAllThereIs
<1>1. IInv => FullFilesHaveAllThereIs
  BY DEF IInv
<1> QED
  BY <1>1, InvariantHolds, PTL

(* No life of the process removes a file that it found at the mount point    *)
(* (projfs.rs:534, 625).                                                     *)
THEOREM MountsKeepWhatTheyFind == Spec => FilesFoundAreKept
<1>1. IInv /\ [Next]_vars => [user = "before" => user' = "before"]_vars
  <2> SUFFICES ASSUME FoundEmpty, [Next]_vars, user = "before"
               PROVE  user' = "before"
    BY DEF IInv
  <2> USE DEF FoundEmpty, disk, process, reads, Step
  <2>1. CASE MainStep
    <3>1. CASE Recreate \/ Ends
      BY <3>1 DEF Recreate, Ends, Gone
    <3>2. CASE RemoveDirAll \/ UserFile
      BY <3>2 DEF RemoveDirAll, UserFile
    <3>3. CASE ~(Recreate \/ Ends \/ RemoveDirAll \/ UserFile)
      BY <2>1, <3>3
      DEF MainStep, Launch, InitRemoveDir, InitCreateDir, ReadGuid, ReadGuidFails, CreateGuid, WriteGuid,
          MarkDirectory, StartVirtualizing, StoreContext, Interrupt, StopVirtualizing,
          DropWeak, UserDir
    <3> QED
      BY <3>1, <3>2, <3>3
  <2>2. ASSUME NEW f \in Files, Reads(f) \/ Worker(f) PROVE user' = "before"
    BY <2>2, ReadSteps
  <2>3. CASE StartDirectoryEnumeration \/ GetDirectoryEnumeration
             \/ EndDirectoryEnumeration
    BY <2>3, ScanSteps
  <2>4. CASE UNCHANGED vars
    BY <2>4 DEF vars
  <2> QED
    BY <2>1, <2>2, <2>3, <2>4 DEF Next, MainStep
<1> QED
  BY <1>1, InvariantHolds, PTL DEF Spec, FilesFoundAreKept

-----------------------------------------------------------------------------
(* Increasing sequences.                                                     *)
LEMMA LowestExists ==
  ASSUME NEW S \in SUBSET Nat, S # {}
  PROVE  \E i \in S : \A j \in S : i <= j
<1> DEFINE R == { p \in Nat \X Nat : p[1] < p[2] }
<1>1. IsWellFoundedOn(R, Nat)
  <2>1. R = OpToRel(<, Nat)
    BY DEF OpToRel
  <2>2. IsWellFoundedOn(OpToRel(<, Nat), Nat)
    BY NatLessThanWellFounded
  <2> QED
    BY <2>1, <2>2
<1>2. PICK i \in S : \A j \in S : ~ (<<j, i>> \in R)
  <2> HIDE DEF R
  <2> QED
    BY <1>1, WFMin, Zenon
<1>3. ASSUME NEW j \in S PROVE i <= j
  <2>1. i \in Nat /\ j \in Nat /\ (j < i => <<j, i>> \in R)
    OBVIOUS
  <2>2. ~ (j < i)
    BY <2>1, <1>2
  <2> QED
    BY <2>1, <2>2
<1> QED
  BY <1>3

LEMMA HighestExists ==
  ASSUME NEW n \in Nat, NEW S \in SUBSET (0..n), S # {}
  PROVE  \E i \in S : \A j \in S : j <= i
<1> DEFINE T == { k \in 0..n : n - k \in S }
<1>1. T \in SUBSET Nat
  OBVIOUS
<1>2. T # {}
  <2>1. PICK x \in S : TRUE
    OBVIOUS
  <2>2. n - x \in 0..n /\ n - (n - x) = x
    OBVIOUS
  <2>3. n - x \in T
    BY <2>1, <2>2
  <2> QED
    BY <2>3
<1>3. PICK k \in T : \A j \in T : k <= j
  <2> HIDE DEF T
  <2> QED
    BY <1>1, <1>2, LowestExists
<1>4. ASSUME NEW j \in S PROVE j <= n - k
  <2>1. n - j \in 0..n /\ n - (n - j) = j
    OBVIOUS
  <2>2. n - j \in T
    BY <2>1
  <2>3. k <= n - j
    BY <1>3, <2>2
  <2> QED
    BY <2>3
<1> QED
  BY <1>3, <1>4

LEMMA MaxIs ==
  ASSUME NEW n \in Nat, NEW S \in SUBSET (0..n), S # {}
  PROVE  Max(S) \in S /\ \A j \in S : j <= Max(S)
<1>1. PICK i \in S : \A j \in S : j <= i
  BY HighestExists
<1>2. \A y \in S : i >= y
  BY <1>1
<1>3. Max(S) \in S /\ \A y \in S : Max(S) >= y
  BY <1>2 DEF Max
<1> QED
  BY <1>3

(* An increasing sequence whose members are the lowest of another's is a     *)
(* part of it from the front.                                                *)
Rises(a, m) ==
  /\ \A i \in 1..m : a[i] \in Int
  /\ \A i, j \in 1..m : i < j => a[i] < a[j]
LowestOf(a, m, b, n) ==
  /\ \A i \in 1..m : \E j \in 1..n : a[i] = b[j]
  /\ \A i \in 1..m, j \in 1..n : b[j] < a[i] => \E k \in 1..m : a[k] = b[j]

LEMMA IncreasingPrefix ==
  ASSUME NEW m \in Nat, NEW n \in Nat, NEW a, NEW b,
         Rises(a, m), Rises(b, n), LowestOf(a, m, b, n)
  PROVE  m <= n /\ \A i \in 1..m : a[i] = b[i]
<1> USE DEF Rises, LowestOf
<1> DEFINE Bad == { i \in 1..m : i > n \/ a[i] # b[i] }
<1>1. Bad = {}
  <2> SUFFICES ASSUME Bad # {} PROVE FALSE
    OBVIOUS
  <2>1. PICK k \in Bad : \A j \in Bad : k <= j
    <3>1. Bad \in SUBSET Nat
      OBVIOUS
    <3> HIDE DEF Bad
    <3> QED
      BY <3>1, LowestExists
  <2>2. k \in 1..m /\ (k > n \/ a[k] # b[k])
    BY <2>1
  <2>3. \A i \in 1..m : i < k => i <= n /\ a[i] = b[i]
    BY <2>1, <2>2
  <2>4. PICK j \in 1..n : a[k] = b[j]
    BY <2>2
  <2>5. j >= k
    <3> SUFFICES ASSUME j < k PROVE FALSE
      BY <2>2, <2>4
    <3>1. j \in 1..m /\ a[j] = b[j]
      BY <2>2, <2>3, <2>4
    <3>2. a[j] < a[k]
      BY <2>2, <3>1
    <3> QED
      BY <2>2, <2>4, <3>1, <3>2
  <2>6. k \in 1..n /\ k < j
    <3>1. k \in 1..n
      BY <2>2, <2>4, <2>5
    <3>2. k # j
      BY <2>2, <2>4, <3>1
    <3> QED
      BY <2>2, <2>4, <2>5, <3>1, <3>2
  <2>7. b[k] < a[k]
    BY <2>4, <2>6
  <2>8. PICK i \in 1..m : a[i] = b[k]
    BY <2>2, <2>6, <2>7
  <2>9. i < k
    <3> SUFFICES ASSUME ~(i < k) PROVE FALSE
      OBVIOUS
    <3>1. i = k \/ k < i
      BY <2>2, <2>8
    <3>2. a[k] <= a[i]
      BY <2>2, <2>8, <3>1
    <3> QED
      BY <2>2, <2>6, <2>7, <2>8, <3>2
  <2>10. a[i] = b[i] /\ i \in 1..n
    BY <2>2, <2>3, <2>8, <2>9
  <2>11. b[i] < b[k]
    BY <2>6, <2>9, <2>10
  <2> QED
    BY <2>6, <2>8, <2>10, <2>11
<1> HIDE DEF Rises, LowestOf
<1>2. \A i \in 1..m : i <= n /\ a[i] = b[i]
  BY <1>1
<1> HIDE DEF Bad
<1>3. m <= n
  <2>1. CASE m = 0
    BY <2>1
  <2>2. CASE m # 0
    <3>1. m \in 1..m
      BY <2>2
    <3> QED
      BY <1>2, <3>1
  <2> QED
    BY <2>1, <2>2
<1> QED
  BY <1>2, <1>3

(* Every finite set of integers can be sorted: by induction on its size.     *)
InOrder(s, S) ==
  /\ s \in [1..Cardinality(S) -> S]
  /\ \A i, j \in 1..Cardinality(S) : i < j => s[i] < s[j]

LEMMA UpTo ==
  ASSUME NEW S, NEW n \in Nat, 0 \in S, \A i \in 0..n - 1 : i \in S => i + 1 \in S
  PROVE  0..n \subseteq S
<1> DEFINE Out == { i \in 0..n : i \notin S }
<1> SUFFICES ASSUME Out # {} PROVE FALSE
  OBVIOUS
<1>1. Out \in SUBSET Nat
  OBVIOUS
<1>2. PICK m \in Out : \A j \in Out : m <= j
  <2> HIDE DEF Out
  <2> QED
    BY <1>1, LowestExists
<1>3. m \in 0..n /\ m # 0 /\ m \notin S
  BY <1>2
<1>4. m - 1 \in 0..n - 1 /\ m - 1 \notin Out /\ (m - 1) + 1 = m
  BY <1>2, <1>3
<1>5. m - 1 \in S
  BY <1>4
<1> QED
  BY <1>3, <1>4, <1>5

LEMMA FiniteHasHighest ==
  ASSUME NEW S \in SUBSET Int, IsFiniteSet(S), S # {}
  PROVE  \E x \in S : \A y \in S : y <= x
<1> DEFINE n == Cardinality(S)
           Rank(x) == Cardinality({ y \in S : y < x })
           Ranks == { Rank(x) : x \in S }
<1>1. n \in Nat
  BY FS_CardinalityType
<1>2. ASSUME NEW x \in S PROVE Rank(x) \in Nat /\ Rank(x) <= n
  <2>1. { y \in S : y < x } \in SUBSET S
    OBVIOUS
  <2> QED
    BY <2>1, FS_Subset, FS_CardinalityType
<1>3. ASSUME NEW x \in S, NEW y \in S, x < y PROVE Rank(x) < Rank(y)
  <2> DEFINE X == { z \in S : z < x }
             Y == { z \in S : z < y }
  <2>1. X \in SUBSET Y /\ X # Y /\ Y \in SUBSET S
    <3>1. \A z \in X : z \in Y
      BY <1>3
    <3>2. x \in Y /\ x \notin X
      BY <1>3
    <3> QED
      BY <3>1, <3>2
  <2>2. IsFiniteSet(Y)
    BY <2>1, FS_Subset
  <2>3. Cardinality(X) \in Nat /\ Cardinality(Y) \in Nat
    BY <1>2
  <2> HIDE DEF X, Y
  <2>4. Cardinality(X) <= Cardinality(Y) /\ Cardinality(X) # Cardinality(Y)
    BY <2>1, <2>2, FS_Subset
  <2>5. Cardinality(X) < Cardinality(Y)
    BY <2>3, <2>4
  <2> QED
    BY <2>5 DEF X, Y
<1> HIDE DEF Rank, n
<1>4. Ranks \in SUBSET (0..n) /\ Ranks # {}
  <2>1. \A x \in S : Rank(x) \in 0..n
    BY <1>1, <1>2
  <2> QED
    BY <2>1
<1>5. PICK r \in Ranks : \A j \in Ranks : j <= r
  <2> HIDE DEF Ranks
  <2> QED
    BY <1>1, <1>4, HighestExists
<1>6. PICK x \in S : r = Rank(x)
  BY <1>5
<1>7. ASSUME NEW y \in S PROVE y <= x
  <2> SUFFICES ASSUME x < y PROVE FALSE
    OBVIOUS
  <2>1. Rank(x) < Rank(y) /\ Rank(y) <= Rank(x)
    BY <1>3, <1>5, <1>6
  <2> QED
    BY <1>2, <2>1
<1> QED
  BY <1>7

LEMMA SortedExists ==
  ASSUME NEW S \in SUBSET Int, IsFiniteSet(S)
  PROVE  \E s : InOrder(s, S)
<1> DEFINE N == Cardinality(S)
           Sizes == { n \in 0..N : \A T \in SUBSET S :
                        Cardinality(T) = n => \E s : InOrder(s, T) }
<1>1. N \in Nat
  BY FS_CardinalityType
<1>2. 0 \in Sizes
  <2> SUFFICES ASSUME NEW T \in SUBSET S, Cardinality(T) = 0
               PROVE  \E s : InOrder(s, T)
    BY <1>1
  <2>1. IsFiniteSet(T)
    BY FS_Subset
  <2>2. T = {}
    BY <2>1, FS_EmptySet
  <2>3. InOrder([i \in 1..0 |-> i], T)
    BY <2>2 DEF InOrder
  <2> QED
    BY <2>3
<1>3. ASSUME NEW n \in 0..N - 1, n \in Sizes PROVE n + 1 \in Sizes
  <2> SUFFICES ASSUME NEW T \in SUBSET S, Cardinality(T) = n + 1
               PROVE  \E s : InOrder(s, T)
    BY <1>1
  <2>1. IsFiniteSet(T) /\ T # {} /\ T \in SUBSET Int
    <3>1. IsFiniteSet(T)
      BY FS_Subset
    <3>2. Cardinality({}) = 0 /\ n + 1 # 0
      BY <1>1, FS_EmptySet
    <3> QED
      BY <3>1, <3>2
  <2>2. PICK x \in T : \A y \in T : y <= x
    BY <2>1, FiniteHasHighest
  <2> DEFINE U == T \ {x}
  <2>3. U \in SUBSET S /\ Cardinality(U) = n
    <3>1. Cardinality(U) = Cardinality(T) - 1
      BY <2>1, <2>2, FS_RemoveElement
    <3> QED
      BY <1>1, <3>1
  <2> HIDE DEF U
  <2>4. PICK s : InOrder(s, U)
    BY <1>3, <2>3
  <2> DEFINE t == [i \in 1..n + 1 |-> IF i <= n THEN s[i] ELSE x]
  <2>5. \A i \in 1..n : s[i] \in U
    BY <2>3, <2>4 DEF InOrder
  <2>6. \A i \in 1..n : s[i] \in T /\ s[i] < x
    <3>1. \A y \in U : y \in T /\ y < x
      BY <2>1, <2>2 DEF U
    <3> QED
      BY <2>5, <3>1
  <2>7. t \in [1..n + 1 -> T]
    BY <1>1, <2>2, <2>6
  <2>8. ASSUME NEW i \in 1..n + 1, NEW j \in 1..n + 1, i < j PROVE t[i] < t[j]
    <3>1. i \in 1..n /\ t[i] = s[i]
      BY <1>1, <2>8
    <3>2. CASE j <= n
      <4>1. t[j] = s[j] /\ j \in 1..n
        BY <1>1, <3>2
      <4>2. s[i] < s[j]
        BY <2>3, <2>4, <2>8, <3>1, <4>1 DEF InOrder
      <4> QED
        BY <3>1, <4>1, <4>2
    <3>3. CASE ~(j <= n)
      BY <1>1, <2>6, <3>1, <3>3
    <3> QED
      BY <3>2, <3>3
  <2> HIDE DEF t
  <2>9. InOrder(t, T)
    BY <2>7, <2>8 DEF InOrder
  <2> QED
    BY <2>9
<1> HIDE DEF Sizes
<1>4. 0..N \subseteq Sizes
  BY <1>1, <1>2, <1>3, UpTo
<1>5. N \in Sizes
  BY <1>1, <1>4
<1> QED
  BY <1>5 DEF Sizes

LEMMA SortedIs ==
  ASSUME NEW S \in SUBSET Int, IsFiniteSet(S)
  PROVE  /\ Sorted(S) \in [1..Cardinality(S) -> S] /\ Cardinality(S) \in Nat
         /\ \A i, j \in 1..Cardinality(S) : i < j => Sorted(S)[i] < Sorted(S)[j]
         /\ \A x \in S : \E i \in 1..Cardinality(S) : Sorted(S)[i] = x
<1> DEFINE n == Cardinality(S)
           P(s) == \A i, j \in DOMAIN s : i < j => s[i] < s[j]
<1>1. n \in Nat
  BY FS_CardinalityType
<1>2. \E s \in [1..n -> S] : P(s)
  BY SortedExists DEF InOrder
<1>3. Sorted(S) = CHOOSE s \in [1..n -> S] : P(s)
  BY DEF Sorted
<1>4. Sorted(S) \in [1..n -> S] /\ P(Sorted(S))
  <2> HIDE DEF P, n
  <2> QED
    BY <1>2, <1>3
<1> DEFINE f == Sorted(S)
<1>5. \A i, j \in 1..n : i < j => f[i] < f[j]
  BY <1>4
<1>6. f \in Injection(1..n, S)
  <2>1. ASSUME NEW i \in 1..n, NEW j \in 1..n, f[i] = f[j] PROVE i = j
    <3>1. f[i] \in Int
      BY <1>4
    <3>2. ~(i < j) /\ ~(j < i)
      BY <1>5, <2>1, <3>1
    <3> QED
      BY <1>1, <3>2
  <2> HIDE DEF n, f
  <2> QED
    BY <1>4, <2>1 DEF Injection, IsInjective, f
<1>7. IsFiniteSet(1..n) /\ Cardinality(1..n) = n
  BY <1>1, FS_Interval
<1>8. f \in Surjection(1..n, S)
  BY <1>6, <1>7, FS_Injection
<1>9. \A x \in S : \E i \in 1..n : f[i] = x
  <2> HIDE DEF f, n
  <2> QED
    BY <1>8 DEF Surjection
<1> QED
  BY <1>1, <1>4, <1>5, <1>9

-----------------------------------------------------------------------------
(* The names of a directory, sorted.                                         *)
LEMMA ListingIsFinite ==
  Range(Listing) \in SUBSET Int /\ IsFiniteSet(Range(Listing))
<1>1. Listing \in Seq(Int)
  BY ProjFsAssumption
<1>2. Len(Listing) \in Nat /\ DOMAIN Listing = 1..Len(Listing)
      /\ \A i \in 1..Len(Listing) : Listing[i] \in Int
  BY <1>1, LenProperties
<1>3. Listing \in [1..Len(Listing) -> Range(Listing)]
  BY <1>1, <1>2 DEF Range
<1>4. Listing \in Surjection(1..Len(Listing), Range(Listing))
  BY <1>2, <1>3 DEF Surjection, Range
<1>5. IsFiniteSet(1..Len(Listing))
  BY <1>2, FS_Interval
<1>6. IsFiniteSet(Range(Listing))
  BY <1>4, <1>5, FS_Surjection
<1>7. Range(Listing) \in SUBSET Int
  BY <1>2 DEF Range
<1> QED
  BY <1>6, <1>7

LEMMA IndexIs ==
  /\ Len(index) \in Nat /\ index \in [1..Len(index) -> Range(Listing)]
  /\ \A i \in 1..Len(index) : index[i] \in Int
  /\ \A i, j \in 1..Len(index) : i < j => index[i] < index[j]
  /\ \A x \in Range(Listing) : \E i \in 1..Len(index) : index[i] = x
<1> DEFINE R == Range(Listing)
           n == Cardinality(R)
<1>1. R \in SUBSET Int /\ IsFiniteSet(R)
  BY ListingIsFinite
<1> HIDE DEF R
<1>2. /\ Sorted(R) \in [1..n -> R] /\ n \in Nat
      /\ \A i, j \in 1..n : i < j => Sorted(R)[i] < Sorted(R)[j]
      /\ \A x \in R : \E i \in 1..n : Sorted(R)[i] = x
  BY <1>1, SortedIs
<1>3. index = Sorted(R)
  BY DEF index, R
<1>4. Len(index) = n
  <2>1. index \in Seq(R)
    BY <1>2, <1>3
  <2>2. DOMAIN index = 1..n /\ DOMAIN index = 1..Len(index) /\ Len(index) \in Nat
    BY <1>2, <1>3, <2>1, LenProperties
  <2> QED
    BY <1>2, <2>2
<1>5. \A i \in 1..n : index[i] \in Int
  BY <1>1, <1>2, <1>3
<1> QED
  BY <1>2, <1>3, <1>4, <1>5 DEF R

(* What an enumeration has shown: the names that match up to its position.   *)
Shown(names, p, a) ==
  /\ a \in Seq(Int)
  /\ \A i, j \in 1..Len(a) : i < j => a[i] < a[j]
  /\ \A i \in 1..Len(a) :
       \E k \in 1..p : a[i] = index[k] /\ index[k] \in names
  /\ \A k \in 1..p : index[k] \in names => \E i \in 1..Len(a) : a[i] = index[k]

ScanIs(s) ==
  /\ s = [open |-> s.open, pos |-> s.pos, names |-> s.names, out |-> s.out,
          ended |-> s.ended]
  /\ s.open =>
       /\ s.names \in Expressions /\ s.pos \in 0..Len(index)
       /\ Shown(s.names, s.pos, s.out)
       /\ s.ended => Matching(s.names, s.pos) = {}

LEMMA NoScanIs == ScanIs(NoScan)
BY DEF ScanIs, NoScan

LEMMA RestartedIs ==
  ASSUME NEW names \in Expressions
  PROVE  ScanIs(Scanning(names, 0, <<>>, FALSE))
<1> DEFINE s == Scanning(names, 0, <<>>, FALSE)
<1>1. s.pos = 0 /\ s.out = <<>> /\ s.names = names /\ s.ended = FALSE
  BY DEF Scanning
<1>2. s = [open |-> s.open, pos |-> s.pos, names |-> s.names, out |-> s.out,
           ended |-> s.ended]
  BY DEF Scanning
<1> HIDE DEF s
<1>3. Len(s.out) = 0 /\ s.out \in Seq(Int)
  BY <1>1
<1>4. Len(index) \in Nat
  BY IndexIs
<1>5. ScanIs(s)
  BY <1>1, <1>2, <1>3, <1>4 DEF ScanIs, Shown
<1> QED
  BY <1>5 DEF s

(* The entries that one call fills are the first that are left.              *)
Fills(filled, left, room) ==
  filled = { i \in left : Cardinality({ j \in left : j <= i }) <= room }

LEMMA FilledAreFirst ==
  ASSUME NEW n \in Nat, NEW left \in SUBSET (1..n), NEW room \in Nat, NEW filled,
         Fills(filled, left, room), NEW i \in filled, NEW j \in left, j < i
  PROVE  j \in filled
<1>0. i \in left
  BY DEF Fills
<1> DEFINE I == { k \in left : k <= i }
           J == { k \in left : k <= j }
<1>1. IsFiniteSet(1..n)
  BY FS_Interval
<1>2. IsFiniteSet(left)
  BY <1>1, FS_Subset
<1>3. IsFiniteSet(I) /\ J \in SUBSET I
  <2>1. I \in SUBSET left
    OBVIOUS
  <2>2. \A k \in J : k \in I
    BY <1>0
  <2> QED
    BY <1>2, <2>1, <2>2, FS_Subset
<1> HIDE DEF I, J
<1>4. Cardinality(J) <= Cardinality(I) /\ IsFiniteSet(J)
  BY <1>3, FS_Subset
<1>5. Cardinality(J) \in Nat /\ Cardinality(I) \in Nat
  BY <1>3, <1>4, FS_CardinalityType
<1>6. Cardinality(I) <= room
  BY DEF Fills, I
<1>7. Cardinality(J) <= room
  BY <1>4, <1>5, <1>6
<1>8. j \in left /\ Cardinality({ k \in left : k <= j }) <= room
  BY <1>7 DEF J
<1> QED
  BY <1>8 DEF Fills

(* A reply goes on where the last one ended.                                 *)
LEMMA ReplyGoesOn ==
  ASSUME NEW sc, ScanIs(sc), sc.open, NEW room \in Nat,
         NEW left, left = Matching(sc.names, sc.pos),
         NEW filled, Fills(filled, left, room),
         filled # {} \/ left = {}
  PROVE  ScanIs(Scanning(sc.names, EndPos(sc.pos, filled),
                  sc.out \o [i \in DOMAIN Sorted(filled) |-> index[Sorted(filled)[i]]],
                  filled = {}))
<1> DEFINE n == Len(index)
           p == sc.pos
           names == sc.names
           out == sc.out
           m == Len(out)
           c == Cardinality(filled)
           ord == Sorted(filled)
           new == [i \in DOMAIN ord |-> index[ord[i]]]
           q == EndPos(p, filled)
           out2 == out \o new
<1>1. /\ n \in Nat /\ \A i \in 1..n : index[i] \in Int
      /\ \A i, j \in 1..n : i < j => index[i] < index[j]
  BY IndexIs
<1>2. /\ names \in Expressions /\ p \in 0..n /\ out \in Seq(Int)
      /\ \A i, j \in 1..m : i < j => out[i] < out[j]
      /\ \A i \in 1..m : \E k \in 1..p : out[i] = index[k] /\ index[k] \in names
      /\ \A k \in 1..p : index[k] \in names => \E i \in 1..m : out[i] = index[k]
  BY DEF ScanIs, Shown
<1>3. m \in Nat /\ \A i \in 1..m : out[i] \in Int
  BY <1>2, LenProperties
<1> HIDE DEF n, p, names, out, m
<1>4. left = { i \in p + 1..n : index[i] \in names }
  BY DEF Matching, p, n, names
<1>5. left \in SUBSET (1..n) /\ \A i \in left : i > p /\ index[i] \in names
  BY <1>1, <1>2, <1>4
<1>6. filled \in SUBSET left
  BY DEF Fills
<1>7. ASSUME NEW i \in filled, NEW j \in left, j < i PROVE j \in filled
  BY <1>1, <1>5, <1>7, FilledAreFirst
<1>8. filled \in SUBSET Int /\ IsFiniteSet(filled)
  <2>1. IsFiniteSet(1..n)
    BY <1>1, FS_Interval
  <2>2. filled \in SUBSET (1..n)
    BY <1>5, <1>6
  <2>3. IsFiniteSet(filled)
    BY <2>1, <2>2, FS_Subset
  <2>4. filled \in SUBSET Int
    BY <2>2
  <2> QED
    BY <2>3, <2>4
<1>9. /\ ord \in [1..c -> filled] /\ c \in Nat
      /\ \A i, j \in 1..c : i < j => ord[i] < ord[j]
      /\ \A x \in filled : \E i \in 1..c : ord[i] = x
  BY <1>8, SortedIs
<1> HIDE DEF ord, c
<1>10. /\ q \in p..n /\ \A i \in filled : i <= q
       /\ \A k \in p + 1..q : k \in left => k \in filled
  <2>1. CASE filled = {}
    <3>1. q = p
      BY <2>1 DEF EndPos
    <3> HIDE DEF q
    <3> QED
      BY <1>1, <1>2, <2>1, <3>1
  <2>2. CASE filled # {}
    <3>1. q = Max(filled)
      BY <2>2 DEF EndPos
    <3>2. filled \in SUBSET (0..n)
      BY <1>1, <1>5, <1>6
    <3>3. q \in filled /\ \A i \in filled : i <= q
      BY <1>1, <2>2, <3>1, <3>2, MaxIs
    <3> HIDE DEF q
    <3>4. q \in 1..n /\ q > p
      BY <1>5, <1>6, <3>3
    <3>5. ASSUME NEW k \in p + 1..q, k \in left PROVE k \in filled
      <4>1. k = q \/ k < q
        BY <1>1, <1>2, <3>4
      <4> QED
        BY <1>7, <3>3, <3>5, <4>1
    <3>6. q \in p..n
      BY <1>1, <1>2, <3>4
    <3> QED
      BY <3>3, <3>5, <3>6
  <2> QED
    BY <2>1, <2>2
<1>11. q = p \/ filled # {}
  BY DEF EndPos
<1> HIDE DEF q
<1>12. /\ new \in Seq(Int) /\ Len(new) = c
       /\ \A i \in 1..c : new[i] = index[ord[i]]
  <2>1. new \in [1..c -> Int]
    <3>1. \A i \in 1..c : index[ord[i]] \in Int
      BY <1>1, <1>5, <1>6, <1>9
    <3>2. DOMAIN ord = 1..c
      BY <1>9
    <3> QED
      BY <3>1, <3>2
  <2>2. new \in Seq(Int)
    BY <1>9, <2>1
  <2>3. Len(new) = c
    <3>1. DOMAIN new = 1..c /\ DOMAIN new = 1..Len(new) /\ Len(new) \in Nat
      BY <2>1, <2>2, LenProperties
    <3> HIDE DEF new
    <3> QED
      BY <1>9, <3>1
  <2>4. \A i \in 1..c : new[i] = index[ord[i]]
    BY <1>9
  <2> QED
    BY <2>2, <2>3, <2>4
<1> HIDE DEF new
<1>13. /\ out2 \in Seq(Int) /\ Len(out2) = m + c
       /\ \A i \in 1..m : out2[i] = out[i]
       /\ \A i \in 1..c : out2[m + i] = index[ord[i]]
  <2>1. /\ out2 \in Seq(Int) /\ Len(out2) = Len(out) + Len(new)
        /\ \A i \in 1..Len(out) + Len(new) :
             out2[i] = IF i <= Len(out) THEN out[i] ELSE new[i - Len(out)]
    <3>1. out \in Seq(Int) /\ new \in Seq(Int)
      BY <1>2, <1>12
    <3> QED
      BY <3>1, ConcatProperties
  <2>2. \A i \in 1..m + c : out2[i] = IF i <= m THEN out[i] ELSE new[i - m]
    BY <1>12, <2>1 DEF m
  <2>3. Len(out2) = m + c
    BY <1>12, <2>1 DEF m
  <2> HIDE DEF out2
  <2>4. \A i \in 1..m : out2[i] = out[i]
    BY <1>3, <1>9, <2>2
  <2>5. ASSUME NEW i \in 1..c PROVE out2[m + i] = index[ord[i]]
    <3>1. m + i \in 1..m + c /\ ~(m + i <= m) /\ (m + i) - m = i
      BY <1>3, <1>9
    <3>2. out2[m + i] = new[i]
      BY <2>2, <3>1
    <3> QED
      BY <1>12, <3>2
  <2> QED
    BY <2>1, <2>3, <2>4, <2>5
<1> HIDE DEF out2
<1>14. \A i \in 1..c : ord[i] \in left /\ ord[i] \in p + 1..q /\ ord[i] \in 1..n
  <2>1. \A i \in filled : i \in left /\ i \in 1..n /\ i > p /\ i <= q
    BY <1>5, <1>6, <1>10
  <2>2. \A i \in filled : i \in p + 1..q
    BY <1>1, <1>2, <1>10, <2>1
  <2> QED
    BY <1>9, <2>1, <2>2
<1>15. ASSUME NEW i \in 1..m + c
       PROVE  i \in 1..m \/ \E j \in 1..c : i = m + j
  <2>1. i \in 1..m \/ (i - m \in 1..c /\ i = m + (i - m))
    BY <1>3, <1>9
  <2> QED
    BY <2>1
<1>16. ASSUME NEW i \in 1..m + c
       PROVE  \E k \in 1..q : out2[i] = index[k] /\ index[k] \in names
  <2>1. CASE i \in 1..m
    <3>1. PICK k \in 1..p : out[i] = index[k] /\ index[k] \in names
      BY <1>2, <2>1
    <3>2. k \in 1..q
      BY <1>1, <1>2, <1>10
    <3> QED
      BY <1>13, <2>1, <3>1, <3>2
  <2>2. CASE \E j \in 1..c : i = m + j
    <3>1. PICK j \in 1..c : i = m + j
      BY <2>2
    <3>2. ord[j] \in 1..q
      BY <1>1, <1>2, <1>10, <1>14
    <3>3. index[ord[j]] \in names
      BY <1>5, <1>14
    <3> QED
      BY <1>13, <3>1, <3>2, <3>3
  <2> QED
    BY <1>15, <2>1, <2>2
<1>17. ASSUME NEW k \in 1..q, index[k] \in names
       PROVE  \E i \in 1..m + c : out2[i] = index[k]
  <2>1. CASE k <= p
    <3>1. PICK i \in 1..m : out[i] = index[k]
      BY <1>2, <1>10, <1>17, <2>1
    <3>2. i \in 1..m + c
      BY <1>3, <1>9
    <3> QED
      BY <1>13, <3>1, <3>2
  <2>2. CASE ~(k <= p)
    <3>1. k \in p + 1..q /\ k \in p + 1..n
      BY <1>1, <1>2, <1>10, <2>2
    <3>2. k \in filled
      BY <1>4, <1>10, <1>17, <3>1
    <3>3. PICK i \in 1..c : ord[i] = k
      BY <1>9, <3>2
    <3>4. m + i \in 1..m + c
      BY <1>3, <1>9
    <3> QED
      BY <1>13, <3>3, <3>4
  <2> QED
    BY <2>1, <2>2
<1>18. ASSUME NEW i \in 1..m + c, NEW j \in 1..m + c, i < j
       PROVE  out2[i] < out2[j]
  <2>1. CASE j \in 1..m
    <3>1. i \in 1..m
      BY <1>3, <1>18, <2>1
    <3> QED
      BY <1>2, <1>13, <1>18, <2>1, <3>1
  <2>2. CASE \E k \in 1..c : j = m + k
    <3>1. PICK k \in 1..c : j = m + k
      BY <2>2
    <3>2. CASE i \in 1..m
      <4>1. PICK l \in 1..p : out[i] = index[l]
        BY <1>2, <3>2
      <4>2. l < ord[k] /\ l \in 1..n /\ ord[k] \in 1..n
        BY <1>1, <1>2, <1>10, <1>14
      <4>3. index[l] < index[ord[k]]
        BY <1>1, <4>2
      <4> QED
        BY <1>13, <3>1, <3>2, <4>1, <4>3
    <3>3. CASE \E l \in 1..c : i = m + l
      <4>1. PICK l \in 1..c : i = m + l
        BY <3>3
      <4>2. l < k
        BY <1>3, <1>9, <1>18, <3>1, <4>1
      <4>3. ord[l] < ord[k] /\ ord[l] \in 1..n /\ ord[k] \in 1..n
        BY <1>9, <1>14, <4>2
      <4>4. index[ord[l]] < index[ord[k]]
        BY <1>1, <4>3
      <4> QED
        BY <1>13, <3>1, <4>1, <4>4
    <3> QED
      BY <1>15, <3>2, <3>3
  <2> QED
    BY <1>15, <2>1, <2>2
<1>19. filled = {} => Matching(names, q) = {}
  <2>1. SUFFICES ASSUME filled = {} PROVE Matching(names, q) = {}
    OBVIOUS
  <2>2. q = p /\ left = {}
    BY <1>11, <2>1
  <2> QED
    BY <2>2 DEF p, names
<1> DEFINE s == Scanning(names, q, out2, filled = {})
<1>20. /\ s.names = names /\ s.pos = q /\ s.out = out2 /\ s.ended = (filled = {})
       /\ s = [open |-> s.open, pos |-> s.pos, names |-> s.names, out |-> s.out,
               ended |-> s.ended]
  BY DEF Scanning
<1> HIDE DEF s
<1>21. q \in 0..n
  BY <1>1, <1>2, <1>10
<1>22. ScanIs(s)
  <2>1. s.names \in Expressions /\ s.pos \in 0..Len(index) /\ s.out \in Seq(Int)
    BY <1>2, <1>13, <1>20, <1>21 DEF n
  <2>2. \A i, j \in 1..Len(s.out) : i < j => s.out[i] < s.out[j]
    BY <1>13, <1>18, <1>20
  <2>3. \A i \in 1..Len(s.out) :
          \E k \in 1..s.pos : s.out[i] = index[k] /\ index[k] \in s.names
    BY <1>13, <1>16, <1>20
  <2>4. \A k \in 1..s.pos : index[k] \in s.names => \E i \in 1..Len(s.out) : s.out[i] = index[k]
    BY <1>13, <1>17, <1>20
  <2>5. s.ended => Matching(s.names, s.pos) = {}
    BY <1>19, <1>20
  <2> QED
    BY <1>20, <2>1, <2>2, <2>3, <2>4, <2>5 DEF ScanIs, Shown
<1>23. s = Scanning(sc.names, EndPos(sc.pos, filled),
             sc.out \o [i \in DOMAIN Sorted(filled) |-> index[Sorted(filled)[i]]],
             filled = {})
  BY DEF s, names, q, p, out2, out, new, ord
<1> QED
  BY <1>22, <1>23

LEMMA FillKeeps ==
  ASSUME NEW sc, ScanIs(sc), sc.open, Fill(sc)
  PROVE  ScanIs(scan')
<1> DEFINE left == Matching(sc.names, sc.pos)
           In(room) == { i \in left : Cardinality({ j \in left : j <= i }) <= room }
           Reply(filled) ==
             Scanning(sc.names, EndPos(sc.pos, filled),
               sc.out \o [i \in DOMAIN Sorted(filled) |-> index[Sorted(filled)[i]]],
               filled = {})
<1>1. PICK room \in Replies :
        (In(room) # {} \/ left = {}) /\ scan' = Reply(In(room))
  BY DEF Fill
<1>2. room \in Nat
  BY ProjFsAssumption
<1> DEFINE filled == In(room)
<1>3. Fills(filled, left, room)
  BY DEF Fills
<1> HIDE DEF filled
<1>4. (filled # {} \/ left = {}) /\ scan' = Reply(filled)
  BY <1>1 DEF filled
<1> HIDE DEF left
<1>5. left = Matching(sc.names, sc.pos)
  BY DEF left
<1>6. ScanIs(Reply(filled))
  BY <1>2, <1>3, <1>4, <1>5, ReplyGoesOn
<1> QED
  BY <1>4, <1>6

ScanInv == ScanIs(scan)

LEMMA InitScan == Init => ScanInv
BY NoScanIs DEF Init, ScanInv

(* Every step leaves the enumeration alone, closes it, or is a callback.     *)
LEMMA StepScan == ScanInv /\ [Next]_vars => ScanInv'
<1> SUFFICES ASSUME ScanIs(scan), [Next]_vars PROVE ScanIs(scan')
  BY DEF ScanInv
<1>1. CASE UNCHANGED scan
  BY <1>1
<1>2. CASE scan' = NoScan
  BY <1>2, NoScanIs
<1>3. CASE StartDirectoryEnumeration
  <2>1. PICK names \in Expressions : scan' = Scanning(names, 0, <<>>, FALSE)
    BY <1>3 DEF StartDirectoryEnumeration
  <2> QED
    BY <2>1, RestartedIs
<1>4. CASE GetDirectoryEnumeration
  <2>1. scan.open
    BY <1>4 DEF GetDirectoryEnumeration
  <2>2. CASE Fill(scan)
    BY <2>1, <2>2, FillKeeps
  <2>3. ASSUME NEW names \in Expressions,
               \/ Fill(Scanning(names, 0, <<>>, FALSE))
               \/ scan' = Scanning(names, 0, <<>>, FALSE)
        PROVE  ScanIs(scan')
    <3> DEFINE sc == Scanning(names, 0, <<>>, FALSE)
    <3>1. ScanIs(sc)
      BY RestartedIs
    <3>2. sc.open
      BY DEF Scanning
    <3>3. Fill(sc) \/ scan' = sc
      BY <2>3
    <3> HIDE DEF sc
    <3> QED
      BY <3>1, <3>2, <3>3, FillKeeps
  <2> QED
    BY <1>4, <2>2, <2>3 DEF GetDirectoryEnumeration
<1>5. UNCHANGED scan \/ scan' = NoScan \/ StartDirectoryEnumeration
      \/ GetDirectoryEnumeration
  BY DEF Next, vars, Launch, InitRemoveDir, InitCreateDir, ReadGuid, ReadGuidFails, CreateGuid,
         WriteGuid, MarkDirectory, StartVirtualizing, StoreContext, Interrupt,
         StopVirtualizing, DropWeak, RemoveDirAll, Recreate, Gone, Ends,
         UserFile, UserDir, Reads, Worker, GetPlaceholderInfo, GetFileData,
         Call, WriteFileData, ReadEnds, CompleteCommand, EndDirectoryEnumeration
<1> QED
  BY <1>1, <1>2, <1>3, <1>4, <1>5

(* What was shown up to a position is the front of the sorted names, and all *)
(* of them once nothing is left behind the position.                         *)
LEMMA ShownAreFirst ==
  ASSUME NEW names \in Expressions, NEW p \in 0..Len(index), NEW a,
         Shown(names, p, a)
  PROVE  /\ IsPrefix(a, Sorted(names))
         /\ Matching(names, p) = {} => a = Sorted(names)
<1> DEFINE n == Len(index)
           m == Len(a)
           b == Sorted(names)
           c == Cardinality(names)
<1>1. /\ n \in Nat /\ \A i \in 1..n : index[i] \in Int
      /\ \A i, j \in 1..n : i < j => index[i] < index[j]
      /\ \A x \in Range(Listing) : \E i \in 1..n : index[i] = x
  BY IndexIs
<1>2. /\ p \in 0..n
      /\ \A i, j \in 1..m : i < j => a[i] < a[j]
      /\ \A i \in 1..m : \E k \in 1..p : a[i] = index[k] /\ index[k] \in names
      /\ \A k \in 1..p : index[k] \in names => \E i \in 1..m : a[i] = index[k]
  BY DEF Shown
<1>3. m \in Nat /\ \A i \in 1..m : a[i] \in Int
  <2>1. a \in Seq(Int)
    BY DEF Shown
  <2> QED
    BY <2>1, LenProperties
<1>4. names \in SUBSET Range(Listing)
  BY ProjFsAssumption
<1> HIDE DEF n, m
<1>5. names \in SUBSET Int /\ IsFiniteSet(names)
  <2>1. IsFiniteSet(names)
    BY <1>4, ListingIsFinite, FS_Subset
  <2>2. names \in SUBSET Int
    BY <1>4, ListingIsFinite
  <2> QED
    BY <2>1, <2>2
<1>6. /\ b \in [1..c -> names] /\ c \in Nat
      /\ \A i, j \in 1..c : i < j => b[i] < b[j]
      /\ \A x \in names : \E i \in 1..c : b[i] = x
  BY <1>5, SortedIs
<1> HIDE DEF b, c
<1>7. b \in Seq(Int) /\ Len(b) = c
  <2>1. b \in [1..c -> Int]
    BY <1>5, <1>6
  <2>2. b \in Seq(Int)
    BY <1>6, <2>1
  <2>3. DOMAIN b = 1..c /\ DOMAIN b = 1..Len(b) /\ Len(b) \in Nat
    BY <2>1, <2>2, LenProperties
  <2> QED
    BY <1>6, <2>2, <2>3
<1>8. \A j \in 1..c : b[j] \in Int
  BY <1>5, <1>6
<1>9. \A i \in 1..m : \E j \in 1..c : a[i] = b[j]
  BY <1>2, <1>6
<1>10. ASSUME NEW i \in 1..m, NEW j \in 1..c, b[j] < a[i]
       PROVE  \E k \in 1..m : a[k] = b[j]
  <2>1. PICK k \in 1..p : a[i] = index[k]
    BY <1>2
  <2>2. PICK l \in 1..n : index[l] = b[j]
    BY <1>1, <1>4, <1>6
  <2>3. k \in 1..n /\ index[l] < index[k] /\ index[k] \in Int /\ index[l] \in Int
    <3>1. k \in 1..n
      BY <1>1, <1>2
    <3>2. index[l] < index[k]
      BY <1>10, <2>1, <2>2
    <3> QED
      BY <1>1, <3>1, <3>2
  <2>4. ~(k < l) /\ ~(k = l)
    BY <1>1, <2>3
  <2>5. l \in 1..p
    BY <1>1, <1>2, <2>4
  <2>6. index[l] \in names
    BY <1>6, <2>2
  <2>7. \E o \in 1..m : a[o] = index[l]
    BY <1>2, <2>5, <2>6
  <2> QED
    BY <2>2, <2>7
<1>11. m <= c /\ \A i \in 1..m : a[i] = b[i]
  <2>1. \A i, j \in 1..m : i < j => a[i] < a[j]
    BY <1>2
  <2>2. m \in Nat /\ c \in Nat
    BY <1>3, <1>6
  <2>3. \A i \in 1..m : a[i] \in Int
    BY <1>3
  <2>4. \A i, j \in 1..c : i < j => b[i] < b[j]
    BY <1>6
  <2>5. \A i \in 1..m, j \in 1..c : b[j] < a[i] => \E k \in 1..m : a[k] = b[j]
    BY <1>10
  <2>6. Rises(a, m) /\ Rises(b, c) /\ LowestOf(a, m, b, c)
    BY <1>8, <1>9, <2>1, <2>3, <2>4, <2>5 DEF Rises, LowestOf
  <2> QED
    BY <2>2, <2>6, IncreasingPrefix
<1>12. a \in [1..m -> Int] /\ b \in [1..c -> Int]
  <2>1. a \in Seq(Int)
    BY DEF Shown
  <2>2. a \in [1..m -> Int]
    BY <2>1, LenProperties DEF m
  <2> QED
    BY <1>7, <2>2, LenProperties
<1>13. IsPrefix(a, b)
  <2>1. \A i \in 1..m : SubSeq(a, 1, m)[i] = SubSeq(b, 1, m)[i]
    BY <1>3, <1>6, <1>7, <1>11, <1>12
  <2>2. SubSeq(a, 1, m) = SubSeq(b, 1, m)
    BY <1>3, <1>6, <1>11, <1>12, <2>1
  <2> QED
    BY <1>7, <1>11, <2>2 DEF IsPrefix, m
<1>14. ASSUME Matching(names, p) = {} PROVE a = b
  <2>1. ASSUME NEW j \in 1..c PROVE \E k \in 1..m : b[j] = a[k]
    <3>1. PICK l \in 1..n : index[l] = b[j]
      BY <1>1, <1>4, <1>6
    <3>2. index[l] \in names
      BY <1>6, <3>1
    <3>3. l \in 1..p
      <4>1. l \notin p + 1..n
        BY <1>14, <3>2 DEF Matching, n
      <4>2. n \in Nat /\ p \in 0..n
        BY <1>1, <1>2
      <4> QED
        BY <4>1, <4>2
    <3>4. \E k \in 1..m : a[k] = index[l]
      BY <1>2, <3>2, <3>3
    <3> QED
      BY <3>1, <3>4
  <2>2. \A i \in 1..c, j \in 1..m : a[j] < b[i] => \E k \in 1..c : b[k] = a[j]
    BY <1>9
  <2>3. c <= m
    <3>1. \A i, j \in 1..m : i < j => a[i] < a[j]
      BY <1>2
    <3>2. m \in Nat /\ c \in Nat
      BY <1>3, <1>6
    <3>3. \A i \in 1..m : a[i] \in Int
      BY <1>3
    <3>4. \A i, j \in 1..c : i < j => b[i] < b[j]
      BY <1>6
    <3>5. \A i \in 1..c : \E j \in 1..m : b[i] = a[j]
      BY <2>1
    <3>6. Rises(b, c) /\ Rises(a, m) /\ LowestOf(b, c, a, m)
      BY <1>8, <2>2, <3>1, <3>3, <3>4, <3>5 DEF Rises, LowestOf
    <3> QED
      BY <3>2, <3>6, IncreasingPrefix
  <2>4. m = c
    BY <1>3, <1>6, <1>11, <2>3
  <2> DEFINE D == 1..c
  <2>5. a \in [D -> Int] /\ b \in [D -> Int] /\ \A i \in D : a[i] = b[i]
    BY <1>11, <1>12, <2>4
  <2> HIDE DEF D
  <2> QED
    BY <2>5
<1> QED
  BY <1>13, <1>14 DEF b

LEMMA ScanInvShows == ScanInv => ScanIsComplete
<1> SUFFICES ASSUME ScanIs(scan), scan.open
             PROVE  /\ IsPrefix(scan.out, Sorted(scan.names))
                    /\ scan.ended => scan.out = Sorted(scan.names)
  BY DEF ScanInv, ScanIsComplete
<1>1. /\ IsPrefix(scan.out, Sorted(scan.names))
      /\ Matching(scan.names, scan.pos) = {} => scan.out = Sorted(scan.names)
  BY ShownAreFirst DEF ScanIs
<1>2. scan.ended => Matching(scan.names, scan.pos) = {}
  BY DEF ScanIs
<1> QED
  BY <1>1, <1>2

(* Whatever the directory, the expressions, the buffers and the restarts, an *)
(* enumeration has given the first names that match, in order and each once, *)
(* and all of them when it ends (projfs.rs:212-232, 457-461).                *)
THEOREM ScansAreComplete == Spec => []ScanIsComplete
<1>1. Spec => []ScanInv
  BY InitScan, StepScan, PTL DEF Spec
<1> QED
  BY <1>1, ScanInvShows, PTL
=============================================================================
