--------------------------- MODULE FuseReadProofs ---------------------------
(* Proofs about FuseRead, for any number of requests, workers and archives   *)
(* and a pool of any size.                                                   *)
EXTENDS FuseRead, FiniteSetTheorems, WellFoundedInduction, TLAPS

Waiting == {"dispatching", "queued", "refused", "ok", "err"} \cup InTask

(* The owners of the reply, the answers and the worker, in step with where   *)
(* the request is.                                                           *)
ReplyOwners ==
  \A r \in Requests :
    /\ pc[r] # "panic"
    /\ pc[r] \in Waiting => strong[r] = 1
    /\ pc[r] = "upgraded" => strong[r] = 2
    /\ Len(replies[r]) = IF pc[r] = "answered" THEN 1 ELSE 0

TasksHaveWorkers ==
  \A r \in Requests :
    /\ pc[r] \in InTask => worker[r] \in Workers
    /\ pc[r] \in {"sent", "dispatching", "queued", "refused", "upgraded"} =>
         worker[r] = Free

(* Only tasks that read own buffers, and only a read in flight the fourth.   *)
OwnersAreTasks ==
  \A r \in Requests :
    /\ pc[r] \notin {"reading", "inflight", "failing"} => slot[r] = NoBuffers
    /\ pc[r] \notin {"inflight", "failing"} => slot[r][InFlight] = Free

ChunksAreLeft == \A r \in Requests : pc[r] = "inflight" => left[r] > 0

TasksReadFiles ==
  \A r \in Requests : pc[r] \notin {"sent", "answered"} => target[r].kind # "other"

(* The inductive invariant.                                                  *)
IInv ==
  /\ TypeOK /\ ReplyOwners /\ TasksHaveWorkers /\ OwnersAreTasks
  /\ ChunksAreLeft /\ TasksReadFiles
  /\ BuffersSharedOut

-----------------------------------------------------------------------------
(* The ring goes round its three slots.                                      *)
LEMMA NextSlot == \A i \in 0..2 : (i + 1) % 3 \in 0..2
<1> SUFFICES ASSUME NEW i \in 0..2 PROVE (i + 1) % 3 \in 0..2
  OBVIOUS
<1>1. i \in Int /\ (i = 0 \/ i = 1 \/ i = 2)
  OBVIOUS
<1> QED
  BY <1>1

(* A set of bits has a lowest one.                                           *)
LEMMA LowestExists ==
  ASSUME NEW S \in SUBSET Nat, S # {}
  PROVE  \E i \in S : \A j \in S : i <= j
<1> DEFINE R == { p \in Nat \X Nat : p[1] < p[2] }
<1>1. IsWellFoundedOn(R, Nat)
  <2>1. R = OpToRel(<, Nat)
    BY DEF OpToRel
  <2>2. IsWellFoundedOn(OpToRel(<, Nat), Nat)
    BY NatLessThanWellFounded
  <2> QED
    BY <2>1, <2>2
<1>2. PICK i \in S : \A j \in S : ~ (<<j, i>> \in R)
  <2> HIDE DEF R
  <2> QED
    BY <1>1, WFMin, Zenon
<1>3. ASSUME NEW j \in S PROVE i <= j
  <2>1. i \in Nat /\ j \in Nat /\ (j < i => <<j, i>> \in R)
    OBVIOUS
  <2>2. ~ (j < i)
    BY <2>1, <1>2
  <2> QED
    BY <2>1, <2>2
<1> QED
  BY <1>3

LEMMA TrailingZeros ==
  ASSUME NEW word \in SUBSET Nat, word # {}
  PROVE  /\ trailing_zeros(word) \in word
         /\ \A j \in word : trailing_zeros(word) <= j
BY LowestExists DEF trailing_zeros

(* The arithmetic of alloc takes one bit, the one of the buffer it returns.  *)
LEMMA AllocTakesItsBit ==
  ASSUME NEW word \in SUBSET Nat, word # {}
  PROVE  /\ Handed(word) \in word
         /\ WithoutLowest(word) = word \ {Handed(word)}
<1> DEFINE l == trailing_zeros(word)
<1>1. l \in word /\ l \in Nat /\ \A j \in word : l <= j
  BY TrailingZeros
<1> HIDE DEF l
<1>2. ASSUME NEW x
      PROVE  x \in WithoutLowest(word) <=> x \in word /\ x # l
  <2>1. x \in WithoutLowest(word) <=>
          x \in word /\ ((x \in word /\ x # l) \/ x \in 0..(l - 1))
    BY DEF WithoutLowest, MinusOne, l
  <2>2. x \in word => ~ (x \in 0..(l - 1))
    BY <1>1
  <2> QED
    BY <2>1, <2>2
<1>3. word \ WithoutLowest(word) = {l}
  BY <1>1, <1>2
<1>4. Handed(word) = l
  BY <1>3 DEF Handed, trailing_zeros
<1> QED
  BY <1>1, <1>2, <1>4

(* What a read that starts does to the pool and to its own slots.            *)
Takes(r, b) ==
  /\ b \in available[worker[r]]
  /\ available' = [available EXCEPT ![worker[r]] = @ \ {b}]
  /\ slot' = [slot EXCEPT ![r][InFlight] = b]

LEMMA StartReadTakes ==
  ASSUME TypeOK, TasksHaveWorkers, NEW r \in Requests, StartRead(r)
  PROVE  \E b \in Buffers : Takes(r, b)
<1>1. worker[r] \in Workers
  BY DEF StartRead, Goto, TasksHaveWorkers, InTask
<1>2. available[worker[r]] \in SUBSET Nat /\ available[worker[r]] \subseteq Buffers
  BY <1>1, FuseReadAssumption DEF TypeOK
<1>3. available[worker[r]] # {}
  BY DEF StartRead, Alloc
<1> DEFINE b == Handed(available[worker[r]])
<1>4. /\ b \in available[worker[r]]
      /\ WithoutLowest(available[worker[r]]) = available[worker[r]] \ {b}
  BY <1>2, <1>3, AllocTakesItsBit
<1>5. /\ available' = [available EXCEPT ![worker[r]] = WithoutLowest(available[worker[r]])]
      /\ slot' = [slot EXCEPT ![r][InFlight] = b]
  BY DEF StartRead, Alloc
<1> HIDE DEF b
<1>6. Takes(r, b)
  BY <1>4, <1>5 DEF Takes
<1> QED
  BY <1>2, <1>4, <1>6

(* What a request is of, whatever its kind.                                  *)
LEMMA TargetFields ==
  ASSUME NEW t \in Targets
  PROVE  /\ t.kind \in {"clear", "encrypted", "window", "other"}
         /\ t.archive \in Archives /\ t.chunks \in Nat
  BY FuseReadAssumption DEF Targets

(* A chunk that is pushed brings no buffer but the one it was read into and  *)
(* leaves none in flight.                                                    *)
LEMMA PushedIsSlots ==
  ASSUME TypeOK, NEW r \in Requests, pc[r] = "inflight", target[r].kind # "other"
  PROVE  /\ Pushed(r) \in [Slots -> Buffers \cup {Free}]
         /\ Pushed(r)[InFlight] = Free
         /\ \A s \in Slots : Pushed(r)[s] # Free => Pushed(r)[s] \in Owned(r)
<1> DEFINE b == slot[r][InFlight]
           p == (ring[r] + 1) % 3
<1>1. b \in Buffers \cup {Free} /\ slot[r] \in [Slots -> Buffers \cup {Free}]
  BY DEF TypeOK, Slots, InFlight
<1>2. p \in 0..2
  BY NextSlot DEF TypeOK
<1>3. target[r].kind \in {"clear", "encrypted", "window"}
  BY TargetFields DEF TypeOK
<1>4. CASE target[r].kind = "clear"
  BY <1>4 DEF Pushed, NoBuffers, Slots, InFlight
<1>5. CASE target[r].kind = "encrypted"
  <2>1. Pushed(r) = [slot[r] EXCEPT ![p] = b, ![InFlight] = Free]
    BY <1>5 DEF Pushed
  <2> HIDE DEF p
  <2> QED
    BY <1>1, <1>2, <2>1 DEF Slots, InFlight, Owned
<1>6. CASE target[r].kind = "window"
  <2>1. Pushed(r) = [NoBuffers EXCEPT ![0] = b, ![1] = b, ![2] = b]
    BY <1>6 DEF Pushed
  <2> QED
    BY <1>1, <2>1 DEF NoBuffers, Slots, InFlight, Owned
<1> QED
  BY <1>3, <1>4, <1>5, <1>6

(* A chunk that is passed over only lets its own buffer go.                  *)
Emptied(r) == [slot[r] EXCEPT ![InFlight] = Free]

LEMMA EmptiedIsSlots ==
  ASSUME TypeOK, NEW r \in Requests
  PROVE  /\ Emptied(r) \in [Slots -> Buffers \cup {Free}]
         /\ \A s \in Slots : Emptied(r)[s] # Free => Emptied(r)[s] \in Owned(r)
BY DEF TypeOK, Emptied, Owned

(* Types of what a change of slots writes.                                   *)
LEMMA SetSlotsType ==
  ASSUME TypeOK, NEW r \in Requests, NEW new \in [Slots -> Buffers \cup {Free}],
         SetSlots(r, new)
  PROVE  /\ slot' \in [Requests -> [Slots -> Buffers \cup {Free}]]
         /\ available' \in [Workers -> SUBSET Buffers]
<1>1. Owned(r) \subseteq Buffers
  BY DEF TypeOK, Owned
<1> QED
  BY <1>1 DEF SetSlots, WithBits, TypeOK

(* Types.                                                                    *)
LEMMA NextTypeOK == IInv /\ [Next]_vars => TypeOK'
<1> SUFFICES ASSUME IInv, [Next]_vars PROVE TypeOK'
  OBVIOUS
<1> USE DEF Goto, Answer, handler, task, IInv, TypeOK, InTask
<1>1. ASSUME NEW r \in Requests, HandleStale(r) PROVE TypeOK'
  BY <1>1 DEF HandleStale
<1>2. ASSUME NEW r \in Requests, Handle(r) PROVE TypeOK'
  BY <1>2 DEF Handle
<1>3. ASSUME NEW r \in Requests, Dispatch(r) PROVE TypeOK'
  BY <1>3 DEF Dispatch
<1>4. ASSUME NEW r \in Requests, DispatchRefused(r) PROVE TypeOK'
  BY <1>4 DEF DispatchRefused
<1>5. ASSUME NEW r \in Requests, Upgrade(r) PROVE TypeOK'
  BY <1>5 DEF Upgrade
<1>6. ASSUME NEW r \in Requests, DropTask(r) PROVE TypeOK'
  BY <1>6 DEF DropTask
<1>7. ASSUME NEW r \in Requests, NEW w \in Workers, Take(r, w) PROVE TypeOK'
  BY <1>7, TargetFields DEF Take
<1>8. ASSUME NEW r \in Requests, OpenCached(r) PROVE TypeOK'
  BY <1>8 DEF OpenCached
<1>9. ASSUME NEW r \in Requests, OpenStart(r) PROVE TypeOK'
  BY <1>9 DEF OpenStart
<1>10. ASSUME NEW r \in Requests, OpenDone(r) PROVE TypeOK'
  BY <1>10, TargetFields DEF OpenDone
<1>11. ASSUME NEW r \in Requests, OpenFails(r) PROVE TypeOK'
  BY <1>11 DEF OpenFails
<1>12. ASSUME NEW r \in Requests, StartRead(r) PROVE TypeOK'
  <2>1. PICK b \in Buffers : Takes(r, b)
    BY <1>12, StartReadTakes
  <2> QED
    BY <1>12, <2>1 DEF StartRead, Takes, Slots, InFlight, TasksHaveWorkers
<1>13. ASSUME NEW r \in Requests, PoolExhausted(r) PROVE TypeOK'
  BY <1>13 DEF PoolExhausted
<1>14. ASSUME NEW r \in Requests, ReadDone(r) PROVE TypeOK'
  <2>1. Pushed(r) \in [Slots -> Buffers \cup {Free}]
    BY <1>14, PushedIsSlots DEF ReadDone, TasksReadFiles
  <2>2. left[r] - 1 \in Nat
    BY <1>14 DEF ReadDone, ChunksAreLeft
  <2>3. (ring[r] + 1) % 3 \in 0..2
    BY NextSlot
  <2> QED
    BY <1>14, <2>1, <2>2, <2>3, SetSlotsType DEF ReadDone
<1>15. ASSUME NEW r \in Requests, ReadFails(r) PROVE TypeOK'
  BY <1>15 DEF ReadFails
<1>16. ASSUME NEW r \in Requests, Return(r) PROVE TypeOK'
  <2>1. NoBuffers \in [Slots -> Buffers \cup {Free}]
    BY DEF NoBuffers
  <2>2. ring' \in [Requests -> 0..2] /\ left' \in [Requests -> Nat]
    BY <1>16 DEF Return, EndStreams
  <2>3. pc' \in [Requests -> {"sent", "dispatching", "queued", "refused", "upgraded", "ok",
                              "err", "answered", "panic"} \cup InTask]
    BY <1>16 DEF Return
  <2> QED
    BY <1>16, <2>1, <2>2, <2>3, SetSlotsType DEF Return
<1>17. ASSUME NEW r \in Requests, Reply(r) PROVE TypeOK'
  <2> DEFINE what == IF pc[r] = "ok" THEN "data" ELSE "EIO"
  <2>1. Append(replies[r], what) \in Seq({"ESTALE", "EIO", "data"})
    OBVIOUS
  <2>2. replies' \in [Requests -> Seq({"ESTALE", "EIO", "data"})]
    BY <1>17, <2>1 DEF Reply
  <2>3. strong' \in [Requests -> Int]
    BY <1>17 DEF Reply
  <2> QED
    BY <1>17, <2>2, <2>3 DEF Reply
<1>18. ASSUME NEW r \in Requests, ReadDropped(r) PROVE TypeOK'
  <2>1. [slot[r] EXCEPT ![InFlight] = Free] \in [Slots -> Buffers \cup {Free}]
    OBVIOUS
  <2>2. left[r] - 1 \in Nat
    BY <1>18 DEF ReadDropped, ChunksAreLeft
  <2> QED
    BY <1>18, <2>1, <2>2, SetSlotsType DEF ReadDropped
<1>19. ASSUME NEW r \in Requests, Panics(r) PROVE TypeOK'
  <2>1. NoBuffers \in [Slots -> Buffers \cup {Free}]
    BY DEF NoBuffers
  <2>2. Append(replies[r], "EIO") \in Seq({"ESTALE", "EIO", "data"})
    OBVIOUS
  <2>3. replies' \in [Requests -> Seq({"ESTALE", "EIO", "data"})]
    BY <1>19, <2>2 DEF Panics
  <2>4. strong' \in [Requests -> Int]
    BY <1>19 DEF Panics
  <2> QED
    BY <1>19, <2>1, <2>3, <2>4, SetSlotsType DEF Panics, EndStreams
<1>20. CASE UNCHANGED vars
  BY <1>20 DEF vars
<1> QED
  BY <1>1, <1>2, <1>3, <1>4, <1>5, <1>6, <1>7, <1>8, <1>9,
     <1>10, <1>11, <1>12, <1>13, <1>14, <1>15, <1>16, <1>17,
     <1>18, <1>19, <1>20 DEF Next, Step, AllAnswered

(* Handler and task never own the reply both when one of them answers.       *)
LEMMA NextReplyOwners == IInv /\ [Next]_vars => ReplyOwners'
<1> SUFFICES ASSUME IInv, [Next]_vars PROVE ReplyOwners'
  OBVIOUS
<1> USE DEF Goto, Answer, handler, task, IInv, TypeOK, InTask, ReplyOwners, Waiting
<1>1. ASSUME NEW r \in Requests, HandleStale(r) PROVE ReplyOwners'
  <2>1. Len(replies[r]) = 0 /\ replies[r] \in Seq({"ESTALE", "EIO", "data"})
    BY <1>1 DEF HandleStale
  <2>2. Len(Append(replies[r], "ESTALE")) = 1
    BY <2>1
  <2> QED
    BY <1>1, <2>2 DEF HandleStale
<1>2. ASSUME NEW r \in Requests, Handle(r) PROVE ReplyOwners'
  BY <1>2 DEF Handle
<1>3. ASSUME NEW r \in Requests, Dispatch(r) PROVE ReplyOwners'
  BY <1>3 DEF Dispatch
<1>4. ASSUME NEW r \in Requests, DispatchRefused(r) PROVE ReplyOwners'
  BY <1>4 DEF DispatchRefused
<1>5. ASSUME NEW r \in Requests, Upgrade(r) PROVE ReplyOwners'
  BY <1>5 DEF Upgrade
<1>6. ASSUME NEW r \in Requests, DropTask(r) PROVE ReplyOwners'
  BY <1>6 DEF DropTask
<1>7. ASSUME NEW r \in Requests, NEW w \in Workers, Take(r, w) PROVE ReplyOwners'
  BY <1>7 DEF Take
<1>8. ASSUME NEW r \in Requests, OpenCached(r) PROVE ReplyOwners'
  BY <1>8 DEF OpenCached
<1>9. ASSUME NEW r \in Requests, OpenStart(r) PROVE ReplyOwners'
  BY <1>9 DEF OpenStart
<1>10. ASSUME NEW r \in Requests, OpenDone(r) PROVE ReplyOwners'
  BY <1>10 DEF OpenDone
<1>11. ASSUME NEW r \in Requests, OpenFails(r) PROVE ReplyOwners'
  BY <1>11 DEF OpenFails
<1>12. ASSUME NEW r \in Requests, StartRead(r) PROVE ReplyOwners'
  BY <1>12 DEF StartRead
<1>13. ASSUME NEW r \in Requests, PoolExhausted(r) PROVE ReplyOwners'
  BY <1>13 DEF PoolExhausted
<1>14. ASSUME NEW r \in Requests, ReadDone(r) PROVE ReplyOwners'
  BY <1>14 DEF ReadDone
<1>15. ASSUME NEW r \in Requests, ReadFails(r) PROVE ReplyOwners'
  BY <1>15 DEF ReadFails
<1>16. ASSUME NEW r \in Requests, Return(r) PROVE ReplyOwners'
  BY <1>16 DEF Return
<1>17. ASSUME NEW r \in Requests, Reply(r) PROVE ReplyOwners'
  <2>1. strong[r] = 1 /\ Len(replies[r]) = 0 /\ replies[r] \in Seq({"ESTALE", "EIO", "data"})
    BY <1>17 DEF Reply
  <2> DEFINE what == IF pc[r] = "ok" THEN "data" ELSE "EIO"
  <2>2. Len(Append(replies[r], what)) = 1
    BY <2>1
  <2> QED
    BY <1>17, <2>1, <2>2 DEF Reply
<1>18. ASSUME NEW r \in Requests, ReadDropped(r) PROVE ReplyOwners'
  BY <1>18 DEF ReadDropped
<1>19. ASSUME NEW r \in Requests, Panics(r) PROVE ReplyOwners'
  <2>1. strong[r] = 1 /\ Len(replies[r]) = 0 /\ replies[r] \in Seq({"ESTALE", "EIO", "data"})
    BY <1>19 DEF Panics
  <2>2. Len(Append(replies[r], "EIO")) = 1
    BY <2>1
  <2> QED
    BY <1>19, <2>1, <2>2 DEF Panics
<1>20. CASE UNCHANGED vars
  BY <1>20 DEF vars
<1> QED
  BY <1>1, <1>2, <1>3, <1>4, <1>5, <1>6, <1>7, <1>8, <1>9,
     <1>10, <1>11, <1>12, <1>13, <1>14, <1>15, <1>16, <1>17,
     <1>18, <1>19, <1>20 DEF Next, Step, AllAnswered

(* A task runs on the worker that took it.                                   *)
LEMMA NextTasksHaveWorkers == IInv /\ [Next]_vars => TasksHaveWorkers'
<1> SUFFICES ASSUME IInv, [Next]_vars PROVE TasksHaveWorkers'
  OBVIOUS
<1> USE DEF Goto, Answer, handler, task, IInv, TypeOK, InTask, TasksHaveWorkers
<1>1. ASSUME NEW r \in Requests, HandleStale(r) PROVE TasksHaveWorkers'
  BY <1>1 DEF HandleStale
<1>2. ASSUME NEW r \in Requests, Handle(r) PROVE TasksHaveWorkers'
  BY <1>2 DEF Handle
<1>3. ASSUME NEW r \in Requests, Dispatch(r) PROVE TasksHaveWorkers'
  BY <1>3 DEF Dispatch
<1>4. ASSUME NEW r \in Requests, DispatchRefused(r) PROVE TasksHaveWorkers'
  BY <1>4 DEF DispatchRefused
<1>5. ASSUME NEW r \in Requests, Upgrade(r) PROVE TasksHaveWorkers'
  BY <1>5 DEF Upgrade
<1>6. ASSUME NEW r \in Requests, DropTask(r) PROVE TasksHaveWorkers'
  BY <1>6 DEF DropTask
<1>7. ASSUME NEW r \in Requests, NEW w \in Workers, Take(r, w) PROVE TasksHaveWorkers'
  BY <1>7 DEF Take
<1>8. ASSUME NEW r \in Requests, OpenCached(r) PROVE TasksHaveWorkers'
  BY <1>8 DEF OpenCached
<1>9. ASSUME NEW r \in Requests, OpenStart(r) PROVE TasksHaveWorkers'
  BY <1>9 DEF OpenStart
<1>10. ASSUME NEW r \in Requests, OpenDone(r) PROVE TasksHaveWorkers'
  BY <1>10 DEF OpenDone
<1>11. ASSUME NEW r \in Requests, OpenFails(r) PROVE TasksHaveWorkers'
  BY <1>11 DEF OpenFails
<1>12. ASSUME NEW r \in Requests, StartRead(r) PROVE TasksHaveWorkers'
  BY <1>12 DEF StartRead
<1>13. ASSUME NEW r \in Requests, PoolExhausted(r) PROVE TasksHaveWorkers'
  BY <1>13 DEF PoolExhausted
<1>14. ASSUME NEW r \in Requests, ReadDone(r) PROVE TasksHaveWorkers'
  BY <1>14 DEF ReadDone
<1>15. ASSUME NEW r \in Requests, ReadFails(r) PROVE TasksHaveWorkers'
  BY <1>15 DEF ReadFails
<1>16. ASSUME NEW r \in Requests, Return(r) PROVE TasksHaveWorkers'
  BY <1>16 DEF Return
<1>17. ASSUME NEW r \in Requests, Reply(r) PROVE TasksHaveWorkers'
  BY <1>17 DEF Reply
<1>18. ASSUME NEW r \in Requests, ReadDropped(r) PROVE TasksHaveWorkers'
  BY <1>18 DEF ReadDropped
<1>19. ASSUME NEW r \in Requests, Panics(r) PROVE TasksHaveWorkers'
  BY <1>19 DEF Panics, EndStreams
<1>20. CASE UNCHANGED vars
  BY <1>20 DEF vars
<1> QED
  BY <1>1, <1>2, <1>3, <1>4, <1>5, <1>6, <1>7, <1>8, <1>9,
     <1>10, <1>11, <1>12, <1>13, <1>14, <1>15, <1>16, <1>17,
     <1>18, <1>19, <1>20 DEF Next, Step, AllAnswered

(* A read in flight is one of the chunks left.                               *)
LEMMA NextChunksAreLeft == IInv /\ [Next]_vars => ChunksAreLeft'
<1> SUFFICES ASSUME IInv, [Next]_vars PROVE ChunksAreLeft'
  OBVIOUS
<1> USE DEF Goto, Answer, handler, task, IInv, TypeOK, InTask, ChunksAreLeft
<1>1. ASSUME NEW r \in Requests, HandleStale(r) PROVE ChunksAreLeft'
  BY <1>1 DEF HandleStale
<1>2. ASSUME NEW r \in Requests, Handle(r) PROVE ChunksAreLeft'
  BY <1>2 DEF Handle
<1>3. ASSUME NEW r \in Requests, Dispatch(r) PROVE ChunksAreLeft'
  BY <1>3 DEF Dispatch
<1>4. ASSUME NEW r \in Requests, DispatchRefused(r) PROVE ChunksAreLeft'
  BY <1>4 DEF DispatchRefused
<1>5. ASSUME NEW r \in Requests, Upgrade(r) PROVE ChunksAreLeft'
  BY <1>5 DEF Upgrade
<1>6. ASSUME NEW r \in Requests, DropTask(r) PROVE ChunksAreLeft'
  BY <1>6 DEF DropTask
<1>7. ASSUME NEW r \in Requests, NEW w \in Workers, Take(r, w) PROVE ChunksAreLeft'
  BY <1>7 DEF Take
<1>8. ASSUME NEW r \in Requests, OpenCached(r) PROVE ChunksAreLeft'
  BY <1>8 DEF OpenCached
<1>9. ASSUME NEW r \in Requests, OpenStart(r) PROVE ChunksAreLeft'
  BY <1>9 DEF OpenStart
<1>10. ASSUME NEW r \in Requests, OpenDone(r) PROVE ChunksAreLeft'
  BY <1>10 DEF OpenDone
<1>11. ASSUME NEW r \in Requests, OpenFails(r) PROVE ChunksAreLeft'
  BY <1>11 DEF OpenFails
<1>12. ASSUME NEW r \in Requests, StartRead(r) PROVE ChunksAreLeft'
  BY <1>12 DEF StartRead
<1>13. ASSUME NEW r \in Requests, PoolExhausted(r) PROVE ChunksAreLeft'
  BY <1>13 DEF PoolExhausted
<1>14. ASSUME NEW r \in Requests, ReadDone(r) PROVE ChunksAreLeft'
  BY <1>14 DEF ReadDone
<1>15. ASSUME NEW r \in Requests, ReadFails(r) PROVE ChunksAreLeft'
  BY <1>15 DEF ReadFails
<1>16. ASSUME NEW r \in Requests, Return(r) PROVE ChunksAreLeft'
  BY <1>16 DEF Return, EndStreams
<1>17. ASSUME NEW r \in Requests, Reply(r) PROVE ChunksAreLeft'
  BY <1>17 DEF Reply
<1>18. ASSUME NEW r \in Requests, ReadDropped(r) PROVE ChunksAreLeft'
  BY <1>18 DEF ReadDropped
<1>19. ASSUME NEW r \in Requests, Panics(r) PROVE ChunksAreLeft'
  BY <1>19 DEF Panics, EndStreams
<1>20. CASE UNCHANGED vars
  BY <1>20 DEF vars
<1> QED
  BY <1>1, <1>2, <1>3, <1>4, <1>5, <1>6, <1>7, <1>8, <1>9,
     <1>10, <1>11, <1>12, <1>13, <1>14, <1>15, <1>16, <1>17,
     <1>18, <1>19, <1>20 DEF Next, Step, AllAnswered

(* A request that is not of a file is answered at once.                      *)
LEMMA NextTasksReadFiles == IInv /\ [Next]_vars => TasksReadFiles'
<1> SUFFICES ASSUME IInv, [Next]_vars PROVE TasksReadFiles'
  OBVIOUS
<1> USE DEF Goto, Answer, handler, task, IInv, TypeOK, InTask, TasksReadFiles
<1>1. ASSUME NEW r \in Requests, HandleStale(r) PROVE TasksReadFiles'
  BY <1>1 DEF HandleStale
<1>2. ASSUME NEW r \in Requests, Handle(r) PROVE TasksReadFiles'
  BY <1>2 DEF Handle
<1>3. ASSUME NEW r \in Requests, Dispatch(r) PROVE TasksReadFiles'
  BY <1>3 DEF Dispatch
<1>4. ASSUME NEW r \in Requests, DispatchRefused(r) PROVE TasksReadFiles'
  BY <1>4 DEF DispatchRefused
<1>5. ASSUME NEW r \in Requests, Upgrade(r) PROVE TasksReadFiles'
  BY <1>5 DEF Upgrade
<1>6. ASSUME NEW r \in Requests, DropTask(r) PROVE TasksReadFiles'
  BY <1>6 DEF DropTask
<1>7. ASSUME NEW r \in Requests, NEW w \in Workers, Take(r, w) PROVE TasksReadFiles'
  BY <1>7 DEF Take
<1>8. ASSUME NEW r \in Requests, OpenCached(r) PROVE TasksReadFiles'
  BY <1>8 DEF OpenCached
<1>9. ASSUME NEW r \in Requests, OpenStart(r) PROVE TasksReadFiles'
  BY <1>9 DEF OpenStart
<1>10. ASSUME NEW r \in Requests, OpenDone(r) PROVE TasksReadFiles'
  BY <1>10 DEF OpenDone
<1>11. ASSUME NEW r \in Requests, OpenFails(r) PROVE TasksReadFiles'
  BY <1>11 DEF OpenFails
<1>12. ASSUME NEW r \in Requests, StartRead(r) PROVE TasksReadFiles'
  BY <1>12 DEF StartRead
<1>13. ASSUME NEW r \in Requests, PoolExhausted(r) PROVE TasksReadFiles'
  BY <1>13 DEF PoolExhausted
<1>14. ASSUME NEW r \in Requests, ReadDone(r) PROVE TasksReadFiles'
  BY <1>14 DEF ReadDone
<1>15. ASSUME NEW r \in Requests, ReadFails(r) PROVE TasksReadFiles'
  BY <1>15 DEF ReadFails
<1>16. ASSUME NEW r \in Requests, Return(r) PROVE TasksReadFiles'
  BY <1>16 DEF Return
<1>17. ASSUME NEW r \in Requests, Reply(r) PROVE TasksReadFiles'
  BY <1>17 DEF Reply
<1>18. ASSUME NEW r \in Requests, ReadDropped(r) PROVE TasksReadFiles'
  BY <1>18 DEF ReadDropped
<1>19. ASSUME NEW r \in Requests, Panics(r) PROVE TasksReadFiles'
  BY <1>19 DEF Panics, EndStreams
<1>20. CASE UNCHANGED vars
  BY <1>20 DEF vars
<1> QED
  BY <1>1, <1>2, <1>3, <1>4, <1>5, <1>6, <1>7, <1>8, <1>9,
     <1>10, <1>11, <1>12, <1>13, <1>14, <1>15, <1>16, <1>17,
     <1>18, <1>19, <1>20 DEF Next, Step, AllAnswered

(* A task returns every buffer before it answers.                           *)
LEMMA NextOwnersAreTasks == IInv /\ [Next]_vars => OwnersAreTasks'
<1> SUFFICES ASSUME IInv, [Next]_vars PROVE OwnersAreTasks'
  OBVIOUS
<1> USE DEF Goto, Answer, handler, task, IInv, TypeOK, InTask, OwnersAreTasks, NoBuffers
<1>1. ASSUME NEW r \in Requests, HandleStale(r) PROVE OwnersAreTasks'
  BY <1>1 DEF HandleStale
<1>2. ASSUME NEW r \in Requests, Handle(r) PROVE OwnersAreTasks'
  BY <1>2 DEF Handle
<1>3. ASSUME NEW r \in Requests, Dispatch(r) PROVE OwnersAreTasks'
  BY <1>3 DEF Dispatch
<1>4. ASSUME NEW r \in Requests, DispatchRefused(r) PROVE OwnersAreTasks'
  BY <1>4 DEF DispatchRefused
<1>5. ASSUME NEW r \in Requests, Upgrade(r) PROVE OwnersAreTasks'
  BY <1>5 DEF Upgrade
<1>6. ASSUME NEW r \in Requests, DropTask(r) PROVE OwnersAreTasks'
  BY <1>6 DEF DropTask
<1>7. ASSUME NEW r \in Requests, NEW w \in Workers, Take(r, w) PROVE OwnersAreTasks'
  BY <1>7 DEF Take
<1>8. ASSUME NEW r \in Requests, OpenCached(r) PROVE OwnersAreTasks'
  BY <1>8 DEF OpenCached
<1>9. ASSUME NEW r \in Requests, OpenStart(r) PROVE OwnersAreTasks'
  BY <1>9 DEF OpenStart
<1>10. ASSUME NEW r \in Requests, OpenDone(r) PROVE OwnersAreTasks'
  BY <1>10 DEF OpenDone
<1>11. ASSUME NEW r \in Requests, OpenFails(r) PROVE OwnersAreTasks'
  BY <1>11 DEF OpenFails
<1>12. ASSUME NEW r \in Requests, StartRead(r) PROVE OwnersAreTasks'
  <2>1. \A q \in Requests : q # r => slot'[q] = slot[q] /\ pc'[q] = pc[q]
    BY <1>12 DEF StartRead, Alloc
  <2>2. pc'[r] = "inflight"
    BY <1>12 DEF StartRead
  <2> QED
    BY <2>1, <2>2
<1>13. ASSUME NEW r \in Requests, PoolExhausted(r) PROVE OwnersAreTasks'
  BY <1>13 DEF PoolExhausted
<1>14. ASSUME NEW r \in Requests, ReadDone(r) PROVE OwnersAreTasks'
  <2>1. Pushed(r)[InFlight] = Free
    BY <1>14, PushedIsSlots DEF ReadDone, TasksReadFiles
  <2> QED
    BY <1>14, <2>1 DEF ReadDone, SetSlots
<1>15. ASSUME NEW r \in Requests, ReadFails(r) PROVE OwnersAreTasks'
  BY <1>15 DEF ReadFails
<1>16. ASSUME NEW r \in Requests, Return(r) PROVE OwnersAreTasks'
  <2>1. slot' = [slot EXCEPT ![r] = NoBuffers] /\ InFlight \in Slots
    BY <1>16 DEF Return, SetSlots, Slots, InFlight
  <2> QED
    BY <1>16, <2>1 DEF Return
<1>17. ASSUME NEW r \in Requests, Reply(r) PROVE OwnersAreTasks'
  BY <1>17 DEF Reply
<1>18. ASSUME NEW r \in Requests, ReadDropped(r) PROVE OwnersAreTasks'
  <2>1. slot' = [slot EXCEPT ![r] = [@ EXCEPT ![InFlight] = Free]] /\ InFlight \in Slots
    BY <1>18 DEF ReadDropped, SetSlots, Slots, InFlight
  <2> QED
    BY <1>18, <2>1 DEF ReadDropped
<1>19. ASSUME NEW r \in Requests, Panics(r) PROVE OwnersAreTasks'
  <2>1. slot' = [slot EXCEPT ![r] = NoBuffers] /\ InFlight \in Slots
    BY <1>19 DEF Panics, SetSlots, Slots, InFlight
  <2> QED
    BY <1>19, <2>1 DEF Panics
<1>20. CASE UNCHANGED vars
  BY <1>20 DEF vars
<1> QED
  BY <1>1, <1>2, <1>3, <1>4, <1>5, <1>6, <1>7, <1>8, <1>9,
     <1>10, <1>11, <1>12, <1>13, <1>14, <1>15, <1>16, <1>17,
     <1>18, <1>19, <1>20 DEF Next, Step, AllAnswered

-----------------------------------------------------------------------------
(* When the slots of a request change to buffers it owned before, what it    *)
(* lets go is free and nothing else moves.                                   *)
LEMMA SetSlotsShares ==
  ASSUME TypeOK, BuffersSharedOut, UNCHANGED worker,
         NEW r \in Requests, worker[r] \in Workers,
         NEW new \in [Slots -> Buffers \cup {Free}],
         \A s \in Slots : new[s] # Free => new[s] \in Owned(r),
         SetSlots(r, new)
  PROVE  BuffersSharedOut'
<1>1. Owned(r)' = { new[s] : s \in Slots } \ {Free} /\ Owned(r)' \subseteq Owned(r)
  BY DEF TypeOK, SetSlots, WithBits, Owned
<1>2. \A q \in Requests : q # r => Owned(q)' = Owned(q)
  BY DEF TypeOK, SetSlots, WithBits, Owned
<1>3. \A w \in Workers : w # worker[r] => available'[w] = available[w]
  BY DEF TypeOK, SetSlots, WithBits
<1>4. available'[worker[r]] = available[worker[r]] \cup (Owned(r) \ Owned(r)')
  BY <1>1 DEF TypeOK, SetSlots, WithBits, Owned
<1>5. Free \notin Owned(r)
  BY DEF Owned
<1>6. \A q \in Requests : worker[q] # Free => worker[q] \in Workers
  BY DEF TypeOK
<1>7. \A q \in Requests : worker'[q] # Free => Owned(q)' \cap available'[worker'[q]] = {}
  BY <1>1, <1>2, <1>3, <1>4, <1>6 DEF BuffersSharedOut
<1>8. \A p, q \in Requests :
        p # q /\ worker'[p] = worker'[q] => Owned(p)' \cap Owned(q)' = {}
  BY <1>1, <1>2 DEF BuffersSharedOut
<1>9. ASSUME NEW w \in Workers
      PROVE  available'[w] \cup UNION { Owned(q)' : q \in { q \in Requests : worker'[q] = w } }
               = Buffers
  <2>1. available[w] \cup UNION { Owned(q) : q \in { q \in Requests : worker[q] = w } }
          = Buffers
    BY DEF BuffersSharedOut
  <2>2. \A x : x \in available[w] \/ (\E q \in Requests : worker[q] = w /\ x \in Owned(q))
               <=> x \in Buffers
    BY <2>1
  <2>3. \A x : x \in available'[w] \/ (\E q \in Requests : worker[q] = w /\ x \in Owned(q)')
               <=> x \in Buffers
    <3>1. CASE w # worker[r]
      BY <2>2, <3>1, <1>2, <1>3
    <3>2. CASE w = worker[r]
      BY <2>2, <3>2, <1>1, <1>2, <1>4
    <3> QED
      BY <3>1, <3>2
  <2> QED
    BY <2>3
<1> QED
  BY <1>7, <1>8, <1>9 DEF BuffersSharedOut

(* A free buffer gets its one owner.                                         *)
LEMMA AllocShares ==
  ASSUME TypeOK, BuffersSharedOut, UNCHANGED worker,
         NEW r \in Requests, worker[r] \in Workers, slot[r][InFlight] = Free,
         NEW b \in Buffers, Takes(r, b)
  PROVE  BuffersSharedOut'
<1>1. Owned(r)' = Owned(r) \cup {b}
  <2>1. \A s \in Slots : slot'[r][s] = IF s = InFlight THEN b ELSE slot[r][s]
    BY DEF TypeOK, Takes
  <2>2. InFlight \in Slots /\ b # Free
    BY FuseReadAssumption DEF Slots
  <2> QED
    BY <2>1, <2>2 DEF Owned
<1>2. \A q \in Requests : q # r => Owned(q)' = Owned(q)
  BY DEF TypeOK, Takes, Owned
<1>3. /\ \A w \in Workers : w # worker[r] => available'[w] = available[w]
      /\ available'[worker[r]] = available[worker[r]] \ {b}
  BY DEF TypeOK, Takes
<1>4. b \in available[worker[r]]
  BY DEF Takes
<1>5. Free \notin Workers
  BY FuseReadAssumption
<1>6. \A q \in Requests : worker[q] # Free => worker[q] \in Workers
  BY DEF TypeOK
<1>7. \A q \in Requests : worker'[q] # Free => Owned(q)' \cap available'[worker'[q]] = {}
  BY <1>1, <1>2, <1>3, <1>6 DEF BuffersSharedOut
<1>8. \A p, q \in Requests :
        p # q /\ worker'[p] = worker'[q] => Owned(p)' \cap Owned(q)' = {}
  BY <1>1, <1>2, <1>4, <1>5 DEF BuffersSharedOut
<1>9. ASSUME NEW w \in Workers
      PROVE  available'[w] \cup UNION { Owned(q)' : q \in { q \in Requests : worker'[q] = w } }
               = Buffers
  <2>1. available[w] \cup UNION { Owned(q) : q \in { q \in Requests : worker[q] = w } }
          = Buffers
    BY DEF BuffersSharedOut
  <2>2. \A x : x \in available[w] \/ (\E q \in Requests : worker[q] = w /\ x \in Owned(q))
               <=> x \in Buffers
    BY <2>1
  <2>3. \A x : x \in available'[w] \/ (\E q \in Requests : worker[q] = w /\ x \in Owned(q)')
               <=> x \in Buffers
    <3>1. CASE w # worker[r]
      BY <2>2, <3>1, <1>2, <1>3
    <3>2. CASE w = worker[r]
      <4>1. \A x : (\E q \in Requests : worker[q] = w /\ x \in Owned(q)')
                 <=> x = b \/ \E q \in Requests : worker[q] = w /\ x \in Owned(q)
        BY <3>2, <1>1, <1>2
      <4> QED
        BY <2>2, <3>2, <4>1, <1>3, <1>4
    <3> QED
      BY <3>1, <3>2
  <2> QED
    BY <2>3
<1> QED
  BY <1>7, <1>8, <1>9 DEF BuffersSharedOut

(* A request that a worker takes owns nothing yet.                           *)
LEMMA TakeShares ==
  ASSUME TypeOK, BuffersSharedOut, UNCHANGED <<slot, available>>,
         NEW r \in Requests, worker[r] = Free, slot[r] = NoBuffers,
         NEW w \in Workers, worker' = [worker EXCEPT ![r] = w]
  PROVE  BuffersSharedOut'
<1>1. Owned(r) = {}
  BY DEF Owned, NoBuffers
<1>2. \A q \in Requests : Owned(q)' = Owned(q)
  BY DEF Owned
<1>3. \A q \in Requests : worker'[q] = IF q = r THEN w ELSE worker[q]
  BY DEF TypeOK
<1>4. \A q \in Requests : worker'[q] # Free => Owned(q)' \cap available'[worker'[q]] = {}
  BY <1>1, <1>2, <1>3 DEF BuffersSharedOut
<1>5. \A p, q \in Requests :
        p # q /\ worker'[p] = worker'[q] => Owned(p)' \cap Owned(q)' = {}
  BY <1>1, <1>2, <1>3 DEF BuffersSharedOut
<1>6. ASSUME NEW v \in Workers
      PROVE  available'[v] \cup UNION { Owned(q)' : q \in { q \in Requests : worker'[q] = v } }
               = Buffers
  <2>1. available[v] \cup UNION { Owned(q) : q \in { q \in Requests : worker[q] = v } }
          = Buffers
    BY DEF BuffersSharedOut
  <2>2. v # Free
    BY FuseReadAssumption
  <2> QED
    BY <2>1, <2>2, <1>1, <1>2, <1>3
<1> QED
  BY <1>4, <1>5, <1>6 DEF BuffersSharedOut

(* Taking, pushing and letting buffers go keeps every one of them with one    *)
(* owner or free.                                                            *)
LEMMA NextBuffersSharedOut == IInv /\ [Next]_vars => BuffersSharedOut'
<1> SUFFICES ASSUME IInv, [Next]_vars PROVE BuffersSharedOut'
  OBVIOUS
<1> USE DEF Goto, Answer, handler, task, IInv, TypeOK, InTask, BuffersSharedOut
<1>1. ASSUME NEW r \in Requests, HandleStale(r) PROVE BuffersSharedOut'
  <2>1. \A q \in Requests : Owned(q)' = Owned(q)
    BY <1>1 DEF HandleStale, Owned
  <2> QED
    BY <1>1, <2>1 DEF HandleStale
<1>2. ASSUME NEW r \in Requests, Handle(r) PROVE BuffersSharedOut'
  <2>1. \A q \in Requests : Owned(q)' = Owned(q)
    BY <1>2 DEF Handle, Owned
  <2> QED
    BY <1>2, <2>1 DEF Handle
<1>3. ASSUME NEW r \in Requests, Dispatch(r) PROVE BuffersSharedOut'
  <2>1. \A q \in Requests : Owned(q)' = Owned(q)
    BY <1>3 DEF Dispatch, Owned
  <2> QED
    BY <1>3, <2>1 DEF Dispatch
<1>4. ASSUME NEW r \in Requests, DispatchRefused(r) PROVE BuffersSharedOut'
  <2>1. \A q \in Requests : Owned(q)' = Owned(q)
    BY <1>4 DEF DispatchRefused, Owned
  <2> QED
    BY <1>4, <2>1 DEF DispatchRefused
<1>5. ASSUME NEW r \in Requests, Upgrade(r) PROVE BuffersSharedOut'
  <2>1. \A q \in Requests : Owned(q)' = Owned(q)
    BY <1>5 DEF Upgrade, Owned
  <2> QED
    BY <1>5, <2>1 DEF Upgrade
<1>6. ASSUME NEW r \in Requests, DropTask(r) PROVE BuffersSharedOut'
  <2>1. \A q \in Requests : Owned(q)' = Owned(q)
    BY <1>6 DEF DropTask, Owned
  <2> QED
    BY <1>6, <2>1 DEF DropTask
<1>7. ASSUME NEW r \in Requests, NEW w \in Workers, Take(r, w) PROVE BuffersSharedOut'
  BY <1>7, TakeShares DEF Take, TasksHaveWorkers, OwnersAreTasks
<1>8. ASSUME NEW r \in Requests, OpenCached(r) PROVE BuffersSharedOut'
  <2>1. \A q \in Requests : Owned(q)' = Owned(q)
    BY <1>8 DEF OpenCached, Owned
  <2> QED
    BY <1>8, <2>1 DEF OpenCached
<1>9. ASSUME NEW r \in Requests, OpenStart(r) PROVE BuffersSharedOut'
  <2>1. \A q \in Requests : Owned(q)' = Owned(q)
    BY <1>9 DEF OpenStart, Owned
  <2> QED
    BY <1>9, <2>1 DEF OpenStart
<1>10. ASSUME NEW r \in Requests, OpenDone(r) PROVE BuffersSharedOut'
  <2>1. \A q \in Requests : Owned(q)' = Owned(q)
    BY <1>10 DEF OpenDone, Owned
  <2> QED
    BY <1>10, <2>1 DEF OpenDone
<1>11. ASSUME NEW r \in Requests, OpenFails(r) PROVE BuffersSharedOut'
  <2>1. \A q \in Requests : Owned(q)' = Owned(q)
    BY <1>11 DEF OpenFails, Owned
  <2> QED
    BY <1>11, <2>1 DEF OpenFails
<1>12. ASSUME NEW r \in Requests, StartRead(r) PROVE BuffersSharedOut'
  <2>1. PICK b \in Buffers : Takes(r, b)
    BY <1>12, StartReadTakes
  <2>2. UNCHANGED worker /\ worker[r] \in Workers /\ slot[r][InFlight] = Free
    BY <1>12 DEF StartRead, TasksHaveWorkers, OwnersAreTasks
  <2> HIDE DEF TypeOK
  <2> QED
    BY <2>1, <2>2, AllocShares
<1>13. ASSUME NEW r \in Requests, PoolExhausted(r) PROVE BuffersSharedOut'
  <2>1. \A q \in Requests : Owned(q)' = Owned(q)
    BY <1>13 DEF PoolExhausted, Owned
  <2> QED
    BY <1>13, <2>1 DEF PoolExhausted
<1>14. ASSUME NEW r \in Requests, ReadDone(r) PROVE BuffersSharedOut'
  <2>1. SetSlots(r, Pushed(r)) /\ UNCHANGED worker /\ worker[r] \in Workers
    BY <1>14 DEF ReadDone, TasksHaveWorkers
  <2>2. pc[r] = "inflight" /\ target[r].kind # "other"
    BY <1>14 DEF ReadDone, TasksReadFiles
  <2> HIDE DEF TypeOK
  <2> QED
    BY <2>1, <2>2, PushedIsSlots, SetSlotsShares
<1>15. ASSUME NEW r \in Requests, ReadFails(r) PROVE BuffersSharedOut'
  <2>1. \A q \in Requests : Owned(q)' = Owned(q)
    BY <1>15 DEF ReadFails, Owned
  <2> QED
    BY <1>15, <2>1 DEF ReadFails
<1>16. ASSUME NEW r \in Requests, Return(r) PROVE BuffersSharedOut'
  <2>1. SetSlots(r, NoBuffers) /\ UNCHANGED worker /\ worker[r] \in Workers
    BY <1>16 DEF Return, TasksHaveWorkers
  <2>2. NoBuffers \in [Slots -> Buffers \cup {Free}] /\ \A s \in Slots : NoBuffers[s] = Free
    BY DEF NoBuffers
  <2> HIDE DEF TypeOK
  <2> QED
    BY <2>1, <2>2, SetSlotsShares
<1>17. ASSUME NEW r \in Requests, Reply(r) PROVE BuffersSharedOut'
  <2>1. \A q \in Requests : Owned(q)' = Owned(q)
    BY <1>17 DEF Reply, Owned
  <2> QED
    BY <1>17, <2>1 DEF Reply
<1>18. ASSUME NEW r \in Requests, ReadDropped(r) PROVE BuffersSharedOut'
  <2>1. SetSlots(r, Emptied(r)) /\ UNCHANGED worker /\ worker[r] \in Workers
    BY <1>18 DEF ReadDropped, TasksHaveWorkers, Emptied
  <2> HIDE DEF TypeOK
  <2> QED
    BY <2>1, EmptiedIsSlots, SetSlotsShares
<1>19. ASSUME NEW r \in Requests, Panics(r) PROVE BuffersSharedOut'
  <2>1. SetSlots(r, NoBuffers) /\ UNCHANGED worker /\ worker[r] \in Workers
    BY <1>19 DEF Panics, TasksHaveWorkers
  <2>2. NoBuffers \in [Slots -> Buffers \cup {Free}] /\ \A s \in Slots : NoBuffers[s] = Free
    BY DEF NoBuffers
  <2> HIDE DEF TypeOK
  <2> QED
    BY <2>1, <2>2, SetSlotsShares
<1>20. CASE UNCHANGED vars
  <2>1. \A q \in Requests : Owned(q)' = Owned(q)
    BY <1>20 DEF vars, Owned
  <2> QED
    BY <1>20, <2>1 DEF vars
<1> QED
  BY <1>1, <1>2, <1>3, <1>4, <1>5, <1>6, <1>7, <1>8, <1>9,
     <1>10, <1>11, <1>12, <1>13, <1>14, <1>15, <1>16, <1>17,
     <1>18, <1>19, <1>20 DEF Next, Step, AllAnswered

-----------------------------------------------------------------------------
(* At the start every pool is whole and nobody owns a buffer.                *)
LEMMA InitIInv == Init => IInv
<1> SUFFICES ASSUME Init PROVE IInv
  OBVIOUS
<1> USE DEF Init
<1>1. TypeOK
  BY FuseReadAssumption DEF TypeOK, InTask, Slots, NoBuffers
<1>2. ReplyOwners /\ TasksHaveWorkers /\ ChunksAreLeft /\ TasksReadFiles
  BY DEF ReplyOwners, TasksHaveWorkers, ChunksAreLeft, TasksReadFiles, Waiting, InTask
<1>3. OwnersAreTasks
  BY DEF OwnersAreTasks, NoBuffers, Slots, InFlight
<1>4. \A r \in Requests : Owned(r) = {}
  BY DEF Owned, NoBuffers
<1>5. BuffersSharedOut
  BY <1>4 DEF BuffersSharedOut
<1> QED
  BY <1>1, <1>2, <1>3, <1>5 DEF IInv

(* The invariant holds in every state of every behaviour.                    *)
THEOREM InvariantHolds == Spec => []IInv
<1>1. IInv /\ [Next]_vars => IInv'
  <2> SUFFICES ASSUME IInv, [Next]_vars PROVE IInv'
    OBVIOUS
  <2> QED
    BY NextTypeOK, NextReplyOwners, NextTasksHaveWorkers, NextOwnersAreTasks,
       NextChunksAreLeft, NextTasksReadFiles, NextBuffersSharedOut
    DEF IInv
<1> QED
  BY InitIInv, <1>1, PTL DEF Spec

(* Requests, tasks and pools keep their types.                               *)
THEOREM TypesHold == Spec => []TypeOK
<1>1. IInv => TypeOK
  BY DEF IInv
<1> QED
  BY <1>1, InvariantHolds, PTL

(* The kernel gets one answer to a read and no more, and the one who answers *)
(* is the only owner of the reply (fuser.rs:199-233).                        *)
THEOREM EveryReadIsAnsweredOnce == Spec => []AnsweredOnce
<1>1. IInv => AnsweredOnce
  BY DEF IInv, ReplyOwners, AnsweredOnce
<1> QED
  BY <1>1, InvariantHolds, PTL

(* No buffer of a pool is lost, owned twice or free while owned, however     *)
(* reads end (aligned.rs:272-303).                                           *)
THEOREM BuffersAreSharedOut == Spec => []BuffersSharedOut
<1>1. IInv => BuffersSharedOut
  BY DEF IInv
<1> QED
  BY <1>1, InvariantHolds, PTL

-----------------------------------------------------------------------------
(* A step that changes what one task owns changes one entry of Held.         *)
LEMMA HeldChanges ==
  ASSUME TypeOK, UNCHANGED worker, NEW r \in Requests, worker[r] \in Workers,
         \A q \in Requests : q # r => Owned(q)' = Owned(q)
  PROVE  Held' = [Held EXCEPT ![worker[r]][r] = Owned(r)']
<1> DEFINE Row(w) == [q \in Requests |-> IF worker[q] = w THEN Owned(q) ELSE {}]
           NewRow(w) == [q \in Requests |-> IF worker[q] = w THEN Owned(q)' ELSE {}]
<1>1. Held = [w \in Workers |-> Row(w)] /\ Held' = [w \in Workers |-> NewRow(w)]
  BY DEF Held
<1>2. ASSUME NEW w \in Workers, w # worker[r] PROVE NewRow(w) = Row(w)
  BY <1>2
<1>3. NewRow(worker[r]) = [Row(worker[r]) EXCEPT ![r] = Owned(r)']
  OBVIOUS
<1> HIDE DEF Row, NewRow
<1> QED
  BY <1>1, <1>2, <1>3

(* And one that changes nobody's buffers, but for a task that has none yet,  *)
(* changes nothing.                                                          *)
LEMMA HeldStays ==
  ASSUME UNCHANGED slot,
         \A q \in Requests : worker'[q] # worker[q] => Owned(q) = {}
  PROVE  Held' = Held
<1>1. \A q \in Requests : Owned(q)' = Owned(q)
  BY DEF Owned
<1>2. ASSUME NEW w \in Workers, NEW q \in Requests
      PROVE  (IF worker'[q] = w THEN Owned(q)' ELSE {})
               = (IF worker[q] = w THEN Owned(q) ELSE {})
  BY <1>1
<1> QED
  BY <1>2 DEF Held

LEMMA SlotsKept ==
  ASSUME IInv, NEW r \in Requests,
         \/ HandleStale(r) \/ Handle(r) \/ Dispatch(r) \/ DispatchRefused(r)
         \/ Upgrade(r) \/ DropTask(r) \/ \E w \in Workers : Take(r, w)
         \/ OpenCached(r) \/ OpenStart(r) \/ OpenDone(r) \/ OpenFails(r)
         \/ PoolExhausted(r) \/ ReadFails(r) \/ Reply(r)
  PROVE  Held' = Held
<1>1. CASE \E w \in Workers : Take(r, w)
  <2>1. UNCHANGED slot /\ \A q \in Requests : q # r => worker'[q] = worker[q]
    BY <1>1 DEF Take, IInv, TypeOK
  <2>2. slot[r] = NoBuffers
    BY <1>1 DEF Take, Goto, IInv, OwnersAreTasks
  <2>3. Owned(r) = {}
    BY <2>2 DEF Owned, NoBuffers
  <2> QED
    BY <2>1, <2>3, HeldStays
<1>2. CASE ~ \E w \in Workers : Take(r, w)
  <2>1. UNCHANGED <<slot, worker>>
    BY <1>2 DEF HandleStale, Handle, Dispatch, DispatchRefused, Upgrade, DropTask,
                OpenCached, OpenStart, OpenDone, OpenFails, PoolExhausted, ReadFails,
                Reply, task
  <2> QED
    BY <2>1, HeldStays
<1> QED
  BY <1>1, <1>2

(* The slots of a task after it let some of its buffers go.                  *)
LEMMA LetGo ==
  ASSUME TypeOK, UNCHANGED worker, NEW r \in Requests, worker[r] \in Workers,
         NEW new \in [Slots -> Buffers \cup {Free}],
         \A s \in Slots : new[s] # Free => new[s] \in Owned(r),
         SetSlots(r, new)
  PROVE  Pool!GiveBack(worker[r], r)
<1>1. Owned(r)' = { new[s] : s \in Slots } \ {Free} /\ Owned(r)' \subseteq Owned(r)
  BY DEF TypeOK, SetSlots, Owned
<1>2. \A q \in Requests : q # r => Owned(q)' = Owned(q)
  BY DEF TypeOK, SetSlots, Owned
<1>3. Held' = [Held EXCEPT ![worker[r]][r] = Owned(r)']
  BY <1>2, HeldChanges
<1>4. Held[worker[r]][r] = Owned(r)
  BY DEF Held
<1> QED
  BY <1>1, <1>3, <1>4 DEF Pool!GiveBack

(* The words of the workers implement the pools BufferPool promises: a       *)
(* buffer that alloc hands out is held by no other task of its worker, and   *)
(* every other step only gives buffers back (aligned.rs:272-303).            *)
THEOREM WordsArePools == Spec => IsAPool
<1>1. Init => Pool!PoolInit
  <2> SUFFICES ASSUME Init PROVE Held = [p \in Workers |-> [t \in Requests |-> {}]]
    BY DEF Pool!PoolInit
  <2>1. \A q \in Requests : Owned(q) = {}
    BY DEF Init, Owned, NoBuffers
  <2> QED
    BY <2>1 DEF Held
<1>2. IInv /\ [Next]_vars => [Pool!PoolNext]_Held
  <2> SUFFICES ASSUME IInv, [Next]_vars PROVE Pool!PoolNext \/ Held' = Held
    OBVIOUS
  <2>1. ASSUME NEW r \in Requests, StartRead(r) PROVE Pool!PoolNext
    <3>1. PICK b \in Buffers : Takes(r, b)
      BY <2>1, StartReadTakes DEF IInv
    <3>2. UNCHANGED worker /\ worker[r] \in Workers /\ slot[r][InFlight] = Free
      BY <2>1 DEF StartRead, Goto, IInv, TasksHaveWorkers, OwnersAreTasks, InTask
    <3>3. Owned(r)' = Owned(r) \cup {b}
      <4>1. \A s \in Slots : slot'[r][s] = IF s = InFlight THEN b ELSE slot[r][s]
        BY <3>1 DEF IInv, TypeOK, Takes
      <4>2. InFlight \in Slots /\ b # Free
        BY FuseReadAssumption DEF Slots
      <4> QED
        BY <4>1, <4>2, <3>2 DEF Owned
    <3>4. \A q \in Requests : q # r => Owned(q)' = Owned(q)
      BY <3>1 DEF IInv, TypeOK, Takes, Owned
    <3>5. Held' = [Held EXCEPT ![worker[r]][r] = Owned(r)']
      BY <3>2, <3>4, HeldChanges DEF IInv
    <3>6. Held[worker[r]][r] = Owned(r)
      BY <3>2 DEF Held
    <3>7. \A u \in Requests : b \notin Held[worker[r]][u]
      BY <3>1, <3>2, FuseReadAssumption DEF Takes, Held, IInv, BuffersSharedOut
    <3>8. Held' = [Held EXCEPT ![worker[r]][r] = @ \cup {b}]
      BY <3>3, <3>5, <3>6
    <3>9. Pool!TakeOne(worker[r], r)
      BY <3>7, <3>8 DEF Pool!TakeOne
    <3> QED
      BY <3>2, <3>9 DEF Pool!PoolNext
  <2>2. ASSUME NEW r \in Requests, ReadDone(r) PROVE Pool!PoolNext
    <3>1. SetSlots(r, Pushed(r)) /\ UNCHANGED worker /\ worker[r] \in Workers
      BY <2>2 DEF ReadDone, Goto, IInv, TasksHaveWorkers, InTask
    <3>2. pc[r] = "inflight" /\ target[r].kind # "other"
      BY <2>2 DEF ReadDone, Goto, IInv, TasksReadFiles
    <3>3. Pool!GiveBack(worker[r], r)
      BY <3>1, <3>2, PushedIsSlots, LetGo DEF IInv
    <3> QED
      BY <3>1, <3>3 DEF Pool!PoolNext
  <2>3. ASSUME NEW r \in Requests, Return(r) PROVE Pool!PoolNext
    <3>1. SetSlots(r, NoBuffers) /\ UNCHANGED worker /\ worker[r] \in Workers
      BY <2>3 DEF Return, Goto, IInv, TasksHaveWorkers, InTask
    <3>2. NoBuffers \in [Slots -> Buffers \cup {Free}] /\ \A s \in Slots : NoBuffers[s] = Free
      BY DEF NoBuffers
    <3>3. Pool!GiveBack(worker[r], r)
      BY <3>1, <3>2, LetGo DEF IInv
    <3> QED
      BY <3>1, <3>3 DEF Pool!PoolNext
  <2>4. ASSUME NEW r \in Requests, ReadDropped(r) PROVE Pool!PoolNext
    <3>1. SetSlots(r, Emptied(r)) /\ UNCHANGED worker /\ worker[r] \in Workers
      BY <2>4 DEF ReadDropped, Goto, IInv, TasksHaveWorkers, InTask, Emptied
    <3>2. Pool!GiveBack(worker[r], r)
      BY <3>1, EmptiedIsSlots, LetGo DEF IInv
    <3> QED
      BY <3>1, <3>2 DEF Pool!PoolNext
  <2>5. ASSUME NEW r \in Requests, Panics(r) PROVE Pool!PoolNext
    <3>1. SetSlots(r, NoBuffers) /\ UNCHANGED worker /\ worker[r] \in Workers
      BY <2>5 DEF Panics, Goto, IInv, TasksHaveWorkers, InTask
    <3>2. NoBuffers \in [Slots -> Buffers \cup {Free}] /\ \A s \in Slots : NoBuffers[s] = Free
      BY DEF NoBuffers
    <3>3. Pool!GiveBack(worker[r], r)
      BY <3>1, <3>2, LetGo DEF IInv
    <3> QED
      BY <3>1, <3>3 DEF Pool!PoolNext
  <2>6. CASE UNCHANGED vars
    BY <2>6, HeldStays DEF vars, task
  <2> QED
    BY <2>1, <2>2, <2>3, <2>4, <2>5, <2>6, SlotsKept DEF Next, Step, AllAnswered
<1> QED
  BY <1>1, <1>2, InvariantHolds, PTL DEF Spec, IsAPool, Pool!PoolSpec

-----------------------------------------------------------------------------
(* A task has four slots.                                                    *)
LEMMA FourSlots == IsFiniteSet(0..3) /\ Cardinality(0..3) = 4
<1>1. \A a, b \in Int : a <= b => IsFiniteSet(a..b) /\ Cardinality(a..b) = b - a + 1
  BY FS_Interval
<1>2. 0 \in Int /\ 3 \in Int /\ 0 <= 3 /\ 3 - 0 + 1 = 4
  OBVIOUS
<1>3. IsFiniteSet(0..3) /\ Cardinality(0..3) = 3 - 0 + 1
  BY <1>1, <1>2, Zenon
<1> QED
  BY <1>2, <1>3

(* When a pool is empty, every buffer has a slot of a task of the worker, no *)
(* two the same one, and the fourth slot of a task that asks is free.        *)
LEMMA EmptyPoolIsOverloaded ==
  ASSUME IInv, NEW r \in Requests, pc[r] = "reading", available[worker[r]] = {}
  PROVE  Cardinality(Buffers) < 4 * Cardinality(Tasks(worker[r]))
<1> DEFINE w == worker[r]
           All == Tasks(w) \X Slots
           Used == All \ {<<r, InFlight>>}
           At(b) == CHOOSE x \in Used : slot[x[1]][x[2]] = b
<1>1. w \in Workers /\ r \in Tasks(w)
  BY DEF IInv, TasksHaveWorkers, Tasks, InTask
<1>2. ASSUME NEW b \in Buffers PROVE \E x \in Used : slot[x[1]][x[2]] = b
  <2>1. \E q \in Requests : worker[q] = w /\ b \in Owned(q)
    BY <1>1 DEF IInv, BuffersSharedOut
  <2>2. PICK q \in Requests, s \in Slots : worker[q] = w /\ slot[q][s] = b
    BY <2>1 DEF Owned
  <2>3. b # Free
    BY FuseReadAssumption
  <2>4. pc[q] \in InTask
    BY <2>2, <2>3 DEF IInv, OwnersAreTasks, NoBuffers, InTask
  <2>5. <<q, s>> # <<r, InFlight>>
    BY <2>2, <2>3 DEF IInv, OwnersAreTasks
  <2>6. <<q, s>> \in Used
    BY <2>2, <2>4, <2>5 DEF Tasks
  <2> QED
    BY <2>2, <2>6
<1>3. IsFiniteSet(All) /\ Cardinality(All) = 4 * Cardinality(Tasks(w))
  <2>1. IsFiniteSet(Tasks(w))
    BY FuseReadAssumption, FS_Subset DEF Tasks
  <2>2. Slots = 0..3
    BY DEF Slots, InFlight
  <2>3. IsFiniteSet(Slots) /\ Cardinality(Slots) = 4
    BY <2>2, FourSlots
  <2>4. IsFiniteSet(All) /\ Cardinality(All) = Cardinality(Tasks(w)) * Cardinality(Slots)
    BY <2>1, <2>3, FS_Product
  <2>5. Cardinality(Tasks(w)) \in Nat
    BY <2>1, FS_CardinalityType
  <2> QED
    BY <2>3, <2>4, <2>5
<1>4. IsFiniteSet(Used) /\ Cardinality(Used) = Cardinality(All) - 1
  <2>1. <<r, InFlight>> \in All
    BY <1>1 DEF Slots
  <2> HIDE DEF All
  <2> QED
    BY <1>3, <2>1, FS_RemoveElement
<1>5. Cardinality(Buffers) <= Cardinality(Used)
  <2> DEFINE f == [b \in Buffers |-> At(b)]
  <2>1. \A b \in Buffers : At(b) \in Used /\ slot[At(b)[1]][At(b)[2]] = b
    BY <1>2
  <2> HIDE DEF Used, At
  <2>2. f \in Injection(Buffers, Used)
    BY <2>1 DEF Injection, IsInjective
  <2> HIDE DEF f
  <2> QED
    BY <2>2, <1>4, FS_Injection
<1>6. Cardinality(All) \in Nat /\ Cardinality(Buffers) \in Nat
  BY <1>3, FuseReadAssumption, FS_CardinalityType
<1> HIDE DEF All, Used
<1> QED
  BY <1>3, <1>4, <1>5, <1>6

(* A read is refused for want of a buffer only when its worker runs more     *)
(* tasks than a quarter of its buffers: up to sixteen tasks at a time a pool *)
(* of 64 serves whatever they read (aligned.rs:314, encryption.rs:124-128).  *)
THEOREM RefusalsMeanOverload == Spec => RefusedOnlyWhenOverloaded
<1> DEFINE A == \A r \in Requests :
                  pc[r] = "reading" /\ pc'[r] = "failing" =>
                    Cardinality(Buffers) < 4 * Cardinality(Tasks(worker[r]))
<1>1. IInv /\ [Next]_vars => [A]_vars
  <2> SUFFICES ASSUME IInv, Next, NEW r \in Requests,
                      pc[r] = "reading", pc'[r] = "failing"
               PROVE  Cardinality(Buffers) < 4 * Cardinality(Tasks(worker[r]))
    OBVIOUS
  <2>1. available[worker[r]] = {}
    BY DEF IInv, TypeOK, Next, Step, AllAnswered, vars, Goto, HandleStale, Handle,
           Dispatch, DispatchRefused, Upgrade, DropTask, Take, OpenCached, OpenStart,
           OpenDone, OpenFails, StartRead, PoolExhausted, ReadDone, ReadFails,
           ReadDropped, Panics, Return, Reply
  <2> QED
    BY <2>1, EmptyPoolIsOverloaded
<1> QED
  BY <1>1, InvariantHolds, PTL DEF Spec, RefusedOnlyWhenOverloaded

=============================================================================
