------------------------------ MODULE FuseRead ------------------------------
(* Concurrent reads of a Linux mount: the FUSE session threads that hand     *)
(* them over (mount/fuser.rs:179-237), the dispatcher's worker threads, each *)
(* with its own pool of aligned buffers (filesystem/aligned.rs:222-322) and  *)
(* its own map of open archives (mount.rs:280-297), and the tasks that run   *)
(* read_file on them.  What a task delivers is ReadFile's matter; here a     *)
(* task opens its archive, takes and releases buffers and ends.              *)
EXTENDS Integers, Sequences, FiniteSets, Allocator

CONSTANTS
  Requests,   \* the read requests the kernel sends
  Workers,    \* the threads of the dispatcher
  Archives,   \* the .bdt archives
  Buffers,    \* the buffers of one worker's pool, by their index (0..63)
  Chunks,     \* bound on the chunks of one read
  Free        \* marks a slot that owns no buffer, a request without worker

ASSUME FuseReadAssumption ==
  /\ Buffers \subseteq Nat /\ IsFiniteSet(Buffers) /\ IsFiniteSet(Requests)
  /\ Chunks \in Nat
  /\ Free \notin Buffers \cup Workers

VARIABLES
  target,     \* per request: what it reads
  pc,         \* per request: where its handler or its task is
  strong,     \* per request: the strong count of its Arc<ReplyData>
  replies,    \* per request: the answers the kernel was given
  worker,     \* per request: the worker its task runs on
  slot,       \* per request: the buffers its task owns
  left,       \* per request: the chunks its task still has to read
  ring,       \* per request: the position in its CiphertextBuffer
  available,  \* per worker: the word of its allocator, its free buffers
  map         \* per worker: the archives its BdtTls map holds

handler == <<strong, replies>>
task == <<worker, slot, left, ring>>
vars == <<target, pc, handler, task, available, map>>

(* "other" stands for a handle that does not name a file.  A "window" read   *)
(* is one chunk that is split over the three slots of the ring.              *)
Targets ==
  [kind : {"clear", "encrypted"}, archive : Archives, chunks : 0..Chunks]
    \cup [kind : {"window"}, archive : Archives, chunks : {1}]
    \cup [kind : {"other"}, archive : Archives, chunks : {0}]

(* The owners of a buffer: the ring of three and the read in flight.         *)
InFlight == 3
Slots == 0..2 \cup {InFlight}
NoBuffers == [s \in Slots |-> Free]
Owned(r) == { slot[r][s] : s \in Slots } \ {Free}

Init ==
  /\ target \in [Requests -> Targets]
  /\ pc = [r \in Requests |-> "sent"]
  /\ strong = [r \in Requests |-> 0]
  /\ replies = [r \in Requests |-> <<>>]
  /\ worker = [r \in Requests |-> Free]
  /\ slot = [r \in Requests |-> NoBuffers]
  /\ left = [r \in Requests |-> 0]
  /\ ring = [r \in Requests |-> 1]
  /\ available = [w \in Workers |-> Buffers]
  /\ map = [w \in Workers |-> {}]

Goto(r, from, to) == pc[r] = from /\ pc' = [pc EXCEPT ![r] = to]
Answer(r, what) == replies' = [replies EXCEPT ![r] = Append(@, what)]

(* The handler up to the call of dispatch: two more owners of the reply are  *)
(* the task's Arc and a weak one kept by the handler.                        *)
HandleStale(r) ==
  /\ Goto(r, "sent", "answered")
  /\ target[r].kind = "other"
  /\ Answer(r, "ESTALE")
  /\ UNCHANGED <<target, strong, task, available, map>>

Handle(r) ==
  /\ Goto(r, "sent", "dispatching")
  /\ target[r].kind # "other"
  /\ strong' = [strong EXCEPT ![r] = 1]
  /\ UNCHANGED <<target, replies, task, available, map>>

Dispatch(r) ==
  /\ Goto(r, "dispatching", "queued")
  /\ UNCHANGED <<target, handler, task, available, map>>

(* A dispatcher that takes no task hands it back: the handler upgrades its   *)
(* weak reference, drops the task and with it the task's reference, and      *)
(* answers itself.                                                           *)
DispatchRefused(r) ==
  /\ Goto(r, "dispatching", "refused")
  /\ UNCHANGED <<target, handler, task, available, map>>

Upgrade(r) ==
  /\ Goto(r, "refused", "upgraded")
  /\ strong' = [strong EXCEPT ![r] = IF @ = 0 THEN 0 ELSE @ + 1]
  /\ UNCHANGED <<target, replies, task, available, map>>

(* Variant: the task is not dropped before the answer.                       *)
DropTask_Later(r) ==
  /\ Goto(r, "upgraded", "err")
  /\ UNCHANGED <<target, handler, task, available, map>>

DropTask(r) ==
  /\ Goto(r, "upgraded", "err")
  /\ strong' = [strong EXCEPT ![r] = @ - 1]
  /\ UNCHANGED <<target, replies, task, available, map>>

(* A worker takes the task; it runs any number of tasks at a time.           *)
Take(r, w) ==
  /\ Goto(r, "queued", "open")
  /\ worker' = [worker EXCEPT ![r] = w]
  /\ left' = [left EXCEPT ![r] = target[r].chunks]
  /\ UNCHANGED <<target, handler, slot, ring, available, map>>

-----------------------------------------------------------------------------
(* BdtTls::open: the map is looked up, the archive opened if it is not       *)
(* there, and inserted when the await is over, over what is there by then.   *)
OpenCached(r) ==
  /\ Goto(r, "open", "reading")
  /\ target[r].archive \in map[worker[r]]
  /\ UNCHANGED <<target, handler, task, available, map>>

OpenStart(r) ==
  /\ Goto(r, "open", "opening")
  /\ target[r].archive \notin map[worker[r]]
  /\ UNCHANGED <<target, handler, task, available, map>>

OpenDone(r) ==
  /\ Goto(r, "opening", "reading")
  /\ map' = [map EXCEPT ![worker[r]] = @ \cup {target[r].archive}]
  /\ UNCHANGED <<target, handler, task, available>>

OpenFails(r) ==
  /\ Goto(r, "opening", "err")
  /\ UNCHANGED <<target, handler, task, available, map>>

-----------------------------------------------------------------------------
(* alloc and free on the worker's word.  A buffer is free again when its     *)
(* last owner lets it go.                                                    *)
Alloc(r) ==
  LET word == available[worker[r]] IN
  /\ word # {}
  /\ available' = [available EXCEPT ![worker[r]] = WithoutLowest(word)]
  /\ slot' = [slot EXCEPT ![r][InFlight] = Handed(word)]

(* Variants: all buffers are let go, those still owned included; none is.    *)
SetSlots_FreeAll(r, new) ==
  /\ slot' = [slot EXCEPT ![r] = new]
  /\ available' = [available EXCEPT ![worker[r]] = WithBits(@, Owned(r))]

SetSlots_FreeNone(r, new) ==
  /\ slot' = [slot EXCEPT ![r] = new]
  /\ UNCHANGED available

SetSlots(r, new) ==
  /\ slot' = [slot EXCEPT ![r] = new]
  /\ available' = [available EXCEPT
                     ![worker[r]] = WithBits(@, Owned(r) \ { new[s] : s \in Slots })]

(* Variant: a read is started without a chunk left.                          *)
StartRead_Past(r) ==
  /\ Goto(r, "reading", "inflight")
  /\ Alloc(r)
  /\ UNCHANGED <<target, handler, worker, left, ring, map>>

StartRead(r) ==
  /\ Goto(r, "reading", "inflight")
  /\ left[r] > 0
  /\ Alloc(r)
  /\ UNCHANGED <<target, handler, worker, left, ring, map>>

(* Variant: the read waits for a buffer.                                     *)
PoolExhausted_Waits(r) ==
  /\ Goto(r, "reading", "reading")
  /\ left[r] > 0 /\ available[worker[r]] = {}
  /\ UNCHANGED <<target, handler, task, available, map>>

(* No buffer is waited for: the read fails and the task ends with an error.  *)
PoolExhausted(r) ==
  /\ Goto(r, "reading", "failing")
  /\ left[r] > 0 /\ available[worker[r]] = {}
  /\ UNCHANGED <<target, handler, task, available, map>>

ReadFails(r) ==
  /\ Goto(r, "inflight", "failing")
  /\ UNCHANGED <<target, handler, task, available, map>>

(* The chunk read is delivered and dropped; pushed into the ring, in place   *)
(* of the oldest one; or split over the ring.                                *)
Pushed(r) ==
  LET b == slot[r][InFlight]
      p == (ring[r] + 1) % 3
  IN CASE target[r].kind = "clear" -> NoBuffers
       [] target[r].kind = "encrypted" -> [slot[r] EXCEPT ![p] = b, ![InFlight] = Free]
       [] target[r].kind = "window" -> [NoBuffers EXCEPT ![0] = b, ![1] = b, ![2] = b]

ReadDone(r) ==
  /\ Goto(r, "inflight", "reading")
  /\ SetSlots(r, Pushed(r))
  /\ ring' = [ring EXCEPT ![r] = IF target[r].kind = "clear" THEN @ ELSE (@ + 1) % 3]
  /\ left' = [left EXCEPT ![r] = @ - 1]
  /\ UNCHANGED <<target, handler, worker, map>>

(* A chunk at or past the end of a truncated archive comes back without a    *)
(* buffer and is passed over.  That all later chunks then do as well is left *)
(* out: here any chunk may be missing.                                       *)
ReadDropped(r) ==
  /\ Goto(r, "inflight", "reading")
  /\ SetSlots(r, [slot[r] EXCEPT ![InFlight] = Free])
  /\ left' = [left EXCEPT ![r] = @ - 1]
  /\ UNCHANGED <<target, handler, worker, ring, map>>

(* What is left of the stream and the ring go with the end of read_file.     *)
EndStreams(r) ==
  /\ left' = [left EXCEPT ![r] = 0]
  /\ ring' = [ring EXCEPT ![r] = 1]

(* A read that ends has a chunk to look at: an encrypted one pushed some.    *)
HasCurr(r) == target[r].kind = "clear" \/ Owned(r) # {}

(* An encrypted read none of whose chunks was there finishes an empty ring,  *)
(* and curr panics.  Unwinding drops the ring and the task's reference; the  *)
(* worker catches the panic, and the reply that is dropped unanswered        *)
(* answers for itself.                                                       *)
Panics(r) ==
  /\ Goto(r, "reading", "answered")
  /\ left[r] = 0 /\ ~ HasCurr(r)
  /\ SetSlots(r, NoBuffers)
  /\ strong' = [strong EXCEPT ![r] = @ - 1]
  /\ Answer(r, "EIO")
  /\ EndStreams(r)
  /\ UNCHANGED <<target, worker, map>>

(* read_file returns, which drops the ring and the stream.                   *)
Return(r) ==
  /\ \/ left[r] = 0 /\ HasCurr(r) /\ Goto(r, "reading", "ok")
     \/ Goto(r, "failing", "err")
  /\ SetSlots(r, NoBuffers)
  /\ EndStreams(r)
  /\ UNCHANGED <<target, handler, worker, map>>

(* Arc::into_inner, then the answer; it panics when the reply has another    *)
(* owner.                                                                    *)
Reply(r) ==
  /\ pc[r] \in {"ok", "err"}
  /\ IF strong[r] = 1
     THEN /\ Answer(r, IF pc[r] = "ok" THEN "data" ELSE "EIO")
          /\ pc' = [pc EXCEPT ![r] = "answered"]
     ELSE /\ pc' = [pc EXCEPT ![r] = "panic"]
          /\ UNCHANGED replies
  /\ strong' = [strong EXCEPT ![r] = @ - 1]
  /\ UNCHANGED <<target, task, available, map>>

Step(r) ==
  \/ HandleStale(r) \/ Handle(r) \/ Dispatch(r) \/ DispatchRefused(r)
  \/ Upgrade(r) \/ DropTask(r)
  \/ \E w \in Workers : Take(r, w)
  \/ OpenCached(r) \/ OpenStart(r) \/ OpenDone(r) \/ OpenFails(r)
  \/ StartRead(r) \/ PoolExhausted(r) \/ ReadDone(r) \/ ReadFails(r)
  \/ ReadDropped(r) \/ Panics(r) \/ Return(r) \/ Reply(r)

AllAnswered == (\A r \in Requests : pc[r] = "answered") /\ UNCHANGED vars

Next == (\E r \in Requests : Step(r)) \/ AllAnswered

Spec == Init /\ [][Next]_vars

(* Session threads and workers keep running and every read completes.        *)
FairSpec == Spec /\ \A r \in Requests : WF_vars(Step(r))

-----------------------------------------------------------------------------
InTask == {"open", "opening", "reading", "inflight", "failing"}

TypeOK ==
  /\ target \in [Requests -> Targets]
  /\ pc \in [Requests -> {"sent", "dispatching", "queued", "refused", "upgraded", "ok",
                          "err", "answered", "panic"} \cup InTask]
  /\ strong \in [Requests -> Int]
  /\ replies \in [Requests -> Seq({"ESTALE", "EIO", "data"})]
  /\ worker \in [Requests -> Workers \cup {Free}]
  /\ slot \in [Requests -> [Slots -> Buffers \cup {Free}]]
  /\ left \in [Requests -> Nat]
  /\ ring \in [Requests -> 0..2]
  /\ available \in [Workers -> SUBSET Buffers]
  /\ map \in [Workers -> SUBSET Archives]

(* The kernel gets exactly one answer to a read, whichever of the handler,   *)
(* the task and the drop of the reply gives it, and no one gives it while    *)
(* the reply has a second owner (fuser.rs:199-233).                          *)
AnsweredOnce ==
  \A r \in Requests :
    /\ pc[r] # "panic"
    /\ Len(replies[r]) = IF pc[r] = "answered" THEN 1 ELSE 0

(* The tasks of a worker and its pool share the buffers out: a free buffer   *)
(* has no owner, no two tasks own the same one, and none is lost on any way  *)
(* a read can end (aligned.rs:272-303).                                      *)
BuffersSharedOut ==
  /\ \A r \in Requests : worker[r] # Free => Owned(r) \cap available[worker[r]] = {}
  /\ \A r, q \in Requests :
       r # q /\ worker[r] = worker[q] => Owned(r) \cap Owned(q) = {}
  /\ \A w \in Workers :
       available[w] \cup UNION { Owned(r) : r \in { q \in Requests : worker[q] = w } }
         = Buffers

(* Seen by their tasks, the words are the pools that BufferPool describes:   *)
(* whatever bits are set when buffers go and come back, no buffer is handed  *)
(* to two tasks (aligned.rs:272-303).                                        *)
Held ==
  [w \in Workers |-> [r \in Requests |-> IF worker[r] = w THEN Owned(r) ELSE {}]]
Pool == INSTANCE BufferPool WITH Pools <- Workers, Tasks <- Requests, holds <- Held
IsAPool == Pool!PoolSpec

Tasks(w) == { r \in Requests : worker[r] = w /\ pc[r] \in InTask }

(* A read fails for want of a buffer only when its worker has more tasks     *)
(* than the pool serves, at four buffers each: three in the ring and one in  *)
(* flight (encryption.rs:124-128, aligned.rs:314).                           *)
RefusedOnlyWhenOverloaded ==
  [][\A r \in Requests :
       pc[r] = "reading" /\ pc'[r] = "failing" =>
         Cardinality(Buffers) < 4 * Cardinality(Tasks(worker[r]))]_vars

(* Every read the kernel sends is answered, one whose task panics included.  *)
EveryReadAnswered == \A r \in Requests : <>(pc[r] = "answered")
=============================================================================
