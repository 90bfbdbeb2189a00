----------------------------- MODULE BufferPool -----------------------------
(* What the pools of the threads promise to the tasks that read on them: a   *)
(* buffer a task takes is nobody else's until that task gives it back.       *)
CONSTANTS
  Pools,    \* one per thread
  Tasks,    \* who may take buffers
  Buffers   \* the buffers of a pool

VARIABLE holds  \* per pool and task: the buffers the task holds

PoolInit == holds = [p \in Pools |-> [t \in Tasks |-> {}]]

TakeOne(p, t) ==
  \E b \in Buffers :
    /\ \A u \in Tasks : b \notin holds[p][u]
    /\ holds' = [holds EXCEPT ![p][t] = @ \cup {b}]

GiveBack(p, t) ==
  \E s \in SUBSET holds[p][t] : holds' = [holds EXCEPT ![p][t] = s]

PoolNext == \E p \in Pools, t \in Tasks : TakeOne(p, t) \/ GiveBack(p, t)

PoolSpec == PoolInit /\ [][PoolNext]_holds
=============================================================================
