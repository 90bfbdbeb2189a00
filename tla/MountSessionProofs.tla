------------------------- MODULE MountSessionProofs -------------------------
(* Proofs about MountSession, for any number of attempts, mount points and   *)
(* setups.                                                                   *)
EXTENDS MountSession, TLAPS

Types ==
  /\ setup \in Setups
  /\ future \in [Mounts -> {"idle", "check", "spawn", "watch", "ended"}]
  /\ main \in [Mounts -> {"none", "start", "mounting", "handlers", "lock", "test", "wait",
                          "unmount", "join", "exited", "failed", "killed"}]
  /\ stdin \in [Mounts -> {"none", "read", "lock", "set"}]
  /\ signal \in [Mounts -> {"none", "idle", "lock", "set"}]
  /\ lock \in [Mounts -> {"free", "main", "stdin", "signal"}]
  /\ flag \in [Mounts -> BOOLEAN]
  /\ stack \in [Points -> Seq(Mounts)]

(* The mutex has the thread that is between its lock and its unlock.         *)
LockIsHeld ==
  \A m \in Mounts :
    /\ signal[m] = "set" => lock[m] = "signal"
    /\ stdin[m] = "set" => lock[m] = "stdin"
    /\ main[m] = "test" => lock[m] = "main"

(* The threads other than main run once it has started them and until it has *)
(* ended, and the flag is theirs to set.                                     *)
ThreadsAreStarted ==
  \A m \in Mounts :
    main[m] \in {"none", "start", "mounting", "handlers", "exited", "failed", "killed"} =>
      signal[m] = "none" /\ stdin[m] = "none"

(* Main leaves its loop with the flag set.                                   *)
LeftWhenInterrupted ==
  \A m \in Mounts : main[m] \in {"unmount", "join"} => flag[m]

(* Main never waits for an interrupt that has come: whichever thread sets    *)
(* the flag notifies it while it waits, and none can do so between its test  *)
(* of the flag and its wait (thread.rs:20-58).                               *)
NoLostInterrupt ==
  \A m \in Mounts : main[m] = "wait" => ~flag[m]

(* A process with a mount point of its own has at most one filesystem there, *)
(* from its mount to its unmount or, if a signal ended it before it could    *)
(* handle it or its unmount failed, for good: one that ends otherwise leaves *)
(* nothing mounted and never waits for its session after the unmount         *)
(* (mount/fuser.rs:38-59).                                                   *)
OwnMountIsLive ==
  \A m \in Mounts : HasOwnPoint(m) =>
    /\ stack[At[m]] \in {<<>>, <<m>>}
    /\ main[m] \in {"none", "start", "mounting", "join", "exited"} => stack[At[m]] = <<>>

(* A future starts one process, and only those of the GUI have one.          *)
SpawnedOnce ==
  \A m \in Mounts :
    /\ future[m] # "idle" => m \in FromGui
    /\ m \in FromGui /\ future[m] \in {"idle", "check", "spawn"} => main[m] = "none"

IInv ==
  /\ Types /\ LockIsHeld /\ ThreadsAreStarted /\ SpawnedOnce
  /\ LeftWhenInterrupted /\ NoLostInterrupt /\ OwnMountIsLive

(* What an unmount leaves of the filesystems of a mount point.               *)
Popped(s) == IF s = <<>> THEN s ELSE SubSeq(s, 1, Len(s) - 1)

LEMMA PoppedIsStack ==
  /\ \A s \in Seq(Mounts) : Popped(s) \in Seq(Mounts)
  /\ Popped(<<>>) = <<>> /\ \A m \in Mounts : Popped(<<m>>) = <<>>
<1>1. \A s \in Seq(Mounts) : Popped(s) \in Seq(Mounts)
  BY DEF Popped
<1>2. Popped(<<>>) = <<>> /\ \A m \in Mounts : Popped(<<m>>) = <<>>
  BY DEF Popped
<1> QED
  BY <1>1, <1>2

(* An unmount leaves at most its own filesystem at a mount point of its own. *)
LEMMA PoppedOwn ==
  ASSUME IInv, UNCHANGED At, At \in [Mounts -> Points], NEW m \in Mounts,
         NEW n \in Mounts, HasOwnPoint(n),
         stack' = [stack EXCEPT ![At[m]] = Popped(@)]
  PROVE  /\ n = m => stack'[At[n]] = <<>>
         /\ n # m => stack'[At[n]] = stack[At[n]]
<1>1. stack \in [Points -> Seq(Mounts)] /\ stack[At[n]] \in {<<>>, <<n>>}
  BY DEF IInv, Types, OwnMountIsLive
<1>2. n # m => At[m] # At[n]
  BY DEF HasOwnPoint
<1> QED
  BY <1>1, <1>2, PoppedIsStack

LEMMA InitIInv == Init => IInv
  BY MountSessionAssumption
  DEF Init, IInv, Types, LockIsHeld, ThreadsAreStarted, LeftWhenInterrupted,
      NoLostInterrupt, OwnMountIsLive, SpawnedOnce, HasOwnPoint, At, FromGui

LEMMA NextIInv == IInv /\ [Next]_vars => IInv'
<1> SUFFICES ASSUME IInv, [Next]_vars PROVE IInv'
  OBVIOUS
<1> USE DEF IInv, LockIsHeld, ThreadsAreStarted, LeftWhenInterrupted, NoLostInterrupt,
            OwnMountIsLive, SpawnedOnce
<1> USE DEF Types
<1>a. setup' = setup
  BY DEF Next, vars, gui, threads, dirs, GuiStep, MainStep, Press, Check, Spawn, SpawnFails,
    TimerEnds, ChildSeen, Cli, ProcessFails, CreateDir, Mount, Handlers, MainTests, Unmount,
    UnmountFails, Join,
    MainLocks, SpuriousWake, PipeEnds, StdinLocks, StdinSets, EarlySignal, CtrlC,
    SignalLocks, SignalSets, CloseGui, UserWrites
<1>b. At' = At /\ FromGui' = FromGui /\ At \in [Mounts -> Points]
  BY <1>a, MountSessionAssumption DEF At, FromGui
<1>c. \A m : HasOwnPoint(m)' <=> HasOwnPoint(m)
  BY <1>b DEF HasOwnPoint
<1> USE <1>b, <1>c
<1>1. ASSUME NEW m \in Mounts, Press(m) PROVE IInv'
  BY <1>1, <1>a DEF Press, gui, threads, dirs
<1>2. ASSUME NEW m \in Mounts, Check(m) PROVE IInv'
  <2>1. future[m] = "check" /\ UNCHANGED <<main, stdin, signal, lock, flag, stack>>
    BY <1>2 DEF Check, threads, dirs
  <2>2. CASE future' = [future EXCEPT ![m] = "spawn"]
    BY <2>1, <2>2, <1>a
  <2>3. CASE future' = [future EXCEPT ![m] = "ended"]
    BY <2>1, <2>3, <1>a
  <2> QED
    BY <1>2, <2>2, <2>3 DEF Check
<1>3. ASSUME NEW m \in Mounts, Spawn(m) PROVE IInv'
  BY <1>3, <1>a DEF Spawn, gui, threads, dirs, SpawnChild
<1>4. ASSUME NEW m \in Mounts, SpawnFails(m) PROVE IInv'
  BY <1>4, <1>a DEF SpawnFails, gui, threads, dirs
<1>5. ASSUME NEW m \in Mounts, TimerEnds(m) PROVE IInv'
  <2>1. /\ future[m] = "watch" /\ UNCHANGED <<main, stdin, signal, lock, flag, stack>>
        /\ future' = future \/ future' = [future EXCEPT ![m] = "ended"]
    BY <1>5 DEF TimerEnds, threads, dirs
  <2> QED
    BY <2>1, <1>a
<1>6. ASSUME NEW m \in Mounts, ChildSeen(m) PROVE IInv'
  BY <1>6, <1>a DEF ChildSeen, gui, threads, dirs
<1>7. ASSUME NEW m \in Mounts, Cli(m) PROVE IInv'
  BY <1>7, <1>a DEF Cli, gui, threads, dirs, SpawnChild
<1>8. ASSUME NEW m \in Mounts, ProcessFails(m) PROVE IInv'
  BY <1>8, <1>a DEF ProcessFails, gui, threads, dirs, EndAs
<1>9. ASSUME NEW m \in Mounts, Mount(m) PROVE IInv'
  <2>1. /\ main[m] = "mounting" /\ UNCHANGED <<future, stdin, signal, lock, flag>>
        /\ main' = [main EXCEPT ![m] = "handlers"]
        /\ stack' = [stack EXCEPT ![At[m]] = Append(@, m)]
    BY <1>9 DEF Mount, gui
  <2>2. Types' /\ LockIsHeld' /\ ThreadsAreStarted' /\ SpawnedOnce'
        /\ LeftWhenInterrupted' /\ NoLostInterrupt'
    BY <2>1, <1>a
  <2>3. ASSUME NEW n \in Mounts, HasOwnPoint(n)
        PROVE  /\ stack'[At[n]] \in {<<>>, <<n>>}
               /\ main'[n] \in {"none", "start", "mounting", "join", "exited"} => stack'[At[n]] = <<>>
    <3>1. CASE n = m
      <4>1. stack[At[m]] = <<>>
        BY <2>1, <2>3, <3>1
      <4>2. stack'[At[m]] = <<m>>
        BY <2>1, <4>1
      <4> QED
        BY <2>1, <3>1, <4>2
    <3>2. CASE n # m
      <4>1. At[m] # At[n]
        BY <2>3, <3>2 DEF HasOwnPoint
      <4>2. stack'[At[n]] = stack[At[n]] /\ main'[n] = main[n]
        BY <2>1, <3>2, <4>1
      <4> QED
        BY <2>3, <4>2
    <3> QED
      BY <3>1, <3>2
  <2>4. OwnMountIsLive'
    BY <2>3
  <2> QED
    BY <2>2, <2>4
<1>10. ASSUME NEW m \in Mounts, Handlers(m) PROVE IInv'
  BY <1>10, <1>a DEF Handlers, gui, threads, dirs
<1>11. ASSUME NEW m \in Mounts, MainTests(m) PROVE IInv'
  <2>1. main[m] = "test" /\ UNCHANGED <<future, stdin, signal, flag, stack>>
    BY <1>11 DEF MainTests, gui, dirs
  <2>2. CASE flag[m] /\ main' = [main EXCEPT ![m] = "unmount"] /\ lock' = lock
    BY <2>1, <2>2, <1>a
  <2>3. CASE ~flag[m] /\ main' = [main EXCEPT ![m] = "wait"]
             /\ lock' = [lock EXCEPT ![m] = "free"]
    BY <2>1, <2>3, <1>a
  <2> QED
    BY <1>11, <2>2, <2>3 DEF MainTests
<1>12. ASSUME NEW m \in Mounts, Unmount(m) PROVE IInv'
  <2>1. /\ main[m] = "unmount" /\ UNCHANGED <<future, stdin, signal, lock, flag>>
        /\ main' = [main EXCEPT ![m] = "join"]
        /\ stack' = [stack EXCEPT ![At[m]] = Popped(@)]
    BY <1>12 DEF Unmount, UnmountTopmost, gui, Popped
  <2>2. Types' /\ LockIsHeld' /\ ThreadsAreStarted' /\ SpawnedOnce'
        /\ LeftWhenInterrupted' /\ NoLostInterrupt'
    BY <2>1, PoppedIsStack, <1>a
  <2>3. OwnMountIsLive'
    BY <2>1, PoppedOwn
  <2> QED
    BY <2>2, <2>3
<1>13. ASSUME NEW m \in Mounts, Join(m) PROVE IInv'
  BY <1>13, <1>a DEF Join, gui, threads, dirs, EndAs, IsMounted
<1>14. ASSUME NEW m \in Mounts, MainLocks(m) PROVE IInv'
  BY <1>14, <1>a DEF MainLocks, gui, threads, dirs
<1>15. ASSUME NEW m \in Mounts, SpuriousWake(m) PROVE IInv'
  BY <1>15, <1>a DEF SpuriousWake, gui, threads, dirs
<1>16. ASSUME NEW m \in Mounts, PipeEnds(m) PROVE IInv'
  BY <1>16, <1>a DEF PipeEnds, gui, threads, dirs
<1>17. ASSUME NEW m \in Mounts, StdinLocks(m) PROVE IInv'
  BY <1>17, <1>a DEF StdinLocks, gui, threads, dirs
<1>18. ASSUME NEW m \in Mounts, StdinSets(m) PROVE IInv'
  BY <1>18, <1>a DEF StdinSets, gui, threads, dirs, Woken
<1>19. ASSUME NEW m \in Mounts, EarlySignal(m) PROVE IInv'
  BY <1>19, <1>a DEF EarlySignal, gui, threads, dirs
<1>20. ASSUME NEW m \in Mounts, CtrlC(m) PROVE IInv'
  BY <1>20, <1>a DEF CtrlC, gui, threads, dirs
<1>21. ASSUME NEW m \in Mounts, SignalLocks(m) PROVE IInv'
  BY <1>21, <1>a DEF SignalLocks, gui, threads, dirs
<1>22. ASSUME NEW m \in Mounts, SignalSets(m) PROVE IInv'
  BY <1>22, <1>a DEF SignalSets, gui, threads, dirs, Woken
<1>23. CASE CloseGui
  BY <1>23, <1>a DEF CloseGui, threads, dirs
<1>24. ASSUME NEW d \in Points, UserWrites(d) PROVE IInv'
  BY <1>24, <1>a DEF UserWrites, threads, gui
<1>25. ASSUME NEW m \in Mounts, CreateDir(m) PROVE IInv'
  BY <1>25, <1>a DEF CreateDir, gui
<1>26. ASSUME NEW m \in Mounts, UnmountFails(m) PROVE IInv'
  <2>1. /\ main[m] = "unmount" /\ UNCHANGED <<future, flag>>
        /\ main' = [main EXCEPT ![m] = "failed"]
        /\ stdin' = [stdin EXCEPT ![m] = "none"] /\ signal' = [signal EXCEPT ![m] = "none"]
        /\ lock' = [lock EXCEPT ![m] = "free"]
        /\ stack' = stack \/ stack' = [stack EXCEPT ![At[m]] = Popped(@)]
    BY <1>26 DEF UnmountFails, EndAs, UnmountTopmost, gui, Popped
  <2>2. stack' \in [Points -> Seq(Mounts)]
    <3>1. stack \in [Points -> Seq(Mounts)] /\ At[m] \in Points
      BY <1>b
    <3>2. Popped(stack[At[m]]) \in Seq(Mounts)
      BY <3>1, PoppedIsStack
    <3>3. [stack EXCEPT ![At[m]] = Popped(stack[At[m]])] \in [Points -> Seq(Mounts)]
      BY <3>1, <3>2
    <3>4. stack' = stack \/ stack' = [stack EXCEPT ![At[m]] = Popped(stack[At[m]])]
      BY <2>1
    <3> QED
      BY <3>1, <3>3, <3>4, Zenon
  <2>3. Types'
    BY <2>1, <2>2, <1>a
  <2>4. LockIsHeld' /\ ThreadsAreStarted' /\ SpawnedOnce'
        /\ LeftWhenInterrupted' /\ NoLostInterrupt'
    BY <2>1, <1>a
  <2>5. OwnMountIsLive'
    BY <2>1, PoppedOwn
  <2> QED
    BY <2>3, <2>4, <2>5
<1>27. CASE UNCHANGED vars
  BY <1>27, <1>a DEF vars, threads, gui, dirs
<1> QED
  BY <1>1, <1>2, <1>3, <1>4, <1>5, <1>6, <1>7, <1>8, <1>9, <1>10, <1>11, <1>12, <1>13,
     <1>14, <1>15, <1>16, <1>17, <1>18, <1>19, <1>20, <1>21, <1>22, <1>23, <1>24, <1>25,
     <1>26, <1>27
  DEF Next, GuiStep, MainStep

LEMMA Invariance == Spec => []IInv
  BY InitIInv, NextIInv, PTL DEF Spec

(* Whatever the threads of a process do and in whatever order, an interrupt  *)
(* is never lost: main does not wait once the flag is set, so that what is   *)
(* left of InterruptEndsProcess is that main runs (thread.rs:20-58).         *)
THEOREM InterruptIsNotLost == Spec => []NoLostInterrupt
  BY Invariance, PTL DEF IInv

(* A process that has left its loop and ended left nothing mounted at a      *)
(* mount point of its own, however many processes there are.                 *)
THEOREM EndedLeavesNoMount == Spec => []OwnMountIsLive
  BY Invariance, PTL DEF IInv

(* Only the topmost filesystem of a mount point goes, and only when the main *)
(* thread of a process that mounted there left its loop: for a mount point   *)
(* of its own that is the process whose flag was set.                        *)
LEMMA StepUnmounts ==
  ASSUME IInv, [Next]_vars, NEW m \in Mounts,
         HasOwnPoint(m), IsMounted(m), ~IsMounted(m)'
  PROVE  flag[m]
<1> USE DEF IInv, Types
<1>1. \E n \in Mounts : Mount(n) \/ Unmount(n) \/ UnmountFails(n)
  BY DEF Next, vars, gui, threads, dirs, GuiStep, MainStep, Press, Check, Spawn, SpawnFails,
    TimerEnds, ChildSeen, Cli, ProcessFails, CreateDir, Handlers, MainTests, Join,
    MainLocks, SpuriousWake, PipeEnds, StdinLocks, StdinSets, EarlySignal, CtrlC,
    SignalLocks, SignalSets, CloseGui, UserWrites, IsMounted, At
<1>2. PICK n \in Mounts : Mount(n) \/ Unmount(n) \/ UnmountFails(n)
  BY <1>1
<1>3. At' = At /\ At \in [Mounts -> Points]
  BY <1>2, MountSessionAssumption DEF Mount, Unmount, UnmountFails, At
<1>4. CASE Mount(n)
  <2>1. stack' = [stack EXCEPT ![At[n]] = Append(@, n)]
    BY <1>4 DEF Mount
  <2>2. IsMounted(m)'
    BY <1>3, <2>1 DEF IsMounted
  <2> QED
    BY <2>2
<1>5. CASE Unmount(n) \/ UnmountFails(n)
  <2>1. CASE n = m
    BY <1>5, <2>1 DEF Unmount, UnmountFails, LeftWhenInterrupted
  <2>2. CASE n # m
    <3>1. At[n] # At[m]
      BY <2>2 DEF HasOwnPoint
    <3>2. stack'[At[m]] = stack[At[m]]
      BY <1>3, <1>5, <3>1 DEF Unmount, UnmountFails, UnmountTopmost
    <3> QED
      BY <1>3, <3>2 DEF IsMounted
  <2> QED
    BY <2>1, <2>2
<1> QED
  BY <1>2, <1>4, <1>5

(* A filesystem at a mount point of its own goes away only when its process  *)
(* was interrupted (thread.rs:49-58).                                        *)
THEOREM UnmountNeedsInterrupt == Spec => UnmountedOnlyWhenInterrupted
<1>1. IInv /\ [Next]_vars =>
        [\A m \in Mounts : HasOwnPoint(m) /\ IsMounted(m) /\ ~IsMounted(m)' => flag[m]]_vars
  BY StepUnmounts
<1> QED
  BY <1>1, Invariance, PTL DEF Spec, UnmountedOnlyWhenInterrupted
=============================================================================
