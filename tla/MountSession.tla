---------------------------- MODULE MountSession ----------------------------
(* The life of mounts: the GUI that checks the mount point and starts one    *)
(* fsvfs process per mount (gui/src/app.rs:405-520, 604-616), the process    *)
(* that mounts (mount/fuser.rs:38-59) and then waits to be interrupted by a  *)
(* signal or by the end of the pipe the GUI holds (thread.rs), and the       *)
(* unmount.  A process may also be started from a command line.              *)
EXTENDS Integers, Sequences, FiniteSets

CONSTANTS
  Mounts,   \* the attempts to mount
  Points,   \* the mount points
  Setups    \* who starts the attempts, where they mount, who may be signalled

ASSUME MountSessionAssumption ==
  Setups \subseteq
    [gui : SUBSET Mounts, at : [Mounts -> Points], signalled : SUBSET Mounts]

VARIABLES
  setup,    \* one of the setups
  enabled,  \* whether the GUI's mount button is enabled
  open,     \* whether the GUI runs
  future,   \* per attempt: App::mount
  timer,    \* per attempt: the 200 ms of open_dir are not over
  main,     \* per attempt: the main thread of the process
  stdin,    \* per attempt: the thread that reads the pipe
  signal,   \* per attempt: the thread that handles Ctrl-C
  lock,     \* per attempt: the thread that holds the mutex
  flag,     \* per attempt: the flag under the mutex
  exists,   \* per mount point: whether the directory exists
  files,    \* per mount point: whether it holds files of the user
  stack     \* per mount point: the filesystems mounted there, topmost last

gui == <<enabled, open, future, timer>>
threads == <<main, stdin, signal, lock, flag>>
dirs == <<exists, files, stack>>
vars == <<setup, gui, threads, dirs>>

FromGui == setup.gui  \* started by the GUI, which pipes them
At == setup.at
Signalled == setup.signalled  \* a bound
HasOwnPoint(m) == \A n \in Mounts \ {m} : At[n] # At[m]

Init ==
  /\ setup \in Setups
  /\ enabled = TRUE /\ open = TRUE
  /\ future = [m \in Mounts |-> "idle"]
  /\ timer = [m \in Mounts |-> FALSE]
  /\ main = [m \in Mounts |-> "none"]
  /\ stdin = [m \in Mounts |-> "none"]
  /\ signal = [m \in Mounts |-> "none"]
  /\ lock = [m \in Mounts |-> "free"]
  /\ flag = [m \in Mounts |-> FALSE]
  /\ exists \in [Points -> BOOLEAN]
  /\ files \in [Points -> BOOLEAN]
  /\ \A d \in Points :
       (files[d] => exists[d]) /\ (exists[d] => \E m \in Mounts : At[m] = d)
  /\ stack = [d \in Points |-> <<>>]

-----------------------------------------------------------------------------
(* The GUI.  A mounted archive has entries, so its mount point is not empty. *)
IsEmptyDir(d) == exists[d] /\ ~files[d] /\ stack[d] = <<>>

Press(m) ==
  /\ open /\ enabled
  /\ m \in FromGui /\ future[m] = "idle"
  /\ enabled' = FALSE
  /\ future' = [future EXCEPT ![m] = "check"]
  /\ UNCHANGED <<setup, open, timer, threads, dirs>>

(* AppContext::check, whose error ends the future and drops the guard that   *)
(* enables the button again.                                                 *)
Check(m) ==
  /\ open /\ future[m] = "check"
  /\ IF IsEmptyDir(At[m])
     THEN future' = [future EXCEPT ![m] = "spawn"] /\ UNCHANGED enabled
     ELSE future' = [future EXCEPT ![m] = "ended"] /\ enabled' = TRUE
  /\ UNCHANGED <<setup, open, timer, threads, dirs>>

SpawnChild(m) ==
  /\ main' = [main EXCEPT ![m] = "start"]
  /\ UNCHANGED <<stdin, signal, lock, flag>>

Spawn(m) ==
  /\ open /\ future[m] = "spawn"
  /\ SpawnChild(m)
  /\ future' = [future EXCEPT ![m] = "watch"]
  /\ timer' = [timer EXCEPT ![m] = TRUE]
  /\ UNCHANGED <<setup, enabled, open, dirs>>

(* Variant: the guard of the button is forgotten on this way out.            *)
SpawnFails_Disabled(m) ==
  /\ open /\ future[m] = "spawn"
  /\ future' = [future EXCEPT ![m] = "ended"]
  /\ UNCHANGED <<setup, enabled, open, timer, threads, dirs>>

SpawnFails(m) ==
  /\ open /\ future[m] = "spawn"
  /\ future' = [future EXCEPT ![m] = "ended"]
  /\ enabled' = TRUE
  /\ UNCHANGED <<setup, open, timer, threads, dirs>>

(* The timer ends: the button is enabled and the directory is opened; if     *)
(* that fails the whole future ends, and with it the pipe.                   *)
TimerEnds(m) ==
  /\ open /\ future[m] = "watch" /\ timer[m]
  /\ timer' = [timer EXCEPT ![m] = FALSE]
  /\ enabled' = TRUE
  /\ \/ UNCHANGED future
     \/ future' = [future EXCEPT ![m] = "ended"]
  /\ UNCHANGED <<setup, open, threads, dirs>>

HasEnded(m) == main[m] \in {"exited", "failed", "killed"}

(* The process has ended: the wait, or the error it printed, ends the watch. *)
ChildSeen(m) ==
  /\ open /\ future[m] = "watch" /\ HasEnded(m) /\ ~timer[m]
  /\ future' = [future EXCEPT ![m] = "ended"]
  /\ UNCHANGED <<setup, enabled, open, timer, threads, dirs>>

CloseGui ==
  /\ open
  /\ open' = FALSE
  /\ UNCHANGED <<setup, enabled, future, timer, threads, dirs>>

(* The write end of the pipe lives in the future.                            *)
PipeHeld(m) == open /\ future[m] = "watch"

-----------------------------------------------------------------------------
(* The process.                                                              *)
Cli(m) ==
  /\ m \in Mounts \ FromGui /\ main[m] = "none"
  /\ SpawnChild(m)
  /\ UNCHANGED <<setup, gui, dirs>>

EndAs(m, how) ==
  /\ main' = [main EXCEPT ![m] = how]
  /\ stdin' = [stdin EXCEPT ![m] = "none"]
  /\ signal' = [signal EXCEPT ![m] = "none"]
  /\ lock' = [lock EXCEPT ![m] = "free"]

ProcessFails(m) ==
  /\ main[m] \in {"start", "mounting"}
  /\ EndAs(m, "exited")
  /\ UNCHANGED <<setup, gui, flag, dirs>>

(* The path of a filesystem whose process is gone leads nowhere.             *)
IsDead(d) == stack[d] # <<>> /\ main[stack[d][Len(stack[d])]] \in {"failed", "killed"}

(* create_dir_all: the directory stays, whatever becomes of the mount.       *)
CreateDir(m) ==
  /\ main[m] = "start" /\ ~IsDead(At[m])
  /\ exists' = [exists EXCEPT ![At[m]] = TRUE]
  /\ main' = [main EXCEPT ![m] = "mounting"]
  /\ UNCHANGED <<setup, gui, stdin, signal, lock, flag, files, stack>>

(* The mount goes on top of what is there.                                   *)
Mount(m) ==
  /\ main[m] = "mounting" /\ ~IsDead(At[m])
  /\ stack' = [stack EXCEPT ![At[m]] = Append(@, m)]
  /\ main' = [main EXCEPT ![m] = "handlers"]
  /\ UNCHANGED <<setup, gui, stdin, signal, lock, flag, exists, files>>

(* Variant: no thread reads the pipe.                                        *)
Handlers_NoPipe(m) ==
  /\ main[m] = "handlers"
  /\ main' = [main EXCEPT ![m] = "lock"]
  /\ signal' = [signal EXCEPT ![m] = "idle"]
  /\ UNCHANGED <<setup, gui, stdin, lock, flag, dirs>>

(* run_until_interrupted installs the handler and starts the pipe's thread.  *)
Handlers(m) ==
  /\ main[m] = "handlers"
  /\ main' = [main EXCEPT ![m] = "lock"]
  /\ signal' = [signal EXCEPT ![m] = "idle"]
  /\ stdin' = [stdin EXCEPT ![m] = IF m \in FromGui THEN "read" ELSE "none"]
  /\ UNCHANGED <<setup, gui, lock, flag, dirs>>

(* A signal before the handler is installed ends the process at once.  Its   *)
(* filesystem, if it has one by then, stays in the mount table without it.   *)
EarlySignal(m) ==
  /\ m \in Signalled /\ main[m] \in {"start", "mounting", "handlers"}
  /\ main' = [main EXCEPT ![m] = "killed"]
  /\ UNCHANGED <<setup, gui, stdin, signal, lock, flag, dirs>>

(* The handler's thread takes one signal at a time.                          *)
CtrlC(m) ==
  /\ m \in Signalled /\ signal[m] = "idle"
  /\ signal' = [signal EXCEPT ![m] = "lock"]
  /\ UNCHANGED <<setup, gui, main, stdin, lock, flag, dirs>>

(* The pipe's thread: read_exact ends with the error it expects.             *)
PipeEnds(m) ==
  /\ stdin[m] = "read" /\ ~PipeHeld(m)
  /\ stdin' = [stdin EXCEPT ![m] = "lock"]
  /\ UNCHANGED <<setup, gui, main, signal, lock, flag, dirs>>

(* Variant: without the notification.                                        *)
Woken_Not(m) == main

(* Both set the flag under the mutex and notify, which wakes main if it is   *)
(* waiting by then.                                                          *)
Woken(m) == IF main[m] = "wait" THEN [main EXCEPT ![m] = "lock"] ELSE main

SignalLocks(m) ==
  /\ signal[m] = "lock" /\ lock[m] = "free"
  /\ lock' = [lock EXCEPT ![m] = "signal"]
  /\ signal' = [signal EXCEPT ![m] = "set"]
  /\ UNCHANGED <<setup, gui, main, stdin, flag, dirs>>

SignalSets(m) ==
  /\ signal[m] = "set"
  /\ flag' = [flag EXCEPT ![m] = TRUE]
  /\ main' = Woken(m)
  /\ lock' = [lock EXCEPT ![m] = "free"]
  /\ signal' = [signal EXCEPT ![m] = "idle"]
  /\ UNCHANGED <<setup, gui, stdin, dirs>>

StdinLocks(m) ==
  /\ stdin[m] = "lock" /\ lock[m] = "free"
  /\ lock' = [lock EXCEPT ![m] = "stdin"]
  /\ stdin' = [stdin EXCEPT ![m] = "set"]
  /\ UNCHANGED <<setup, gui, main, signal, flag, dirs>>

StdinSets(m) ==
  /\ stdin[m] = "set"
  /\ flag' = [flag EXCEPT ![m] = TRUE]
  /\ main' = Woken(m)
  /\ lock' = [lock EXCEPT ![m] = "free"]
  /\ stdin' = [stdin EXCEPT ![m] = "none"]
  /\ UNCHANGED <<setup, gui, signal, dirs>>

(* The loop of main: it tests the flag under the mutex and waits otherwise,  *)
(* which lets the mutex go; a wait may also end on its own.                  *)
MainLocks(m) ==
  /\ main[m] = "lock" /\ lock[m] = "free"
  /\ lock' = [lock EXCEPT ![m] = "main"]
  /\ main' = [main EXCEPT ![m] = "test"]
  /\ UNCHANGED <<setup, gui, stdin, signal, flag, dirs>>

MainTests(m) ==
  /\ main[m] = "test"
  /\ IF flag[m]
     THEN main' = [main EXCEPT ![m] = "unmount"] /\ UNCHANGED lock
     ELSE /\ main' = [main EXCEPT ![m] = "wait"]
          /\ lock' = [lock EXCEPT ![m] = "free"]
  /\ UNCHANGED <<setup, gui, stdin, signal, flag, dirs>>

(* Variant: the wait is not in a loop.                                       *)
SpuriousWake_Leaves(m) ==
  /\ main[m] = "wait"
  /\ main' = [main EXCEPT ![m] = "unmount"]
  /\ UNCHANGED <<setup, gui, stdin, signal, lock, flag, dirs>>

SpuriousWake(m) ==
  /\ main[m] = "wait"
  /\ main' = [main EXCEPT ![m] = "lock"]
  /\ UNCHANGED <<setup, gui, stdin, signal, lock, flag, dirs>>

(* umount_and_join: the topmost filesystem of the mount point goes, then     *)
(* main waits for its own session to end.                                    *)
UnmountTopmost(m) ==
  stack' = [stack EXCEPT ![At[m]] = IF @ = <<>> THEN @ ELSE SubSeq(@, 1, Len(@) - 1)]

Unmount(m) ==
  /\ main[m] = "unmount"
  /\ main' = [main EXCEPT ![m] = "join"]
  /\ UnmountTopmost(m)
  /\ UNCHANGED <<setup, gui, stdin, signal, lock, flag, exists, files>>

(* Its error is that of the process, which ends with the topmost filesystem  *)
(* still there or gone by then.                                              *)
UnmountFails(m) ==
  /\ main[m] = "unmount"
  /\ EndAs(m, "failed")
  /\ \/ UNCHANGED stack
     \/ UnmountTopmost(m)
  /\ UNCHANGED <<setup, gui, flag, exists, files>>

IsMounted(m) == \E i \in 1..Len(stack[At[m]]) : stack[At[m]][i] = m

Join(m) ==
  /\ main[m] = "join" /\ ~IsMounted(m)
  /\ EndAs(m, "exited")
  /\ UNCHANGED <<setup, gui, flag, dirs>>

(* The user of the directory under the mounts.                               *)
UserWrites(d) ==
  /\ exists[d] /\ ~files[d] /\ stack[d] = <<>>
  /\ files' = [files EXCEPT ![d] = TRUE]
  /\ UNCHANGED <<setup, gui, threads, exists, stack>>

-----------------------------------------------------------------------------
GuiStep(m) == Check(m) \/ Spawn(m) \/ SpawnFails(m) \/ TimerEnds(m) \/ ChildSeen(m)

MainStep(m) ==
  \/ ProcessFails(m) \/ CreateDir(m) \/ Mount(m) \/ Handlers(m) \/ MainTests(m)
  \/ Unmount(m) \/ UnmountFails(m) \/ Join(m)

Next ==
  \/ \E m \in Mounts :
       \/ Press(m) \/ GuiStep(m) \/ Cli(m)
       \/ MainStep(m) \/ MainLocks(m) \/ SpuriousWake(m)
       \/ PipeEnds(m) \/ StdinLocks(m) \/ StdinSets(m)
       \/ EarlySignal(m) \/ CtrlC(m) \/ SignalLocks(m) \/ SignalSets(m)
  \/ CloseGui
  \/ \E d \in Points : UserWrites(d)

Spec == Init /\ [][Next]_vars

(* A thread that can run does; the mutex lets each of its threads in some    *)
(* time, though others take it again and again.                              *)
FairSpec ==
  Spec /\ \A m \in Mounts :
            /\ WF_vars(GuiStep(m)) /\ WF_vars(MainStep(m))
            /\ WF_vars(PipeEnds(m)) /\ WF_vars(StdinSets(m)) /\ WF_vars(SignalSets(m))
            /\ SF_vars(MainLocks(m)) /\ SF_vars(StdinLocks(m)) /\ SF_vars(SignalLocks(m))

-----------------------------------------------------------------------------
(* A filesystem goes away only when its own process was interrupted, by a    *)
(* signal or by the end of its pipe (thread.rs:49-58), as long as its mount  *)
(* point is its own.                                                         *)
UnmountedOnlyWhenInterrupted ==
  [][\A m \in Mounts :
       HasOwnPoint(m) /\ IsMounted(m) /\ ~IsMounted(m)' => flag[m]]_vars

(* An interrupt is never lost, wherever main is when it comes: the process   *)
(* unmounts and ends, or ends with the error of the unmount                  *)
(* (thread.rs:20-58).                                                        *)
InterruptEndsProcess ==
  \A m \in Mounts :
    (HasOwnPoint(m) /\ flag[m]) ~>
      \/ main[m] = "exited" /\ ~IsMounted(m)
      \/ main[m] = "failed"

(* When the GUI ends, so does every process it started, and nothing stays    *)
(* mounted by them (app.rs:412, thread.rs:32-47), unless a signal ended one  *)
(* before it could handle it (thread.rs:20) or an unmount of that mount      *)
(* point failed (thread.rs:53): two processes with one mount point unmount   *)
(* each other's filesystem.                                                  *)
ClosedGuiLeavesNoMount ==
  \A m \in Mounts :
    (m \in FromGui /\ ~open) ~>
      \/ main[m] \in {"none", "exited"} /\ ~IsMounted(m)
      \/ main[m] = "killed"
      \/ \E n \in Mounts : At[n] = At[m] /\ main[n] = "failed"

(* The button comes back after every press, while the GUI runs               *)
(* (app.rs:406, 436-441).                                                    *)
ButtonComesBack == ~enabled ~> (enabled \/ ~open)
=============================================================================
