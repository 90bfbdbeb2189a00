----------------------------- MODULE MountCache -----------------------------
(* Mounting archives through the cache that all mounts of a user share:      *)
(* DvdbndMount::from_keys_and_dict (dvdbnd/mount.rs:57-129), the processing  *)
(* of DvdbndRofsBuilder::finish (dvdbnd/filesystem.rs:117-159, 182-250), the *)
(* LMDB cache (cache.rs) and the GUI's clear_cache (gui/src/app.rs:208-226), *)
(* by several processes at a time, while the game may be patched.            *)
(*                                                                           *)
(* A header (.bhd) is known by its bytes: its hash is its SrcId.  An object  *)
(* is what a header, a dictionary and the archive's own name make: the files *)
(* of the first under the names of the second, and under names made of the   *)
(* third where the dictionary has none.  A cached object is found by the     *)
(* header alone.                                                             *)
EXTENDS Integers, FiniteSets

CONSTANTS
  Procs,     \* fsvfs processes
  Archives,  \* the archives on disk
  Selections, \* the sets of archives a process may be given
  Contents,  \* the possible bytes of a header
  Dicts,     \* the dictionaries, one per game
  Clears,    \* bound on how often the cache is cleared
  Patches,   \* bound on how often a header is replaced
  None       \* no object, no bytes, no cache

ASSUME MountCacheAssumption ==
  /\ Clears \in Nat /\ Patches \in Nat
  /\ Selections \subseteq SUBSET Archives
  /\ None \notin Contents \cup 0..Clears

VARIABLES
  bhd,      \* the header each archive has on disk
  patches,  \* headers replaced so far
  current,  \* the cache file on disk; clearing makes the next one
  store,    \* per cache file and header: the object kept, or None
  pc,       \* per process
  args,     \* per process: its archives and its dictionary
  env,      \* per process: the cache file it opened, or None
  bytes,    \* per process and archive: the header it read
  object    \* per process and archive: the object it mounts

vars == <<bhd, patches, current, store, pc, args, env, bytes, object>>

Objects == [content : Contents, dict : Dicts, name : Archives]
NoObject == [content |-> None, dict |-> None, name |-> None]
Has(o) == o # NoObject

Init ==
  /\ bhd \in [Archives -> Contents]
  /\ patches = 0 /\ current = 0
  /\ store = [f \in 0..Clears |-> [c \in Contents |-> NoObject]]
  /\ pc = [p \in Procs |-> "start"]
  /\ args \in [Procs -> [archives : Selections, dict : Dicts]]
  /\ env = [p \in Procs |-> None]
  /\ bytes = [p \in Procs |-> [a \in Archives |-> None]]
  /\ object = [p \in Procs |-> [a \in Archives |-> NoObject]]

disk == <<bhd, patches, current, store>>

(* A process that fails or ends leaves nothing in memory.                    *)
Gone(p) ==
  /\ env' = [env EXCEPT ![p] = None]
  /\ bytes' = [bytes EXCEPT ![p] = [a \in Archives |-> None]]
  /\ object' = [object EXCEPT ![p] = [a \in Archives |-> NoObject]]

Goto(p, from, to) == pc[p] = from /\ pc' = [pc EXCEPT ![p] = to]

(* Cache::open, or Cache::empty with --no-cache and when it cannot open.     *)
OpenCache(p) ==
  /\ Goto(p, "start", "read")
  /\ \E e \in {current, None} : env' = [env EXCEPT ![p] = e]
  /\ UNCHANGED <<disk, args, bytes, object>>

(* The headers are read in parallel, each at its own time.                   *)
ReadBhd(p, a) ==
  /\ pc[p] = "read" /\ a \in args[p].archives /\ bytes[p][a] = None
  /\ bytes' = [bytes EXCEPT ![p][a] = bhd[a]]
  /\ UNCHANGED <<disk, pc, args, env, object>>

ReadFails(p) ==
  /\ Goto(p, "read", "failed")
  /\ Gone(p)
  /\ UNCHANGED <<disk, args>>

(* Cache::get of every header, in one pass: what is found and decodes is     *)
(* taken; any error counts as a miss.                                        *)
Found(p) ==
  { a \in args[p].archives : env[p] # None /\ Has(store[env[p]][bytes[p][a]]) }

CacheGet(p) ==
  /\ Goto(p, "read", "process")
  /\ \A a \in args[p].archives : bytes[p][a] # None
  /\ \E hits \in SUBSET Found(p) :
       object' = [object EXCEPT ![p] =
                    [a \in Archives |->
                       IF a \in hits THEN store[env[p]][bytes[p][a]] ELSE @[a]]]
  /\ UNCHANGED <<disk, args, env, bytes>>

Missing(p) == { a \in args[p].archives : ~Has(object[p][a]) }

(* The rest is decrypted, parsed and named, all of it before anything is     *)
(* stored; one bad header fails the mount.                                   *)
ProcessFails(p) ==
  /\ Goto(p, "process", "failed")
  /\ Missing(p) # {}
  /\ Gone(p)
  /\ UNCHANGED <<disk, args>>

(* Variants: from the header as it is on disk by now; without names.         *)
Made_Reread(p, a) == [content |-> bhd[a], dict |-> args[p].dict, name |-> a]
Made_Nameless(p, a) == [content |-> bytes[p][a], dict |-> None, name |-> a]

Made(p, a) == [content |-> bytes[p][a], dict |-> args[p].dict, name |-> a]

Process(p) ==
  /\ Goto(p, "process", "put")
  /\ UNCHANGED <<disk, args, env, bytes, object>>

(* Variant: kept under the hash of the header as it is on disk by now.       *)
CachePut_Rehashed(p, a) ==
  /\ pc[p] = "put" /\ a \in Missing(p)
  /\ object' = [object EXCEPT ![p][a] = Made(p, a)]
  /\ \/ /\ env[p] # None
        /\ store' = [store EXCEPT ![env[p]][bhd[a]] = Made(p, a)]
     \/ UNCHANGED store
  /\ UNCHANGED <<bhd, patches, current, pc, args, env, bytes>>

(* Cache::put of one made object, in a transaction of its own; an error is   *)
(* only logged.                                                              *)
CachePut(p, a) ==
  /\ pc[p] = "put" /\ a \in Missing(p)
  /\ object' = [object EXCEPT ![p][a] = Made(p, a)]
  /\ \/ /\ env[p] # None
        /\ store' = [store EXCEPT ![env[p]][bytes[p][a]] = Made(p, a)]
     \/ UNCHANGED store
  /\ UNCHANGED <<bhd, patches, current, pc, args, env, bytes>>

Mount(p) ==
  /\ Goto(p, "put", "mounted")
  /\ Missing(p) = {}
  /\ UNCHANGED <<disk, args, env, bytes, object>>

(* The process ends and is started again, with other arguments.              *)
Restart(p) ==
  /\ pc[p] \in {"mounted", "failed"}
  /\ pc' = [pc EXCEPT ![p] = "start"]
  /\ \E d \in Dicts : args' = [args EXCEPT ![p].dict = d]
  /\ Gone(p)
  /\ UNCHANGED disk

(* Killed at any point: what was committed to the cache stays.               *)
Kill(p) ==
  /\ pc[p] \notin {"start", "mounted", "failed"}
  /\ pc' = [pc EXCEPT ![p] = "failed"]
  /\ Gone(p)
  /\ UNCHANGED <<disk, args>>

(* clear_cache removes the files of the database, data.mdb and lock.mdb,     *)
(* each in a call of its own; the processes that have them open go on with   *)
(* the removed ones.  What is kept is in data.mdb: the step is its removal.  *)
(* The time between the two removals and LMDB's locking are left out.        *)
ClearCache ==
  /\ current < Clears
  /\ current' = current + 1
  /\ UNCHANGED <<bhd, patches, store, pc, args, env, bytes, object>>

Patch(a) ==
  /\ patches < Patches
  /\ \E c \in Contents \ {bhd[a]} : bhd' = [bhd EXCEPT ![a] = c]
  /\ patches' = patches + 1
  /\ UNCHANGED <<current, store, pc, args, env, bytes, object>>

Next ==
  \/ \E p \in Procs :
       \/ OpenCache(p) \/ ReadFails(p) \/ CacheGet(p)
       \/ ProcessFails(p) \/ Process(p) \/ Mount(p) \/ Restart(p) \/ Kill(p)
       \/ \E a \in Archives : ReadBhd(p, a) \/ CachePut(p, a)
  \/ ClearCache
  \/ \E a \in Archives : Patch(a)

Spec == Init /\ [][Next]_vars

-----------------------------------------------------------------------------
TypeOK ==
  /\ bhd \in [Archives -> Contents]
  /\ patches \in 0..Patches /\ current \in 0..Clears
  /\ store \in [0..Clears -> [Contents -> Objects \cup {NoObject}]]
  /\ pc \in [Procs -> {"start", "read", "process", "put", "mounted", "failed"}]
  /\ args \in [Procs -> [archives : Selections, dict : Dicts]]
  /\ env \in [Procs -> 0..Clears \cup {None}]
  /\ bytes \in [Procs -> [Archives -> Contents \cup {None}]]
  /\ object \in [Procs -> [Archives -> Objects \cup {NoObject}]]

(* A mount serves every archive it was asked for, each as described by the   *)
(* very header it read: neither a patch nor another process's entry mixes    *)
(* the files of two headers (mount.rs:70-98).                                *)
MountDescribesItsHeaders ==
  \A p \in Procs : pc[p] = "mounted" =>
    \A a \in args[p].archives : object[p][a].content = bytes[p][a]

(* An entry describes the header whose hash is its key, whoever wrote it.    *)
EntriesDescribeTheirKey ==
  \A f \in 0..Clears : \A c \in Contents :
    Has(store[f][c]) => store[f][c].content = c

=============================================================================
