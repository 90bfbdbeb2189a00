------------------------------- MODULE ProjFs -------------------------------
(* A mount on Windows (mount/projfs.rs): the directory and the GUID beside   *)
(* it from one life of the process to the next, and the callbacks of ProjFS, *)
(* whose reads are answered later by the workers of the dispatcher.          *)
EXTENDS Integers, Sequences, SequencesExt, FiniteSetsExt

CONSTANTS
  Files,        \* the files that are read
  Chunks,       \* the chunks a read dispatches
  Stored,       \* per file: those of them that the archive has, from the front
  Listing,      \* a directory's names, as numbers, in the order of dir_iter
  Expressions,  \* the sets of names that a search expression matches
  Replies,      \* the entries that fit the buffer of one call
  MaxLives      \* a bound on the lives of the process

ASSUME ProjFsAssumption ==
  /\ Chunks \in Nat /\ MaxLives \in Nat
  /\ Stored \in [Files -> 0..Chunks]
  /\ Listing \in Seq(Int) /\ IsInjective(Listing)
  /\ Replies \subseteq Nat
  /\ Expressions \subseteq SUBSET Range(Listing)

VARIABLES
  main,   \* what the main thread does next, "down" while there is no process
  lives,  \* the processes started
  dir,    \* the mount point: "none", "plain" or "placeholder"
  user,   \* a file of the user in it: "none", or made "before" or "since" the
          \* running process had it empty
  saved,  \* the file of the GUID: NoFile, Partial or a GUID
  guid,   \* the GUID of the process
  marks,  \* the GUIDs the mount point was ever marked with
  weak,   \* whether the Weak that callbacks upgrade is kept
  file,   \* per file: what ProjFS and its read have come to
  chunk,  \* per file: the chunks that ProjFS was given
  scan,   \* the enumeration of a directory and what ProjFS got of it
  unread  \* how often a whole file of the GUID was not read; it only observes

disk == <<dir, user, saved, marks, unread>>
process == <<main, lives, guid, weak>>
reads == <<file, chunk>>
vars == <<disk, process, reads, scan>>

NoFile == -1
Partial == 0
NoScan ==
  [open |-> FALSE, pos |-> 0, names |-> {}, out |-> <<>>, ended |-> FALSE]

Init ==
  /\ main = "down" /\ lives = 0
  /\ dir \in {"none", "plain"}
  /\ user \in {"none", "before"} /\ (user = "before" => dir = "plain")
  /\ saved = NoFile /\ guid = 0 /\ marks = {}
  /\ weak = FALSE
  /\ file = [f \in Files |-> "virtual"]
  /\ chunk = [f \in Files |-> 0]
  /\ scan = NoScan
  /\ unread = 0

(* ProjFS calls back from the moment it was started.                         *)
Virtualizes == main \in {"started", "running", "stopping"}
(* MountContext.context is stored after PrjStartVirtualizing returned, and   *)
(* ProjFS refuses it once stopped.                                           *)
HasContext == main \in {"running", "stopping"}
OnDisk(f) == file[f] # "virtual"
IsEmpty == user = "none" /\ \A f \in Files : ~OnDisk(f)

-----------------------------------------------------------------------------
(* The end of the process, by a `?`, by a kill or by itself: its reads are   *)
(* not answered any more, what is in the directory stays there.              *)
Gone ==
  /\ main' = "down" /\ guid' = 0 /\ weak' = FALSE
  /\ file' = [f \in Files |-> IF file[f] \in {"virtual", "full"}
                              THEN file[f] ELSE "placeholder"]
  /\ chunk' = [f \in Files |-> IF file[f] = "full" THEN chunk[f] ELSE 0]
  /\ scan' = NoScan
  /\ user' = IF user = "none" THEN "none" ELSE "before"

Ends ==
  /\ main # "down" /\ Gone
  /\ UNCHANGED <<dir, saved, marks, unread, lives>>

-----------------------------------------------------------------------------
(* The mount: init_mountpoint, get_or_create_mount_guid, MountContext::mount *)
Launch ==
  /\ main = "down" /\ lives < MaxLives
  /\ main' = "remove" /\ lives' = lives + 1
  /\ UNCHANGED <<disk, guid, weak, reads, scan>>

Step(from, to) == main = from /\ main' = to

(* A bug: whatever is in the directory is removed with it.                   *)
InitRemoveDir_Whole ==
  /\ Step("remove", "create")
  /\ dir # "none"
  /\ dir' = "none" /\ user' = "none"
  /\ file' = [f \in Files |-> "virtual"]
  /\ UNCHANGED <<saved, marks, unread, lives, guid, weak, chunk, scan>>

InitRemoveDir ==
  /\ Step("remove", "create")
  /\ dir # "none" /\ IsEmpty
  /\ dir' = "none"
  /\ UNCHANGED <<user, saved, marks, unread, lives, guid, weak, reads, scan>>

InitCreateDir ==
  /\ Step("create", "read")
  /\ dir = "none"
  /\ dir' = "plain"
  /\ UNCHANGED <<user, saved, marks, unread, lives, guid, weak, reads, scan>>

(* A bug: the file is never read.                                            *)
ReadGuid_Never ==
  /\ Step("read", "new")
  /\ saved' = NoFile
  /\ UNCHANGED <<dir, user, marks, unread, lives, guid, weak, reads, scan>>

(* The file of the GUID holds its 16 bytes.                                  *)
ReadGuid ==
  /\ Step("read", "mark")
  /\ saved > Partial /\ guid' = saved
  /\ UNCHANGED <<dir, user, saved, marks, unread, lives, weak, reads, scan>>

(* There is none, it holds something else, or it cannot be read, however     *)
(* whole it is.  It is removed; where that fails too it stays.               *)
ReadGuidFails ==
  /\ Step("read", "new")
  /\ saved' \in {NoFile, saved}
  /\ unread' = IF saved > Partial THEN unread + 1 ELSE unread
  /\ UNCHANGED <<dir, user, marks, lives, guid, weak, reads, scan>>

(* GUID::new, which no other life has had, and the open that creates a file  *)
(* and does not truncate one.                                                *)
CreateGuid ==
  /\ Step("new", "write")
  /\ guid' = lives
  /\ saved' = IF saved = NoFile THEN Partial ELSE saved
  /\ UNCHANGED <<dir, user, marks, unread, lives, weak, reads, scan>>

WriteGuid ==
  /\ Step("write", "mark")
  /\ saved' = guid
  /\ UNCHANGED <<dir, user, marks, unread, lives, guid, weak, reads, scan>>

MarkDirectory ==
  /\ Step("mark", "start")
  /\ dir' = "placeholder" /\ marks' = marks \cup {guid}
  /\ UNCHANGED <<user, saved, unread, lives, guid, weak, reads, scan>>

(* The Weak whose pointer ProjFS gets is made before the call.               *)
StartVirtualizing ==
  /\ Step("start", "started")
  /\ weak' = TRUE
  /\ UNCHANGED <<disk, lives, guid, reads, scan>>

StoreContext ==
  /\ Step("started", "running")
  /\ UNCHANGED <<disk, lives, guid, weak, reads, scan>>

-----------------------------------------------------------------------------
(* A bug: the Weak is dropped before ProjFS is stopped.                      *)
Interrupt_WeakFirst ==
  /\ Step("running", "stopping")
  /\ weak' = FALSE
  /\ UNCHANGED <<disk, lives, guid, reads, scan>>

(* OnInterrupt::interrupt.  PrjStopVirtualizing returns once no callback     *)
(* runs; only then is the Weak dropped.                                      *)
Interrupt ==
  /\ Step("running", "stopping")
  /\ UNCHANGED <<disk, lives, guid, weak, reads, scan>>

StopVirtualizing ==
  /\ Step("stopping", "drop")
  /\ \A f \in Files : file[f] # "called"
  /\ scan' = NoScan
  /\ UNCHANGED <<disk, lives, guid, weak, reads>>

DropWeak ==
  /\ Step("drop", "unmount")
  /\ weak' = FALSE
  /\ UNCHANGED <<disk, lives, guid, reads, scan>>

(* One round of remove_dir_all, which stops at what is in use.               *)
RemoveDirAll ==
  /\ main = "unmount"
  /\ \E kept \in SUBSET {f \in Files : OnDisk(f)} :
     \E keptUser \in {user, "none"} :
       /\ file' = [f \in Files |-> IF f \in kept THEN file[f] ELSE "virtual"]
       /\ user' = keptUser
       /\ IF kept = {} /\ keptUser = "none"
          THEN main' = "recreate" /\ dir' = "none"
          ELSE UNCHANGED <<main, dir>>
  /\ UNCHANGED <<saved, marks, unread, lives, guid, weak, chunk, scan>>

Recreate ==
  /\ main = "recreate" /\ dir = "none"
  /\ dir' = "plain"
  /\ Gone
  /\ UNCHANGED <<saved, marks, unread, lives>>

(* What others do to the mount point.                                        *)
UserFile ==
  /\ dir # "none" /\ user = "none"
  /\ user' = IF main \in {"down", "remove"} THEN "before" ELSE "since"
  /\ UNCHANGED <<dir, saved, marks, unread, process, reads, scan>>

UserDir ==
  /\ dir = "none" /\ dir' = "plain"
  /\ UNCHANGED <<user, saved, marks, unread, process, reads, scan>>

-----------------------------------------------------------------------------
(* The callbacks of a file.  ProjFS writes the placeholder that              *)
(* get_placeholder_info found; on its first read it asks for the data.       *)
IsIn(f, from, to) == file[f] = from /\ file' = [file EXCEPT ![f] = to]

GetPlaceholderInfo(f) ==
  /\ Virtualizes /\ main # "stopping" /\ weak
  /\ IsIn(f, "virtual", "placeholder")
  /\ UNCHANGED <<disk, process, chunk, scan>>

GetFileData(f) ==
  /\ Virtualizes /\ main # "stopping"
  /\ IsIn(f, "placeholder", "called")
  /\ chunk' = [chunk EXCEPT ![f] = 0]
  /\ UNCHANGED <<disk, process, scan>>

(* call and call_async: ERROR_FILE_NOT_FOUND is answered at once; otherwise  *)
(* the answer is E_PENDING, even where the dispatcher has refused the read.  *)
Call(f) ==
  /\ weak
  /\ \E to \in {"placeholder", "queued", "lost"} : IsIn(f, "called", to)
  /\ UNCHANGED <<disk, process, chunk, scan>>

(* A bug: the error of PrjWriteFileData is dropped.                          *)
WriteFileData_NoError(f) ==
  /\ file[f] = "queued" /\ chunk[f] < Stored[f]
  /\ IF HasContext
     THEN chunk' = [chunk EXCEPT ![f] = @ + 1] /\ UNCHANGED file
     ELSE IsIn(f, "queued", "ok") /\ UNCHANGED chunk
  /\ UNCHANGED <<disk, process, scan>>

(* DvdbndMount::read_file on a worker: the dispatch of a chunk, which fails  *)
(* without the context; a failed or panicking read is E_FAIL.                *)
WriteFileData(f) ==
  /\ file[f] = "queued" /\ chunk[f] < Stored[f]
  /\ IF HasContext
     THEN chunk' = [chunk EXCEPT ![f] = @ + 1] /\ UNCHANGED file
     ELSE IsIn(f, "queued", "failed") /\ UNCHANGED chunk
  /\ UNCHANGED <<disk, process, scan>>

(* Chunks behind the end of the archive are dropped without an error, and    *)
(* the read then ends as well as any: S_OK for a file with a hole.           *)
ReadEnds(f) ==
  /\ \/ chunk[f] = Stored[f] /\ IsIn(f, "queued", "ok")
     \/ IsIn(f, "queued", "failed")
  /\ UNCHANGED <<disk, process, chunk, scan>>

(* A bug: only a read that went well is completed.                           *)
CompleteCommand_OnlyOk(f) ==
  /\ \/ HasContext /\ IsIn(f, "ok", "full")
     \/ HasContext /\ IsIn(f, "failed", "lost")
     \/ ~HasContext /\ \E from \in {"ok", "failed"} : IsIn(f, from, "lost")
  /\ UNCHANGED <<disk, process, chunk, scan>>

(* PrjCompleteCommand, whose error is only logged.                           *)
CompleteCommand(f) ==
  /\ \/ HasContext /\ IsIn(f, "ok", "full")
     \/ HasContext /\ IsIn(f, "failed", "placeholder")
     \/ ~HasContext /\ \E from \in {"ok", "failed"} : IsIn(f, from, "lost")
  /\ UNCHANGED <<disk, process, chunk, scan>>

-----------------------------------------------------------------------------
(* The callbacks of an enumeration, which ProjFS makes one after another,    *)
(* with the same expression until it restarts the scan.  The names are       *)
(* sorted once, by from_dir_iter, in the order of PrjFileNameCompare.        *)
Sorted(names) ==
  CHOOSE s \in [1..Cardinality(names) -> names] :
    \A i, j \in DOMAIN s : i < j => s[i] < s[j]

index == Sorted(Range(Listing))

Matching(names, pos) == {i \in pos + 1..Len(index) : index[i] \in names}

Scanning(names, pos, out, ended) ==
  [open |-> TRUE, pos |-> pos, names |-> names, out |-> out, ended |-> ended]

StartDirectoryEnumeration ==
  /\ main \in {"started", "running"} /\ weak /\ ~scan.open
  /\ \E names \in Expressions :
       scan' = Scanning(names, 0, <<>>, FALSE)
  /\ UNCHANGED <<disk, process, reads>>

EndDirectoryEnumeration ==
  /\ main \in {"started", "running"} /\ weak /\ scan.open
  /\ scan' = NoScan
  /\ UNCHANGED <<disk, process, reads>>

(* A bug: the last entry of a reply is given again.                          *)
EndPos_Last(pos, filled) == IF filled = {} THEN pos ELSE Max(filled) - 1

(* The entries one call fills: those that match from pos on, until none is   *)
(* left or the buffer is full.  end_pos is behind the last one.              *)
EndPos(pos, filled) == IF filled = {} THEN pos ELSE Max(filled)

(* A reply that holds no entry although one is left is an error, as is one   *)
(* whose entry ProjFS refuses: ProjFS drops such a reply and pos stays.      *)
Fill(sc) ==
  \E room \in Replies :
    LET left == Matching(sc.names, sc.pos)
        filled == {i \in left : Cardinality({j \in left : j <= i}) <= room}
        order == Sorted(filled)
    IN  /\ filled # {} \/ left = {}
        /\ scan' = Scanning(sc.names, EndPos(sc.pos, filled),
                            sc.out \o [i \in DOMAIN order |-> index[order[i]]],
                            filled = {})

GetDirectoryEnumeration ==
  /\ main \in {"started", "running"} /\ weak /\ scan.open
  /\ \/ ~scan.ended /\ Fill(scan)
     \/ \E names \in Expressions :  \* PRJ_CB_DATA_FLAG_ENUM_RESTART_SCAN
          LET restarted == Scanning(names, 0, <<>>, FALSE)
          IN  Fill(restarted) \/ scan' = restarted
  /\ UNCHANGED <<disk, process, reads>>

-----------------------------------------------------------------------------
Reads(f) == GetPlaceholderInfo(f) \/ GetFileData(f) \/ Call(f)
Worker(f) == WriteFileData(f) \/ ReadEnds(f) \/ CompleteCommand(f)

Next ==
  \/ Launch \/ InitRemoveDir \/ InitCreateDir
  \/ ReadGuid \/ ReadGuidFails \/ CreateGuid \/ WriteGuid
  \/ MarkDirectory \/ StartVirtualizing \/ StoreContext
  \/ Interrupt \/ StopVirtualizing \/ DropWeak \/ RemoveDirAll \/ Recreate
  \/ Ends \/ UserFile \/ UserDir
  \/ \E f \in Files : Reads(f) \/ Worker(f)
  \/ StartDirectoryEnumeration \/ GetDirectoryEnumeration
  \/ EndDirectoryEnumeration

Spec == Init /\ [][Next]_vars

(* The workers of the dispatcher run what they were given.                   *)
FairSpec == Spec /\ \A f \in Files : WF_vars(Worker(f))

-----------------------------------------------------------------------------
(* Whatever files a process finds at the mount point are still there when it *)
(* is done: a mount refuses a directory that is not empty, and an unmount    *)
(* removes what came later (projfs.rs:534, 625).                             *)
FilesFoundAreKept ==
  [][user = "before" => user' = "before"]_vars

(* The mount point keeps its GUID through unmounts and through processes     *)
(* that end at any step, so that ProjFS takes what is left of one mount for  *)
(* a part of the next.  Only a whole file of the GUID that a process could   *)
(* not read costs it, and each costs one (projfs.rs:638-668).                *)
OneGuid == Cardinality(marks) <= 1 + unread

(* The pointer that a callback upgrades was not freed (projfs.rs:315, 529).  *)
CallbacksFindContext ==
  \A f \in Files : file[f] = "called" => weak

(* A file that ProjFS takes for full was given every chunk that the archive  *)
(* has of it: a failed read, allocation or write never leaves one out.  Of a *)
(* truncated archive that is not the whole file (projfs.rs:283-295, 376,     *)
(* aligned.rs:197-198).                                                      *)
FullFilesHaveAllThereIs ==
  \A f \in Files : file[f] \in {"ok", "full"} => chunk[f] = Stored[f]

(* A scan gives the names that match in their order, each once, and all of   *)
(* them when it ends, whatever fits one reply (projfs.rs:212-232, 457-461).  *)
ScanIsComplete ==
  scan.open =>
    LET wanted == Sorted(scan.names)
    IN  /\ IsPrefix(scan.out, wanted)
        /\ scan.ended => scan.out = wanted

(* A read that was handed to a worker is answered, unless the mount ends     *)
(* (projfs.rs:357-381).                                                      *)
EveryReadAnswered ==
  \A f \in Files :
    (main = "running" /\ file[f] = "queued") ~>
      (file[f] \in {"virtual", "placeholder", "full"} \/ main # "running")
=============================================================================
