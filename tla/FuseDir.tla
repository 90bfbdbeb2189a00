------------------------------ MODULE FuseDir ------------------------------
(* One program that walks a Linux mount: the lookups, opens, listings and    *)
(* releases it makes the kernel send, and the handlers that answer them      *)
(* (mount/fuser.rs:115-177, 239-345) from the flattened filesystem (Rofs).   *)
(* The handlers keep nothing: a handle is an inode, the position of a        *)
(* listing comes back from the kernel, so all that relates two requests is   *)
(* what the replies say.                                                     *)
EXTENDS Rofs

CONSTANTS
  Filesystems,  \* the node arrays considered
  Names,        \* the names looked up, in any spelling
  Page          \* bound on the entries that fit one reply to readdir

(* The kernel resolves "." and ".." itself, and never asks for them.         *)
ASSUME FuseDirAssumption ==
  /\ Page \in Nat \ {0}
  /\ Rank \in [DOMAIN Rank -> Nat]
  /\ \A n \in Filesystems : IsFilesystem(n)
  /\ \A c \in Names : /\ {c, Lower[c]} \cap {"", ".", ".."} = {}
                      /\ Lower[Lower[c]] = Lower[c]

VARIABLES
  rofs,    \* the filesystem mounted
  path,    \* the components the program went down
  at,      \* the inode the kernel has for them
  fh,      \* the open file: its inode and handle, or NoHandle
  dh,      \* the open directory
  offset,  \* the position of its listing
  listed,  \* what the listing showed up to there
  ended,   \* the last reply showed nothing: the listing is over
  reply    \* the last answer

vars == <<rofs, path, at, fh, dh, offset, listed, ended, reply>>

NoHandle == [ino |-> 0, fh |-> 0]
Kind(ino) == rofs[EntryIndex(rofs, ino)].kind

Init ==
  /\ rofs \in Filesystems
  /\ path = <<>> /\ at = INODE_ROOT
  /\ fh = NoHandle /\ dh = NoHandle
  /\ offset = 0 /\ listed = <<>> /\ ended = FALSE
  /\ reply = "ok"

listing == <<dh, offset, listed, ended>>

(* The kernel looks names up in directories only.  The reply has the inode   *)
(* that was found and the kind of its entry.                                 *)
LookupName(name) ==
  /\ Kind(at) = "dir"
  /\ LET ino == LookupInDir(rofs, at, <<name>>) IN
     IF ino = NotFound \/ EntryIndex(rofs, ino) = NotFound
     THEN reply' = "ENOENT" /\ UNCHANGED <<path, at>>
     ELSE /\ reply' = Kind(ino)
          /\ at' = ino
          /\ path' = Append(path, name)
  /\ UNCHANGED <<rofs, fh, listing>>

(* Back to the root, which the kernel never looks up.                        *)
FromRoot ==
  /\ path # <<>>
  /\ path' = <<>> /\ at' = INODE_ROOT
  /\ UNCHANGED <<rofs, fh, listing, reply>>

(* open hands a handle out for anything; the kernel sends it for files.      *)
Open(flags) ==
  /\ fh = NoHandle /\ Kind(at) = "file"
  /\ IF flags = "O_RDONLY"
     THEN reply' = "ok" /\ fh' = [ino |-> at, fh |-> at]
     ELSE reply' = "EROFS" /\ UNCHANGED fh
  /\ UNCHANGED <<rofs, path, at, listing>>

OpenDir(flags) ==
  /\ dh = NoHandle
  /\ IF flags = "O_RDONLY" /\ Kind(at) = "dir"
     THEN /\ reply' = "ok" /\ dh' = [ino |-> at, fh |-> at]
          /\ offset' = 0 /\ listed' = <<>> /\ ended' = FALSE
     ELSE /\ reply' = IF flags = "O_RDONLY" THEN "ENOTDIR" ELSE "EROFS"
          /\ UNCHANGED listing
  /\ UNCHANGED <<rofs, path, at, fh>>

(* Variant: a handle is released as a directory's.                           *)
IsHandleOf_Dir(h, kind) == h.ino = h.fh /\ Kind(h.ino) = "dir"

(* A handle is good when it is the inode's and the inode is of its kind.     *)
IsHandleOf(h, kind) == h.ino = h.fh /\ Kind(h.ino) = kind

Release ==
  /\ fh # NoHandle
  /\ reply' = IF IsHandleOf(fh, "file") THEN "ok" ELSE "ESTALE"
  /\ fh' = NoHandle
  /\ UNCHANGED <<rofs, path, at, listing>>

ReleaseDir ==
  /\ dh # NoHandle
  /\ reply' = IF IsHandleOf(dh, "dir") THEN "ok" ELSE "ESTALE"
  /\ dh' = NoHandle
  /\ offset' = 0 /\ listed' = <<>> /\ ended' = FALSE
  /\ UNCHANGED <<rofs, path, at, fh>>

-----------------------------------------------------------------------------
dir == rofs[EntryIndex(rofs, dh.ino)]

(* Variant: an entry carries its own position, not the one after it.         *)
Entry_Same(k) ==
  LET i == dir.child_index + k IN
  [name |-> rofs[i].name, kind |-> rofs[i].kind, inode |-> NodeInode(i), next |-> k]

(* The entry of child k of the open directory, and the position after it.    *)
Entry(k) ==
  LET i == dir.child_index + k IN
  [name |-> rofs[i].name, kind |-> rofs[i].kind, inode |-> NodeInode(i), next |-> k + 1]

(* readdir: the children after the first offset ones, as many as fit.  The   *)
(* program goes on at the position of the last one shown.  readdirplus pages *)
(* in the same way; the answers to lookups that its entries carry besides    *)
(* are left out, for init does not ask the kernel for readdirplus            *)
(* (mount/fuser.rs:105-111).                                                 *)
ReadDir(room) ==
  /\ dh # NoHandle /\ ~ended
  /\ LET n == IF dir.child_count <= offset THEN 0
              ELSE IF dir.child_count - offset <= room THEN dir.child_count - offset
              ELSE room
         page == [j \in 1..n |-> Entry(offset + j - 1)]
     IN /\ listed' = listed \o page
        /\ offset' = IF n = 0 THEN offset ELSE page[n].next
        /\ ended' = (n = 0)
  /\ reply' = "ok"
  /\ UNCHANGED <<rofs, path, at, fh, dh>>

(* telldir and seekdir: back to the position of an entry shown before, or to *)
(* the beginning.                                                            *)
Seek(k) ==
  /\ dh # NoHandle /\ k < Len(listed)
  /\ listed' = SubSeq(listed, 1, k)
  /\ offset' = IF k = 0 THEN 0 ELSE listed[k].next
  /\ ended' = FALSE
  /\ UNCHANGED <<rofs, path, at, fh, dh, reply>>

Next ==
  \/ \E name \in Names : LookupName(name)
  \/ FromRoot
  \/ \E flags \in {"O_RDONLY", "O_RDWR"} : Open(flags) \/ OpenDir(flags)
  \/ Release \/ ReleaseDir
  \/ \E room \in 1..Page : ReadDir(room)
  \/ \E k \in 0..Len(listed) : Seek(k)

Spec == Init /\ [][Next]_vars

-----------------------------------------------------------------------------
(* A listing shows the children of its directory one after another, however  *)
(* the replies cut it and wherever it was resumed, and it is over only when  *)
(* all were shown (fuser.rs:309-315, 334-342).                               *)
ListingIsTheDirectory ==
  dh # NoHandle =>
    /\ Len(listed) <= dir.child_count
    /\ \A k \in 1..Len(listed) : listed[k].name = rofs[dir.child_index + k - 1].name
    /\ ended => Len(listed) = dir.child_count

(* What a listing shows can be looked up, with the kind it was shown with:   *)
(* the order of the listing is that of the search (filesystem.rs:93-108,     *)
(* 142-177).                                                                 *)
ListedIsFound ==
  dh # NoHandle =>
    \A k \in 1..Len(listed) :
      LET ino == LookupInDir(rofs, dh.ino, <<listed[k].name>>)
      IN ino # NotFound /\ Kind(ino) = listed[k].kind

(* Walking down name by name leads where the whole path leads, in whatever   *)
(* case the names are spelled on the way (fuser.rs:115-136,                  *)
(* filesystem.rs:132-139, 232-240).                                          *)
WalkIsLookup == at = Lookup(rofs, path)

(* No handle the mount gave out is refused when it comes back                *)
(* (fuser.rs:149-177, 239-279).                                              *)
NoHandleIsStale == reply # "ESTALE"
=============================================================================
