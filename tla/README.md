# fsvfs in TLA+

fsvfs mounts the packed archives of FromSoftware games as a read-only
filesystem. This directory holds TLA+ modules that describe how it does so,
TLC configurations that check them on small instances, and theorems about them
that TLAPS checks for every value of the constants. All of it is translated
from the source; where the text below cites `file.rs:line` without a directory,
the file is under `src/src/`.

    tlc -config ReadFile.cfg MCReadFile.tla      # one of the runs
    tlapm FuseReadProofs.tla                     # one of the proof modules

## 1. Inventory

### The parts and how they interact

An archive is a pair of files: a header (`.bhd`) that lists files by the hash
of their names, and a data file (`.bdt`). To mount some archives the program

1. takes their paths and finds the RSA key of each header (`path.rs`,
   `keys.rs`), which also tells which game they are of;
2. reads every header, and asks a cache on disk for the tree it was turned into
   at an earlier time; the headers that are not cached are decrypted
   (`crypto/rsa.rs`), parsed (`bhd5/`), given names from a dictionary of path
   hashes (`dict.rs`, `hash/`), and their encrypted ranges are packed into a
   byte store (`encryption.rs`);
3. merges the trees of all archives and flattens the result into arrays
   (`filesystem/object.rs`, `filesystem.rs`), which is all that lookups use;
4. mounts: with FUSE on Linux (`mount/fuser.rs`), with ProjFS on Windows
   (`mount/projfs.rs`), and waits to be interrupted (`thread.rs`).

The operating system's callbacks run on a thread of its own. Lookups and
listings are answered there. A read is handed to a dispatcher of worker
threads, each of which runs its tasks one `await` at a time, keeps its own map
of open archives and its own pool of aligned buffers (`aligned.rs`). A GUI
(`src/gui`) starts one process per mount and holds its pipe.

| component | state | operations | shares with |
|---|---|---|---|
| reads and decryption (`mount.rs`, `aligned.rs`, `encryption.rs`) | the stream's position, the ring of three chunks, the result so far | read a chunk, drop it, push, decrypt, deliver | buffers of the worker, the encryption store |
| header format and names (`bhd5/`, `dict.rs`, `hash/`) | references into the header, lines by hash | guess the format, validate, name an entry | entries to the range store, files to the tree |
| encrypted range store (`encryption.rs`) | a byte vector per archive | store one entry, look an id up | ids in the tree's files |
| read-only filesystem (`filesystem.rs`, `object.rs`) | trees, later arrays of nodes, names, files | new, merge, into_rofs, lookup, entry | every callback reads it |
| FUSE mount (`fuser.rs`) | the reply of each request and its owners; the kernel's inodes and handles | lookup, open, opendir, readdir, read, release(dir) | dispatcher |
| ProjFS mount (`projfs.rs`) | the mount point, the GUID beside it, the context and its Weak, open enumerations | mount, five callbacks, interrupt | dispatcher, the disk between two lives |
| buffer allocator (`aligned.rs`, `split.rs`) | one machine word per worker, owners of split buffers | alloc, free | all tasks of a worker |
| cache (`cache.rs`) | a database on disk | get, put, clear | every process of the user |
| keys (`keys.rs`, `path.rs`, `rsa.rs`) | archives left, keys decoded, the game | match a header and a key, decrypt in place | - |
| mount session (`thread.rs`, `fuser.rs`) | a flag, a mutex, a condition variable; three threads | mount, wait, signal, end of the pipe, unmount | the mount point, the GUI |
| GUI mount (`gui/src/app.rs`) | the button, a future per mount, the pipe | press, check, spawn, close | processes, mount points |

### What is hard, and what makes each part correct

* **Reads.** Chunks, cipher blocks and encrypted ranges have different
  boundaries; a block may lie in three chunks, and a chunk must still be
  ciphertext when its neighbour is decrypted. Chunks are clipped to the file,
  to the archive or dropped. *Correct*: what is delivered is in order, is the
  plaintext, leaves clear bytes alone, and an intact file is read without an
  error.
* **Concurrent reads.** Handler and task share the reply; tasks share buffers
  and the map of files, and may fail at any point. *Correct*: one answer each,
  also to a read that panics, no buffer lost or owned twice, refusals only under
  overload, every read ends.
* **Building the tree.** The merges of a parallel reduce are grouped in any
  way, hash maps are walked in any order. *Correct*: the result is the union of
  the archives, without what lies below a file of another archive, each file
  keeps its own data, and lookups find exactly that.
* **Listings.** Replies are cut by size, and seeks go anywhere. *Correct*: each
  name once, none left out, what is shown can be looked up, no handle is refused.
* **The cache** is shared by processes that may be killed, while headers are
  patched and the cache is cleared. *Correct*: what is mounted describes the
  header that was read.
* **Headers** do not say which format they have: lengths, zeros and what looks
  valid decide. Names are found by a hash computed four bytes at a time.
  *Correct*: an archive is parsed as what it was written as, or as a format that
  reads the same entries from it, each entry becomes one file with its own place
  and path, and only bad ranges refuse an archive.
* **The range store** computes with 64-bit ranges in 32-bit sizes and reuses
  one byte vector. *Correct*: an id finds its own entry's ranges.
* **Sessions** end by a signal or by the end of the pipe, at any time.
  *Correct*: no interrupt is lost, none is invented, and a closed GUI leaves
  nothing mounted, unless an unmount fails.
* **ProjFS mounts** outlive their process: placeholders and a GUID stay on
  disk. *Correct*: one GUID for good, as long as its file can be read; a file
  held as full has all that the archive has of it; the user's own files are kept.
* **Keys** are guessed. *Correct*: an archive is left out only if no key fits,
  archives of two games are not mixed, an undecodable key of another game does
  no harm.

`PROJECT.json` lists each hazard at the line where it bites, with the
properties that watch it, or with the reason why none does.

## 2. Modules

| module | models | composes with |
|---|---|---|
| `ReadFile` | one read from the request to its last byte | - |
| `Uints` | the widths of the archives' integers | extended by the next four |
| `Bhd5` | the parsing of a header: byte order, guess of the format, validation | - |
| `Bhd5Writer` | external: how the games' tools write a header | extends `Bhd5` |
| `PathHash` | the hash of a path, in chunks and byte by byte, for either type of hash | - |
| `StoreEncryption` | `store_encryption`, `EncryptionId`, and the way back | states what `ReadFile` takes as `IsRange` |
| `ProcessBhd` | from the written header to the files with their places, ids and paths | extends `Bhd5Writer`, `StoreEncryption` and `PathHash` |
| `RofsObject` | `RofsObject::new`, `merge`, `into_rofs` | - |
| `Rofs` | path normalisation, Eytzinger search, lookup, entry | extends `RofsObject` |
| `RofsBuild` | the parallel reduce and the flattening | extends `Rofs` |
| `FuseDir` | lookups, handles and listings | extends `Rofs` |
| `Allocator` | `alloc` and `free` on the bit word | used by `FuseRead` |
| `BufferPool` | abstract: what a set of pools promises its tasks | implemented by `FuseRead` |
| `FuseRead` | the read handler, the dispatcher and the workers' tasks | extends `Allocator`, instance of `BufferPool` |
| `MountCache` | processes that mount through one cache | - |
| `MountSession` | the GUI, the processes and their threads | - |
| `ProjFs` | the Windows mount over several lives | - |
| `Keys` | from archive paths to decrypted headers | - |
| `RofsProofs` | theorems about `Rofs`, `RofsBuild` and `FuseDir` | extends `FuseDir` and `RofsBuild` |
| the other `*Proofs` | theorems about `ReadFile`, `FuseRead`, `MountCache`, `MountSession`, `ProjFs`, `Keys`, `ProcessBhd` | extend their module |
| `MC*` | the instance TLC checks | extend their module |

A state variable has the name of the code's variable where there is one.
An action is a handler, or the part of one between two points where something
else can run: an `await`, a lock, a system call. An action whose name ends in
`Fails` or `Refused` is an error path. `PROJECT.json` maps each definition to
its lines.

Definitions called `X_Something` are variants of `X` with a plausible bug, which
a comment names (`ReadGuid_Never`, `Interrupt_WeakFirst`). No specification
uses them. Put in the place of `X`, each makes one property fail: they show
that the properties can tell the code from code that is wrong.

### Abstractions worth knowing

* **ReadFile**: a byte is what it is (`disk`, `plain`, `junk`, `zero`) and where
  it is from; `DecryptBlock` yields plaintext exactly for a whole stored block.
  AES and the file reads of compio are external. Two assumptions are made of the
  headers: a range that starts at 0 and is longer than its file, which
  `store_encryption` lets through (`encryption.rs:241`), is left out (`IsRange`),
  and the ranges of a file do not overlap, which nothing checks (`IsFile`).
* **FuseRead**: a read is a number of chunks; its buffers are the three slots of
  the ring and one in flight. Data is left to `ReadFile`. `Split` halves are one
  owner, since the buffer goes back with the last of them. Any chunk may be
  missing from a truncated archive (`ReadDropped`), though in the code all those
  behind it then are. A read that panics is caught by its worker, and the reply it
  drops answers for itself (`Panics`): both are compio's and fuser's, external.
* **FuseDir**: `readdirplus` is `readdir`. The answers to lookups that its entries
  carry, with the wrong inode of `filesystem.rs:87`, are left out: `init` does not
  ask the kernel for it (`fuser.rs:105-111`).
* **RofsBuild**: `eytzingerize` is external, by the order it leaves
  (`InEytzingerOrder`); names are ranked model values, with a spelling that differs in
  case; components over 255 bytes are left out. Indices are unbounded, except
  in `NodeInode`, where the wrong sign matters: it wraps at `Width64`, 2^16 in
  place of 2^64.
* **MountCache**: a header is one of a few contents, and its hash is the content
  itself, so hash collisions are left out; a database transaction is atomic.
  Clearing is the removal of `data.mdb`; that `lock.mdb` goes in a call of its own
  (`gui/src/app.rs:212-223`), and what LMDB does between the two, are left out.
* **ProjFs**: ProjFS itself is external. It calls back as its documentation
  allows and as the code counts on: `PrjStopVirtualizing` waits for callbacks,
  and the callbacks of one enumeration come one at a time. Of a truncated archive
  a file has its first chunks (`Stored`); the others are passed over.
* **Keys**: a header is its length in blocks, the keys that fit it and its
  damaged blocks. RSA is external; the bytes of the in-place decryption are
  kept one by one.
  Opening a file does not fail, reading one does. Of a plaintext byte only its
  block and its place are kept, so a header is recognised by being the first
  bytes of the right plaintext, not by its magic.
* **Bhd5**: a header is a sequence of 32-bit words, offsets are words where the
  code's are bytes, and a header of the other byte order is refused for its mark.
  The salt is counted in words as well. Keys are four words nobody looks at.
* **ProcessBhd**: a `u32` has `M32` = 128 values, so that sizes, offsets and
  counts may be negative, a `u64` the square of it, a `u24` has 3. A path is its
  bytes; the names made of hashes are pairs of the archive and the hash.
* **MountSession**: a filesystem whose process was killed stays in the mount
  table (no `AutoUnmount` is asked for, `fuser.rs:41-46`), and every path
  through it fails, also `create_dir_all`. So does one whose unmount failed, unless
  it is gone by then (`UnmountFails`).

## 3. Runs

| run | asks |
|---|---|
| `ReadFile` | is every aligned read plaintext and in order, with nothing that is there dropped, and does it end? |
| `FuseRead` | one answer per read, buffers shared out, an honest pool, no refusal without overload, every read answered? |
| `FuseDir` | are listings complete, is what is listed found, is a walk a lookup, is no handle stale? |
| `RofsBuild` | does each grouping of the merges, flattened in each order, give the union of the archives? |
| `MountCache` | does every mount and every entry describe its header? |
| `ProcessBhd` | is an archive of any format recognised, does each entry get its place, its path and its own sorted ranges? |
| `MountSession` | is a filesystem unmounted when, and only when, its process is interrupted? |
| `ProjFs` | do the callbacks, the GUID and the disk survive crashes? |
| `Keys` | does each archive get the right key or a good reason? |
| `ReadFileUnaligned`, `RofsBuildInode`, `DarkSoulsEmptyBucket` | three statements of the repository that the code violates, see 3.3 |

### 3.1 Bounds, and why they are enough

* **ReadFile**: blocks of 3 bytes, windows of 3, buffers of 9. These are the
  smallest sizes at which a block can begin in one chunk, end in another and
  have a byte in the middle, and a body can take one to three chunks, that is
  once around the ring. Files lie at the start of the archive, nearer to it
  than a window, and padded or not; requests start and end around each
  boundary; archives are cut at and around each chunk boundary.
* **FuseRead**: two requests on one or two workers, four buffers of which one
  task can own all, four chunks so that the ring wraps and an old slot is
  overwritten, any of them missing. Two tasks on one worker overload it; one alone
  must not.
* **FuseDir**: an empty filesystem and one with two levels, an empty directory
  and four siblings, so that a listing takes more than one page of three.
* **RofsBuild**: three archives make every grouping differ; the nine lists hold
  duplicates, other spellings, and files where others have directories.
* **MountCache**: two processes, two archives, two contents; one patch and one
  clearing, which may happen at any point. More of either only repeat a state
  that two processes already tell apart.
* **ProcessBhd**: archives of all five formats, in both byte orders, with and
  without cryptography, salt and padding, with one or two entries in one bucket,
  in two, or behind an empty one; the values of hash, offset and size are those
  that make a field of one format look valid as another field of another. For
  the range store: ranges from every combination of starts and ends around 0,
  the file's end and 2^w, up to three of them so that sorting matters, and an
  entry with or without ranges before. For the names: paths of every length
  modulo 4 the hash distinguishes, two of the same hash, one too short for a
  hash, in dictionaries of this and of other games and archives.
* **MountSession**: two setups, two mounts at their own points with signals and
  two from one GUI at one point, directories that are missing, empty or not,
  and signals and failures at every point of a process's life.
* **ProjFs**: three lives, so that one may crash half-way, the next repair and
  the third rely on it; two files, so that one is hydrated while the other is
  not; two chunks, of which the archive has both of one file and the first of the
  other; a GUID file that is whole, partial or cannot be read; four names of which an expression matches two or three, and
  replies that hold none, one or two.
* **Keys**: two games, one with two copies of a key and the other with a longer
  modulus; headers shorter than, as long as and longer than the part that is
  tried, which spans one block or two and a part;
  up to three archives, two of which share a name.

`ProjFs`, `Keys` and `MountSession` turn the deadlock check off, because they
are meant to stop: when all lives are over, when the mount is ready or failed,
when every attempt has ended.

### 3.2 Fairness

* `ReadFile`: weak fairness of `Next`. The executor polls a task until it ends.
* `FuseRead`: weak fairness of each request's steps. Workers run their tasks in
  turn and the handler's thread runs by itself; no request waits for another
  one, for an exhausted pool fails the read rather than delaying it.
* `MountSession`: weak fairness of each thread's next step; strong fairness of
  taking the mutex, since main may wake spuriously and take it again and again,
  and a lock of the standard library does not starve a waiter that way for ever.
  Nothing is assumed of the user: no press, signal, closing or file is fair.
* `ProjFs`: weak fairness of each worker's steps, none of the main thread, of
  ProjFS or of the user.

### 3.3 What the code does not do

Each is a run that TLC refutes, and a finding in `PROJECT.json`:

* `RofsBuildInode`: `node_entry` subtracts `INODE_ROOT` where it must be added
  (`filesystem.rs:87`), so the inode in a directory entry is not the inode of
  that entry.
* `ReadFileUnaligned`: a read that begins inside a cipher block goes on with a
  file offset where a chunk offset is meant (`encryption.rs:417`), and what
  follows the block is not plaintext. Kernel reads are aligned to pages, which
  is why `AlignedReadIsPlaintext` holds for what is usual.
* `DarkSoulsEmptyBucket`: `SALT_OFFSET` (`format.rs:367`) is where the salt's
  length is, four bytes before the salt, so a Dark Souls header whose first
  bucket is empty passes for one with a salt of length 0 and is refused as every
  format that has one. (For the same reason `File::salt` begins with the length;
  nothing uses it.)

Of the formats, `ArchiveIsItsFiles` assumes what `Distinguishable` says: besides
that case, Dark Souls 2 archives with empty files, and Elden Ring archives with no
file beyond the header's length (or, without cryptography, at an offset other than
0) among the first two of any bucket, can be taken for Dark Souls 3 or Dark Souls 2
archives: Dark Souls 2's shorter entries lie over a bucket of Elden Ring so that
the offsets of its first two files are checked, and of none behind them. No archive of a game
is like that as far as the repository tells (its tests on the games' archives,
`format.rs:663-742`, are ignored by default). `StoredRangesAreTheEntrys` speaks of
ranges that end within their file: `IsOob` (`encryption.rs:241`) lets one more
kind through, a range that starts at 0 and is longer than its file.

More that the modules include and no run is about: a cache entry is found
by the header alone, so its names are those of whichever game or dictionary it
was made with, not the one that `--game` or `--dict` names, and of whichever
archive had that header (`mount.rs:91`, `cli.rs:45-62`; `Made` in `MountCache`);
a Dark Souls 2 archive of fewer than two files can pass for a Dark Souls 3 one
with the same entries (`format.rs:314-346`; `Recognised` in `ProcessBhd`); a GUID file
that is whole but cannot be read is replaced by one with a new GUID, with which
the mount point is then marked (`projfs.rs:644-654`; `ReadGuidFails` in `ProjFs`);
a read of a file that a truncated archive does not have in full completes with
`S_OK`, so that ProjFS holds the file as full and serves a hole
(`aligned.rs:197-198`, `projfs.rs:361-377`; `ReadEnds` in `ProjFs`); an unmount
that fails ends the process with its filesystem perhaps still mounted
(`thread.rs:53`; `UnmountFails` in `MountSession`), and keeps another process with
the same mount point waiting; the command line mounts
over a directory that is missing or not empty, although its help says otherwise
(`cli.rs:41`, `mount/fuser.rs:39`; `Mount` in `MountSession`); and a ProjFS read
that the dispatcher refuses is answered as pending and never completed
(`projfs.rs:384`; the outcome `lost` of `Call` in `ProjFs`). The bound of the
range that `free` asserts is eight times as wide as the pool (`aligned.rs:294`);
no buffer from elsewhere ever gets there.

## 4. Theorems

TLC checks the instances above; the theorems hold for every value of the
constants that the modules' named assumptions allow (`FuseReadAssumption` and
its like: finite sets where sets are counted, naturals where numbers are).
Where not said otherwise `IInv` is a proof module's inductive invariant, with one
lemma per conjunct and in it one step per action, and `InvariantHolds` is
`Spec => []IInv`.

* **ReadFileProofs**: for every file, archive, request and every size of blocks,
  windows and buffers that `SizesAssumption` allows: `DeliveredInOrder`,
  `ClearBytesUntouched`, `AlignedReadIsPlaintext`, `NothingPresentIsDropped` and
  `IntactFileIsRead`. None is inductive. `IInv` says that the chunks pushed and
  not delivered follow one another from the first byte that is not delivered
  (`ChunksFollow`, `StreamAt`), that what was left out lies behind the archive's
  end, that the ring holds the newest chunk and the one before it (`RingHolds`),
  that the neighbour behind a chunk of the body is there unless there is none
  (`NeighbourIsNext`), and that a chunk whose turn has not come is as it is on
  disk while its predecessor is plaintext (`ChunkIsRight`, `DeliveredIsRight`).
  `AlignedReadIsPlaintext` is about requests none of whose chunks begins inside a
  block (`BlockAligned`), which never get to the code's wrong offset (3.3), on
  archives that reach behind the request (`ArchiveReaches`).
* **FuseReadProofs**: for any number of requests, workers, archives, and pools
  of any size: `TypeOK`, `AnsweredOnce`, `BuffersSharedOut`, `IsAPool`,
  `RefusedOnlyWhenOverloaded`. `AnsweredOnce` is not inductive: the number of
  owners of the reply has to be tied to where the request is (`ReplyOwners`),
  and `BuffersSharedOut` needs that only tasks that read own buffers
  (`OwnersAreTasks`) and that a task knows its worker (`TasksHaveWorkers`).
  `IsAPool` is the refinement of `BufferPool`: `AllocTakesItsBit` shows that the
  word's arithmetic, trailing zeros and clearing the lowest bit, takes a bit
  that was set, and `HeldChanges`, `LetGo` map the steps, those of a read that
  fails or panics included. The bound in
  `RefusedOnlyWhenOverloaded` counts four slots per task.
* **RofsProofs**, the directories: for every filesystem that `into_rofs` can make:
  `ListingIsTheDirectory`, `NoHandleIsStale`, `ListedIsFound` and `WalkIsLookup`.
  `IInv` says where a listing has to be for the entries it has shown. What a
  filesystem is, `IsFilesystem` says: the children of a directory are in the
  array, in Eytzinger order and under lowercase names. `FuseDirAssumption` asks it
  of every filesystem, and `LookupsMatchTheTree` proves it of everything
  `RofsBuild` builds. `SearchFindsAll` follows the ancestors of a place up to
  the root of the implicit tree: from each of them the search goes towards the
  place, since it lies on the side its name says. `WalkInv` is the strengthening
  for `WalkIsLookup`: the path in lower case leads to where the walk is, and the
  path as spelled there or nowhere.
* **RofsProofs**, the build: for any archives, any grouping of the reduce and any
  order of the hash maps: `FileDataIsItsOwn`, `MergeIsUnion`, `LookupMatchesTree`.
  The strengthening of the first two (`MergeInv`) says that the objects, in their
  order, unite neighbouring archives (`Grouped`). To unite a group (`Unites`) is to
  have a tree whose leaves name files of the group stored under the leaf's path
  (`ComesFrom`), which lacks only what has a file of the group in the place of a
  directory above it (`OnlyHidden`; in the end that is a file of another archive,
  for in its own the place is a directory),
  and in which, if no two archives conflict, the first archive wins (`FirstWins`).
  A new object unites one archive, and what is merged of two objects, the places of
  the second one's files moved behind those of the first, unites both groups; so the
  grouping does not matter. The strengthening of the third (`FlattenInv`,
  `Flattened`) says that each node written is that of its path, that the children
  of its directory are already laid out, in one piece and in Eytzinger order, or
  that the directory is queued and its children will start where the node says. A
  lookup is then a descent in the tree, name by name, on `SearchFindsAll`.
* **MountCacheProofs**: for any number of processes, archives, contents,
  patches and clearings: `TypeOK`, `EntriesDescribeTheirKey`,
  `MountDescribesItsHeaders`. The strengthening is that what a process holds in
  memory describes the bytes it holds (`ObjectsDescribeBytes`), and that it
  goes on only with every header read (`BytesAreRead`).
* **ProcessBhdProofs**: for archives of every format and with any entries, any
  dictionary, words of any width: `IdsFindTheirHeader`, `StoredRangesAreTheEntrys`,
  `ArchiveIsItsFiles` and `FilesAreNamed`, and two theorems about the operators:
  `HeadersAreReadBack` (parsing in the right format undoes writing) and
  `PathHashIsPlain` (four bytes at a time or one by one, the hash is the same).
  The first invariant (`IdsInv`) ties the ids to the entries done and says that
  the store only grows, so that a cell once written stays where its id points. The
  second (`RangesInv`) says that the ranges accepted so far are those of the entry
  at hand that come before the one being checked (`Packs`); `SortedIsByEnds` shows
  that sorting by ends puts every range at one place, since ranks are a one-to-one
  map of the places onto themselves.

  The third (`ArchiveInv`) says that the format is that of the archive or one that
  reads its entries, which only a Dark Souls 2 archive of fewer than two files has
  (`Recognised`). It rests on what a written header is: `Layout` says at
  which word each bucket, entry and range is, and `WriteIsLaidOut` that `Write`
  puts them there. From the layout alone follow that the own format accepts the
  header (`RoundTrip`) and what the formats tried before it make of it: Elden Ring
  archives are refused as Dark Souls 3 and 2 (`EldenRingAsOther`), Dark Souls 2
  archives are refused as Dark Souls 3 or read as the same entries
  (`DarkSouls2AsDarkSouls3`), and the salt of a header tells Dark Souls from the
  rest. `ParseInv` follows the formats left to try, `FilesInv` the files made so
  far and their ids, `HeldInv` why an archive is refused: the store is smaller
  than the encryption in the header, whose size a word holds, so its ids never
  run out. `EntriesAreTyped` shows that whatever any format accepts has sizes that
  are not negative and 64-bit offsets.

  `ProcessBhdAssumption` asks only that archives be well-formed (`IsArchive`: what
  the fields of their formats can hold, a header whose size is a word, at most
  one file at offset 0) and dictionaries be lines of bytes.
* **ProjFsProofs**: for any number of files, chunks and lives: `OneGuid`,
  `CallbacksFindContext`, `FullFilesHaveAllThereIs`, `FilesFoundAreKept`; for any
  directory, expressions and buffers: `ScanIsComplete`. `OneGuid` says that the
  mount point gets a second GUID only by a read error of a whole GUID file, one for
  each. It needs that besides the one on disk there is at most one for each of
  these errors, and none too many once the file is lost (`GuidIsSaved`).
  `FullFilesHaveAllThereIs` is about what the archive has of a file: nothing in the
  code keeps a file with a hole from being held as full when its archive is
  truncated.
  The enumeration's invariant (`ScanIs`) says that what it has given is the names
  that match up to its position, increasing and all of them; a reply adds the
  lowest that are left (`FilledAreFirst`, `ReplyGoesOn`), and an increasing
  sequence of the lowest members of another is its front (`IncreasingPrefix`).
* **MountSessionProofs**: for any number of attempts, mount points and setups:
  `UnmountedOnlyWhenInterrupted`, and two invariants that are parts of `IInv`.
  `NoLostInterrupt` (main never waits with the flag set) is the safety part of
  `InterruptEndsProcess`: what TLC adds is that main runs. `OwnMountIsLive` says
  that a process that ends leaves nothing at a mount point of its own, unless a
  signal killed it or its unmount failed.
  They need that the mutex has the thread between its lock and its unlock
  (`LockIsHeld`), that the other threads live from `set_handler` to the end of
  main (`ThreadsAreStarted`), that main leaves its loop with the flag set
  (`LeftWhenInterrupted`), and that a future spawns once (`SpawnedOnce`).
* **KeysProofs**: for any games, key files, archives and headers:
  `LeftOutFitsNothing`, `OneGame`, `OthersKeysDoNoHarm`, `DecryptedIsPlaintext`.
  The strengthening: an archive that is done with and not matched is no header
  under any key of the game, and the candidates left of the current one include
  every key that fits (`NoneLeftOut`); a reader has given the bytes of its blocks
  in order and holds the rest of a block only when its caller has no room
  (`ReaderReads`); candidates that fit once a game is known are of that game
  (`CandidatesOfGame`, `FitsAreOfGame`); the first blocks of a header are
  plaintext without gaps and those left are untouched (`DecryptsInPlace`).
  `KeysAssumption` asks that the keys that fit a header have blocks of one length
  and are of one game: no key file is a copy of another game's.

Every invariant and action property of a passing run is stated by one of these
theorems. Only model-checked is every liveness property: `ReadEnds`,
`EveryReadAnswered` of `FuseRead` and of `ProjFs`, `InterruptEndsProcess` (whose
safety part is proved, see above), `ButtonComesBack` and
`ClosedGuiLeavesNoMount`.

What the proofs found wrong with the models, and what came of it:

* the map that holds only the root was named like a name that an archive can store;
  it is now the empty name, which is no component of a path (`Top` in `RofsBuild`);
* a query was any sequence of names, also ones the lookup is not defined for
  (`RofsBuildAssumption`);
* that a header is read as entries of the right types was assumed, and TLC
  evaluated it: it is now proved (`EntriesAreTyped`);
* `Distinguishable` was too weak for Elden Ring: a file beyond the header's length
  helps only where the other formats look for an offset, among the first two files
  of a bucket.

Out of the prover's reach, whatever the effort: liveness under fairness and
`ENABLED`; and anything about `RECURSIVE` operators, of which the modules hence
have none: what the code does recursively is a recursive function. The library's
induction theorems take operators as parameters, which the installed provers
cannot instantiate; where an induction over data is needed,
a lemma over sets stands in for it (`UpTo`, `LowestExists`: a set of naturals
that holds 0 and each successor holds all, and one that is not empty has a least
member), as in `SortedExists`. A function that is defined by recursion is a
`CHOOSE`, and before it can be unfolded it has to be shown to exist, by such an
induction (`SearchIs`, `WalkIs`, `NormalIsKept`).

## 5. Not modelled

* The walk through the directories of keys and dictionaries
  (`dvdbnd.rs:115-172`): in which order files come is an input of `Keys` and
  `ProcessBhd`. The names of archive files (`strip_bhd_extension`, `path.rs`)
  are model values.
* The words of a header nobody looks at: its magic, its keys, the salt, the
  hashes of file contents.
* RSA arithmetic, PEM and DER; `read_to_end` of the block reader, which only
  tests call; a header file that cannot be opened.
* `getattr`, `access`, `statfs`, `getxattr`, `fsync`: they answer from constants
  or from one lookup and keep nothing.
* What the files of a mount are when the data file is replaced after its header
  was read (`mount.rs:79`): the program promises nothing of it.
* The elevation prompt of Windows; argument parsing, logging, settings, and the
  widgets of the GUI.

## 6. Plan

In the order of importance, done: reads; concurrent reads and their pool;
directories; the build of the tree; the cache; the range store; sessions; the
ProjFS mount; keys with their block reader; headers and names in front of the
range store. The proofs of the components with the most interleaving came first.

The proofs then went from the components with the most interleaving to reads,
sessions, keys and enumerations, and last to the two that are data more than
interleaving: the build of the tree, and headers and names.

Left: the `not_modelled` and `partly` components of `PROJECT.json`, and the
hazards listed there without a property, each with its reason.
