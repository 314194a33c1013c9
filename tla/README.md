# TLA+ models of bucse

bucse mounts an encrypted repository as a file system. The repository is a
directory, local or behind ssh, that any number of machines mount at once. It
holds *blocks* (the bytes of files, each under a random name, never changed) and
*action files* (additions, edits and removals of files and directories, with a
time). A mounted client replays the actions into a tree in memory, looks every
second for action files other machines stored, and stores actions of its own.
There is no lock and no server: everything rests on each client putting the
same actions in the same order.

This directory models the parts whose correctness depends on order, failure or
threads, checks them with TLC on small instances, and proves the most important
facts for every size with TLAPS. `PROJECT.json` lists components, runs, the
source lines each definition stands for, hazards, findings and theorems.

## Inventory of the system

| Component | State | Operations | What is hard | What makes it correct |
|---|---|---|---|---|
| Action log (`actions.c`) | `actions`, `actionsPending`, both arrays | `actionAdded` (a file arrived), `addAction`, `doAction`, `parseAction`, `serializeAction` | late, repeated, batched arrivals; three loops that change the arrays they walk; equal times; clocks | nothing lost, nothing logged twice, sorted, the tree is a replay of the log |
| Tree (`filesystem.c`) | `root`: directories, files, dirty flags, pending writes | lookup by path, insertion, removal, `getFullFilePath` | entries of one name, freed nodes | no entry refers to a freed directory |
| Arrays (`dynarray.c`) | pointers, length, capacity | append, unordered removal | the order after a removal | callers that walk an array do not skip or repeat |
| Namespace operations (`operations/create.c`, `mkdir.c`, `rmdir.c`, `unlink.c`, `rename.c`, `readdir.c`) | tree and log | one handler each | storing an action can fail after part of the work; a rename is many actions | tree and repository agree, a rename moves all or loses nothing |
| File data (`open.c`, `write.c`, `truncate.c`, `flush.c`, `release.c`, `read.c`, `getattr.c`, `operations.c`) | pending writes, pending truncation, block list | the FUSE handlers, `flushFile`, `decryptBlock` | merging writes, truncation and old blocks; block size changes; failed flushes; crashes | every read sees every write; a crash falls back to the last flush |
| Block cache (`cache.c`) | hash table, doubly linked list, two counters | `cacheInit`, `cacheGet`, `cachePut`, `cacheCleanup` | two structures kept together by pointers; two limits | no stale pointer, limits respected, least recently used goes |
| Mount process (`bucse-mount.c`, `operations/init.c`) | main thread, tick thread, FUSE workers, `bucseMutex`, `shutdownTicking` | start, serve, tick, stop | shutdown order, failed starts, handlers calling handlers | no use after free, no deadlock, the process ends, written data is offered |
| Destinations (`dest_local.c`, `dest_ssh.c`) | `handledActions`, connection | put and get blocks and action files, tick | torn files, unreadable files, write errors | what was handled is known, what is shown is stored with its blocks |
| Tar archives (`tar.c`) | – | two passes over an archive of action files | files already seen, batches | all actions of an archive, as one batch |
| Encryption (`encryption/*`) | – | encrypt, decrypt | another passphrase | decrypting gives the bytes and the length encrypted, and refuses otherwise |
| Repository creation (`bucse-init.c`) | – | makes the directories, `repository.json` and `repository` | two at once, one that dies, a mount in between | what is mounted was made by one init, in full |
| Options, log, time (`conf.c`, `log.c`, `time.c`) | options | – | clocks of different machines | – |

**Interactions.** FUSE workers call `*_guarded` handlers, which take
`bucseMutex`, call the handler and give it back. The tick thread takes the same
mutex and calls `destination->tick`, which calls back `actionAdded` once per new
action file, saying whether more of the batch follow. Handlers that change the
namespace or save a file store an action through the destination and call
`addAction`. `flushFile` reads old blocks through `decryptBlock` and the cache.
At the end `main` joins the tick thread and frees the cache, the tree (flushing
every file) and the destination, without the mutex.

## Modules

| Module | Models | Kind |
|---|---|---|
| `DynArray` | the unordered removal of `dynarray.c` | operators |
| `FsTree` | `filesystem.c`, `doAction`, what `getattr` and `readdir` show | operators |
| `LogSet` | what a log promises: a set of actions that grows, each known by time, type and path | abstract specification |
| `ActionLog` | `actions.c` and the operations that make actions | specification, implements `LogSet` |
| `BufferedFile` | what a file promises to programs | abstract specification |
| `FileData` | pending writes, truncation, flush, blocks | specification, implements `BufferedFile` |
| `LruCache` | what the cache promises | abstract specification |
| `Cache` | `cache.c` down to list pointers | specification, implements `LruCache` |
| `Mount` | threads, mutex, start and end of the process | specification |
| `Namespace` | `rename.c`, `mkdir.c`, `rmdir.c`, `unlink.c`, `create.c`, `release.c` of one client against a repository that may refuse, with crashes | specification, extends `FsTree` |
| `Destination` | what a put leaves in the repository and what it answers | operators |
| `SftpWrite` | `sftp_write_multiple_calls` with its unsigned counter | operators, extends `Destination` |
| `Repository` | ticks, puts, batches and archives of several machines on one repository | specification, extends `SftpWrite` |
| `Creation` | `bucse-init`, and the checks with which `bucse-mount` opens a repository | specification, extends `Destination` |
| `MCActionLog`, `MCFileData`, `MCCache`, `MCMount`, `MCNamespace`, `MCRepository`, `MCCreation` | small instances | model checking |
| `FsTreeProofs`, `ActionLogProofs`, `FileDataProofs`, `CacheProofs`, `MountProofs`, `NamespaceProofs`, `RepositoryProofs`, `CreationProofs` | theorems | proofs |

How they compose: `ActionLog` and `Namespace` both run on the tree of `FsTree`,
the first with the actions of other machines and one file content per action,
the second with the steps of each operation and what a repository shows after a
crash. `Repository` abstracts a machine's log to the set of its actions, which
`ActionLog` shows an array to implement (`ImplementsLogSet`: what
`actionAdded` and `addAction` do to it is to add elements). `Mount` takes from
`FileData` that a flush may be refused and leaves the file as it was.

Definitions named in a comment as *Mutant* are deliberately wrong versions of
the definition after them. They are used nowhere: putting one in the place of
the right one must make TLC report the property `PROJECT.json` names with it,
which shows that the property notices such a bug.

### ActionLog and FsTree

`actions`, `pending` and `tree` are the two arrays and the tree at `root`; the
tree is a sequence of nodes, a pointer is an index, a freed node is emptied.
`Receive` is one call of `actionAdded` up to its early returns. The rest of the
call is one step per loop iteration: `SortPending`; the walk that drops what is
logged already (`SkipLogged`, `SkipPending`, `DropLogged`, `DedupRepeated`,
`DedupDone`); the one that drops repetitions in what is left (`TailRepeated`,
`TailDone`); `Undo` for each element of the tail of the log taken back;
`UndoDone`; `Do` for each pending action; `Finish`. Sorting may order equal
times in any way, as `qsort` may. `bucseMutex` is held throughout, so no other
operation runs while `pc # "idle"`. `Create`, `Write`, `Flush`, `Unlink`,
`Mkdir`, `Rmdir` are the handlers of this machine, with the actions they add.
An operation reads a clock (`Reads`): later than its earlier readings, and
without `ClockSkew` later than any action of another machine it has seen.
A file's content, size and block size together are one value of `Contents`.

`received`, `made` and `redoneDir` are history variables. `redoneDir` is there
because `undoAction` is empty: what is taken back and done again is done twice,
which is harmless for files (an add finds the file and fails, an edit
overwrites) and not for directories, of which a second entry appears.
`ShowsTheFiles` therefore speaks of logs in which no addition of a directory was
done again and none finds its directory there (`AddsNewDirs`).

### FileData

`file` is the `FilesystemFile`; `content` is the sequence of the blocks
themselves, since a block never changes once stored. `stored` is the file as the
last action file describes it. Each handler is one step, as each holds the
mutex. `flushFile` is split into the questions it answers: the new size and
block size (`NewSize`, `NewBlockSize`, `Resizes`), the blocks to write
(`Rewritten`, with the two special cases of a last block), the bytes of each
(`NewByte` over `OldByte`), and its outcomes (`FlushOutcomes`).
A block that must be decrypted and does not have the length the file's size
implies is refused by `decryptBlock` when it comes from storage, and accepted
when it comes from the cache. What the cache holds depends on every other file,
so both outcomes are possible: `FlushOutcomes` leaves the choice open.
`Contents` is what a reader of the file is owed at any time: the last pending
write at a place, else the stored byte below the size or the pending truncation,
else zero. It is defined without a flush, so that the refinement compares what
`flushFile` and `read` do with something that is not their own definition.
`Doubled` is the loop of `getBlockSize`.
`Crash` is the death of the process and a new mount. Within a flush it leaves
blocks nobody refers to, or, once the action file is stored, is the same as
afterwards. `call` records the last operation and its answer, for `BufferedFile`.

Three constants keep the passing instances apart from the behaviours recorded
under *Findings*: `HoleAfterTruncate`, `TruncateWhileWriting` and
`TruncateSizes`. `FileHole` shows what happens without the first limit; how to
see the same for the other two is said there. What the choice of `TruncateSizes`
is for are two conditions on states that the proofs name: `CutsAtBlocks`, no
pending truncation cuts into a block, and `CutsToNothing`, where flushes may
fail pending truncations are to size 0.

### Cache

List items are cells of a heap with `next` and `prev`; only allocated cells have
fields, so following a freed pointer is an error TLC reports. `Hit`, `Miss`,
`Put` and `Cleanup` are the functions, `Evict` and `EvictDone` the iterations
of the loop in `cachePut`. The hash is any function to buckets. `List` is the
order in which the pointers link the allocated cells; `Reached` are the cells
`cacheCleanup` gets to from the first one, so that a broken list leaks.

### Mount

`main`, `ticker` and `worker` are the program counters of the main thread, the
tick thread and the calls the FUSE workers serve. Each handler waits for
`bucseMutex` (`Enter`), and has its effect and leaves. One file stands for the
tree: absent, clean, dirty, or dirty after a flush the repository refused.
Every way for the start to fail goes on to the end of `main`, as in the code.
A tick may find an addition of the file; other remote actions do not interact
with the threads and are left to `ActionLog`. Both destinations have a tick, so
a mount that serves always has the thread.

### Namespace

An operation is a list of steps (`todo`), each of which stores one action file
at most and changes the tree when that worked. `rename` of a file is flush,
action for the destination, action for the source with the move in memory;
`rename` of a directory is `mkdir`, `moveAll`, `rmdir`, and `moveAll` puts the
steps for one entry in front of the list and stays until the source is empty,
which is the recursion of `renameDir`. An operation can end at any step: the
repository refuses (`StoreFails`), a check refuses (`Abort`), or the process
dies and the repository is mounted again (`Remount`). The two actions of a
rename have one time, and the arrays are sorted by time only: `MountOrders` is
every order a mount may put them in. The calls the kernel never makes (a rename
onto an ancestor or a descendant) and those libfuse keeps away (removing or
replacing an open file, which it renames first) are excluded where they would
begin. Open handles are there because `release` flushes only those opened for
writing.

`request` remembers the running operation and the tree it found, `halfMoved`
that the second of a file's two actions was refused.

### Repository, SftpWrite, Destination

A machine mounts, ticks, stores, and dies at any point. A tick lists the files
it has not handled (`Scan`), opens them one by one in any order
(`ReadWhole`, `PassOver`, `ReadPart`, `ReadPartOfArchive`) and then marks them
all as handled (`ScanDone`), whatever came of them. An operation stores a block
(`PutBlock`, `SendBlock`, `LocalBlock`, `SshBlock`) and then an action file
(`PutAction`). What one machine writes another may see when it is empty or half
there: `"torn"`. Over ssh a block goes in chunks through a counter of type
`size_t`, to which an error, -1, is added (`SendError`): the first chunk's error
wraps the counter to what the caller takes for a negative `int`; a later one
sends a part again. `Copy`, `CopyDone` and `Delete` are somebody who packs
action files into an archive and deletes them, as `tests/test10.py` does with
`tests/data/duplicates/actions_0_end.tar`.

The number of failures, of file systems and of the server, is bounded by
`MaxFaults`; crashes are not. The histories `missed`, `lied` and `late` say which files were read
when they were not readable, which puts answered 0 without storing all
(`fclose`), and the same for blocks.

### Creation

Runs of `bucse-init` make three directories, look for two files and write them,
each its own step; `bucse-mount` reads `repository.json`, asks for a passphrase
and reads `repository`. A mount is given the passphrase of one init, or none;
decryption gives something that parses when encryption and passphrase agree.

### Fairness

In `Mount`, threads run (`WF`). A thread waiting for the mutex gets it
eventually though others take it in between (`SF`): the tick thread sleeps a
second after giving it back, and handlers finish. Nobody has to unmount, and no
request has to come. In `ActionLog` the only fairness is that a call of
`actionAdded`, once begun, goes on; nothing makes files arrive. In `Namespace`
an operation that began goes on (`RunStep`); in `Creation` a mount that was
started does. In `Repository` the tick thread of a mounted machine looks again
and again and a put goes on (`WF` of both together, since they exclude each
other by the mutex); nobody has to mount, to store or to pack anything.

## Runs

| Run | Instance | Question |
|---|---|---|
| `ActionLogFiles` | 5 remote actions on 2 paths (a file added, edited, removed, added again, and another), local create, write, flush, unlink of the same file at 2 times; at most 5 actions held | Are actions lost (`NoActionLost`), logged twice (`NothingRepeated`), misordered (`LogSorted`)? Is the tree a replay of the log once nothing waits for a flush (`ShowsTheFiles`)? Do the loops implement a growing set (`ImplementsLogSet`) and end (`ActionAddedReturns`)? |
| `ActionLogDirs` | a directory and a file in it, made and removed by either machine, the directory made by a third one, too | Is the tree a replay of the log with nested paths, too (`ShowsTheFiles`)? |
| `FileBlocks` | blocks of 2 or 4 bytes, at most 8 of them before the file is written again (`RESIZE_AT_BLOCKS_COUNT`, 32 in the source), files up to 17 bytes, 2 pending writes before a write flushes | Does the file implement `BufferedFile`, keep its blocks at the lengths its size implies (`BlocksFitSize`) and few (`BlocksStayFew`), and never fail by itself (`NoErrorByItself`)? |
| `FileFailures` | up to 3 bytes, overlapping writes, every flush and read may fail | Does a failed flush keep what was written (`FailureKeepsData`)? |
| `CacheLru` | 4 blocks of 1 to 3 bytes in 2 buckets, limits 3 blocks and 5 bytes | Are list and table consistent, limits kept, and is it LRU? |
| `MountServe` | 2 workers, 2 handles | `UsesLiveMemory`, `NothingUnsaved`, and `ServesUnlessRelocked`: unless a handler locks the mutex it holds, every call returns and a stopped process ends |
| `RenameTree` | a repository with `a/f` and `a/b/f`; operations on `a`, `b` and `a/f`, which begin while at most 5 action files are stored (`MaxStored`) and may store 5 more; every put may be refused | After any operations, refusals and crashes, does a mount show what memory shows (`MountShowsTree`)? Does a rename move everything and nothing else (`RenameMoves`), change nothing when a check refuses (`RefusedChangesNothing`), lose no file in a crash (`CrashKeepsMoved`), and end (`OperationsReturn`)? |
| `RepositoryShared` | 2 machines, one over ssh, 2 action files, an archive of both, blocks of 2 chunks, 1 failure | Does a machine have the actions of all it will not read again (`HandledIsKnown`)? Does an action wait only for a file that could not be read (`WaitsForUnreadable`)? Is what a machine shows in the repository (`LoggedIsStored`) with its block (`BlocksFirst`)? Do machines that stay up catch up (`Delivered`)? |
| `RepositoryMade` | 3 inits (plain; encrypted; encrypted over ssh), 2 mounts (no passphrase; that of one init, over ssh), 2 failures | Is what is mounted made by one init, in full (`MountsOneRepository`)? Does no init change another's files (`NothingOverwritten`)? Can what was answered to be made be mounted (`CreatedMounts`)? |

**Why the bounds are enough to be interesting.** With five actions held, a batch
can have two new actions, a repetition of a logged one and a tail to undo; two
local times fall between remote ones, so that local actions are undone and done
again. Files of 17 bytes pass 8 blocks of 2 bytes and are written again in
blocks of 4; one write can touch two blocks and leave a gap of several. Four
cached blocks reach both limits, with evictions of one and of two blocks for
one new one, from either end of the list and of a bucket. With two workers, one
can be between the lookup and the create of a file while the other and the tick
thread run. The tree of `RenameTree` makes `renameDir` move files and
directories and call itself, and with a file created before it has one more to
move; paths are followed to length 4. With one failure `RepositoryShared` has each kind of torn, unreadable or wrongly answered
file, next to those an unlucky moment tears without any failure; its invariants
were also checked with two failures (1.3 million states), which is more than a
run should take. A third init matters because the first may be dead when the
others race.

`MountServe`, `MountCreate` and `RepositoryMade` do not check deadlock: the
process can stop for good in the first two, when `create` locks the mutex twice,
and in the last every process comes to its end. All other runs do.

## Findings

Each of these runs checks one property that a comment or a test of the
repository states, and TLC finds a behaviour of the code that violates it. The
quotations are in `PROJECT.json`.

| Run | What the code does |
|---|---|
| `FileHole` | After a truncation, a write beyond the new end shows the bytes that were cut off in the gap, instead of zeroes: `flushFile` decrypts the whole old block under the new writes. |
| `MountCreate` | `create` without `O_EXCL` of a file that a tick added since the kernel's lookup calls `bucse_open_guarded` while holding the mutex. Everything stops. |
| `RenameOver` | Whether the destination of a rename is edited or added is decided by memory. A file created with `O_CREAT` and `O_RDONLY` is in memory only; a rename over it stores an edit that every mount refuses, and then the removal of the source. The moved file is gone. |

Six more can be seen by giving other values to the constants of a passing
instance:

| What the code does | Instance | Violates |
|---|---|---|
| `addAction` appends without sorting. With a remote clock ahead of the local one the log's last element is not its latest, the test before the dedup loop is misled, and an action delivered again is logged again. | `ActionLogFiles` with `ClockSkew = TRUE` | `NothingRepeated` |
| The two actions of a rename get one time (`rename.c:88`). The arrays are sorted by time only, equal times in any order, and the walks that look for repetitions compare neighbours by time, type and path (`actions.c:444`): when the two stand in the other order in the log and in what arrives again, one of them is logged a second time. | `ActionLogFiles` with `Remote <- OneRename` | `NothingRepeated` |
| A truncation into the last block, flushed alone, keeps the block longer than the size says. The next partial write of it is refused by `decryptBlock` and answered with EIO, unless the block is cached; then the byte cut off is back when a later write leaves a gap over it. | `FileBlocks` with `Offsets <- Near`, `TruncateSizes = {3}`, `MaxSize = 5`; the second with `Offsets = {3, 4}`, `Buffers <- OneByte` | `NoErrorByItself`; `ImplementsBufferedFile` |
| `open` with `O_TRUNC` keeps the pending writes of another descriptor, which reappear. | `FileBlocks` with `Offsets <- Near`, `Buffers <- OneByte`, `TruncateSizes = {}`, `TruncateWhileWriting = TRUE`, `MaxSize = 5` | `ImplementsBufferedFile` |
| `flushFile` clears `truncSize` before it can fail and leaves the flag: after a failed flush the next one truncates to 0. | `FileFailures` with `Buffers <- TwoBuffers`, `TruncateSizes = {2}`, `MaxSize = 5` | `FailureKeepsData` |
| A file half moved by a refused action file is back with the next mount, where `mkdir` may have given its name to a directory meanwhile. Renaming the directory that holds both moves the file first; `bucse_mkdir` of the same name in the destination then answers EEXIST (`rename.c:162`) and the rename stops halfway, answering an error and leaving two directories with a part each. | `RenameTree` with `StartLog <- MixedLog`, `Targets <- TopTargets`, `MaxStored = 3` | `RefusedChangesNothing` |

One more came up in the proof of `ShowsTheFiles`, which had been stated without
`AddsNewDirs`; `ActionLogDirs` violates it in that form. Two machines make one
directory before they hear of each other, and it is removed again. If the second
addition arrives last, the removal is taken back and done again: memory has no
such directory, while every client that mounts from then on replays two
additions and one removal and shows it.

Reading the code for the models showed more, which are under the hazards:
redoing a directory adds it twice (an admitted TODO); a file that was read while
another machine was writing it is not read again before the next mount
(`missed` in `Repository`), and actions of its batch may wait as long; a block
that met an error in `fclose`, or over ssh in its second chunk, is damaged and
its action is stored (`late`); a rename over a file with pending writes keeps
those writes; `pthread_join` of a thread never created when the start fails
(`JoinNothing`, whose `"crashed"` outcome counts as an end of the process here);
the flushes at the end refill the cache after `cacheCleanup`, which nothing frees
again.

## Proofs

TLAPS proves, for every value of the constants that satisfies the assumptions:

- `FsTreeProofs!DoActionOK`: any action on a well-formed tree gives a
  well-formed tree. Its lemmas say what lookups and the unordered removal
  return. The second half of the module is about trees without repeated names
  (`IsTree`): which directories (`HasDir`) and files (`Filed`) they show at
  their paths after each update and after each action (`DoActionIs`;
  `AnyActionIs` for a directory removed with all that is in it), that
  the addition of a file and the removal of another commute
  (`FileActsCommute`), that a replay of one action more is one action more
  (`ReplayAppend`), and that trees with the same directories and files show the
  same everywhere (`ShownAlike`).
- `ActionLogProofs!TypeCorrect`: `TypeOK`, in particular that the indices of
  the dedup loops stay within arrays that shrink under them.
- `ActionLogProofs!NothingLost`: `NoActionLost`. The step that matters is each
  removal: what is dropped has its like left in one of the arrays, and the
  removal, which moves the last element, keeps all others.
- `ActionLogProofs!LogStaysSorted`: `LogSorted`. Sortedness alone is not
  inductive. The invariant says also which array is sorted in which phase; that
  everything in either array was received, so that a clock reading is later
  than all of the log; and that after the undo loop the whole log is earlier
  than the whole of the pending actions.
- `ActionLogProofs!LogIsASet`: `ImplementsLogSet`. Every step of every loop maps
  to a step of `LogSet` or to none; the one that matters is the end of the
  dedup loops, where all that waits enters the log at once. That what the loops
  drop is in the log or still waiting is the invariant of `NothingLost`.
- `ActionLogProofs!LoggedOnce`: `NothingRepeated`, for clocks that agree and as
  long as no two actions have one time (`OneActionPerTime`; `TimesApart` says
  which constants give that). Both are necessary: see *Findings*. The
  invariant `OnceInv` says what the walk through `pending` and the log has
  settled: the part behind it has no like anywhere (`SuffixDone`), the log behind
  it is later than all the rest (`Passed`), although each removal moves the last
  element to the place just looked at.
- `ActionLogProofs!FilesAreShown`: `ShowsTheFiles`, for any paths, actions and
  clocks. Nothing is undone, so while the tail of the log is taken back and done
  again the tree and the replay of what is left of the log drift apart, and
  the invariant (`DrawsTree`) says how far (`Rel`): every directory of the tree
  is one of the replay, and one the tree has lost is removed by an action still
  to be done; a file may be the one a later edit left, or be there already
  although its only addition is still to come, but then it is the one the
  addition makes (`FileRel`). Of a path that a removal still to come will
  clear nothing needs to be said. Taking back (`UndoneLeft`), sorting (`MoreLeft`) and
  doing (`OneDone`) keep it, and with nothing left it says that the two are
  the same but for unflushed changes (`Draws`), which the file operations keep.
- `FileDataProofs!TypeCorrect` and `FewBlocks`: `TypeOK` and `BlocksStayFew`, of
  every behaviour. They rest on what the loop of `getBlockSize` computes: at most
  8 blocks for any size (`BlockSizeBounds`), hence the assumption that
  `RESIZE_AT_BLOCKS_COUNT` is not less.
- `FileDataProofs!BlocksHaveTheirLengths` and `NothingFailsByItself`:
  `BlocksFitSize` and `NoErrorByItself`, as long as no pending truncation cuts
  into a block (`CutsAtBlocks`). The *finding* about a truncation into the last
  block is what happens otherwise. One step needs care: a flush keeps a block only if it is
  full or stays the last (`Rewritten`'s two special cases).
- `FileDataProofs!FileIsBuffered` and `FailuresKeepData`:
  `ImplementsBufferedFile` and `FailureKeepsData`, for any buffers and offsets,
  overlapping and in any number, any resizing, and any failures. The hypotheses
  are the limits of the passing instances, now as conditions: no gap is left
  behind a pending truncation, `open` does not truncate above pending writes,
  `CutsAtBlocks` and `CutsToNothing`; dropping each of them is one of the
  findings (`FileHole` and the last three rows of the table), so none can be
  spared. `CutsAreChosen` shows that constants can ensure the last two. The
  invariant (`Consistent`) adds that a pending truncation has no gap above it
  (`HoleFree`) and that a file with nothing pending is the stored one. With it
  `flushFile` keeps `Contents` byte by byte, and what `read` puts together from
  pieces of blocks is the slice of `Contents` asked for (`ReadIs`).
- `CacheProofs!TypeCorrect`, `NoDanglingPointer`, `TableAgreesWithList`,
  `LimitsHold`: the four invariants of `Cache`, for any blocks, sizes, limits,
  hash and addresses. One invariant has them all (`CacheInv`): some sequence of
  the allocated cells is linked both ways (`ListInv`), every entry of the table
  is in its bucket once and has its cell and every cell its entry (`TableInv`),
  and the counters are the number and the size of what is listed (`CountInv`).
- `CacheProofs!CacheIsLru`: `ImplementsLru`. A hit moves a block to the front of
  the sequence, an eviction takes the last one away, which is not among those
  that fit: while the loop runs, the abstract cache is what will be left.
- `MountProofs!TypeCorrect`: `TypeOK` of `Mount`, which says who holds the
  mutex when. It needs, in addition, that there is no tick thread before main
  starts one: otherwise the thread could hold the mutex main is about to take.
- `MountProofs!NoUseAfterFree`: `UsesLiveMemory`, for any number of workers.
  The invariant says why nobody is inside when memory is freed: calls exist
  only while main serves or drains, past its join the tick thread is over or
  never was, and until then nothing is freed.

- `MountProofs!WrittenIsOffered`: `NothingUnsaved`. The invariant says that past
  the join nobody is left to write, that the destination is alive until the
  tree was flushed, and that the file is not dirty from then on.
- `NamespaceProofs!TypeCorrect` and `MountsAgree`: `TypeOK` and
  `MountShowsTree` of `Namespace`, for any names, depth of the tree, number of
  operations, refused action files and mounts. `MountShowsTree` says nothing
  while an operation runs or a file waits for its flush, and nothing of where
  the steps of a rename lead; the invariant (`IInv`, with `Coherent` at its core)
  must. It says that *whichever* way a mount sorts the action files of one time
  it finds the directories memory has and the same files (`OrdersAgree`); that
  those are the files in memory but for what waits for a flush (`FilesAgree`),
  or were before the first of the two actions of the file that is being moved
  (`BeforeCopy`); and that the list of steps is one `renameDir` can produce
  (`Shape`) each of whose steps finds what it needs (`Ready`): what a loop moves
  has no namesake at the destination, which holds because source and
  destination are apart. The two actions of a moved file may be
  replayed in either order because one of them adds or edits a path and the
  other removes another (`StorePair`).
- `NamespaceProofs!CrashKeepsFiles`: `CrashKeepsMoved`, for any depth of what is
  renamed and any refusals and crashes on the way. The invariant (`RenameInv`,
  with `KeptFile` at its core) says of each file that the rename found both in
  memory and in the repository where it is now: still at its old path in both;
  at both paths in the repository, while its removal is the next step; or at its
  new path. It needs that the steps that are left go where the rename as a whole
  goes (`Mapped`), however many turns of the loops put them there, that
  different files go to different paths (`DestDiffers`), and that no path of
  the source is one of the destination or the directory of one (`DestApart`).
- `NamespaceProofs!RefusedAtOnce` and `RenameMovesAll`: `RefusedChangesNothing`
  and `RenameMoves`, as long as no directory holds a file and a directory of one
  name (`NoNamesakes`). The invariant (`Progress`) compares the tree with the one
  the rename found, before every step: each file of the source is still there or at
  its new path, unchanged, each directory at one of the two or at both while it is
  emptied, and nothing else differs (`Half`); what the first step
  is about to make is not there and what it is about to remove is empty
  (`Moving`). A step can then only fail on a refused action file, whose error is
  not one of the arguments', and when the list is empty the source is gone.
  `RefusedAtOnce` needs its hypothesis (see *Findings*: a file moved halfway, a
  mount, a `mkdir` of its name). `RenameMovesAll` speaks of all paths, of which
  TLC's `Paths` is a bounded part; no run contradicts it without the hypothesis,
  but the proof needs that a path is not both a file and a directory.
- `NamespaceProofs!NoneOfOneName`: that hypothesis holds from a start where it
  does until a file is moved halfway for the first time.
- `RepositoryProofs!TypeCorrect`, for any machines, files and archives: `TypeOK`.
- `RepositoryProofs!HandledActionsKnown`: `HandledIsKnown`. Files are marked as
  handled at the end of a tick, so the invariant asks the same, before, of the
  files the tick is done with.
- `RepositoryProofs!OnlyUnreadableWait`: `WaitsForUnreadable`. It is the last
  file of a batch that lets the actions in, so the invariant asks the same
  of a tick as soon as it has opened all its files.
- `RepositoryProofs!LoggedActionsStored`: `LoggedIsStored`. What is needed in
  addition: an archive that is there, even in part, holds only actions that are
  kept; an action file goes only behind a whole archive; and the file a machine
  is filling is its own.
- `RepositoryProofs!BlocksAreFirst`: `BlocksFirst`. An action file is there only
  behind its block, and a block that was answered with success over ssh is whole
  unless an error came after its first chunk (`Faithful`): the arithmetic of the
  wrapped counter.
- `CreationProofs!TypeCorrect`, `OneRepository`, `NothingIsOverwritten`, for any
  inits and mounts. The invariant says that one init at most gets past the first
  directory, which is never removed (`OneMakes`); that both files, if they are
  there, are that one's, made after all directories (`OneMaker`); and that
  what a mount accepted is still what is there (`ReadIsThere`).

The assumptions are those named in the modules: paths are not empty, `PathRank`
is injective, remote actions are actions, bounds are naturals, machines draw
different names, archives are not empty, what the repository of `Namespace` holds at
first was stored by operations done one after the other and is a tree
(`StartAssumption`), a block is at most half of the largest
`size_t`, no cached block is larger than the cache, the smallest block size is
not 0 and not above the largest, `RESIZE_AT_BLOCKS_COUNT` is at least 8, buffers
are not empty, `Absent` is neither a file nor a sequence of bytes. All of them
are evaluated by the runs. The theorems with a further hypothesis say so: it is a
condition on what clients and clocks do, each with the behaviour of the code
that makes it necessary.

`Doubled` and the concatenation of the pieces that `read` collects are
recursive functions, and the library's induction theorems are of no use
here. What is needed of them (that there is a function that satisfies the
recursion, and the value it must have) is proved from the least number for which
it fails, which `LeastNatural` provides. The replay of a log and the lookup of a path are dealt
with in the same way: `MountShowsTree` compares with a replay of the whole log,
and the proofs only ever look at its last action or two.

Only model-checked: liveness (`ActionAddedReturns`, `ServesUnlessRelocked`,
`OperationsReturn`, `Delivered`, `CreatedMounts`), which is out of reach of
the provers. Everything else the passing runs check is proved, some of it under
the hypotheses named above.

## What is left out

- Integer widths: offsets and sizes are unbounded. The code computes block
  offsets with `int` in places.
- Failing `malloc`, whose results are largely unchecked.
- Read-only mode, permissions, times of files, extended attributes.
- A repository that refuses the action of `mkdir`, `rmdir` or `unlink` in
  `ActionLog`; there file operations that make actions succeed. `Namespace` has
  refusals of every action file, `FileData` of every flush, `Mount` of flushes.
- Serialization: JSON and encryption are inverses of parsing and decryption,
  except that `Creation` has decryption with another passphrase.
- Setting up and losing the ssh connection as such (a lost connection is a
  failure of every later call), and reading blocks back, which gives the block
  or fails.
- `destSshTick` passes an error of `sftp_read_multiple_calls` on as a size; the
  file counts as passed over here. Archives without a regular file, which call
  nothing back, are excluded by an assumption.
- Who owns names and contents that cache, actions and files share by pointer.
- Options and text output.
- `FileData` truncates only to block boundaries in runs that pass (see above),
  and has one file; descriptors are not counted.

## Plan

1. Done: `ActionLog`, `FileData`, `Cache`, `Mount`, with the abstract
   specifications above; `Namespace`, `Repository`, `Creation`; the theorems
   above, with all three refinements.
2. Width-true block arithmetic of `flush.c` and `read.c`, against `FileData`.
3. `Repository` with an `ActionLog` per machine instead of a set: that machines
   that have read the same files show the same tree.
4. Ownership of memory across `actions.c`, `flush.c` and `cache.c`.
