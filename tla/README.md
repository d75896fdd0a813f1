# A TLA+ verification of diffa

diffa compares and synchronises directory trees: locally, through patches kept
in SQLite files, and over the network (`diffa serve`, `push`, `pull`). This
directory holds TLA+ models of its core, the TLC runs that check them and the
TLAPS proofs about them. `PROJECT.json` lists the runs, ties every definition to
the lines it models, and lists the hazards the properties are meant for.

Paths below are relative to `Sources/Diffa/` unless they start elsewhere.

## 1. The system

| Component | State | Operations | Hard because of | Correct when | Modelled in |
|---|---|---|---|---|---|
| **Network plan** (`EfficientSync/Network/SyncClient.swift`: `computeOperations`, `resolveCopyCycles`) | none; a pure algorithm over two listings, with dictionaries of arbitrary order | transfer / copy / delete operations, copy cycles broken with a temporary file | the plan is executed in an order the planner did not think about; cycle search by walks | nothing is sent that the target has; copies read what they were planned to read; temporary files go | `NetPlan`, `PlanRun` |
| **Network session** (`SyncClient.sync`, `SyncServer.processClient`) | client: phase, two listings, remaining operations, `serverErrors`; handler: phase, listing, operation in progress; both: a socket and a receive buffer; the two trees | handshake, metadata exchange, FILE / REQUEST / COPY / DELETE, DONE, ERROR | uploads are pipelined with replies read only at the end; full channels; either process dying; handlers of several commands on one tree without a lock | success means that everything was applied; an interruption costs little; nothing hangs | `NetSession`, `NetProperties`, `SequentialSync`, `NetRefinement` |
| **Server lifecycle** (`SyncServer.startAsync`, `stop`, `acceptLoop`, `cleanupClient`) | `listenerFd`, `isRunning`, `shutdownPipe`, `clientFds`, `connectionBuffers`, `clientGroup`; the process's descriptors | start, accept, serve, stop, start again | three kinds of threads close numbers that are reused at once | nobody closes what another opened; `stop()` returns; a stopped server holds nothing | `ServerLifecycle` |
| **EfficientSync, local** (`EfficientSync/Comparison`, `Core`) | two snapshots, the operation list, `ContentTracker` | compare, detect moves, add / modify / delete / move / resolve conflict | the tracker's belief about which path holds a content; errors are collected and the rest goes on | what is wrong is reported; nothing else is touched; another run mends it | `EfficientSync` |
| **EfficientSync snapshots** (`EfficientSync/Snapshots`) | one SQLite table | scan, hash, list | what cannot be read is left out without a word | listings match the trees | partly: what a scan lists, and what it can miss (`FileTree`) |
| **Local synchronisation** (`Synchronization`) | plan of additions, deletions, modifications; conflicts and their resolution; `result.errors` | `synchronize` in one or two directions, dry run, verification | the destination is removed before it is copied to; two-way operations come in the order of a `Set`; names that change between file and directory | both sides as the mode and strategy ask, or an error; the version to be kept is never lost | `LocalSync` |
| **Comparison** (`Comparison`) | two attached snapshots | three joins | dates and kinds that differ with equal content | exact difference | `Comparison` |
| **Patching** (`Patching`) | a patch database: operations, revert data, metadata row; the tree it is applied to | create, apply, revert | each stops at the first failure; rows outside a transaction; large and empty files | an openable patch is whole; apply makes the one tree into the other; revert undoes it | `Patching` |
| **Snapshot engine, hash cache** (`Snapshots`, `Optimization/HashCache.swift`, `Utilities/AtomicFileReplace.swift`, `Core/FileSystemItem.swift`) | snapshot database, cache table, staged file, items being hashed | scan in one transaction, look up / store / prune hashes, save over an old snapshot | files changing under the scan, tasks finishing in any order, crash while saving | a hash belongs to the content; one whole snapshot survives | `SnapshotStore` |
| **Move detection** (`Optimization/MoveDetector.swift`) | none | pairs removals and additions | – | – | not modelled: nothing but its tests calls it |
| **Wire encoding, compression** (`SyncProtocol.swift`, `Compression.swift`) | none | bytes to messages and back | – | – | message types only; see 8 |
| **SQLite wrapper, core types, command line, benchmark** | – | – | – | – | not modelled; see 8 |

How they interact: `push` and `pull` (command line) call `SyncClient`, which
scans its tree through the EfficientSync snapshots, talks to a handler thread of
`SyncServer` over one TCP connection, makes the plan on the client for both
directions, and executes it on its own tree (pull) or by messages (push). The
server runs one accept loop and one handler per connection; they share the
served tree, the temporary directory and three tables behind locks. `sync`,
`patch` and `snapshot` are local commands over the snapshot engine, which hashes
files in parallel tasks; `sync` and `patch` compare two snapshots
(`ComparisonEngine`) and change a tree that nobody locks. EfficientSync's local
executor is a library of its own.

## 2. Modules

```
FileTree            trees, what Foundation's file operations do to them, what a scan lists
├── NetPlan         computeOperations + resolveCopyCycles
│   ├── PlanRun     a plan carried out alone                        <- MCPlanRun
│   ├── NetSession  client and server, channels, failures
│   │   └── NetProperties                                           <- MCNetSession
│   │       └── NetRefinement  NetSession implements ...            <- MCNetRefinement
│   └── SequentialSync         ... this specification without a network
├── EfficientSync   local comparison, tracker, executor             <- MCEfficientSync
├── Comparison      ComparisonEngine
│   ├── LocalSync   plans, strategies, executor, verification       <- MCLocalSync
│   └── Patching    create, apply, revert                           <- MCPatching
└── SnapshotStore   scan, hash cache, atomic save                   <- MCSnapshotStore
ServerLifecycle     descriptors, accept loop, stop()                <- MCServerLifecycle

FileTreeProofs      lemmas on trees, cited by all that follow
NetSessionProofs    of NetPlan and PlanRun; of sessions, what needs no order
NetOrderProofs      the order of the operations; SequentialSync, mirrors
EfficientSyncProofs, LocalSyncProofs, PatchingProofs
SnapshotStoreProofs, ServerLifecycleProofs
```

Definitions marked `(mutant)` are variants of the definition after them, with a
bug in them, that show which property would notice.

**FileTree.** A path is a number in the order the code sorts path strings by;
`Above` gives the directories it lies under. A tree maps each path to absent,
directory, or a content; equal hashes are equal contents. `Torn` is the content
of a file that is half written. `WithParents`, `Removed`, `Writable` are what
`createDirectory`, `removeItem` and `Data.write(to:)` do (external code);
`ItemCopied` is `copyItem`, which takes a directory with its contents: paths have no
names here, so which of the paths below the copy they take is left open.
`Housed` is what the local executors do first: make the parent, unless anything
has its name. `Pruned` is the server's removal of directories left empty;
`ListingOf` is a network scan: files only, no empty directories. `Unreadable` is what
a scan leaves out when a directory, the root or the snapshot's query fails: the
enumerator's error handler and `allFiles()` both say nothing.

**NetPlan.** The plan is a set of operations with their place in the client's
array (`ord`), in closed form. `IndexedPath` is what the growing hash index
answers when a path's turn comes. The dictionary order in which
`resolveCopyCycles` visits its keys is an arbitrary `rank`. `visited` is
consulted only for the key a walk begins with, so a walk that enters a known
cycle from outside appends that cycle again: `WalksThatFind` says which do.
`Overtaken` are the copies that read a path after an earlier operation has put
something else there. `PlanRun` carries a plan out.

**NetSession.** One action per handler, with every early return. Client
(`cpc`): `Connect`, `ReceiveOK`, `ScanLocal`, `ReceiveMetadata`, then per
operation `Upload`, `SendRemote` (COPY, DELETE), or for a pull `RequestFile`,
`WriteReceivedFile`/`FinishReceivedFile`, `PrepareCopy`/`CopyItem`,
`DeleteLocal`; at last `SendDone`, `DrainReply`, `ReceiveDone`. Server (`spc`):
`ReceiveHello`, `ScanServed`, `ExchangeMetadata`, then `SendFile`,
`ReceiveFile`/`FinishFile`, `DeleteFile`, `ReceiveCopy`/`FinishCopy`,
`ReceiveLast`, `CloseConnection`. Writes and copies take two steps, because
`Data.write` truncates first and the COPY handler removes the destination first.
A socket and the receive buffer behind it are one FIFO of at most `Window`
messages. Sending blocks when it is full, and after 30 seconds the server gives
up silently and goes on (`ReplyAbandoned`), which may leave a part of the reply
behind (`FRAGMENT`): nothing after it is ever parsed. Faults are counted: a disk
error at any file operation, a scan that misses something, a lost connection, a
timeout, a client or the server dying. An operation is atomic between these
points; several sessions interleave at all of them.

**SequentialSync / NetRefinement.** What a push or pull promises without a
network: someone with the plan in hand carries it out in order, each operation
at most once and none left out before another; success is only reported after
the last. `Sequential(s)` is its instance for session `s`: the tree that is changed,
the count of operations begun, the one in progress. The session refines it, as the
run `sequential` checks and `NetOrderProofs` proves.

**ServerLifecycle.** `desc` says what every descriptor number refers to; the
lowest free number is reused. `StartAsync` (`StartFails`: no pipe, no socket, or a
`bind` or `listen` that fails), `Stop*` (pipe, client numbers one by one, listener,
wait), `Loop*`, `Handler*` are the steps between which a lock is released or a call
can block. `HandlerReceives` is `receiveMessage`'s write-back of what it has not
parsed, under a number that may be another's by then. `foreign` records that
somebody closed a descriptor that was not its own.

**EfficientSync.** `Compare` scans, compares, pairs moves by rank
(`SyncMoveDetector`) and seeds the tracker; the other actions are the executor's
five operations. `fresh` are the paths whose source is not older, which decides
a conflict. Modes push and pull do the same in the code and are one here. An
error is recorded by its path and the rest goes on. A copy that fails or a `Crash`
may leave a torn file (`CutOff`); a user may run it again.

**Comparison, LocalSync.** A snapshot of the snapshot engine has directories in
it. `Compare` scans both sides, either of which may miss what a fault hides,
compares, and plans: `OneWayPlan` (`SyncPlanner` with the filter of
`syncUnidirectional`) or `TwoWayPlan` (`ConflictDetector`, `ConflictResolver`,
`syncBidirectional`). `Current` is the order: one way additions, deletions
backwards, updates; two ways any. `MakeRoom` and `CopyItem`/`CopyFails` are the
halves of `executeCopyFile`, which removes first; `CreateDirectory` and
`DeleteItem` are one step each. Removing a directory may fail, or the process die,
with any part of what is in it gone (`RemovalStops`, `PartlyRemoved`). `execute`
records what throws and goes on.
`Verify` scans again and throws at any difference. `newer` holds what
modification dates decide; whether a copy keeps the date depends on the platform
and is left open. `Wanted` says, of the trees as they were, what mode, strategy
and options ask for.

**Patching.** `src` and `dst` are the trees a patch is made of, `tree` the one it
is applied to. Making it writes a row per operation, its revert data before it,
and the metadata row, without which the file cannot be opened, last. `Puts`,
`KeepsItem`, `HasData` say what `PatchApplicator` and `PatchReverter` do with an
operation, `Prepared` which parents they make first, `Possible` when it does not
throw. A command stops at the first failure; the next starts from the first row
(apply) or the last (revert). `EmptyFiles` and `BigFiles` are the contents that
patch and revert data do not hold. A removal is one step here: what is in a
directory has operations of its own, which come before its removal.

**SnapshotStore.** Somebody changes the directory (`WriteFile`, `Remove`,
`MakeDirectory`) between any two steps of a scan. A scan is `parallel` or not. Items
go from `listed` (seen in their directory) through `hashing` (size and date read,
content not yet) and `hashed` to `done`. `Look` is `FileSystemItem.init` up to the
cache lookup, `HashFile` the hash and the cache row, `Insert` the row of the
snapshot. A sequential scan finishes an item before the next (`Turn`), and an
insertion that throws costs that item (`PassOver`). In a parallel one the files of a
directory are tasks, whose results are taken when the directory and its
sub-directories have been gone through (`Draining`); an insertion that throws there
(`InsertFails`, or a path that has a row already) leaves the task group, so that the
rest of the directory's results are dropped (`cut`, `Drop`), without a word below
the root, and as the failure of the save at the root (`GiveUp`). `Start` makes the
tables and the metadata row, each committed by itself and either of which may fail;
then come `Prune`, `Commit`, for an atomic save `ReplaceItem`, which moves the
staging file over the target, and `Open`, which may still fail. `hidden` are the
files whose change cannot be told by size and date.

## 3. Runs and what they show

| Run | Instance | Shows |
|---|---|---|
| `plan` | 4 paths, 3 contents, every pair of listings, every dictionary order | every plan without an overtaken copy delivers the source; pure copy cycles always come out right; only content the target holds nowhere is sent, once; temporary files go; shared files are not touched |
| `session` | 1 push or pull, 4 paths, flat or `d, d/x, d/y, e`, 2 contents, channel of 1, 1 fault, protocol versions 1 and 2 | `TypeOK`, `InStep`; success of a push means that nothing was refused; success without an overtaken copy means that the target mirrors the source's listing; matching files are kept, and at most one file is damaged, wherever the session is cut off |
| `session_fair` | 2 paths, 1 fault, fairness | every command and its handler end |
| `sequential` | 3 paths, push and pull, channel of 2, 1 fault | refinement of `SequentialSync` |
| `two_clients` | 2 pushes at once, 3 paths | pushes that touch different files do not notice each other |
| `second_push` | the same push three times, paths `d, d/x, e, e/x` | a push refused because a directory is in the way makes room for the second; only if it has copied that directory does it take a third |
| `server_restart` | 2 connections, 6 descriptors, 2 starts | who owns which number; a stopped server holds nothing |
| `server_fair` | 2 connections, 7 descriptors, 1 start, fairness | `stop()` returns; every client of a server nobody stops is served |
| `local` | 4 paths `d, d/s, d/s/x, e`, every pair of trees in which `d/s/x` is the file that changes, all modes and strategies, three sets of options, 2 runs, 1 fault or crash, removals that stop half way among them | what both sides hold after a run, except for errors, scans that missed something, and names of two kinds; the version to be kept is always on its side; whatever is gone was meant to go or is reported; without faults only names of two kinds give errors |
| `patch` | the same paths, every pair of trees, an empty and a large content, 5 commands, 2 faults or crashes | wherever commands stop, the tree holds only what one of the two trees has, or half a file the patch is about; an openable patch is whole; applied to its end, whatever happened before, it has transformed; reverted to its end it has restored; a revert that is refused for want of data has changed nothing |
| `snapshot` | 4 paths `d, d/x, d/y, e`, of which `d` and `d/x` are changed; 3 contents of 2 lengths, 2 dates a second apart, 2 scans, parallel or sequential, 2 changes, 1 fault or crash; at the target nothing, or a snapshot of another directory with a file named `d`; for the second scan what the first has left | the rows form a tree; the cache answers with the right hash; a snapshot shows what was let alone, but for files of a directory whose results were dropped; an atomic save leaves the old or the new |
| `efficient` | 4 paths, 3 contents, push and two-way, 2 runs, 1 fault or crash | the destination is as wanted except for reported errors and stale copies; a second run mends those; a loss is always reported; without faults an error means a name that is blocked; nothing is fetched that the destination keeps |

**Bounds.** Three paths are the least for a copy cycle with a path outside it,
or for a cycle of three; the runs have one more where it is affordable. Two
contents and their absence make every relation between two paths; three are
needed for cycles of three. A channel of one message makes the two sides block
on each other at once, which real channels do after some thousand replies;
`sequential` uses two, so that messages can queue. One fault at any point covers
each failure on its own; combinations of two are checked for patches only (a
command that failed, and its repetition that fails too), and proved for what
section 5 lists. `server_restart` has so few descriptors that `accept`, `open` and
`startAsync` run out of them; `server_fair` has enough for all, because nothing is
promised to a client while others keep every number. Two directories, one in the
other, with a file in the inner and a file beside them are the least trees in
which parents have parents and an operation can take something with it. A patch
needs five commands to be made, to fail, to be made again, applied and reverted.
In `snapshot`, two changes are one before and one during a scan, or two during
it; of two dates a second apart the cache can tell the later from the earlier, but not
the earlier from the later. `d` has two files, so that one of them can be
lost with the other, and `e` is beside them. Contents
are symmetric in the runs of the network, `plan` and `efficient`; the runs with
fairness, and those that tell contents apart, use no symmetry.

**Deadlock** is checked in all runs of `NetSession`, where the end is an
explicit `Quiet` step. The others have `CHECK_DEADLOCK FALSE`: a plan, a bounded
number of commands or a server nobody starts again really come to an end.

**Fairness.** `NetSession`: each client and each handler is a thread of its own
(weak fairness per thread), and each blocking call has a 30 second timeout, so
that a thread is never disabled while its session lives; commands need not be
given. `ServerLifecycle`: weak fairness of the owner's `stop()`, of every accept
loop and of every handler's steps, and strong fairness of a handler's end: it may
open a file any number of times before, but its client sends DONE or falls
silent, and the socket has timeouts.
Nothing assumes that a client connects or that a server is stopped. The local
commands are loops over finite lists; nothing about their progress is claimed.

## 4. What does not hold

These are what the code does, found as counterexamples of stronger properties or
met while modelling; each property that is checked says what it leaves out on
their account.

Network:

- **A plan may read what it has overwritten** (`SyncClient.swift:227`).
  `resolveCopyCycles` only breaks cycles; the other operations run in path
  order. Served `x=1`, local `x=3 y=1`: the plan uploads `x`, then copies `x` to
  `y`. Both sides report success with `y=3`. `docs/cli-design.md:418`: "Creates a
  **true mirror**". `Overtaken` names these copies.
- **The handler of a dead push undoes its repetition** (`SyncServer.swift:305`).
  It goes on with what it has still to receive while the second push plans and
  runs. With local `<a,b,->` and served `<a,a,b>` the old COPY removes file 2
  after the new push has deleted its source; both sides report success.
- A REQUEST answered by ERROR is logged and forgotten (`SyncClient.swift:442`):
  the pull succeeds without that file. `MirrorUnlessOvertaken` therefore holds a
  pull to account only without faults.
- A pull deletes last and does not prune (`SyncClient.swift:513`): a file whose
  name is a directory at the client never arrives, however often one pulls.
  `RetrySucceeds` is about pushes.
- A COPY may copy a directory (`SyncServer.swift:476`). Local `d=1 e=1`, served
  `d/x=2`: the upload of `d` is refused, the directory being in the way, and the
  COPY from `d` to `e` takes the directory, with `x` in it, to `e`. The server then
  holds an `e/x` nobody wanted; the second push replaces `e` with the file first
  and fails because `e/x`, which it still wants to delete, has gone with the
  directory. The third push succeeds. `CopiesDirectory` names these plans.
- `stop()` neither closes nor awaits a connection that is just being accepted
  (`SyncServer.swift:193-203`); its handler begins after `stop()` has returned.
- A number `stop()` has closed may be closed again by its handler when it belongs
  to another, and a `stop()` after a `startAsync` that failed closes whatever has the
  number of the listener by then (`SyncServer.swift:104`); `OneOwnerPerNumber` holds
  until somebody stops the server.

EfficientSync:

- **It copies from files it has rewritten** (`EfficientSyncExecutor.swift:136`).
  The tracker is seeded with files that are going to be modified. Two files that
  swap contents (`x=1 y=2` against `x=2 y=1`) end up equal, with no error.
- A crash in a two-way synchronisation leaves half a file with today's date, which
  the next run keeps as the newer version.

Local synchronisation:

- A name that is a file in the source and a directory in the destination, one
  way: what is in the directory is deleted, the directory stays, no error
  (`SyncPlanner.swift` plans a modified item by the kind the destination has). Two
  ways, where the directory wins, the file is passed over as well
  (`executeCreateDirectory` is content with anything of that name).
  `SyncedUnlessBlocked` and `WinnerKept` leave out such names (`Clash`),
  `ErrorsOnlyWhereClash` says that without failures an error lies below one, and
  `NothingLostSilently` covers them.
- Verification throws where there is nothing wrong: files alike with other dates,
  and whatever a run without `deleteExtraFiles` has rightly left.
- With "newest wins", a copy that was interrupted is dated now and wins over the
  whole version next time. `WinnerKept` is about the run in which it happens.

Patching:

- The content of an empty file is read back as NULL, so that applying throws
  "content is missing"; reverting the removal of an empty file, or of one over
  1 MiB, makes a directory of that name (`Lossy` in `RevertRestores`).
- Creating a patch onto an incomplete patch file writes its rows twice; onto a
  complete one it throws, but leaves a file that opens and has the rows of both.
- Creating a patch with revert data throws where the source has a directory and
  the destination a file (`Capturable`).

Snapshots:

- A plain save commits the metadata row before anything else
  (`Snapshots/Snapshot.swift`): a scan that fails or dies leaves a file that opens
  as an empty snapshot. The command line saves that way
  (`Sources/DiffaCLI/SnapshotCommand.swift:102`). `OldOrNew` is about atomic saves.
- In a parallel scan, which is the default, a row that cannot be inserted costs the
  rest of its directory: `finalize` throws out of the task group
  (`Snapshots/SnapshotEngine.swift:571`), the caller for the directory above catches
  it and goes on (line 546), and the snapshot is committed without the files whose
  results had not been taken yet. At the root the save fails. `SnapshotTrue` says that
  nothing else goes missing (`Shown`, `cut`); `RowsFormTree`, that what is left is a
  tree.
- Saving onto a snapshot of another directory merges the rows of both in a sequential
  scan, as far as their paths differ; in a parallel one the first path they share ends
  its directory or, at the root, the save. Onto a snapshot of the same directory it is
  refused. `SnapshotTrue` asks for an atomic save or a new file.
- An atomic save whose `Snapshot.open` fails at the end (line 266) throws with the new
  file in place; so `OldOrNew` allows the new one after a failure.
- A change that keeps the size and moves the date by less than a second is not
  noticed by the cache (`hidden`).
- An item that cannot be read is left out without a word, and a synchronisation
  deletes it from the other side (`missed`).

Comments behind the code: `docs/network-copy-optimization.md:116` calls copies
"fire-and-forget", but their errors are drained and make the push fail;
`docs/cross-platform-network-sync.md:36` says "no pipelining", but uploads are;
`SnapshotComparator.swift:12` has pull delete source-only files, but it deletes
the destination's.

## 5. Proofs

The theorems hold for any number of paths, contents, clients, sessions, runs and
commands, any window, any number of faults and any trees to start from, under the
ASSUMEs of the modules. Two of these are about the shape of `Above`, which any
directory tree has: what lies above a path is a chain (`ChainAssumption`,
`LocalSync`), and each path not at the root has a parent with all the others above
that (`ParentAssumption`, `SnapshotStore`).

Network:

- `NetSessionProofs!SpecTypeOK`: types, and a channel never holds more than the
  window and one cut message. One lemma per action.
- `NetSessionProofs!SpecInStep` and `SpecSuccessMeansApplied`. The client reads no
  reply until it has sent DONE, so "no ERROR was drained" proves something only if
  each ERROR is still on its way, or has taken with it what would let the client
  succeed. `InStep` is that invariant: `LastWord` (DONE is the last thing a
  handler says), `HandshakeInStep` (what can be under way before operations
  begin), `PushInStep` (in a push the handler can only say ERROR and DONE) and
  `Evidence` (after a refusal: an ERROR drained or under way, a reply being sent,
  a fragment that blocks the channel, or a handler that closed without DONE). It
  is inductive relative to `TypeOK`, for sessions whose client has not failed;
  the theorem on success is its last conjunct.
- `NetSessionProofs!SpecMatchingKept`: a session by itself leaves alone every file
  its two listings agree on. `KeptInv` is the strengthening. While no other session
  has begun, every step is the session's own (`StepIsItsOwn`). Until there is a plan
  the trees are as found and the listings say nothing false of them (`Handshaking`,
  `Seen`); from then on all that is to be done, under way or half done is about a
  path on which the listings differ (`Ahead`, from `PlanWritesOnlyDifferences`). No
  listed file lies under another (`Flat`), so such a path is neither over nor under
  a matching file (`MatchingFilesStay`).
- `NetSessionProofs!SpecOneHoleAtMost`, on top of `KeptInv`. `Known` says that the
  one path that can be half written or missing is that of the job in hand;
  `CutShort`, that a handler that closed in the middle has not said DONE, so that
  the client cannot succeed (by `InStep`); and deletions concern files one side does
  not have (`PlanDeletesOnlyExtra`). Both theorems rest on `ScenarioAssumption`: the
  trees at the start are well formed and hold no half-written file.
- `NetOrderProofs!SpecOrderInv`: the operations of a plan are begun in its order.
  In a push a plan has three parts, in this order: what has been begun (`applied`),
  what is under way (`up`) and what is still to be sent (`todo`). `OrderInv` says that
  the channel holds exactly the operations in between (`UpInOrder`), with DONE behind
  the last, and that its answer, or success, comes after all have been begun; of a
  pull, that nothing is under way but what was asked for (`FileUnderWay`). None of it
  holds of the channel to a handler that has closed, which nobody reads any more.
- `NetOrderProofs!SpecGoalInv`: what is asked for, under way or in hand is what
  the listings say of the operation it is for, for a session by itself.
- `NetOrderProofs!SessionImplementsSequential`, `SpecImplementsSequential`: the
  refinement, step by step. `OrderInv` says which operation a handler's step begins,
  `GoalInv` with what content, `InStep` that a client which succeeds has not been
  refused one. Every step of a session then begins, finishes or skips one operation
  of `SequentialSync`, tears a file, ends, or changes nothing it sees
  (`ClientImplements`, `HandlerImplements`, `CrashImplements`). It holds of each
  session until another command is given (`Alone`), and so of a specification with
  one session without condition, which is the run's property.
- `NetOrderProofs!SpecMirrorUnlessOvertaken`: the target of a session that
  succeeds by itself, without a refusal, is the mirror of the source's listing, in a
  push whatever else goes wrong. The refinement says which operation of the plan a
  step begins or finishes (`Moves`, `Works`); the plan's theory, what the tree has to
  look like in between, whatever the trees hold that no listing shows (`Course`:
  `InPlace`, `AsFound`, `NothingElse`, `StillSaved`; `CourseEnds` draws the
  conclusion). `CourseInv` joins them: for as long as a session can still succeed
  (`Going`), its target is on the course of its plan with the first `applied`
  operations begun. `AskInv` is needed for a pull: an ERROR in the place of a file
  is the answer to a REQUEST, and so is recorded as a refusal.
- `NetOrderProofs!SpecDisjointPushesMirror`, for any number of clients and sessions
  of them, over files side by side: its hypotheses say that every command is a push
  of the server's version, that no path lies under another and that the served tree
  has no directory, as in the run. `BesideInv` says of every session, while nothing
  has failed and no two are about a common path (`Separate`), that its conversation
  is one of a few (`Greeting`, `AtWork`, `Through`); that of the paths no other is
  about, its handler's listing is still true (`Fresh`: a session can plan something
  new only for itself); and that the places of its plan are what the operations begun
  make of them (`Held`: `FindsFile` and `DeletedIsThere` give that
  nothing is refused, `HeldEnds` the mirror). Without directories a handler changes
  one path of its plan at a time (`HandlerChanges`), so the others' places stay
  (`OthersBeside`). With directories the statement is not claimed: one handler prunes
  what another has just made.
- `NetSessionProofs!PlanTransfersOnlyNewContent`, `PlanWritesOnlyDifferences`: for
  any two listings and any dictionary order. They rest on `MinIsLeast` (a minimum
  over a set of naturals, by well-foundedness), on `IndexedPathHasContent`, and
  on every operation of a cycle writing a copy destination or a temporary place
  (`CycleOpsAreOps`).
- `NetSessionProofs!SpecTransfersOnlyNewContent`, `SpecSharedFilesStay`: the same as
  invariants of `PlanRun`, whose run checks them, with `RunTypeInv` as the
  strengthening.
- `NetSessionProofs!SpecTempsGone`, from `PlanCleansTemps` (what a plan
  puts into a temporary file it deletes later in the array). `CleanInv` adds that
  what is done comes no later in the array than what is left (`DoneFirst`), and that
  a temporary file that is there has its deletion before it (`DeleteToCome`).
- `NetSessionProofs!PlanCoversDifferences`, `PlanReadsWhatIsThere`: what
  `resolveCopyCycles` makes of any map of copies, for any order of its keys. The
  second says of every copy of a plan in which none is overtaken, from a path or from
  a temporary file, that it reads what it is to deliver: either no operation before it
  writes that place, and it is a path that held this to begin with, or all that do
  bring just this. A chain
  is a recursive function, so that its facts are proved by induction over natural
  numbers written as a least counterexample (`CountingUp`): `ChainSteps`,
  `ChainShifts` (a walk from further along is the rest of the walk), `CycleSlots`
  (along a cycle distances are different), `RankBounds` and `OneOpPerPlace` (the
  places in the array are different), `CyclesAreFound` (of the keys from which a
  cycle is reached, the one with the least rank has a walk that finds it).
- `NetSessionProofs!SpecMirroredUnlessOvertaken`. `OnTrack` says of every path whether
  its operation is done (`Delivered`) or to come, and what each temporary file holds
  meanwhile (`Saved`); `CopyFindsWanted` that the next copy reads what it is to
  deliver. `SpecCyclesResolved` follows by `PureCyclesNotOvertaken`: where all copies
  lie on cycles, whatever overwrites a path that is read later has the same content.

Local synchronisation (`LocalSyncProofs`):

- `SpecTypeOK`: in particular both sides stay well-formed trees; the part that
  takes work is a copy (`CopiedType`) or a removal (`PartOfItRemoved`) cut off at any
  point.
- `SpecWinnerKept`. Alone it is not inductive: that a version is safe depends on
  what the rest of the plan will do. The invariant has `PlanInv`, that every
  planned operation brings or deletes what the trees say and comes from the side
  that is wanted (`Sound`), and that a plan is closed under what it must not leave
  half done (`Complete`); and `Kept`, that what the plan has no operation for is as
  it was. `OneWayPlanned` and `TwoWayPlanned` prove the first when the plan is made,
  for every mode; `OperationKeeps` proves the second for each outcome of each
  operation: the parents it makes, what it removes or copies along with a
  directory.
- `SpecErrorsOnlyWhereClash`, for runs without failures. Under a path without a
  clash above it no file is in the way (`Kinds`: files are where there were files),
  so parents can be made; what is to be copied is still there (`SourcesStay`: what
  goes the other way neither deletes nor lies over it, `PlansShape`); and room that
  has been made stays until the copy (`Room`).
- `SpecSyncedUnlessBlocked`. `Synced`: an operation that has been carried out
  without an error over it has made its path the other side's, and the operations
  after it leave that alone (`BroughtStays`), in any order; `Covers`: where the plan
  has no operation there was nothing to do (`PlansAim`).
- `SpecNothingLostSilently`, without any assumption about clashes. The operation
  that accounts for a loss does so until another takes it over with a directory
  (`LossStep`); a copy brings the version that was there (`SourceTrue`).

Patching (`PatchingProofs`):

- `SpecTypeOK` and `SpecOpenedPatchIsWhole`; `WholeInv` says that while a patch is
  made, an operation that is not pending has its row and its revert data.
- `SpecNothingForeign`, about every moment of every sequence of commands: what an
  operation changes besides its own path are parents, which are the goal's
  (`ParentsAreWanted`), and what lies in a directory it removes (`RestIsLeft`); at its
  own path it leaves what one of the trees has (`OwnPathIsEither`).
- `SpecAppliedMeansTransformed`, `SpecRevertRestores`. A command may begin on any
  tree earlier ones have left, so nothing is assumed of it but its type. `ResultInv`
  says that a path without a clash has reached what the command is for (`Goal`)
  once its own operation has been carried out at least once, and stays there while
  others are, and that a path without an operation never changes. The parents an
  operation makes, and what it removes with a directory, are the goal's
  (`ParentsAreWanted`).
- `SpecRefusedRevertIsHarmless`. `Undo` says of a revert that follows a complete
  apply without failures: what is pending is still as applied; a directory is back
  before anything that lies in it; operations that need revert data come before all
  others and had it. So an operation can fail only for want of data, and then before
  anything has been changed.

Snapshots (`SnapshotStoreProofs`):

- `SpecTypeOK`; `SpecOldOrNew`, from what is at the target and the staging file in
  each phase (`SavingInv`).
- `SpecRowsFormTree`: while an item is on its way, all above it have their rows
  (`RowsInv`), since a directory is entered only after its row was inserted, and
  dropping the results of a directory drops files.
- `SpecCacheTrue`, for files whose changes can be told: `VersionsOf` (no earlier
  version could pass for the present one), `RowOf` (a row of the cache is of a
  version, and if the file still looks like it, has its hash) and `LookAt` (a file
  that looks as it did before it is hashed has not been changed since).
- `SpecSnapshotTrue`: besides the cache's invariant, the order of the scan
  (`OrderInv`: what is listed lies in directories that are done) and `ScanTrue`: of
  the paths let alone, what is done has its row, or is a file of a directory that was
  cut short, and what there is in a directory that is done is listed. That every path
  is reached when all is processed follows along its directories, by
  well-foundedness on paths.

EfficientSync (`EfficientSyncProofs`):

- `SpecTypeOK`, from what a comparison plans (`ComparisonPlans`) and what each
  operation can leave behind, whether it succeeds, fails or dies (`Outcomes`).
- `SpecLossIsReported`. The plan's part (`PlanInv`): no path listed as a file lies
  below another (`NothingBelow`), each operation suits the listing (`Planned`), and
  what one writes no other moves to or keeps (`Single`); so an operation can take
  away only its own file. `LossInv` is the property itself.
- `SpecFetchedOnlyIfMissing`. The tracker is not told of moves, nor of what is
  overwritten, so that its paths need not hold what it says. `KnownInv` is what
  is true of it all the same: a content it has no path for is nowhere but in files
  that go or were just moved to (`Unknown`), and its paths are not of that kind
  (`Stays`). What a copy reads, stale or not, lies at a path that stays, so that
  the tracker has a path for it already.
- `SpecErrorsOnlyWhereBlocked`, for runs without failures. What a plan writes it
  writes once, and no file is taken twice (`Distinct`: moves pair what goes and what
  comes one to one by rank). Each listed file is then still there or has been taken
  (`FilesHeld`), no file is yet where one is to be added or moved (`TargetsFree`), and
  the tracker points at files that are there (`TrackedThere`); so a source is never
  missing, and only a directory, or a file above, is in the way.
- `SpecDeliveredUnlessStale`, whatever fails or dies. Operations are done in the
  order of their paths (`InOrder`); files no done operation touches are `Intact`;
  what is done, reports no error and is not stale is `Right`. For the last, a copy
  that reads what an earlier operation has written must find it right too: `Origins`
  says where each of the tracker's paths comes from, `Informed` that what was
  written is what the tracker was told of. Errors and stale copies only grow in
  number during a run, so that what is excused stays so.
- `SpecSecondRunMends`, for any number of runs. `MendInv` follows what the first run
  leaves wrong into the next. A stale copy comes from an earlier path that stays,
  where the same content still is (`Traced`), and a file that a two-way run keeps is
  newer than what it is compared with (`KeptAreNewer`). The tracker of the next run is
  seeded with the least holder of each content; of those that are wrong, the least
  can have no such origin, so the tracker points at no file that is rewritten
  (`NoneStale`) and nothing stale is copied again.

Server lifecycle (`ServerLifecycleProofs`): `SpecLifecycleTypeOK`,
`SpecQuietMeansClean`, `SpecOneOwnerPerNumber`, from one invariant, `LifecycleInv`. Beside
the types, in which the group's count is the number of handlers that have not left
it, it says that a tracked entry and its receive buffer are a handler's own
(`OnePlace`), what a thread that has begun holds (`Begun`, `Looked`), and that until
`stop()` is called nobody but the owner of a number closes it (`OnlyOwner`). That no
count goes wrong when handlers come and go follows from `FiniteSetTheorems`.

The `TypeOK` of `Patching` and `SnapshotStore` are proved as the ground the others
stand on, and no run checks them: a mistake in the code that broke one of them would
show in another property first.

Model-checked only: liveness (`EveryCommandEnds`, `StopIsOver`,
`EveryClientServed`), which is out of the prover's reach with fairness; and
`RetrySucceeds`, which relates three pushes of one client: an invariant for it
would have to tell what every refused plan leaves behind.

## 6. Plan

Done, in this order:

1. `FileTree`, `NetPlan`, `PlanRun`; all properties proved.
2. `NetSession`, `NetProperties`; types, `InStep`, success, `MatchingKept`,
   `OneHoleAtMost`, the order of operations, `MirrorUnlessOvertaken` proved.
3. `SequentialSync`, `NetRefinement`: the abstract specification; the refinement
   proved.
4. `ServerLifecycle`; all safety properties proved.
5. `EfficientSync`; all properties proved.
6. `Comparison`, `LocalSync`; all properties proved.
7. `Patching`; all properties proved.
8. `SnapshotStore`; all properties proved.

Left:

9. `LocalSync` over the snapshots of `SnapshotStore` instead of exact scans that
    miss something: trees that change between scan and execution.

## 7. Reading order

`FileTree`, `NetPlan`, `PlanRun`; then `NetSession` from `Init` to `Next`,
`NetProperties`, `SequentialSync`; `Comparison` with `LocalSync` and `Patching`;
`SnapshotStore`, `ServerLifecycle` and `EfficientSync` stand by themselves. Of the
proofs, `LocalSyncProofs` is the one to begin with. Check with
`tlc -config local.cfg MCLocalSync.tla` and `tlapm LocalSyncProofs.tla`.

## 8. Not modelled

- Bytes: message encoding, compression, hashes, path normalisation and its
  checks. Contents with equal hashes are taken to be equal.
- In synchronisations the trees change only by the commands themselves (and, in
  `NetSession`, by other sessions): an editor at work between scan and transfer is
  modelled for snapshots alone.
- Of snapshots: a rollback journal that a plain save which died has left beside the
  target, which an atomic save does not remove when it puts another file there;
  symbolic links, whose resolution throws outside the catch for one item. In a
  parallel scan an item that turns from a file into a directory, or back, between
  its listing and its turn is treated by the kind it has at its turn, where the code
  goes through it when it takes the results, or at once (`SnapshotEngine.swift:490`).
  The order in which a directory's items come is any.
- EfficientSync's `Compare` takes both listings as exact; that a scan may miss
  something is modelled where `SyncClient`, `SyncServer` and `Synchronizer` scan
  (`execute` is given its snapshots).
- A `copyItem` of the COPY handler that is cut off leaves nothing in `NetSession`,
  where it may leave part of a file: `OneHoleAtMost` counts both as damage. After a
  fragment of a reply the client would take later bytes for its payload; the model
  parses nothing any more. Both end with the connection.
- Permissions; dates except where they decide something (conflicts, what is
  modified, cache lookups). Symbolic links, hidden files, case-insensitive volumes,
  Unicode normalisation.
- `Optimization/MoveDetector.swift` (no caller but its tests), `SyncValidator` (no
  caller), `executeMoveFile` and the patch's move operations (never planned).
- The SQLite storage of EfficientSync's snapshots (a table that is filled and
  read), the SQLite wrapper, error types, formatting, the command line's parsing
  and output, the benchmark, the vendored SQLite and zlib.
