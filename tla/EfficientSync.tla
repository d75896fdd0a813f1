----------------------------- MODULE EfficientSync -----------------------------
(***************************************************************************)
(* A local synchronisation the EfficientSync way: two snapshots are        *)
(* compared (SnapshotComparator, SyncMoveDetector), and the operations are *)
(* carried out on the destination in the order of their paths              *)
(* (EfficientSyncExecutor), with files copied from where the destination   *)
(* is thought to hold their content already (ContentTracker).  A user may  *)
(* synchronise again.  Modes push and pull do the same.                    *)
(***************************************************************************)
EXTENDS FileTree, FiniteSetsExt

CONSTANTS Pairs,      \* the (source listing, destination tree) to start from
          Modes,      \* those of SyncMode to try
          MaxRuns,    \* how often one synchronises
          MaxFaults   \* how many calls fail, or processes die

ASSUME PairsAssumption ==
    Pairs \subseteq {pair \in [src: [Path -> Content \cup {Absent}], dst: Tree] : WellFormed(pair.dst)}
ASSUME ModesAssumption == Modes \subseteq {"push", "sync"}
ASSUME BoundsAssumption == MaxRuns \in Nat /\ MaxFaults \in Nat

VARIABLES src,      \* the source, which nothing changes
          tree,     \* the destination
          mode,
          fresh,    \* paths whose date at the source is not older than at the destination
          snap,     \* the destination as it was scanned
          plan,     \* the operations the comparison gave
          todo,     \* those still to be applied
          ready,    \* parents are made, or the old file is removed: the copy is next
          tracker,  \* ContentTracker: content -> a path thought to hold it, or 0
          errors,   \* result.errors, as the set of their paths
          pc, runs, faults

vars == <<src, tree, mode, fresh, snap, plan, todo, ready, tracker, errors, pc, runs, faults>>

Operation == [act: {"add", "modify", "delete", "conflict", "keep"}, path: Path, from: {0}]
             \cup [act: {"move"}, path: Path, from: Path]

-----------------------------------------------------------------------------
(* SnapshotComparator.compare and SyncMoveDetector.detectMoves             *)

Added(s, d) == {p \in Path : s[p] # Absent /\ d[p] = Absent}
Changed(s, d) == {p \in Path : s[p] # Absent /\ d[p] # Absent /\ s[p] # d[p]}

\* (mutant) two-way synchronisations delete, too
DeletedInEveryMode(s, d) == {p \in Path : s[p] = Absent /\ d[p] # Absent}

Deleted(s, d) == IF mode = "sync" THEN {} ELSE {p \in Path : s[p] = Absent /\ d[p] # Absent}

Rank(p, S) == Cardinality({q \in S : q < p})

\* Additions and deletions of one content are paired in the order of their paths.
Moves(s, d) ==
    {m \in Added(s, d) \X Deleted(s, d) :
        /\ s[m[1]] = d[m[2]]
        /\ Rank(m[1], {p \in Added(s, d) : s[p] = s[m[1]]})
           = Rank(m[2], {q \in Deleted(s, d) : d[q] = d[m[2]]})}

\* A conflict is resolved by the dates of the two snapshots ("newer wins"): the source's
\* file is taken, or the destination's is kept.
Operations(s, d) ==
    LET moves == Moves(s, d)
        op(act, paths) == {[act |-> act, path |-> p, from |-> 0] : p \in paths}
    IN  {[act |-> "move", path |-> m[1], from |-> m[2]] : m \in moves}
        \cup op("add", Added(s, d) \ {m[1] : m \in moves})
        \cup op("delete", Deleted(s, d) \ {m[2] : m \in moves})
        \cup (IF mode = "sync"
              THEN op("conflict", Changed(s, d) \cap fresh) \cup op("keep", Changed(s, d) \ fresh)
              ELSE op("modify", Changed(s, d)))

\* (mutants) moved and deleted files are thought to stay; what only the destination has
\* is thought to go in every mode
NoneRemoved(s, d) == {}
RemovedInEveryMode(s, d) == {p \in Path : s[p] = Absent /\ d[p] # Absent}

\* ContentTracker.collectRemovedPaths: what is deleted, moved or only at the destination
\* - what is to be modified is not in it
RemovedPaths(s, d) == Deleted(s, d)

\* ContentTracker.init: the first path that holds the content and is not to go
Seeded(s, d) ==
    [c \in Content |-> LET holders == {p \in Path \ RemovedPaths(s, d) : d[p] = c}
                       IN  IF holders = {} THEN 0 ELSE Min(holders)]

-----------------------------------------------------------------------------
Init ==
    /\ \E pair \in Pairs : src = pair.src /\ tree = pair.dst
    /\ mode \in Modes
    /\ fresh \in SUBSET (IF mode = "sync" THEN Changed(src, ListingOf(tree)) ELSE {})
    /\ snap = ListingOf(tree)
    /\ plan = {} /\ todo = {} /\ ready = FALSE /\ tracker = [c \in Content |-> 0]
    /\ errors = {} /\ pc = "idle" /\ runs = 0 /\ faults = 0

Fault == faults < MaxFaults /\ faults' = faults + 1

\* (mutant) the destination is not scanned again
CompareOnce ==
    /\ pc \in {"idle", "done"} /\ runs < MaxRuns
    /\ runs' = runs + 1 /\ pc' = "execute"
    /\ snap' = snap
    /\ plan' = Operations(src, snap') /\ todo' = plan'
    /\ tracker' = Seeded(src, snap')
    /\ ready' = FALSE /\ errors' = {}
    /\ UNCHANGED <<src, tree, mode, fresh, faults>>

\* Both sides are scanned and compared, the tracker is made.
Compare ==
    /\ pc \in {"idle", "done"} /\ runs < MaxRuns
    /\ runs' = runs + 1 /\ pc' = "execute"
    /\ snap' = ListingOf(tree)
    /\ plan' = Operations(src, snap') /\ todo' = plan'
    /\ tracker' = Seeded(src, snap')
    /\ ready' = FALSE /\ errors' = {}
    /\ UNCHANGED <<src, tree, mode, fresh, faults>>

Current(o) == pc = "execute" /\ o \in todo /\ \A x \in todo : o.path <= x.path

\* (mutant) the next operation inherits what was prepared for this one
AppliedStillReady(o) == todo' = todo \ {o} /\ ready' = ready

Applied(o) == todo' = todo \ {o} /\ ready' = FALSE

\* execute: what an operation throws is recorded, and the next one follows.
Reported(o) == Applied(o) /\ errors' = errors \cup {o.path}

\* applyAdd, its directories
PrepareAdd(o) ==
    /\ Current(o) /\ o.act = "add" /\ ~ ready
    /\ \/ /\ CanMakeParents(tree, o.path) /\ ready' = TRUE
          /\ tree' = WithParents(tree, o.path)
          /\ UNCHANGED <<todo, errors, faults>>
       \/ /\ IF CanMakeParents(tree, o.path) THEN Fault ELSE UNCHANGED faults
          /\ Reported(o) /\ UNCHANGED tree
    /\ UNCHANGED <<src, mode, fresh, snap, plan, tracker, pc, runs>>

Replaces(o) == o.act \in {"modify", "conflict"}

\* applyConflict, of a file that is newer at the destination
KeepDestination(o) ==
    /\ Current(o) /\ o.act = "keep" /\ Applied(o)
    /\ UNCHANGED <<src, tree, mode, fresh, snap, plan, tracker, errors, pc, runs, faults>>

\* applyModify: "try? removeItem"
RemoveOld(o) ==
    /\ Current(o) /\ Replaces(o) /\ ~ ready
    /\ ready' = TRUE
    /\ \/ tree' = Removed(tree, o.path) /\ UNCHANGED faults
       \/ Fault /\ UNCHANGED tree
    /\ UNCHANGED <<src, mode, fresh, snap, plan, todo, tracker, errors, pc, runs>>

\* applyAdd and applyModify: the file comes from the path the tracker knows for its
\* content, or else from the source.  Its date is set last, and that can fail.
Origin(o) == tracker[src[o.path]]
CanCopy(o) == /\ tree[o.path] = Absent /\ ParentsExist(tree, o.path)
              /\ Origin(o) # 0 => IsFile(tree, Origin(o))

CopyFile(o) ==
    /\ Current(o) /\ ready
    /\ IF CanCopy(o)
       THEN /\ tree' = [tree EXCEPT ![o.path] = IF Origin(o) = 0 THEN src[o.path] ELSE tree[Origin(o)]]
            /\ tracker' = [tracker EXCEPT ![src[o.path]] = o.path]
            /\ \/ fresh' = fresh \cup {o.path} /\ Applied(o) /\ UNCHANGED <<errors, faults>>
               \/ fresh' \in {fresh \cup {o.path}, fresh \ {o.path}} /\ Reported(o) /\ Fault
       ELSE Reported(o) /\ UNCHANGED <<tree, tracker, fresh, faults>>
    /\ UNCHANGED <<src, mode, snap, plan, pc, runs>>

\* (mutant) what has been removed for a copy that fails is not missed
CopyFailsSilently(o) ==
    /\ Current(o) /\ ready /\ Fault /\ Applied(o)
    /\ UNCHANGED <<src, tree, mode, fresh, snap, plan, tracker, errors, pc, runs>>

\* A copy under way leaves part of a file, dated today.
CutOff(o) ==
    /\ Current(o) /\ ready /\ CanCopy(o)
    /\ tree' = [tree EXCEPT ![o.path] = Torn] /\ fresh' = fresh \ {o.path}

CopyFails(o) ==
    /\ Current(o) /\ ready /\ Fault /\ Reported(o)
    /\ UNCHANGED <<tree, fresh>> \/ CutOff(o)
    /\ UNCHANGED <<src, mode, snap, plan, tracker, pc, runs>>

\* applyDelete
DeleteFile(o) ==
    /\ Current(o) /\ o.act = "delete"
    /\ \/ /\ tree[o.path] # Absent /\ tree' = Removed(tree, o.path)
          /\ Applied(o) /\ UNCHANGED <<errors, faults>>
       \/ /\ IF tree[o.path] # Absent THEN Fault ELSE UNCHANGED faults
          /\ Reported(o) /\ UNCHANGED tree
    /\ UNCHANGED <<src, mode, fresh, snap, plan, tracker, pc, runs>>

\* applyMove; the tracker is not told where the file is now.
MoveFile(o) ==
    LET made == WithParents(tree, o.path)
        may  == CanMakeParents(tree, o.path) /\ made[o.path] = Absent /\ IsFile(made, o.from)
    IN  /\ Current(o) /\ o.act = "move"
        /\ \/ /\ may /\ tree' = [made EXCEPT ![o.path] = tree[o.from], ![o.from] = Absent]
              /\ Applied(o) /\ UNCHANGED <<errors, faults>>
           \/ /\ IF may THEN Fault ELSE UNCHANGED faults
              /\ tree' = TryWithParents(tree, o.path) /\ Reported(o)
        /\ UNCHANGED <<src, mode, fresh, snap, plan, tracker, pc, runs>>

Apply == \E o \in todo : \/ PrepareAdd(o) \/ KeepDestination(o) \/ RemoveOld(o) \/ CopyFile(o)
                         \/ CopyFails(o) \/ DeleteFile(o) \/ MoveFile(o)

Finish ==
    /\ pc = "execute" /\ todo = {} /\ pc' = "done"
    /\ UNCHANGED <<src, tree, mode, fresh, snap, plan, todo, ready, tracker, errors, runs, faults>>

\* The process dies.
Crash ==
    /\ pc = "execute" /\ Fault /\ pc' = "idle"
    /\ UNCHANGED <<tree, fresh>> \/ \E o \in todo : CutOff(o)
    /\ UNCHANGED <<src, mode, snap, plan, todo, ready, tracker, errors, runs>>

Next == Compare \/ Apply \/ Finish \/ Crash

Spec == Init /\ [][Next]_vars

-----------------------------------------------------------------------------
\* What is to be at p: a two-way synchronisation keeps what only the destination has,
\* and the newer of two versions.
Wanted(p) == CASE mode = "push" -> src[p]
               [] mode = "sync" -> IF src[p] = Absent \/ \E o \in plan : o.act = "keep" /\ o.path = p
                                   THEN snap[p] ELSE src[p]

\* The copies o whose seeded origin an operation before o rewrites, with nothing else
\* written in between that the tracker would be told of.
Writes(o) == o.act = "add" \/ Replaces(o)
Stale(o) ==
    /\ Writes(o)
    /\ LET origin == Seeded(src, snap)[src[o.path]]
       IN  /\ \E w \in plan : w.path = origin /\ origin < o.path /\ Replaces(w)
           /\ \A w \in plan : Writes(w) /\ src[w.path] = src[o.path] /\ w.path < origin
                              => w.path \in errors

\* The paths an operation is about, and those that may not be as wanted after it.
Touched(o) == {o.path} \cup (IF o.act = "move" THEN {o.from} ELSE {})
Excused == UNION {Touched(o) : o \in {x \in plan : x.path \in errors \/ Stale(x)}}

TypeOK ==
    /\ src \in [Path -> Content \cup {Absent}] /\ snap \in Listing
    /\ tree \in Tree /\ WellFormed(tree)
    /\ mode \in {"push", "sync"} /\ fresh \subseteq Path
    /\ plan \subseteq Operation /\ todo \subseteq plan
    /\ tracker \in [Content -> Path \cup {0}] /\ errors \subseteq Path
    /\ ready \in BOOLEAN /\ (pc = "execute" /\ ready => \E o \in todo : Current(o) /\ Writes(o))
    /\ pc \in {"idle", "execute", "done"} /\ runs \in 0..MaxRuns /\ faults \in 0..MaxFaults

\* After a run the destination is what the mode asks for, but for the operations that
\* are reported as errors and for the copies of files the run itself has rewritten
\* (EfficientSyncExecutor.execute, which goes on after an error).
DeliveredUnlessStale ==
    pc = "done" => \A p \in Path \ Excused : ListingOf(tree)[p] = Wanted(p)

\* Another run, if it reports no error either, leaves nothing to be done by a third:
\* it mends what the first has copied from the wrong place.
SecondRunMends ==
    pc = "done" /\ runs > 1 /\ faults = 0 /\ errors = {} =>
        \A p \in Path : ListingOf(tree)[p] = Wanted(p)

\* A file no operation is about is not touched, and at most the one being replaced is
\* missing or incomplete without an error that says so (removeItem before copyItem).
LossIsReported ==
    pc # "idle" =>
        /\ \A p \in Path : (\A o \in plan : p \notin Touched(o)) => ListingOf(tree)[p] = snap[p]
        /\ \A p \in Path : src[p] # Absent /\ snap[p] # Absent /\ tree[p] = Absent =>
               p \in errors \/ (ready /\ \E o \in todo : Current(o) /\ o.path = p)

\* Where nothing fails, an error means that a file is to be where a directory is or was,
\* or the other way round: what the tracker knows can be copied.
ErrorsOnlyWhereBlocked ==
    faults = 0 => \A p \in errors : \/ \E q \in Above[p] : IsFile(tree, q) \/ snap[q] # Absent
                                    \/ tree[p] = Dir

\* A file is fetched from the source only if the destination has its content nowhere but
\* in files that are to be moved or deleted.
FetchedOnlyIfMissing ==
    [][\A c \in Content : pc = "execute" /\ tracker[c] = 0 /\ tracker'[c] # 0 =>
           \A p \in Path : tree[p] = c => \/ p \in Deleted(src, snap)
                                          \/ \E o \in plan : o.act = "move" /\ o.path = p]_vars
=============================================================================
