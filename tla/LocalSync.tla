------------------------------- MODULE LocalSync -------------------------------
(***************************************************************************)
(* A synchronisation of two local trees (Synchronizer): both are scanned,  *)
(* the snapshots compared (ComparisonEngine), operations planned from the  *)
(* differences, in one direction (SyncPlanner) or by a strategy for        *)
(* conflicts in two (ConflictDetector, ConflictResolver), and carried out  *)
(* one by one (SyncExecutor).  A user may synchronise again.               *)
(***************************************************************************)
EXTENDS Comparison

CONSTANTS Starts,     \* the pairs of trees to start from
          Modes,      \* \subseteq Mode
          Options,    \* the sets of options to start with
          MaxRuns,    \* how often one synchronises
          MaxFaults   \* how many calls fail, or processes die

Side == {"a", "b"}    \* source and destination, when there is a direction
Mode == {"oneWay", "newest", "sourceWins", "destinationWins", "error"}
Option == {"deleteExtraFiles", "dryRun", "verifyAfterSync"}

Other(s) == IF s = "a" THEN "b" ELSE "a"

ASSUME StartsAssumption ==
    Starts \subseteq {t \in [Side -> Tree] : WellFormed(t["a"]) /\ WellFormed(t["b"])}
\* What lies above a path lies one in the other.
ASSUME ChainAssumption ==
    \A p \in Path : \A q, r \in Above[p] : q = r \/ q \in Above[r] \/ r \in Above[q]
ASSUME ModesAssumption == Modes \subseteq Mode /\ Options \subseteq SUBSET Option
ASSUME BoundsAssumption == MaxRuns \in Nat /\ MaxFaults \in Nat

VARIABLES tree,      \* side -> its tree
          newer,     \* path -> the side whose file has the later date, "same" if neither
          mode, options,
          start,     \* the trees when this run began
          dates,     \* newer, and the same for what else both have, as this run read it
          missed,    \* side -> what the scan passed over
          plan,      \* the operations planned
          todo,      \* those still to be executed
          ready,     \* the path room has been made at for a copy, or is made when it dies; or 0
          errors,    \* result.errors, as the set of their operations
          pc, runs, faults

vars == <<tree, newer, mode, options, start, dates, missed, plan, todo, ready, errors, pc, runs, faults>>

\* deleteFile and deleteDirectory do the same.  step is the part of a one-way plan an
\* operation belongs to.
Operation == [act: {"copy", "createDirectory", "delete"}, to: Side, path: Path, step: 1..3]

-----------------------------------------------------------------------------
(* What the two snapshots have in them, S being side -> snapshot           *)

\* What could be read.
Snapshot(s, t, m) == [p \in Path |-> IF p \in m[s] THEN Absent ELSE t[s][p]]

Unscanned == Unreadable \cup {{p} \cup Below(p) : p \in Path}

OnlyIn(s, S) == Missing(S[s], S[Other(s)])
Redated(date) == {p \in Path : date[p] # "same"}
Unlike(S, date) == Modified(S["a"], S["b"], Redated(date))

-----------------------------------------------------------------------------
(* SyncPlanner.planUnidirectional and the filter of syncUnidirectional     *)

Op(act, s, p, i) == [act |-> act, to |-> s, path |-> p, step |-> i]

Additions(S) ==
    {Op(IF S["a"][p] = Dir THEN "createDirectory" ELSE "copy", "b", p, 1) : p \in OnlyIn("a", S)}

\* (mutant) what only the destination has is deleted in any case
DeletionsUnfiltered(S) == {Op("delete", "b", p, 2) : p \in OnlyIn("b", S)}

Deletions(S) == IF "deleteExtraFiles" \in options THEN {Op("delete", "b", p, 2) : p \in OnlyIn("b", S)}
                ELSE {}

\* A modified item is what it is at the destination; a directory is left.
Updates(S, date) == {Op("copy", "b", p, 3) : p \in {q \in Unlike(S, date) : S["b"][q] # Dir}}

OneWayPlan(S, date) == Additions(S) \cup Deletions(S) \cup Updates(S, date)

(* ConflictDetector.detectConflicts: files of one content are no conflict  *)
(* whatever their dates, nor are two directories.                          *)
Differences(S, date) == OnlyIn("a", S) \cup OnlyIn("b", S) \cup Unlike(S, date)
Diverged(S, date) == {p \in Unlike(S, date) : S["a"][p] # S["b"][p]}

(* ConflictResolver: the side whose version is taken                       *)

\* (mutant) of two versions the older is taken
WinnerOlder(S, date, p) ==
    IF \/ mode = "sourceWins"
       \/ mode = "newest" /\ p \notin OnlyIn("b", S) /\ (p \in OnlyIn("a", S) \/ date[p] # "a")
    THEN "a" ELSE "b"

Winner(S, date, p) ==
    IF \/ mode = "sourceWins"
       \/ mode = "newest" /\ p \notin OnlyIn("b", S) /\ (p \in OnlyIn("a", S) \/ date[p] = "a")
    THEN "a" ELSE "b"

(* Synchronizer.syncBidirectional, its operations                          *)
Resolution(S, w, p) ==
    Op(IF S[w][p] = Absent THEN "delete" ELSE IF S[w][p] = Dir THEN "createDirectory" ELSE "copy",
       Other(w), p, 1)

TwoWayPlan(S, date) ==
    {Resolution(S, Winner(S, date, p), p) : p \in OnlyIn("a", S) \cup OnlyIn("b", S) \cup Diverged(S, date)}

-----------------------------------------------------------------------------
\* Where two files are not alike one side has the later date, or neither.  The dates of
\* directories change with what is in them and are read when they are needed.
Dates(t) ==
    {d \in [Path -> Side \cup {"same"}] :
        \A p \in Path : Absent \in {t["a"][p], t["b"][p]} \/ {t["a"][p], t["b"][p]} = {Dir}
                        => d[p] = "same"}

DatesRead == {d \in Dates(tree) : \A p \in BothFiles(tree["a"], tree["b"]) : d[p] = newer[p]}

Init ==
    /\ tree \in Starts /\ mode \in Modes /\ options \in Options
    /\ newer \in {d \in Dates(tree) : \A p \in Path \ BothFiles(tree["a"], tree["b"]) : d[p] = "same"}
    /\ start = tree /\ dates = newer /\ missed = [s \in Side |-> {}]
    /\ plan = {} /\ todo = {} /\ ready = 0 /\ errors = {}
    /\ pc = "idle" /\ runs = 0 /\ faults = 0

Fault == faults < MaxFaults /\ faults' = faults + 1

\* A scan of both sides; a fault makes one of them incomplete.
Scan(m) ==
    \/ m = [s \in Side |-> {}] /\ UNCHANGED faults
    \/ Fault /\ \E s \in Side, u \in Unscanned : m = [r \in Side |-> IF r = s THEN u ELSE {}]

\* Both trees are scanned and compared, the operations planned.
Compare ==
    /\ pc # "execute" /\ pc # "verify" /\ runs < MaxRuns
    /\ runs' = runs + 1
    /\ start' = tree /\ ready' = 0 /\ errors' = {}
    /\ dates' \in DatesRead
    /\ \E m \in [Side -> Unscanned \cup {{}}] : Scan(m) /\ missed' = m
    /\ LET S == [s \in Side |-> Snapshot(s, tree, missed')]
       IN  /\ plan' = IF mode = "oneWay" THEN OneWayPlan(S, dates')
                      ELSE IF mode = "error" THEN {} ELSE TwoWayPlan(S, dates')
           /\ todo' = IF "dryRun" \in options THEN {} ELSE plan'
           /\ pc' = IF mode = "error" /\ OnlyIn("a", S) \cup OnlyIn("b", S) \cup Diverged(S, dates') # {}
                    THEN "thrown" ELSE "execute"
    /\ UNCHANGED <<tree, newer, mode, options>>

\* A one-way plan is executed in order: what is new by path, deletions the other way
\* round, modifications by path; a two-way plan in the order of a Set of paths.
Precedes(x, o) ==
    \/ x.step < o.step
    \/ x.step = o.step /\ (IF o.step = 2 THEN x.path > o.path ELSE x.path < o.path)

Current(o) ==
    /\ pc = "execute" /\ o \in todo
    /\ ready # 0 => o.path = ready
    /\ mode = "oneWay" => \A x \in todo : ~ Precedes(x, o)

\* (mutant) the next operation inherits the room made for this one
AppliedStillReady(o) == todo' = todo \ {o} /\ ready' = ready

Applied(o) == todo' = todo \ {o} /\ ready' = 0

\* SyncExecutor.execute: an operation that throws is recorded, and the next one follows.
Reported(o) == Applied(o) /\ errors' = errors \cup {o}

On(s, t) == tree' = [tree EXCEPT ![s] = t]

\* removeItem of a directory goes through what is in it, and may stop on the way.
PartlyRemoved(t, p) ==
    {[q \in Path |-> IF q \in gone THEN Absent ELSE t[q]] :
        gone \in {D \in SUBSET Below(p) : \A q \in D : Below(q) \subseteq D}}

\* Before a copy the parents are made and what is there removed.
Cleared(o) == IF o.act = "copy" THEN Housed(tree[o.to], o.path) ELSE tree[o.to]

RemovalStops(o) ==
    /\ Fault
    /\ o.act = "copy" => CanHouse(tree[o.to], o.path)
    /\ \E t \in {tree[o.to]} \cup PartlyRemoved(Cleared(o), o.path) : On(o.to, t)

(* executeCopyFile                                                         *)
MakeRoom(o) ==
    LET t == tree[o.to]
    IN  /\ Current(o) /\ o.act = "copy" /\ ready = 0
        /\ \/ /\ CanHouse(t, o.path)
              /\ On(o.to, Removed(Cleared(o), o.path)) /\ ready' = o.path
              /\ UNCHANGED <<todo, errors, faults>>
           \/ RemovalStops(o) /\ Reported(o)
           \/ ~ CanHouse(t, o.path) /\ Reported(o) /\ UNCHANGED <<tree, faults>>
        /\ UNCHANGED <<newer, mode, options, start, dates, missed, plan, pc, runs>>

(* copyItem: a file, or a directory with all that is in it                 *)
Subtree(p) == {p} \cup Below(p)
CanCopy(o) == /\ tree[Other(o.to)][o.path] # Absent /\ tree[o.to][o.path] = Absent
              /\ ParentsExist(tree[o.to], o.path)

Copied(t, from, p) == [q \in Path |-> IF q \in Subtree(p) THEN from[q] ELSE t[q]]

\* ... interrupted at k
PartlyCopied(t, from, p, k) ==
    [q \in Path |-> IF q \notin Subtree(p) \/ k < q THEN t[q]
                    ELSE IF q = k /\ from[k] \in FileData THEN Torn ELSE from[q]]

CopyItem(o) ==
    /\ Current(o) /\ ready # 0
    /\ IF CanCopy(o)
       THEN /\ On(o.to, Copied(tree[o.to], tree[Other(o.to)], o.path)) /\ Applied(o)
            /\ \E d \in {"same", o.to} :   \* some platforms keep the date
                   newer' = [p \in Path |-> IF p \in Subtree(o.path) THEN d ELSE newer[p]]
            /\ UNCHANGED errors
       ELSE Reported(o) /\ UNCHANGED <<tree, newer>>
    /\ UNCHANGED <<mode, options, start, dates, missed, plan, pc, runs, faults>>

\* What has been written of the copy is there, dated now.
Interrupted(o) ==
    /\ Fault /\ CanCopy(o)
    /\ \/ UNCHANGED <<tree, newer>>
       \/ \E k \in Subtree(o.path) :
              /\ On(o.to, PartlyCopied(tree[o.to], tree[Other(o.to)], o.path, k))
              /\ newer' = [p \in Path |-> IF p \in Subtree(o.path) THEN o.to ELSE newer[p]]

\* (mutant) what has been removed for a copy that fails is not missed
CopyFailsSilently(o) ==
    /\ Current(o) /\ ready # 0 /\ Interrupted(o) /\ Applied(o)
    /\ UNCHANGED <<mode, options, start, dates, missed, plan, errors, pc, runs>>

CopyFails(o) ==
    /\ Current(o) /\ ready # 0 /\ Interrupted(o) /\ Reported(o)
    /\ UNCHANGED <<mode, options, start, dates, missed, plan, pc, runs>>

\* executeCreateDirectory: anything of that name will do.
CreateDirectory(o) ==
    LET t == tree[o.to]
    IN  /\ Current(o) /\ o.act = "createDirectory"
        /\ \/ /\ t[o.path] # Absent \/ CanMakeParents(t, o.path)
              /\ IF t[o.path] # Absent THEN UNCHANGED tree
                 ELSE On(o.to, [WithParents(t, o.path) EXCEPT ![o.path] = Dir])
              /\ Applied(o) /\ UNCHANGED <<errors, faults>>
           \/ /\ t[o.path] = Absent
              /\ IF CanMakeParents(t, o.path) THEN Fault ELSE UNCHANGED faults
              /\ Reported(o) /\ UNCHANGED tree
        /\ UNCHANGED <<newer, mode, options, start, dates, missed, plan, pc, runs>>

\* (mutant) what is not there cannot be deleted
DeletePresentItem(o) ==
    /\ Current(o) /\ o.act = "delete"
    /\ \/ /\ tree[o.to][o.path] # Absent
          /\ On(o.to, Removed(tree[o.to], o.path)) /\ Applied(o) /\ UNCHANGED <<errors, faults>>
       \/ tree[o.to][o.path] = Absent /\ Reported(o) /\ UNCHANGED <<tree, faults>>
    /\ UNCHANGED <<newer, mode, options, start, dates, missed, plan, pc, runs>>

\* executeDeleteFile, executeDeleteDirectory: nothing to delete is no error.
DeleteItem(o) ==
    /\ Current(o) /\ o.act = "delete"
    /\ \/ On(o.to, Removed(tree[o.to], o.path)) /\ Applied(o) /\ UNCHANGED <<errors, faults>>
       \/ tree[o.to][o.path] # Absent /\ RemovalStops(o) /\ Reported(o)
    /\ UNCHANGED <<newer, mode, options, start, dates, missed, plan, pc, runs>>

Execute == \E o \in todo : \/ MakeRoom(o) \/ CopyItem(o) \/ CopyFails(o)
                           \/ CreateDirectory(o) \/ DeleteItem(o)

Finish ==
    /\ pc = "execute" /\ todo = {}
    /\ pc' = IF "verifyAfterSync" \in options /\ "dryRun" \notin options THEN "verify" ELSE "done"
    /\ UNCHANGED <<tree, newer, mode, options, start, dates, missed, plan, todo, ready, errors, runs, faults>>

\* verifySync, verifyBidirectional: whatever is different makes the run throw.
Verify ==
    /\ pc = "verify"
    /\ \E m \in [Side -> Unscanned \cup {{}}], d \in DatesRead :
           /\ Scan(m) /\ missed' = [s \in Side |-> missed[s] \cup m[s]]
           /\ pc' = IF Differences([s \in Side |-> Snapshot(s, tree, m)], d) = {} THEN "done" ELSE "thrown"
    /\ UNCHANGED <<tree, newer, mode, options, start, dates, plan, todo, ready, errors, runs>>

\* The process dies.
Crash ==
    /\ pc \in {"execute", "verify"} /\ pc' = "crashed"
    /\ \/ Fault /\ UNCHANGED <<tree, newer, ready>>
       \/ \E o \in todo : Current(o) /\ ready # 0 /\ Interrupted(o) /\ UNCHANGED ready
       \/ \E o \in todo : /\ Current(o) /\ ready = 0 /\ o.act \in {"copy", "delete"}
                          /\ RemovalStops(o) /\ ready' = o.path /\ UNCHANGED newer
    /\ UNCHANGED <<mode, options, start, dates, missed, plan, todo, errors, runs>>

Next == Compare \/ Execute \/ Finish \/ Verify \/ Crash

Spec == Init /\ [][Next]_vars

-----------------------------------------------------------------------------
TypeOK ==
    /\ tree \in [Side -> Tree] /\ \A s \in Side : WellFormed(tree[s])
    /\ start \in [Side -> Tree] /\ (\A s \in Side : WellFormed(start[s]))
    /\ missed \in [Side -> SUBSET Path]
    /\ newer \in [Path -> Side \cup {"same"}] /\ dates \in [Path -> Side \cup {"same"}]
    /\ mode \in Mode /\ options \subseteq Option
    /\ plan \subseteq Operation /\ todo \subseteq plan /\ errors \subseteq plan \ todo
    /\ ready \in Path \cup {0}
    /\ ready # 0 => \E o \in todo : /\ o.path = ready
                                    /\ o.act = "copy" \/ (o.act = "delete" /\ pc = "crashed")
    /\ pc \in {"idle", "execute", "verify", "done", "thrown", "crashed"}
    /\ runs \in 0..MaxRuns /\ faults \in 0..MaxFaults

\* A name that is a file on one side and a directory on the other, and what is in it.
Clash(p) == p \in InBoth(start["a"], start["b"]) /\ {start["a"][p], start["b"][p]} \cap {Dir} # {}
            /\ start["a"][p] # start["b"][p]
Clear(p) == /\ \A q \in Above[p] \cup {p} : ~ Clash(q)
            /\ \A s \in Side : p \notin missed[s]

\* What the mode asks for at a path, of the trees as they were.
Wanted(s, p) ==
    IF mode = "error" \/ (mode = "oneWay" /\ s = "a") THEN start[s][p]
    ELSE IF \/ mode = "destinationWins"
            \/ mode = "oneWay" /\ start["a"][p] = Absent /\ "deleteExtraFiles" \notin options
            \/ mode = "newest" /\ (start["a"][p] = Absent \/ (start["b"][p] # Absent /\ dates[p] # "a"))
         THEN start["b"][p] ELSE start["a"][p]

\* After a run both sides are as the mode, the strategy and the options ask, but for
\* what an error is reported for, what a scan has passed over, and names that are a file
\* on one side and a directory on the other (SyncExecutor.execute goes on after an
\* error, and a two-way plan comes in any order); a dry run changes nothing.
SyncedUnlessBlocked ==
    /\ "dryRun" \in options => tree = start
    /\ pc = "done" /\ "dryRun" \notin options =>
           \A p \in Path : Clear(p) /\ (\A o \in errors : p \notin Subtree(o.path))
                            => \A s \in Side : tree[s][p] = Wanted(s, p)

\* Whatever fails, and wherever a run dies: the version that is to be on both sides is
\* still on the one it comes from (executeCopyFile removes the other first).
WinnerKept ==
    \A p \in Path : Clear(p) /\ pc # "idle" /\ Wanted("a", p) = Wanted("b", p) =>
        \E s \in Side : start[s][p] = Wanted(s, p) /\ tree[s][p] = Wanted(s, p)

\* What is no longer there or no longer the same has been deleted as planned, or is the
\* other side's version now, or is the one in hand, or an error says so.
NothingLostSilently ==
    \A s \in Side, p \in Path : pc # "idle" /\ start[s][p] # Absent /\ tree[s][p] # start[s][p] =>
        \E o \in plan : /\ o.to = s /\ p \in Subtree(o.path)
                        /\ \/ (o.act = "delete" /\ o \notin todo) \/ o \in errors \/ o.path = ready
                           \/ (o.act = "copy" /\ tree[s][o.path] = start[Other(s)][o.path])

\* Where nothing fails, an error means that a name is a file on one side and a directory
\* on the other: parents come before what is in them, whatever the order.
ErrorsOnlyWhereClash ==
    faults = 0 => \A o \in errors : \E q \in Above[o.path] : Clash(q)

=============================================================================
