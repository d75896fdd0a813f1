-------------------------------- MODULE Patching --------------------------------
(***************************************************************************)
(* A patch: made of the differences between two trees (Patch.create), it   *)
(* is a database of operations, what is needed to undo them, and one row   *)
(* of metadata, each written by itself; it is applied to the first tree    *)
(* (Patch.apply, PatchApplicator) and reverted (Patch.revert,              *)
(* PatchReverter).  Every command stops at the first thing that fails, and *)
(* a user may give another.                                                *)
(*                                                                         *)
(* No operation of kind "move" is ever written.                            *)
(***************************************************************************)
EXTENDS Comparison

CONSTANTS Starts,       \* \subseteq [src: Tree, dst: Tree]
          EmptyFiles,   \* the content of no bytes, which SQLite gives back as NULL
          BigFiles,     \* contents over the threshold, of which revert data has no copy
          MaxCommands,  \* how many commands are given
          MaxFaults     \* how many calls fail, or processes die

ASSUME StartsAssumption ==
    Starts \subseteq {s \in [src: Tree, dst: Tree] : WellFormed(s.src) /\ WellFormed(s.dst)}
ASSUME DataAssumption == EmptyFiles \subseteq Content /\ BigFiles \subseteq Content
ASSUME BoundsAssumption == MaxCommands \in Nat /\ MaxFaults \in Nat

VARIABLES src, dst,    \* the trees the patch is made of
          redated,     \* files alike in both with another date
          reversible,  \* revert data is asked for
          tree,        \* the tree the patch is applied to: src at first
          rows,        \* operation -> how many rows of it the patch file has
          captured,    \* paths with a row in revert_data
          meta,        \* the metadata row is there: the file can be opened
          cmd,         \* the command under way
          left,        \* operation -> rows it has still to write, apply or revert
          before,      \* the tree when the command was given
          last, from,  \* how the last command ended, and the one before the current
          commands, faults

patchFile == <<rows, captured, meta>>
vars == <<src, dst, redated, reversible, tree, patchFile, cmd, left, before, last, from,
          commands, faults>>

Outcome == {"none", "created", "createFailed", "applied", "applyFailed", "reverted", "revertFailed"}

-----------------------------------------------------------------------------
(* Patch.create: additions by path, removals the other way round,          *)
(* modifications by path                                                   *)
Operation == [act: {"add", "remove", "modify"}, path: Path]

Plan == {[act |-> "add", path |-> p] : p \in Missing(dst, src)}
        \cup {[act |-> "remove", path |-> p] : p \in Missing(src, dst)}
        \cup {[act |-> "modify", path |-> p] : p \in Modified(src, dst, redated)}

Step(o) == IF o.act = "add" THEN 1 ELSE IF o.act = "remove" THEN 2 ELSE 3

\* (mutant) directories are removed before what is in them
PrecedesByPath(x, o) ==
    Step(x) < Step(o) \/ (Step(x) = Step(o) /\ x.path < o.path)

Precedes(x, o) ==
    \/ Step(x) < Step(o)
    \/ Step(x) = Step(o) /\ (IF o.act = "remove" THEN x.path > o.path ELSE x.path < o.path)

Pending == {o \in Plan : left[o] > 0}

\* Rows are read in the order of sequence_order, backwards to revert.
Current(o) ==
    /\ o \in Pending
    /\ \A x \in Pending : ~ IF cmd = "revert" THEN Precedes(o, x) ELSE Precedes(x, o)

Init ==
    /\ \E s \in Starts : src = s.src /\ dst = s.dst
    /\ redated \in SUBSET {p \in BothFiles(src, dst) : src[p] = dst[p]}
    /\ reversible \in BOOLEAN
    /\ tree = src /\ before = src
    /\ rows = [o \in Plan |-> 0] /\ captured = {} /\ meta = FALSE
    /\ cmd = "none" /\ left = [o \in Plan |-> 0] /\ last = "none" /\ from = "none"
    /\ commands = 0 /\ faults = 0

Fault == faults < MaxFaults /\ faults' = faults + 1

Begin(c) ==
    /\ cmd = "none" /\ commands < MaxCommands
    /\ cmd' = c /\ commands' = commands + 1
    /\ before' = tree /\ from' = last
    /\ UNCHANGED <<src, dst, redated, reversible, tree, patchFile, last, faults>>

End(outcome) == cmd' = "none" /\ last' = outcome

\* A patch is made again, into the same file, when making it has failed.
BeginCreate ==
    /\ Plan # {} /\ last \in {"none", "created", "createFailed"}
    /\ Begin("create") /\ left' = [o \in Plan |-> 1]

BeginApply == meta /\ Begin("apply") /\ left' = rows

BeginRevert == meta /\ Begin("revert") /\ left' = rows

-----------------------------------------------------------------------------
\* RevertDataWriter.captureOriginalFile reads a file where the destination has one.
Capturable(o) == ~ (o.act = "modify" /\ IsFile(dst, o.path) /\ src[o.path] = Dir)

\* (mutant) what is to be modified is not captured
CapturesRemoved(o) == reversible /\ o.act = "remove"

Captures(o) == reversible /\ o.act # "add"

WriteOperation(o) ==
    /\ cmd = "create" /\ Current(o)
    /\ IF Captures(o) /\ ~ Capturable(o)
       THEN End("createFailed") /\ UNCHANGED <<rows, captured, left>>
       ELSE /\ captured' = IF Captures(o) THEN captured \cup {o.path} ELSE captured
            /\ rows' = [rows EXCEPT ![o] = @ + 1]
            /\ left' = [left EXCEPT ![o] = 0]
            /\ UNCHANGED <<cmd, last>>
    /\ UNCHANGED <<src, dst, redated, reversible, tree, meta, before, from, commands, faults>>

\* The metadata row has a fixed id: into a patch that is complete it cannot be written.
WriteMetadata ==
    /\ cmd = "create" /\ Pending = {}
    /\ meta' = TRUE /\ End(IF meta THEN "createFailed" ELSE "created")
    /\ UNCHANGED <<src, dst, redated, reversible, tree, rows, captured, left, before, from,
                   commands, faults>>

\* Something fails, or the process dies: what is in the file stays.
CreateStops ==
    /\ cmd = "create" /\ Fault /\ End("createFailed")
    /\ \E o \in Operation : \/ captured' = captured
                            \/ Current(o) /\ Captures(o) /\ captured' = captured \cup {o.path}
    /\ UNCHANGED <<src, dst, redated, reversible, tree, rows, meta, left, before, from, commands>>

-----------------------------------------------------------------------------
(* PatchApplicator and PatchReverter                                       *)

\* What the patch file has of a file's content.
HasContent(c) == c \notin EmptyFiles

\* (mutant) of what is modified only permissions and date are captured
HasRemovedOriginal(o) == o.act = "remove" /\ IsFile(src, o.path) /\ HasContent(src[o.path])

HasOriginal(o) == /\ IsFile(src, o.path) /\ HasContent(src[o.path]) /\ src[o.path] \notin BigFiles
                  /\ o.act = "modify" => dst[o.path] # Dir

\* Only permissions and date are set: what is there stays.
KeepsItem(o) == o.act = "modify" /\ (IF cmd = "apply" THEN dst[o.path] = Dir ELSE ~ HasOriginal(o))

\* What is at the path then, if not.
Puts(o) ==
    IF o.act = (IF cmd = "apply" THEN "remove" ELSE "add") THEN Absent
    ELSE IF cmd = "apply" THEN dst[o.path]
    ELSE IF HasOriginal(o) THEN src[o.path] ELSE Dir

MakesParents(o) == o.act = (IF cmd = "apply" THEN "add" ELSE "remove")

\* Content for a file; a row in revert_data.
HasData(o) ==
    IF cmd = "apply" THEN o.act # "remove" /\ IsFile(dst, o.path) => HasContent(dst[o.path])
    ELSE o.act # "add" => o.path \in captured

\* The parents are made first; reverting looks for its data before that.
Prepared(o) ==
    IF MakesParents(o) /\ CanHouse(tree, o.path) /\ (cmd = "revert" => HasData(o))
    THEN Housed(tree, o.path) ELSE tree

Possible(o) ==
    LET t == Prepared(o)
    IN  /\ HasData(o) /\ (MakesParents(o) => CanHouse(tree, o.path))
        /\ IF KeepsItem(o) THEN t[o.path] # Absent
           ELSE /\ Puts(o) = Dir => t[o.path] = Absent /\ ParentsExist(t, o.path)
                /\ Puts(o) \in FileData => Writable(t, o.path)

\* (mutant) directories that a removal leaves empty go too, as a network push has it
DonePruning(o) ==
    IF KeepsItem(o) THEN tree
    ELSE IF Puts(o) = Absent THEN Pruned(Removed(tree, o.path), o.path)
    ELSE [Prepared(o) EXCEPT ![o.path] = Puts(o)]

\* A directory is removed after what is in it, and is empty then unless somebody else
\* has put something there: there is no removing a part of it.
Done(o) ==
    IF KeepsItem(o) THEN tree
    ELSE IF Puts(o) = Absent THEN Removed(tree, o.path)
    ELSE [Prepared(o) EXCEPT ![o.path] = Puts(o)]

\* (mutant) an operation that cannot be carried out is passed over
ExecuteAnyway(o) ==
    /\ cmd \in {"apply", "revert"} /\ Current(o)
    /\ tree' = (IF Possible(o) THEN Done(o) ELSE Prepared(o)) /\ left' = [left EXCEPT ![o] = @ - 1]
    /\ UNCHANGED <<cmd, last>>
    /\ UNCHANGED <<src, dst, redated, reversible, patchFile, before, from, commands, faults>>

Execute(o) ==
    /\ cmd \in {"apply", "revert"} /\ Current(o)
    /\ IF Possible(o)
       THEN /\ tree' = Done(o) /\ left' = [left EXCEPT ![o] = @ - 1]
            /\ UNCHANGED <<cmd, last>>
       ELSE /\ tree' = Prepared(o) /\ UNCHANGED left
            /\ End(IF cmd = "apply" THEN "applyFailed" ELSE "revertFailed")
    /\ UNCHANGED <<src, dst, redated, reversible, patchFile, before, from, commands, faults>>

\* A call fails, or the process dies, before, during or after what the operation does:
\* permissions and date are set last.
ExecuteStops(o) ==
    /\ cmd \in {"apply", "revert"} /\ Current(o) /\ Fault
    /\ \/ tree' \in {tree, Prepared(o)}
       \/ Possible(o) /\ tree' = Done(o)
       \/ Possible(o) /\ ~ KeepsItem(o) /\ Puts(o) \in Content
             /\ tree' = [Prepared(o) EXCEPT ![o.path] = Torn]
    /\ End(IF cmd = "apply" THEN "applyFailed" ELSE "revertFailed")
    /\ UNCHANGED <<src, dst, redated, reversible, patchFile, left, before, from, commands>>

Finish ==
    /\ cmd \in {"apply", "revert"} /\ Pending = {}
    /\ End(IF cmd = "apply" THEN "applied" ELSE "reverted")
    /\ UNCHANGED <<src, dst, redated, reversible, tree, patchFile, left, before, from, commands, faults>>

Next == \/ BeginCreate \/ BeginApply \/ BeginRevert
        \/ WriteMetadata \/ CreateStops \/ Finish
        \/ \E o \in Plan : WriteOperation(o) \/ Execute(o) \/ ExecuteStops(o)

Spec == Init /\ [][Next]_vars

-----------------------------------------------------------------------------
TypeOK ==
    /\ src \in Tree /\ WellFormed(src) /\ dst \in Tree /\ WellFormed(dst)
    /\ redated \subseteq BothFiles(src, dst) /\ reversible \in BOOLEAN
    /\ tree \in Tree /\ WellFormed(tree) /\ before \in Tree
    /\ rows \in [Plan -> Nat] /\ left \in [Plan -> Nat]
    /\ (cmd \in {"apply", "revert"} => \A o \in Plan : left[o] <= rows[o])
    /\ captured \subseteq Path /\ meta \in BOOLEAN
    /\ cmd \in {"none", "create", "apply", "revert"} /\ last \in Outcome /\ from \in Outcome
    /\ commands \in 0..MaxCommands /\ faults \in 0..MaxFaults

\* A name that is a file in one tree and a directory in the other, and what is in it.
Clash(p) == p \in InBoth(src, dst) /\ src[p] # dst[p] /\ p \notin BothFiles(src, dst)
Clear(p) == \A q \in Above[p] \cup {p} : ~ Clash(q)

\* The contents a revert cannot bring back (RevertDataWriter's threshold).
Lossy(p) == src[p] \in BigFiles \cup EmptyFiles /\ (dst[p] # src[p] \/ p \in redated)

\* Whatever has been applied or reverted so far, and wherever it stopped: a path holds
\* what one of the two trees has there, or a file whose writing was cut off, of those the
\* patch is about, or a directory where the patch file lacks the content.  So what both
\* trees have in common is let alone (PatchApplicator, PatchReverter).
NothingForeign ==
    \A p \in Path :
        \/ tree[p] \in {src[p], dst[p]}
        \/ tree[p] = Torn /\ faults > 0 /\ \E o \in Plan : o.path = p
        \/ tree[p] = Dir /\ Lossy(p)

\* A patch that has been applied to its end has made the one tree into the other, at
\* whatever point earlier commands have stopped (Patch.apply begins again at the first
\* operation).
AppliedMeansTransformed ==
    last = "applied" /\ cmd = "none" => \A p \in Path : Clear(p) => tree[p] = dst[p]

\* A patch that has been reverted to its end, be it after an application that stopped,
\* has brought the first tree back, but for contents that the patch file does not have.
RevertRestores ==
    last = "reverted" /\ cmd = "none" =>
        \A p \in Path : Clear(p) /\ ~ Lossy(p) => tree[p] = src[p]

\* Where nothing fails, and the patch was made once, reverting what was applied can only
\* be refused for want of revert data, and then it has changed nothing: what needs the
\* data comes last in a patch, and a revert begins at its end.
RefusedRevertIsHarmless ==
    /\ last = "revertFailed" /\ cmd = "none" /\ from = "applied" /\ faults = 0
    /\ \A p \in Path : ~ Clash(p)
    /\ \A o \in Plan : rows[o] = 1
    => ~ reversible /\ tree = before

\* A patch file that can be opened has every operation, and the revert data asked for,
\* wherever making it was cut off (the metadata row is written last).
OpenedPatchIsWhole ==
    meta => \A o \in Plan : rows[o] >= 1 /\ (reversible /\ o.act # "add" => o.path \in captured)
=============================================================================
