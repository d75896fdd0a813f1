----------------------------- MODULE PatchingProofs -----------------------------
(***************************************************************************)
(* What making, applying and reverting a patch amount to, for any two      *)
(* trees, any number of commands and wherever they stop.                   *)
(***************************************************************************)
EXTENDS Patching, FileTreeProofs

inputs == <<src, dst, redated, reversible>>

\* TypeOK in parts.
InputType ==
    /\ src \in Tree /\ WellFormed(src) /\ dst \in Tree /\ WellFormed(dst)
    /\ redated \subseteq BothFiles(src, dst) /\ reversible \in BOOLEAN
TreeType == tree \in Tree /\ WellFormed(tree) /\ before \in Tree
RowsType ==
    /\ rows \in [Plan -> Nat] /\ left \in [Plan -> Nat]
    /\ (cmd \in {"apply", "revert"} => \A o \in Plan : left[o] <= rows[o])
    /\ captured \subseteq Path /\ meta \in BOOLEAN
CommandType ==
    /\ cmd \in {"none", "create", "apply", "revert"} /\ last \in Outcome /\ from \in Outcome
    /\ commands \in 0..MaxCommands /\ faults \in 0..MaxFaults

LEMMA TypeParts == TypeOK <=> InputType /\ TreeType /\ RowsType /\ CommandType
  BY DEF TypeOK, InputType, TreeType, RowsType, CommandType

LEMMA TypeNext == InputType' /\ TreeType' /\ RowsType' /\ CommandType' => TypeOK'
  BY DEF TypeOK, InputType, TreeType, RowsType, CommandType

\* The trees a patch is made of stay, and with them all that is said of them.
LEMMA InputsStay ==
  ASSUME UNCHANGED inputs
  PROVE  /\ Plan' = Plan /\ (InputType => InputType')
         /\ \A p \in Path : (Clear(p)' <=> Clear(p)) /\ (Lossy(p)' <=> Lossy(p))
<1>1. Plan' = Plan
  BY DEF inputs, Plan, Missing, Modified, InBoth, BothFiles, IsFile
<1>2. InputType => InputType'
  BY DEF inputs, InputType, BothFiles, IsFile
<1>3. \A p \in Path : Clash(p)' <=> Clash(p)
  BY DEF inputs, Clash, InBoth, BothFiles, IsFile
<1>4. \A p \in Path : Clear(p)' <=> Clear(p)
  BY <1>3, WhereThingsLie DEF Clear
<1>5. \A p \in Path : Lossy(p)' <=> Lossy(p)
  BY DEF inputs, Lossy
<1> QED
  BY <1>1, <1>2, <1>4, <1>5

LEMMA InputsAreFixed == Next => UNCHANGED inputs
  BY DEF Next, BeginCreate, BeginApply, BeginRevert, Begin, WriteMetadata, CreateStops, Finish,
         WriteOperation, Execute, ExecuteStops, inputs

\* What an operation of the plan is about.
LEMMA Operations ==
  ASSUME NEW o \in Plan
  PROVE  /\ o.path \in Path /\ o.act \in {"add", "remove", "modify"}
         /\ o.act = "add" => src[o.path] = Absent /\ dst[o.path] # Absent
         /\ o.act = "remove" => src[o.path] # Absent /\ dst[o.path] = Absent
         /\ o.act = "modify" =>
               /\ src[o.path] # Absent /\ dst[o.path] # Absent
               /\ src[o.path] # dst[o.path]
                  \/ (o.path \in redated /\ IsFile(src, o.path) /\ IsFile(dst, o.path))
<1>1. CASE o \in {[act |-> "add", path |-> p] : p \in Missing(dst, src)}
  BY <1>1 DEF Missing
<1>2. CASE o \in {[act |-> "remove", path |-> p] : p \in Missing(src, dst)}
  BY <1>2 DEF Missing
<1>3. CASE o \in {[act |-> "modify", path |-> p] : p \in Modified(src, dst, redated)}
  <2>1. PICK p \in Modified(src, dst, redated) : o = [act |-> "modify", path |-> p]
    BY <1>3
  <2>2. /\ p \in Path /\ src[p] # Absent /\ dst[p] # Absent
        /\ src[p] # dst[p] \/ (p \in redated /\ IsFile(src, p) /\ IsFile(dst, p))
    BY EntryAssumption DEF Modified, InBoth, BothFiles, IsFile
  <2> QED
    BY <2>1, <2>2
<1> QED
  BY <1>1, <1>2, <1>3 DEF Plan

LEMMA UntouchedAlike ==
  ASSUME NEW p \in Path, \A o \in Plan : o.path # p
  PROVE  src[p] = dst[p]
<1>1. /\ p \notin Missing(dst, src) /\ p \notin Missing(src, dst)
      /\ p \notin Modified(src, dst, redated)
  <2>1. \A a \in {"add", "remove", "modify"} : [act |-> a, path |-> p].path = p
    OBVIOUS
  <2> QED
    BY <2>1 DEF Plan
<1> QED
  BY <1>1 DEF Missing, Modified, InBoth

-----------------------------------------------------------------------------
(* Types                                                                   *)

LEMMA PreparedType ==
  ASSUME TypeOK, NEW o \in Plan
  PROVE  Prepared(o) \in Tree /\ WellFormed(Prepared(o))
  BY TypeParts, Operations, HousedWellFormed DEF Prepared, TreeType

LEMMA PutType ==
  ASSUME TypeOK, NEW o \in Plan, Possible(o), ~ KeepsItem(o), Puts(o) # Absent, NEW e \in Entry,
         Puts(o) = Dir \/ Puts(o) \in FileData
  PROVE  /\ [Prepared(o) EXCEPT ![o.path] = e] \in Tree
         /\ WellFormed([Prepared(o) EXCEPT ![o.path] = e])
<1>1. o.path \in Path /\ Prepared(o) \in Tree /\ WellFormed(Prepared(o))
  BY Operations, PreparedType
<1>2. ParentsExist(Prepared(o), o.path) /\ Prepared(o)[o.path] # Dir
  BY EntryAssumption DEF Possible, Writable
<1> QED
  BY <1>1, <1>2, TreeUpdate, ExtendedWellFormed

LEMMA PutsType ==
  ASSUME TypeOK, NEW o \in Plan
  PROVE  Puts(o) \in Entry /\ (Puts(o) # Absent => Puts(o) = Dir \/ Puts(o) \in FileData)
<1>1. src[o.path] \in Entry /\ dst[o.path] \in Entry
  BY TypeParts, Operations DEF InputType, Tree
<1> QED
  BY <1>1 DEF Puts, Entry

LEMMA DoneType ==
  ASSUME TypeOK, NEW o \in Plan, Possible(o)
  PROVE  Done(o) \in Tree /\ WellFormed(Done(o))
<1>0. tree \in Tree /\ WellFormed(tree) /\ o.path \in Path
  BY TypeParts, Operations DEF TreeType
<1>1. CASE KeepsItem(o)
  BY <1>0, <1>1 DEF Done
<1>2. CASE ~ KeepsItem(o) /\ Puts(o) = Absent
  BY <1>0, <1>2, TreeOperations, RemovedWellFormed DEF Done
<1>3. CASE ~ KeepsItem(o) /\ Puts(o) # Absent
  BY <1>3, PutsType, PutType DEF Done
<1> QED
  BY <1>1, <1>2, <1>3

LEMMA TreeNext == TypeOK /\ Next => TreeType'
<1> SUFFICES ASSUME TypeOK, Next PROVE TreeType'
  OBVIOUS
<1>0. TreeType
  BY TypeParts
<1>1. CASE tree' = tree /\ before' \in {before, tree}
  BY <1>0, <1>1 DEF TreeType
<1>2. ASSUME NEW o \in Plan, Execute(o)
      PROVE  TreeType'
  <2>1. before' = before /\ (tree' = Prepared(o) \/ (Possible(o) /\ tree' = Done(o)))
    BY <1>2 DEF Execute
  <2> QED
    BY <1>0, <2>1, PreparedType, DoneType DEF TreeType
<1>3. ASSUME NEW o \in Plan, ExecuteStops(o)
      PROVE  TreeType'
  <2>1. CASE tree' \in {tree, Prepared(o)} \/ (Possible(o) /\ tree' = Done(o))
    BY <1>0, <1>3, <2>1, PreparedType, DoneType DEF TreeType, ExecuteStops
  <2>2. CASE /\ Possible(o) /\ ~ KeepsItem(o) /\ Puts(o) \in Content
             /\ tree' = [Prepared(o) EXCEPT ![o.path] = Torn]
    <3>1. Puts(o) \in FileData /\ Puts(o) # Absent /\ Torn \in Entry
      BY <2>2, EntryAssumption DEF FileData, Entry
    <3> QED
      BY <1>0, <1>3, <2>2, <3>1, PutType DEF TreeType, ExecuteStops
  <2> QED
    BY <1>3, <2>1, <2>2 DEF ExecuteStops
<1> QED
  BY <1>1, <1>2, <1>3 DEF Next, BeginCreate, BeginApply, BeginRevert, Begin, WriteMetadata,
                          CreateStops, Finish, WriteOperation

LEMMA RowsNext == TypeOK /\ Next => RowsType'
<1> SUFFICES ASSUME TypeOK, Next PROVE RowsType'
  OBVIOUS
<1>0. RowsType /\ CommandType
  BY TypeParts
<1>1. Plan' = Plan
  BY InputsAreFixed, InputsStay
<1>2. CASE BeginCreate
  <2>1. cmd' = "create" /\ left' = [o \in Plan |-> 1] /\ UNCHANGED <<rows, captured, meta>>
    BY <1>2 DEF BeginCreate, Begin, patchFile
  <2> QED
    BY <1>0, <1>1, <2>1 DEF RowsType
<1>3. CASE BeginApply \/ BeginRevert
  <2>1. left' = rows /\ UNCHANGED <<rows, captured, meta>>
    BY <1>3 DEF BeginApply, BeginRevert, Begin, patchFile
  <2> QED
    BY <1>0, <1>1, <2>1 DEF RowsType
<1>4. CASE WriteMetadata \/ Finish
  <2>1. cmd' = "none" /\ meta' \in BOOLEAN /\ UNCHANGED <<rows, captured, left>>
    BY <1>0, <1>4 DEF WriteMetadata, Finish, End, patchFile, RowsType
  <2> QED
    BY <1>0, <1>1, <2>1 DEF RowsType
<1>5. CASE CreateStops
  <2>1. cmd' = "none" /\ UNCHANGED <<rows, meta, left>>
    BY <1>5 DEF CreateStops, End
  <2>2. captured' \subseteq Path
    <3>1. PICK o \in Operation : captured' \in {captured, captured \cup {o.path}}
      BY <1>5 DEF CreateStops
    <3> QED
      BY <1>0, <3>1 DEF RowsType, Operation
  <2> QED
    BY <1>0, <1>1, <2>1, <2>2 DEF RowsType
<1>6. ASSUME NEW o \in Plan, WriteOperation(o)
      PROVE  RowsType'
  <2>1. o.path \in Path /\ cmd = "create" /\ cmd' \in {"create", "none"} /\ meta' = meta
    BY <1>6, Operations DEF WriteOperation, End
  <2>2. captured' \subseteq Path
    BY <1>0, <1>6, <2>1 DEF WriteOperation, RowsType
  <2>3. rows' \in [Plan -> Nat] /\ left' \in [Plan -> Nat]
    BY <1>0, <1>6 DEF WriteOperation, RowsType
  <2> QED
    BY <1>0, <1>1, <2>1, <2>2, <2>3 DEF RowsType
<1>7. ASSUME NEW o \in Plan, Execute(o) \/ ExecuteStops(o)
      PROVE  RowsType'
  <2>1. /\ cmd \in {"apply", "revert"} /\ left[o] > 0 /\ UNCHANGED <<rows, captured, meta>>
        /\ left' = left \/ left' = [left EXCEPT ![o] = @ - 1]
    BY <1>7 DEF Execute, ExecuteStops, Current, Pending, patchFile
  <2>2. left' \in [Plan -> Nat] /\ \A x \in Plan : left'[x] <= rows[x]
    BY <1>0, <2>1 DEF RowsType
  <2> QED
    BY <1>0, <1>1, <2>1, <2>2 DEF RowsType
<1> QED
  BY <1>2, <1>3, <1>4, <1>5, <1>6, <1>7 DEF Next

LEMMA CommandNext == TypeOK /\ Next => CommandType'
<1> SUFFICES ASSUME TypeOK, Next PROVE CommandType'
  OBVIOUS
<1>0. CommandType
  BY TypeParts
<1>1. ASSUME NEW c \in {"create", "apply", "revert"}, Begin(c)
      PROVE  CommandType'
  BY <1>0, <1>1, BoundsAssumption DEF Begin, CommandType
<1>2. CASE UNCHANGED <<cmd, last, from, commands, faults>>
  BY <1>0, <1>2 DEF CommandType
<1>3. ASSUME NEW how \in Outcome, End(how), UNCHANGED <<from, commands>>, faults' = faults \/ Fault
      PROVE  CommandType'
  BY <1>0, <1>3, BoundsAssumption DEF End, Fault, CommandType
<1>4. CASE BeginCreate \/ BeginApply \/ BeginRevert
  BY <1>1, <1>4 DEF BeginCreate, BeginApply, BeginRevert
<1>5. CASE WriteMetadata \/ CreateStops \/ Finish
  <2>1. UNCHANGED <<from, commands>> /\ (faults' = faults \/ Fault)
    BY <1>5 DEF WriteMetadata, CreateStops, Finish
  <2>2. \E how \in Outcome : End(how)
    <3>1. CASE WriteMetadata
      BY <3>1 DEF WriteMetadata, Outcome
    <3>2. CASE CreateStops
      BY <3>2 DEF CreateStops, Outcome
    <3>3. CASE Finish
      BY <3>3 DEF Finish, Outcome
    <3> QED
      BY <1>5, <3>1, <3>2, <3>3
  <2> QED
    BY <1>3, <2>1, <2>2
<1>6. ASSUME NEW o \in Plan, WriteOperation(o) \/ Execute(o) \/ ExecuteStops(o)
      PROVE  CommandType'
  BY <1>2, <1>3, <1>6 DEF WriteOperation, Execute, ExecuteStops, Outcome
<1> QED
  BY <1>4, <1>5, <1>6 DEF Next

LEMMA InitType == Init => TypeOK
<1> SUFFICES ASSUME Init PROVE TypeOK
  OBVIOUS
<1>1. InputType
  BY StartsAssumption DEF Init, InputType
<1>2. TreeType
  BY <1>1 DEF Init, InputType, TreeType
<1>3. RowsType
  BY DEF Init, RowsType
<1>4. CommandType
  BY BoundsAssumption DEF Init, CommandType, Outcome
<1> QED
  BY <1>1, <1>2, <1>3, <1>4, TypeParts

LEMMA NextType == TypeOK /\ [Next]_vars => TypeOK'
<1> SUFFICES ASSUME TypeOK, [Next]_vars PROVE TypeOK'
  OBVIOUS
<1>1. CASE Next
  BY <1>1, InputsAreFixed, InputsStay, TypeParts, TreeNext, RowsNext, CommandNext, TypeNext
<1>2. CASE UNCHANGED vars
  <2>1. UNCHANGED inputs
    BY <1>2 DEF vars, inputs
  <2> QED
    BY <1>2, <2>1, InputsStay, TypeParts, TypeNext
    DEF vars, patchFile, TreeType, RowsType, CommandType
<1> QED
  BY <1>1, <1>2

(* The types of every variable, for any two trees.  What is applied and    *)
(* reverted leaves a tree a file system can hold, wherever it stops.       *)
THEOREM SpecTypeOK == Spec => []TypeOK
  BY InitType, NextType, PTL DEF Spec

-----------------------------------------------------------------------------
(* What a patch file has                                                   *)

Written(o) == rows[o] >= 1 /\ (reversible /\ o.act # "add" => o.path \in captured)

\* Only what is complete is opened; what is no longer to be written is.
WholeInv ==
    /\ OpenedPatchIsWhole
    /\ cmd = "create" => \A o \in Plan : left[o] = 0 => Written(o)
    /\ cmd \in {"apply", "revert"} => meta

LEMMA WholeInit == Init => WholeInv
  BY DEF Init, WholeInv, OpenedPatchIsWhole

LEMMA WholeNext == TypeOK /\ WholeInv /\ [Next]_vars => WholeInv'
<1> SUFFICES ASSUME TypeOK, WholeInv, [Next]_vars PROVE WholeInv'
  OBVIOUS
<1>0. RowsType
  BY TypeParts
<1>1. Plan' = Plan /\ reversible' = reversible
  <2>1. UNCHANGED inputs
    BY InputsAreFixed DEF vars, inputs
  <2> QED
    BY <2>1, InputsStay DEF inputs
<1>2. ASSUME UNCHANGED patchFile, cmd' \in {cmd, "none"}, cmd' = "create" => left' = left
      PROVE  WholeInv'
  BY <1>1, <1>2 DEF WholeInv, OpenedPatchIsWhole, Written, patchFile
<1>3. CASE UNCHANGED vars
  BY <1>2, <1>3 DEF vars
<1>4. CASE BeginCreate
  BY <1>1, <1>4 DEF BeginCreate, Begin, WholeInv, OpenedPatchIsWhole, Written, patchFile
<1>5. CASE BeginApply \/ BeginRevert
  BY <1>1, <1>5 DEF BeginApply, BeginRevert, Begin, WholeInv, OpenedPatchIsWhole, Written, patchFile
<1>6. CASE WriteMetadata
  <2>1. \A o \in Plan : Written(o)
    BY <1>0, <1>6 DEF WriteMetadata, Pending, RowsType, WholeInv
  <2> QED
    BY <1>1, <1>6, <2>1 DEF WriteMetadata, End, WholeInv, OpenedPatchIsWhole, Written
<1>7. CASE CreateStops
  <2>1. cmd' = "none" /\ captured \subseteq captured' /\ UNCHANGED <<rows, meta>>
    BY <1>7 DEF CreateStops, End
  <2> QED
    BY <1>1, <2>1 DEF WholeInv, OpenedPatchIsWhole
<1>8. CASE Finish
  BY <1>2, <1>8 DEF Finish, End
<1>9. ASSUME NEW o \in Plan, WriteOperation(o)
      PROVE  WholeInv'
  <2>1. CASE Captures(o) /\ ~ Capturable(o)
    BY <1>2, <1>9, <2>1 DEF WriteOperation, End, patchFile
  <2>2. CASE ~ (Captures(o) /\ ~ Capturable(o))
    <3>1. /\ captured \subseteq captured' /\ (Captures(o) => o.path \in captured')
          /\ rows' = [rows EXCEPT ![o] = @ + 1] /\ left' = [left EXCEPT ![o] = 0]
          /\ UNCHANGED <<cmd, meta>>
      BY <1>9, <2>2 DEF WriteOperation
    <3>2. \A x \in Plan : Written(x) => Written(x)'
      BY <1>0, <1>1, <3>1 DEF RowsType, Written
    <3>3. Written(o)'
      BY <1>0, <1>1, <3>1 DEF RowsType, Written, Captures
    <3>4. \A x \in Plan : left'[x] = 0 => x = o \/ left[x] = 0
      BY <1>0, <3>1 DEF RowsType
    <3> QED
      BY <1>1, <3>1, <3>2, <3>3, <3>4 DEF WholeInv, OpenedPatchIsWhole, Written
  <2> QED
    BY <2>1, <2>2
<1>10. ASSUME NEW o \in Plan, Execute(o) \/ ExecuteStops(o)
       PROVE  WholeInv'
  BY <1>2, <1>10 DEF Execute, ExecuteStops, End
<1> QED
  BY <1>3, <1>4, <1>5, <1>6, <1>7, <1>8, <1>9, <1>10 DEF Next

(* A patch file that can be opened has every operation of the patch and    *)
(* the revert data asked for, wherever making it was cut off.              *)
THEOREM SpecOpenedPatchIsWhole == Spec => []OpenedPatchIsWhole
<1>1. Spec => []TypeOK
  BY SpecTypeOK
<1>2. WholeInv => OpenedPatchIsWhole
  BY DEF WholeInv
<1> QED
  BY <1>1, <1>2, WholeInit, WholeNext, PTL DEF Spec

-----------------------------------------------------------------------------
(* What a command makes of the tree                                        *)

\* The tree a command works towards.
Goal == IF cmd = "apply" THEN dst ELSE src

\* Where it is reached.
Reached(p) == Clear(p) /\ (cmd = "revert" => ~ Lossy(p)) => tree[p] = Goal[p]

\* Parents are made where the goal has directories.
LEMMA ParentsAreWanted ==
  ASSUME TypeOK, cmd \in {"apply", "revert"}, NEW o \in Plan, NEW p \in Path
  PROVE  Prepared(o)[p] \in {tree[p], Goal[p]}
<1>1. CASE Prepared(o) = tree
  BY <1>1
<1>2. CASE Prepared(o) = WithParents(tree, o.path) /\ MakesParents(o)
  <2>1. Goal \in Tree /\ WellFormed(Goal)
    BY TypeParts DEF InputType, Goal
  <2>2. Goal[o.path] # Absent /\ o.path \in Path
    BY <1>2, Operations DEF MakesParents, Goal
  <2>3. p \in Above[o.path] => Goal[p] = Dir
    BY <2>1, <2>2 DEF WellFormed
  <2> QED
    BY <1>2, <2>3 DEF WithParents
<1> QED
  BY <1>1, <1>2 DEF Prepared, Housed

\* An operation carried out leaves everything else, or brings it to the goal.
LEMMA RestIsLeft ==
  ASSUME TypeOK, cmd \in {"apply", "revert"}, NEW o \in Plan, Possible(o),
         NEW p \in Path, p # o.path
  PROVE  Done(o)[p] \in {tree[p], Goal[p]}
<1>0. tree \in Tree /\ o.path \in Path /\ Goal \in Tree /\ WellFormed(Goal) /\ Prepared(o) \in Tree
  BY TypeParts, Operations, PreparedType DEF InputType, TreeType, Goal
<1>1. CASE KeepsItem(o)
  BY <1>1 DEF Done
<1>2. CASE ~ KeepsItem(o) /\ Puts(o) = Absent
  <2>1. Goal[o.path] = Absent
    BY <1>0, <1>2, Operations, EntryAssumption DEF Puts, Goal, HasOriginal, IsFile
  <2>2. o.path \in Above[p] => Goal[p] = Absent
    BY <1>0, <2>1, EntryAssumption DEF WellFormed
  <2> QED
    BY <1>2, <2>2 DEF Done, Removed
<1>3. CASE ~ KeepsItem(o) /\ Puts(o) # Absent
  BY <1>0, <1>3, ParentsAreWanted DEF Done, Tree
<1> QED
  BY <1>1, <1>2, <1>3

\* ... and its own path to the goal, where no name is of two kinds and no content lost.
LEMMA OwnPathIsReached ==
  ASSUME TypeOK, cmd \in {"apply", "revert"}, NEW o \in Plan, Possible(o),
         Clear(o.path), cmd = "revert" => ~ Lossy(o.path)
  PROVE  Done(o)[o.path] = Goal[o.path]
<1> DEFINE p == o.path
<1>0. tree \in Tree /\ p \in Path /\ Prepared(o) \in Tree /\ ~ Clash(p)
  BY TypeParts, Operations, PreparedType DEF TreeType, Clear
<1>1. o.act = "modify" => IsFile(src, p) /\ IsFile(dst, p)
  BY <1>0, Operations DEF Clash, InBoth, BothFiles
<1>2. ~ KeepsItem(o)
  <2>1. CASE cmd = "apply"
    BY <1>1, <2>1, EntryAssumption DEF KeepsItem, IsFile
  <2>2. CASE cmd = "revert" /\ o.act = "modify"
    <3>1. src[p] \notin BigFiles \cup EmptyFiles
      BY <2>2, Operations DEF Lossy
    <3> QED
      BY <1>1, <2>2, <3>1, EntryAssumption DEF KeepsItem, HasOriginal, HasContent, IsFile
  <2> QED
    BY <2>1, <2>2 DEF KeepsItem
<1>3. Puts(o) = Goal[p]
  <2>1. CASE cmd = "apply"
    BY <2>1, Operations DEF Puts, Goal
  <2>2. CASE cmd = "revert" /\ o.act = "add"
    BY <2>2, Operations DEF Puts, Goal
  <2>3. CASE cmd = "revert" /\ o.act = "modify"
    BY <1>2, <2>3 DEF Puts, Goal, KeepsItem
  <2>4. CASE cmd = "revert" /\ o.act = "remove"
    <3>1. src[p] # dst[p] /\ src[p] # Absent /\ src[p] \notin BigFiles \cup EmptyFiles
      BY <2>4, Operations DEF Lossy
    <3>2. HasOriginal(o) \/ src[p] = Dir
      <4>1. src[p] \in Entry
        BY <1>0, TypeParts DEF InputType, Tree
      <4> QED
        BY <2>4, <3>1, <4>1 DEF HasOriginal, HasContent, IsFile, Entry
    <3> QED
      BY <2>4, <3>2 DEF Puts, Goal
  <2> QED
    BY <2>1, <2>2, <2>3, <2>4, Operations
<1>4. CASE Puts(o) = Absent
  BY <1>0, <1>2, <1>3, <1>4 DEF Done, Removed
<1>5. CASE Puts(o) # Absent
  BY <1>0, <1>2, <1>3, <1>5 DEF Done, Tree
<1> QED
  BY <1>4, <1>5

\* What no operation is about is the same in both trees, and stays; what has been executed
\* at least once is as the command wants it.
ResultInv ==
    /\ \A p \in Path : (\A o \in Plan : o.path # p) => tree[p] = dst[p]
    /\ cmd \in {"apply", "revert"} => \A o \in Plan : left[o] < rows[o] => Reached(o.path)
    /\ AppliedMeansTransformed /\ RevertRestores

LEMMA ResultInit == Init => ResultInv
<1> SUFFICES ASSUME Init PROVE ResultInv
  OBVIOUS
<1>1. tree = src /\ cmd = "none" /\ last = "none"
  BY DEF Init
<1> QED
  BY <1>1, UntouchedAlike DEF ResultInv, AppliedMeansTransformed, RevertRestores

\* What a step of another tree or file, or a command that ends badly, cannot break.
LEMMA ResultStays ==
  ASSUME ResultInv, UNCHANGED inputs,
         \A p \in Path : (\A o \in Plan : o.path # p) => tree'[p] = tree[p],
         \/ cmd' = "none" /\ last' \notin {"applied", "reverted"}
         \/ cmd' = "create"
         \/ cmd' = "none" /\ cmd = "none" /\ last' = last /\ tree' = tree
  PROVE  ResultInv'
<1>1. /\ Plan' = Plan /\ dst' = dst /\ src' = src
      /\ \A p \in Path : (Clear(p)' <=> Clear(p)) /\ (Lossy(p)' <=> Lossy(p))
  BY InputsStay DEF inputs
<1>2. \A p \in Path : (\A o \in Plan : o.path # p) => tree'[p] = dst[p]
  BY DEF ResultInv
<1>3. AppliedMeansTransformed'
  BY <1>1 DEF ResultInv, AppliedMeansTransformed
<1>4. RevertRestores'
  BY <1>1 DEF ResultInv, RevertRestores
<1> QED
  BY <1>1, <1>2, <1>3, <1>4 DEF ResultInv

\* All rows are executed: the tree is the one the command works towards.
LEMMA FinishedIsReached ==
  ASSUME TypeOK, WholeInv, ResultInv, cmd \in {"apply", "revert"}, Pending = {}
  PROVE  \A p \in Path : Reached(p)
<1> TAKE p \in Path
<1>1. CASE \A o \in Plan : o.path # p
  BY <1>1, UntouchedAlike DEF ResultInv, Reached, Goal
<1>2. ASSUME NEW o \in Plan, o.path = p
      PROVE  Reached(p)
  <2>1. left[o] \in Nat /\ rows[o] \in Nat /\ ~ (left[o] > 0) /\ rows[o] >= 1
    BY TypeParts DEF RowsType, Pending, WholeInv, OpenedPatchIsWhole
  <2> QED
    BY <1>2, <2>1 DEF ResultInv
<1> QED
  BY <1>1, <1>2

LEMMA ResultNext == TypeOK /\ WholeInv /\ ResultInv /\ [Next]_vars => ResultInv'
<1> SUFFICES ASSUME TypeOK, WholeInv, ResultInv, [Next]_vars PROVE ResultInv'
  OBVIOUS
<1>0. RowsType /\ TreeType /\ CommandType
  BY TypeParts
<1>a. UNCHANGED inputs
  BY InputsAreFixed DEF vars, inputs
<1>b. /\ Plan' = Plan /\ dst' = dst /\ src' = src
      /\ \A p \in Path : (Clear(p)' <=> Clear(p)) /\ (Lossy(p)' <=> Lossy(p))
  BY <1>a, InputsStay DEF inputs
<1>1. CASE UNCHANGED vars
  <2>1. tree' = tree /\ cmd' = cmd /\ left' = left /\ rows' = rows /\ last' = last
    BY <1>1 DEF vars, patchFile
  <2>2. \A p \in Path : Reached(p)' <=> Reached(p)
    BY <1>b, <2>1 DEF Reached, Goal
  <2>3. AppliedMeansTransformed' /\ RevertRestores'
    BY <1>b, <2>1 DEF ResultInv, AppliedMeansTransformed, RevertRestores
  <2>4. \A o \in Plan : left'[o] < rows'[o] /\ cmd' \in {"apply", "revert"} => Reached(o.path)'
    BY <2>1, <2>2, Operations DEF ResultInv
  <2> QED
    BY <1>b, <2>1, <2>3, <2>4 DEF ResultInv
<1>2. CASE BeginCreate
  BY <1>2, <1>a, ResultStays DEF BeginCreate, Begin
<1>3. CASE BeginApply \/ BeginRevert
  <2>1. cmd' \in {"apply", "revert"} /\ tree' = tree /\ left' = rows /\ rows' = rows
    BY <1>3 DEF BeginApply, BeginRevert, Begin, patchFile
  <2>2. \A o \in Plan : ~ (left'[o] < rows'[o])
    BY <1>0, <2>1 DEF RowsType
  <2> QED
    BY <1>b, <2>1, <2>2 DEF ResultInv, AppliedMeansTransformed, RevertRestores
<1>4. CASE WriteMetadata \/ CreateStops
  BY <1>4, <1>a, ResultStays DEF WriteMetadata, CreateStops, End
<1>5. ASSUME NEW o \in Plan, WriteOperation(o)
      PROVE  ResultInv'
  BY <1>5, <1>a, ResultStays DEF WriteOperation, End
<1>6. CASE Finish
  <2>1. \A p \in Path : Reached(p)
    BY <1>6, FinishedIsReached DEF Finish
  <2>2. /\ tree' = tree /\ cmd' = "none"
        /\ \/ cmd = "apply" /\ last' = "applied"
           \/ cmd = "revert" /\ last' = "reverted"
    BY <1>6 DEF Finish, End
  <2> QED
    <3>1. CASE cmd = "apply" /\ last' = "applied"
      BY <1>b, <2>1, <2>2, <3>1 DEF ResultInv, Reached, Goal, AppliedMeansTransformed, RevertRestores
    <3>2. CASE cmd = "revert" /\ last' = "reverted"
      BY <1>b, <2>1, <2>2, <3>2 DEF ResultInv, Reached, Goal, AppliedMeansTransformed, RevertRestores
    <3> QED
      BY <2>2, <3>1, <3>2
<1>7. ASSUME NEW o \in Plan, Execute(o), Possible(o)
      PROVE  ResultInv'
  <2>1. /\ tree' = Done(o) /\ left' = [left EXCEPT ![o] = @ - 1] /\ cmd \in {"apply", "revert"}
        /\ UNCHANGED <<cmd, rows, last>>
    BY <1>7 DEF Execute, patchFile
  <2>2. \A p \in Path : Reached(p)' <=>
           (Clear(p) /\ (cmd = "revert" => ~ Lossy(p)) => tree'[p] = Goal[p])
    BY <1>b, <2>1 DEF Reached, Goal
  <2>3. \A p \in Path : p = o.path \/ Reached(p) => Reached(p)'
    BY <1>7, <2>1, <2>2, RestIsLeft, OwnPathIsReached DEF Reached
  <2>4. \A x \in Plan : left'[x] < rows'[x] => x = o \/ left[x] < rows[x]
    BY <1>0, <2>1 DEF RowsType
  <2>5. \A x \in Plan : left'[x] < rows'[x] => Reached(x.path)'
    BY <2>1, <2>3, <2>4, Operations DEF ResultInv
  <2>6. \A p \in Path : (\A x \in Plan : x.path # p) => tree'[p] = dst[p]
    BY <1>7, <2>1, RestIsLeft, UntouchedAlike DEF ResultInv, Goal
  <2>7. AppliedMeansTransformed' /\ RevertRestores'
    BY <2>1 DEF AppliedMeansTransformed, RevertRestores
  <2> QED
    BY <1>b, <2>1, <2>5, <2>6, <2>7 DEF ResultInv
<1>8. ASSUME NEW o \in Plan, ExecuteStops(o) \/ (Execute(o) /\ ~ Possible(o))
      PROVE  ResultInv'
  <2>1. /\ cmd \in {"apply", "revert"} /\ cmd' = "none" /\ last' \in {"applyFailed", "revertFailed"}
        /\ \/ tree' \in {tree, Prepared(o)}
           \/ Possible(o) /\ tree' = Done(o)
           \/ tree' = [Prepared(o) EXCEPT ![o.path] = Torn]
    BY <1>8 DEF Execute, ExecuteStops, End
  <2>2. ASSUME NEW p \in Path, \A x \in Plan : x.path # p
        PROVE  tree'[p] = tree[p]
    <3>1. p # o.path /\ Goal[p] = tree[p]
      BY <2>2, UntouchedAlike DEF ResultInv, Goal
    <3>2. Prepared(o)[p] = tree[p] /\ (Possible(o) => Done(o)[p] = tree[p])
      BY <2>1, <3>1, ParentsAreWanted, RestIsLeft
    <3>3. [Prepared(o) EXCEPT ![o.path] = Torn][p] = Prepared(o)[p]
      BY <3>1, PreparedType, Operations DEF Tree
    <3> QED
      BY <2>1, <3>2, <3>3
  <2> QED
    BY <1>a, <2>1, <2>2, ResultStays
<1> QED
  BY <1>1, <1>2, <1>3, <1>4, <1>5, <1>6, <1>7, <1>8 DEF Next

(* A patch that has been applied to its end has made the one tree into the *)
(* other, at whatever point earlier commands have stopped.                 *)
THEOREM SpecAppliedMeansTransformed == Spec => []AppliedMeansTransformed
<1>1. Spec => []TypeOK
  BY SpecTypeOK
<1>2. ResultInv => AppliedMeansTransformed
  BY DEF ResultInv
<1> QED
  BY <1>1, <1>2, WholeInit, WholeNext, ResultInit, ResultNext, PTL DEF Spec

(* A patch that has been reverted to its end has brought the first tree    *)
(* back, but for the contents a patch file does not have.                  *)
THEOREM SpecRevertRestores == Spec => []RevertRestores
<1>1. Spec => []TypeOK
  BY SpecTypeOK
<1>2. ResultInv => RevertRestores
  BY DEF ResultInv
<1> QED
  BY <1>1, <1>2, WholeInit, WholeNext, ResultInit, ResultNext, PTL DEF Spec

-----------------------------------------------------------------------------
(* What is at a path meanwhile                                             *)

\* NothingForeign of a path.
FromEither(p) ==
    \/ tree[p] \in {src[p], dst[p]}
    \/ tree[p] = Torn /\ faults > 0 /\ \E o \in Plan : o.path = p
    \/ tree[p] = Dir /\ Lossy(p)

LEMMA GoalIsEither ==
  ASSUME NEW p \in Path
  PROVE  Goal[p] \in {src[p], dst[p]}
  BY DEF Goal

\* An operation's own path gets what one of the trees has, or a directory for want of data.
LEMMA OwnPathIsEither ==
  ASSUME TypeOK, NothingForeign, cmd \in {"apply", "revert"}, NEW o \in Plan, Possible(o)
  PROVE  \/ Done(o)[o.path] \in {tree[o.path], src[o.path], dst[o.path]}
         \/ Done(o)[o.path] = Dir /\ Lossy(o.path)
<1>0. /\ tree \in Tree /\ o.path \in Path /\ Prepared(o) \in Tree
      /\ src[o.path] \in Entry /\ dst[o.path] \in Entry
  BY TypeParts, Operations, PreparedType DEF TreeType, InputType, Tree
<1>1. CASE KeepsItem(o)
  BY <1>1 DEF Done
<1>2. CASE ~ KeepsItem(o) /\ Puts(o) = Absent
  <2>1. Done(o)[o.path] = Absent
    BY <1>0, <1>2 DEF Done, Removed
  <2>2. src[o.path] = Absent \/ dst[o.path] = Absent
    BY <1>0, <1>2, Operations, EntryAssumption DEF Puts, HasOriginal, IsFile
  <2> QED
    BY <2>1, <2>2
<1>3. CASE ~ KeepsItem(o) /\ Puts(o) # Absent
  <2>1. Done(o)[o.path] = Puts(o)
    BY <1>0, <1>3 DEF Done, Tree
  <2>2. CASE Puts(o) \in {src[o.path], dst[o.path]}
    BY <2>1, <2>2
  <2>3. CASE Puts(o) \notin {src[o.path], dst[o.path]}
    <3>1. Puts(o) = Dir /\ cmd = "revert" /\ o.act = "remove" /\ ~ HasOriginal(o)
      BY <1>3, <2>3, Operations DEF Puts, KeepsItem
    <3>2. src[o.path] \in BigFiles \cup EmptyFiles
      BY <1>0, <2>3, <3>1, Operations DEF HasOriginal, HasContent, IsFile, Entry
    <3>3. Lossy(o.path)
      BY <3>1, <3>2, Operations DEF Lossy
    <3> QED
      BY <2>1, <3>1, <3>3
  <2> QED
    BY <2>2, <2>3
<1> QED
  BY <1>1, <1>2, <1>3

LEMMA ForeignNext == TypeOK /\ NothingForeign /\ [Next]_vars => NothingForeign'
<1> SUFFICES ASSUME TypeOK, NothingForeign, [Next]_vars, NEW p \in Path PROVE FromEither(p)'
  BY DEF NothingForeign, FromEither
<1>0. FromEither(p) /\ faults \in Nat /\ tree \in Tree
  BY TypeParts, BoundsAssumption DEF NothingForeign, FromEither, CommandType, TreeType
<1>a. UNCHANGED inputs
  BY InputsAreFixed DEF vars, inputs
<1>b. /\ Plan' = Plan /\ dst' = dst /\ src' = src
      /\ \A q \in Path : Lossy(q)' <=> Lossy(q)
  BY <1>a, InputsStay DEF inputs
<1>c. ASSUME faults' = faults \/ faults' = faults + 1,
             \/ tree'[p] \in {tree[p], src[p], dst[p]}
             \/ tree'[p] = Dir /\ Lossy(p)
             \/ tree'[p] = Torn /\ faults' = faults + 1 /\ \E o \in Plan : o.path = p
      PROVE  FromEither(p)'
  <2>1. faults > 0 => faults' > 0
    BY <1>0, <1>c
  <2>2. faults' = faults + 1 => faults' > 0
    BY <1>0
  <2> QED
    BY <1>0, <1>b, <1>c, <2>1, <2>2 DEF FromEither
<1>1. CASE UNCHANGED vars
  BY <1>1, <1>c DEF vars
<1>2. CASE BeginCreate \/ BeginApply \/ BeginRevert \/ WriteMetadata \/ CreateStops \/ Finish
  <2>1. tree' = tree /\ (faults' = faults \/ faults' = faults + 1)
    BY <1>2 DEF BeginCreate, BeginApply, BeginRevert, Begin, WriteMetadata, CreateStops, Finish,
                Fault
  <2> QED
    BY <1>c, <2>1
<1>3. ASSUME NEW o \in Plan, WriteOperation(o)
      PROVE  FromEither(p)'
  BY <1>3, <1>c DEF WriteOperation
\* Elsewhere parents are made, and what lies under a removal goes; at its own path an
\* operation does what it is for.
<1>4. ASSUME NEW o \in Plan, cmd \in {"apply", "revert"},
             tree' = tree \/ tree' = Prepared(o) \/ (Possible(o) /\ tree' = Done(o))
      PROVE  \/ tree'[p] \in {tree[p], src[p], dst[p]}
             \/ tree'[p] = Dir /\ Lossy(p)
  <2>1. Prepared(o)[p] \in {tree[p], src[p], dst[p]}
    BY <1>4, ParentsAreWanted, GoalIsEither
  <2>2. Possible(o) => \/ Done(o)[p] \in {tree[p], src[p], dst[p]}
                       \/ Done(o)[p] = Dir /\ Lossy(p)
    <3>1. CASE p = o.path
      BY <1>4, <3>1, OwnPathIsEither
    <3>2. CASE p # o.path
      BY <1>4, <3>2, RestIsLeft, GoalIsEither
    <3> QED
      BY <3>1, <3>2
  <2> QED
    BY <1>4, <2>1, <2>2
<1>5. ASSUME NEW o \in Plan, Execute(o)
      PROVE  FromEither(p)'
  <2>1. /\ cmd \in {"apply", "revert"} /\ faults' = faults
        /\ tree' = Prepared(o) \/ (Possible(o) /\ tree' = Done(o))
    BY <1>5 DEF Execute
  <2> QED
    BY <1>4, <1>c, <2>1
<1>6. ASSUME NEW o \in Plan, ExecuteStops(o)
      PROVE  FromEither(p)'
  <2>1. cmd \in {"apply", "revert"} /\ faults' = faults + 1
    BY <1>6 DEF ExecuteStops, Fault
  <2>2. CASE tree' = [Prepared(o) EXCEPT ![o.path] = Torn]
    <3>1. Prepared(o) \in Tree /\ Prepared(o)[p] \in {tree[p], src[p], dst[p]}
      BY <2>1, PreparedType, ParentsAreWanted, GoalIsEither
    <3>2. IF p = o.path THEN tree'[p] = Torn ELSE tree'[p] = Prepared(o)[p]
      BY <2>2, <3>1 DEF Tree
    <3> QED
      BY <1>c, <2>1, <3>1, <3>2
  <2>3. CASE tree' \in {tree, Prepared(o)} \/ (Possible(o) /\ tree' = Done(o))
    BY <1>4, <1>c, <2>1, <2>3
  <2> QED
    BY <1>6, <2>2, <2>3 DEF ExecuteStops
<1> QED
  BY <1>1, <1>2, <1>3, <1>5, <1>6 DEF Next

(* Wherever applying or reverting stops, a path holds what one of the two  *)
(* trees has there, a file of the patch cut off in writing, or a directory *)
(* for want of data: what both trees have in common is let alone.          *)
THEOREM SpecNothingForeign == Spec => []NothingForeign
<1>1. Spec => []TypeOK
  BY SpecTypeOK
<1>2. Init => NothingForeign
  BY DEF Init, NothingForeign
<1> QED
  BY <1>1, <1>2, ForeignNext, PTL DEF Spec

-----------------------------------------------------------------------------
(* Reverting what was applied                                              *)

NoClash == \A p \in Path : ~ Clash(p)
Undoing == /\ cmd = "revert" /\ from = "applied" /\ faults = 0 /\ NoClash
           /\ \A o \in Plan : rows[o] = 1

\* Reverting has come down to some operation: those before it are still applied, of those
\* after it the directories are back, and what needed revert data had it.
Undo ==
    /\ before = dst
    /\ \A x \in Plan :
          /\ left[x] > 0 => tree[x.path] = dst[x.path]
          /\ left[x] = 0 /\ x.act = "remove" /\ src[x.path] = Dir => tree[x.path] = Dir
          /\ left[x] = 0 => reversible \/ x.act = "add"
          /\ \A y \in Plan : left[x] = 0 /\ left[y] > 0 => ~ Precedes(x, y)

UndoInv ==
    /\ ~ reversible => captured = {}
    /\ Undoing => Undo
    /\ RefusedRevertIsHarmless

LEMMA OneOperationPerPath ==
  ASSUME NEW x \in Plan, NEW y \in Plan, x.path = y.path
  PROVE  x = y
<1>1. x \in Operation /\ y \in Operation
  BY DEF Plan, Operation, Missing, Modified, InBoth, BothFiles
<1>2. x.act = "modify" => src[x.path] # Absent /\ dst[x.path] # Absent
  BY Operations
<1>3. x.act = y.act
  BY Operations
<1> QED
  BY <1>1, <1>3 DEF Operation

LEMMA RowsWhileUndoing ==
  ASSUME TypeOK, Undoing, NEW x \in Plan
  PROVE  left[x] \in {0, 1}
  BY TypeParts DEF Undoing, RowsType

\* The parents of what was removed are back, or were never gone.
LEMMA ParentsAreBack ==
  ASSUME TypeOK, ResultInv, Undoing, Undo, NEW o \in Plan, Current(o), o.act = "remove"
  PROVE  ParentsExist(tree, o.path)
<1> SUFFICES ASSUME NEW q \in Above[o.path] PROVE tree[q] = Dir
  BY DEF ParentsExist
<1>0. /\ o.path \in Path /\ q \in Path /\ q < o.path /\ src[o.path] # Absent
      /\ src \in Tree /\ WellFormed(src) /\ dst \in Tree
  BY TypeParts, Operations, WhereThingsLie DEF InputType
<1>1. src[q] = Dir
  BY <1>0 DEF WellFormed
<1>2. dst[q] \in {Dir, Absent}
  BY <1>0, <1>1, EntryAssumption DEF Undoing, NoClash, Clash, InBoth, BothFiles, IsFile, Tree, Entry
<1>3. CASE dst[q] = Dir
  <2>1. \A x \in Plan : x.path # q
    BY <1>1, <1>3, Operations, EntryAssumption DEF IsFile
  <2> QED
    BY <1>0, <1>3, <2>1 DEF ResultInv
<1>4. CASE dst[q] = Absent
  <2> DEFINE r == [act |-> "remove", path |-> q]
  <2>1. r \in Plan
    BY <1>0, <1>1, <1>4, EntryAssumption DEF Plan, Missing
  <2>2. Precedes(o, r)
    BY <1>0, PathAssumption DEF Precedes, Step, Path
  <2>3. left[r] = 0
    BY <2>1, <2>2, RowsWhileUndoing DEF Current, Pending, Undoing
  <2> QED
    BY <1>1, <2>1, <2>3 DEF Undo
<1> QED
  BY <1>2, <1>3, <1>4

\* Only for want of data can an operation then be refused.
LEMMA UndoIsPossible ==
  ASSUME TypeOK, ResultInv, Undoing, Undo, NEW o \in Plan, Current(o)
  PROVE  Prepared(o) = tree /\ (HasData(o) => Possible(o))
<1>0. /\ o.path \in Path /\ tree \in Tree /\ WellFormed(tree) /\ cmd = "revert"
      /\ tree[o.path] = dst[o.path] /\ src[o.path] \in Entry
  BY TypeParts, Operations DEF TreeType, InputType, Undo, Undoing, Current, Pending, Tree
<1>1. CASE o.act = "add"
  BY <1>0, <1>1, EntryAssumption DEF Prepared, Possible, MakesParents, KeepsItem, Puts
<1>2. CASE o.act = "remove"
  <2>1. ParentsExist(tree, o.path) /\ tree[o.path] = Absent
    BY <1>0, <1>2, ParentsAreBack, Operations
  <2>2. ParentFound(tree, o.path)
    BY <2>1, EntryAssumption DEF ParentsExist, ParentFound
  <2>3. Prepared(o) = tree /\ CanHouse(tree, o.path)
    BY <2>2 DEF Prepared, Housed, CanHouse
  <2> QED
    BY <1>0, <1>2, <2>1, <2>3, EntryAssumption DEF Possible, KeepsItem, Writable
<1>3. CASE o.act = "modify"
  <2>1. IsFile(src, o.path) /\ IsFile(dst, o.path)
    BY <1>0, <1>3, Operations DEF Undoing, NoClash, Clash, InBoth, BothFiles
  <2>2. tree[o.path] # Absent /\ tree[o.path] # Dir /\ ParentsExist(tree, o.path)
    BY <1>0, <2>1, EntryAssumption DEF IsFile, WellFormed, ParentsExist
  <2>3. Prepared(o) = tree
    BY <1>0, <1>3 DEF Prepared, MakesParents
  <2>4. Puts(o) = Dir => KeepsItem(o)
    BY <1>0, <1>3, <2>1, EntryAssumption DEF Puts, KeepsItem, IsFile
  <2> QED
    BY <1>0, <1>3, <2>2, <2>3, <2>4 DEF Possible, MakesParents, Writable
<1> QED
  BY <1>1, <1>2, <1>3, Operations

LEMMA UndoStep ==
  ASSUME TypeOK, ResultInv, Undoing, Undo, ~ reversible => captured = {},
         NEW o \in Plan, Execute(o), Possible(o)
  PROVE  Undo'
<1>0. /\ o.path \in Path /\ tree \in Tree /\ cmd = "revert" /\ Current(o)
      /\ tree' = Done(o) /\ left' = [left EXCEPT ![o] = @ - 1]
      /\ UNCHANGED inputs /\ UNCHANGED before /\ left \in [Plan -> Nat] /\ left[o] > 0
      /\ src \in Tree /\ WellFormed(src) /\ Prepared(o) = tree
  BY TypeParts, Operations, UndoIsPossible
     DEF TreeType, InputType, RowsType, Undoing, Execute, inputs, Current, Pending
<1>1. Plan' = Plan /\ dst' = dst /\ src' = src /\ reversible' = reversible
  BY <1>0, InputsStay DEF inputs
<1>2. left'[o] = 0 /\ \A x \in Plan : x # o => left'[x] = left[x]
  BY <1>0, RowsWhileUndoing
<1>3. \A x \in Plan : x # o => x.path # o.path
  BY OneOperationPerPath
\* Directories go only when nothing pending is in them.
<1>4. ASSUME NEW x \in Plan, x # o,
             ~ (o.act = "add" /\ o.path \in Above[x.path])
      PROVE  tree'[x.path] = tree[x.path]
  <2>1. x.path \in Path /\ x.path # o.path
    BY <1>3, <1>4, Operations
  <2>2. Puts(o) = Absent => o.act = "add"
    BY <1>0, Operations, EntryAssumption DEF Puts, HasOriginal, IsFile
  <2> QED
    BY <1>0, <1>4, <2>1, <2>2 DEF Done, Removed, Tree
<1>5. ASSUME NEW x \in Plan, left'[x] > 0
      PROVE  tree'[x.path] = dst[x.path]
  <2>1. x # o /\ left[x] > 0
    BY <1>2, <1>5
  <2>2. ~ (o.act = "add" /\ o.path \in Above[x.path])
    <3>1. SUFFICES ASSUME o.act = "add", o.path \in Above[x.path] PROVE Precedes(o, x)
      BY <1>0, <2>1 DEF Current, Pending
    <3>2. o.path < x.path
      BY <3>1, WhereThingsLie, Operations
    <3> QED
      BY <3>1, <3>2, Operations DEF Precedes, Step
  <2> QED
    BY <1>4, <2>1, <2>2 DEF Undo
<1>6. ASSUME NEW x \in Plan, left'[x] = 0, x.act = "remove", src[x.path] = Dir
      PROVE  tree'[x.path] = Dir
  <2>1. CASE x = o
    <3>1. ~ HasOriginal(o)
      BY <1>6, <2>1, EntryAssumption DEF HasOriginal, IsFile
    <3>2. ~ KeepsItem(o) /\ Puts(o) = Dir
      BY <1>0, <1>6, <2>1, <3>1 DEF KeepsItem, Puts
    <3> QED
      BY <1>0, <2>1, <3>2, EntryAssumption DEF Done, Tree
  <2>2. CASE x # o
    <3>1. o.path \in Above[x.path] => src[o.path] = Dir
      BY <1>0, <1>6, Operations, EntryAssumption DEF WellFormed
    <3>2. ~ (o.act = "add" /\ o.path \in Above[x.path])
      BY <3>1, Operations, EntryAssumption
    <3> QED
      BY <1>2, <1>4, <1>6, <2>2, <3>2 DEF Undo
  <2> QED
    BY <2>1, <2>2
<1>7. ASSUME NEW x \in Plan, left'[x] = 0
      PROVE  /\ reversible \/ x.act = "add"
             /\ \A y \in Plan : left'[y] > 0 => ~ Precedes(x, y)
  <2>1. \A y \in Plan : left'[y] > 0 => left[y] > 0
    BY <1>0, <1>2
  <2>2. CASE x = o
    <3>1. \A y \in Plan : left'[y] > 0 => ~ Precedes(o, y)
      BY <1>0, <2>1 DEF Current, Pending
    <3>2. reversible \/ o.act = "add"
      BY <1>0 DEF Possible, HasData
    <3> QED
      BY <2>2, <3>1, <3>2
  <2>3. CASE x # o
    BY <1>2, <1>7, <2>1, <2>3 DEF Undo
  <2> QED
    BY <2>2, <2>3
<1> QED
  BY <1>0, <1>1, <1>5, <1>6, <1>7 DEF Undo, Precedes, Step

\* What refuses is the first of a revert's operations that need data, before anything is done.
LEMMA UndoRefused ==
  ASSUME TypeOK, WholeInv, ResultInv, UndoInv, Undoing, NEW o \in Plan, Execute(o), ~ Possible(o)
  PROVE  ~ reversible /\ tree' = before
<1>0. /\ Undo /\ Current(o) /\ meta /\ cmd = "revert" /\ tree' = Prepared(o)
      /\ tree \in Tree /\ dst \in Tree /\ left[o] > 0
  BY TypeParts DEF UndoInv, WholeInv, Undoing, Execute, TreeType, InputType, Current, Pending
<1>1. tree' = tree /\ ~ HasData(o)
  BY <1>0, UndoIsPossible
<1>2. o.act # "add" /\ o.path \notin captured
  BY <1>0, <1>1 DEF HasData
<1>3. ~ reversible
  BY <1>0, <1>2 DEF WholeInv, OpenedPatchIsWhole
<1>4. ASSUME NEW x \in Plan PROVE tree[x.path] = dst[x.path]
  <2>1. CASE left[x] = 0
    <3>1. x.act = "add" /\ ~ Precedes(x, o)
      BY <1>0, <1>3, <2>1 DEF Undo
    <3> QED
      BY <1>2, <3>1, Operations DEF Precedes, Step
  <2> QED
    BY <1>0, <2>1, RowsWhileUndoing DEF Undo
<1>5. \A p \in Path : tree[p] = dst[p]
  BY <1>4 DEF ResultInv
<1> QED
  BY <1>0, <1>1, <1>3, <1>5 DEF Undo, Tree

LEMMA UndoNext == TypeOK /\ WholeInv /\ ResultInv /\ UndoInv /\ [Next]_vars => UndoInv'
<1> SUFFICES ASSUME TypeOK, WholeInv, ResultInv, UndoInv, [Next]_vars PROVE UndoInv'
  OBVIOUS
<1>0. RowsType /\ TreeType /\ InputType /\ CommandType
  BY TypeParts
<1>a. UNCHANGED inputs
  BY InputsAreFixed DEF vars, inputs
<1>b. /\ Plan' = Plan /\ dst' = dst /\ src' = src /\ reversible' = reversible
      /\ (NoClash' <=> NoClash)
  BY <1>a, InputsStay DEF inputs, NoClash, Clash, InBoth, BothFiles, IsFile
<1>c. ASSUME captured' = captured \/ reversible, cmd' # "revert",
             cmd' # "none" \/ last' # "revertFailed"
      PROVE  UndoInv'
  BY <1>b, <1>c DEF UndoInv, Undoing, RefusedRevertIsHarmless
<1>1. CASE UNCHANGED vars
  <2>1. UNCHANGED <<tree, before, left, rows, captured, cmd, from, last, faults>>
    BY <1>1 DEF vars, patchFile
  <2>2. (Undo' <=> Undo) /\ (Undoing' <=> Undoing)
    BY <1>b, <2>1 DEF Undo, Undoing, Precedes, Step
  <2>3. RefusedRevertIsHarmless'
    BY <1>b, <2>1 DEF UndoInv, RefusedRevertIsHarmless, NoClash
  <2> QED
    BY <1>b, <2>1, <2>2, <2>3 DEF UndoInv
<1>2. CASE BeginCreate \/ BeginApply
  BY <1>2, <1>c DEF BeginCreate, BeginApply, Begin, patchFile
<1>3. CASE BeginRevert
  <2>1. /\ cmd = "none" /\ cmd' = "revert" /\ from' = last /\ before' = tree /\ left' = rows
        /\ UNCHANGED <<tree, rows, captured>>
    BY <1>3 DEF BeginRevert, Begin, patchFile
  <2>2. ASSUME Undoing'
        PROVE  Undo'
    <3>1. last = "applied" /\ NoClash /\ \A o \in Plan : rows[o] = 1
      BY <1>b, <2>1, <2>2 DEF Undoing
    <3>2. \A p \in Path : tree[p] = dst[p]
      BY <2>1, <3>1, WhereThingsLie DEF ResultInv, AppliedMeansTransformed, Clear, NoClash
    <3>3. tree = dst
      BY <1>0, <3>2 DEF TreeType, InputType, Tree
    <3> QED
      BY <1>b, <2>1, <3>1, <3>3 DEF Undo
  <2> QED
    BY <1>b, <2>1, <2>2 DEF UndoInv, RefusedRevertIsHarmless
<1>4. CASE WriteMetadata
  BY <1>4, <1>c DEF WriteMetadata, End, UndoInv
<1>5. CASE CreateStops
  <2>1. captured' = captured \/ reversible
    BY <1>5 DEF CreateStops, Captures
  <2> QED
    BY <1>5, <1>c, <2>1 DEF CreateStops, End
<1>6. CASE Finish
  BY <1>6, <1>c DEF Finish, End, patchFile
<1>7. ASSUME NEW o \in Plan, WriteOperation(o)
      PROVE  UndoInv'
  <2>1. captured' = captured \/ reversible
    BY <1>7 DEF WriteOperation, Captures
  <2>2. cmd' \in {"create", "none"} /\ (cmd' = "none" => last' = "createFailed")
    BY <1>7 DEF WriteOperation, End
  <2> QED
    BY <1>c, <2>1, <2>2
<1>8. ASSUME NEW o \in Plan, Execute(o), Possible(o)
      PROVE  UndoInv'
  <2>1. cmd \in {"apply", "revert"} /\ UNCHANGED <<cmd, from, faults, rows, captured>>
    BY <1>8 DEF Execute, patchFile
  <2>2. Undoing' <=> Undoing
    BY <1>b, <2>1 DEF Undoing
  <2>3. Undoing => Undo'
    BY <1>8, UndoStep DEF UndoInv
  <2>4. RefusedRevertIsHarmless'
    BY <2>1 DEF RefusedRevertIsHarmless
  <2> QED
    BY <1>b, <2>1, <2>2, <2>3, <2>4 DEF UndoInv
<1>9. ASSUME NEW o \in Plan, Execute(o), ~ Possible(o)
      PROVE  UndoInv'
  <2>1. /\ cmd \in {"apply", "revert"} /\ cmd' = "none"
        /\ last' = IF cmd = "apply" THEN "applyFailed" ELSE "revertFailed"
        /\ UNCHANGED <<from, faults, rows, captured, before>>
    BY <1>9 DEF Execute, End, patchFile
  <2>2. RefusedRevertIsHarmless'
    <3>1. CASE Undoing
      BY <1>b, <1>9, <2>1, <3>1, UndoRefused DEF RefusedRevertIsHarmless
    <3>2. CASE ~ Undoing
      BY <1>b, <2>1, <3>2 DEF RefusedRevertIsHarmless, Undoing, NoClash
    <3> QED
      BY <3>1, <3>2
  <2> QED
    BY <1>b, <2>1, <2>2 DEF UndoInv, Undoing
<1>10. ASSUME NEW o \in Plan, ExecuteStops(o)
       PROVE  UndoInv'
  <2>1. cmd' = "none" /\ captured' = captured /\ faults' = faults + 1
    BY <1>10 DEF ExecuteStops, End, Fault, patchFile
  <2>2. faults' # 0
    BY <1>0, <2>1, BoundsAssumption DEF CommandType
  <2> QED
    BY <1>b, <2>1, <2>2 DEF UndoInv, Undoing, RefusedRevertIsHarmless
<1> QED
  BY <1>1, <1>2, <1>3, <1>4, <1>5, <1>6, <1>7, <1>8, <1>9, <1>10 DEF Next

(* Where nothing fails and no name is of two kinds, reverting what was     *)
(* applied is only refused when no revert data was asked for, and then it  *)
(* has changed nothing (PatchReverter stops at the first operation without *)
(* data, and those come first in a revert).                                *)
THEOREM SpecRefusedRevertIsHarmless == Spec => []RefusedRevertIsHarmless
<1>1. Spec => []TypeOK
  BY SpecTypeOK
<1>2. Init => UndoInv
  BY DEF Init, UndoInv, Undoing, RefusedRevertIsHarmless
<1>3. UndoInv => RefusedRevertIsHarmless
  BY DEF UndoInv
<1> QED
  BY <1>1, <1>2, <1>3, WholeInit, WholeNext, ResultInit, ResultNext, UndoNext, PTL DEF Spec
=============================================================================
