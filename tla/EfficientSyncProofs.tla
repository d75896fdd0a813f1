-------------------------- MODULE EfficientSyncProofs --------------------------
(***************************************************************************)
(* What EfficientSync promises, for any source and destination and any     *)
(* number of runs, failures and crashes.                                   *)
(***************************************************************************)
EXTENDS EfficientSync, FileTreeProofs, FiniteSetTheorems, WellFoundedInduction

-----------------------------------------------------------------------------
(* The plan and the tracker it starts with                                 *)

Less == {ss \in Nat \X Nat : ss[1] < ss[2]}

LEMMA FirstHolder ==
  ASSUME NEW S \in SUBSET Path, S # {}
  PROVE  Min(S) \in S /\ \A y \in S : Min(S) <= y
<1>1. S \subseteq Nat
  BY PathAssumption DEF Path
<1>2. IsWellFoundedOn(Less, Nat)
  BY NatLessThanWellFounded DEF Less, OpToRel
<1>3. PICK x \in S : \A y \in S : <<y, x>> \notin Less
  BY <1>1, <1>2, WFMin
<1>4. \A m, n \in Nat : n < m => <<n, m>> \in Less
  BY DEF Less
<1>5. \A y \in S : ~ (y < x)
  BY <1>1, <1>3, <1>4
<1>6. \A y \in S : x <= y
  BY <1>1, <1>5
<1> QED
  BY <1>6 DEF Min

Sources == [Path -> Content \cup {Absent}]

LEMMA SeededType ==
  ASSUME NEW s \in Sources, NEW d \in Listing
  PROVE  /\ Seeded(s, d) \in [Content -> Path \cup {0}]
         /\ \A c \in Content : /\ Seeded(s, d)[c] = 0 => \A p \in Path \ RemovedPaths(s, d) : d[p] # c
                               /\ Seeded(s, d)[c] # 0 => /\ Seeded(s, d)[c] \in Path \ RemovedPaths(s, d)
                                                         /\ d[Seeded(s, d)[c]] = c
<1> SUFFICES ASSUME NEW c \in Content
             PROVE  LET h == {p \in Path \ RemovedPaths(s, d) : d[p] = c}
                        e == IF h = {} THEN 0 ELSE Min(h)
                    IN  /\ e \in Path \cup {0}
                        /\ e = 0 => h = {}
                        /\ e # 0 => e \in h
  BY DEF Seeded
<1> DEFINE h == {p \in Path \ RemovedPaths(s, d) : d[p] = c}
<1>1. h # {} => Min(h) \in h /\ Min(h) # 0
  BY FirstHolder, PathAssumption DEF Path
<1> QED
  BY <1>1

\* What the comparison of the source with the listing d makes of a path.
Planned(o, d) ==
    /\ o \in Operation
    /\ o.act = "add" => src[o.path] # Absent /\ d[o.path] = Absent
    /\ o.act \in {"modify", "conflict", "keep"} => src[o.path] # Absent /\ d[o.path] # Absent
    /\ o.act = "delete" => o.path \in Deleted(src, d)
    /\ o.act = "move" => /\ src[o.path] # Absent /\ d[o.path] = Absent
                         /\ o.from \in Deleted(src, d)

\* What is written, is not moved to or kept, too.
Single(o, ops) == \A x \in ops : x.path = o.path /\ Writes(x) => Writes(o)

LEMMA ComparisonPlans ==
  ASSUME NEW d \in Listing, NEW o \in Operations(src, d)
  PROVE  Planned(o, d) /\ Single(o, Operations(src, d))
<1> DEFINE moves == Moves(src, d)
           moved == {m[1] : m \in moves}
           op(act, p) == [act |-> act, path |-> p, from |-> 0]
           Acts == {"add", "modify", "delete", "conflict", "keep"}
<1>1. \A m \in moves : /\ m[1] \in Added(src, d) /\ m[2] \in Deleted(src, d)
                        /\ m[1] \in Path /\ m[2] \in Path
  BY DEF Moves, Added, Deleted
\* The parts of the plan.
<1>2. ASSUME NEW x \in Operations(src, d)
      PROVE  \/ \E m \in moves : x = [act |-> "move", path |-> m[1], from |-> m[2]]
             \/ \E p \in Added(src, d) \ moved : x = op("add", p)
             \/ \E p \in Deleted(src, d) : x = op("delete", p)
             \/ \E p \in Changed(src, d) : /\ mode = "sync" /\ p \in fresh /\ x = op("conflict", p)
             \/ \E p \in Changed(src, d) : /\ mode = "sync" /\ p \notin fresh /\ x = op("keep", p)
             \/ \E p \in Changed(src, d) : /\ mode # "sync" /\ x = op("modify", p)
  BY <1>2 DEF Operations
<1>3. Added(src, d) \subseteq Path /\ Deleted(src, d) \subseteq Path /\ Changed(src, d) \subseteq Path
  BY DEF Added, Deleted, Changed
<1> HIDE DEF moves, moved
<1>4. ASSUME NEW x \in Operations(src, d)
      PROVE  /\ Planned(x, d)
             /\ x.act \in {"modify", "conflict", "keep"} => x.path \in Changed(src, d)
             /\ x.act = "move" => x.path \in moved
             /\ x.act = "add" => x.path \notin moved
             /\ x.act \in {"conflict", "keep", "modify"} => /\ x.act = "modify" <=> mode # "sync"
                                                            /\ x.act = "conflict" => x.path \in fresh
                                                            /\ x.act = "keep" => x.path \notin fresh
  <2>1. ASSUME NEW m \in moves, x = [act |-> "move", path |-> m[1], from |-> m[2]]
        PROVE  x.path \in moved /\ Planned(x, d)
    BY <1>1, <2>1 DEF moved, Planned, Operation, Added
  <2>2. ASSUME NEW p \in Path, NEW act \in Acts, x = op(act, p)
        PROVE  x \in Operation /\ x.act = act /\ x.path = p
    BY <2>2 DEF Operation
  <2> HIDE DEF op
  <2>3. CASE \E m \in moves : x = [act |-> "move", path |-> m[1], from |-> m[2]]
    BY <2>1, <2>3
  <2>4. CASE \E p \in Added(src, d) \ moved : x = op("add", p)
    BY <1>3, <2>2, <2>4 DEF Planned, Added
  <2>5. CASE \E p \in Deleted(src, d) : x = op("delete", p)
    BY <1>3, <2>2, <2>5 DEF Planned
  <2>6. CASE \E p \in Changed(src, d) : mode = "sync" /\ p \in fresh /\ x = op("conflict", p)
    BY <1>3, <2>2, <2>6 DEF Planned, Changed
  <2>7. CASE \E p \in Changed(src, d) : mode = "sync" /\ p \notin fresh /\ x = op("keep", p)
    BY <1>3, <2>2, <2>7 DEF Planned, Changed
  <2>8. CASE \E p \in Changed(src, d) : mode # "sync" /\ x = op("modify", p)
    BY <1>3, <2>2, <2>8 DEF Planned, Changed
  <2> QED
    BY <1>2, <2>3, <2>4, <2>5, <2>6, <2>7, <2>8
<1>5. Single(o, Operations(src, d))
  <2> SUFFICES ASSUME NEW x \in Operations(src, d), x.path = o.path, Writes(x)
               PROVE  Writes(o)
    BY DEF Single
  <2>1. o.act \in Acts \cup {"move"}
    BY <1>4 DEF Planned, Operation
  <2>2. o.act \notin {"delete", "move", "keep"}
    BY <1>4 DEF Writes, Replaces, Planned, Deleted
  <2> QED
    BY <2>1, <2>2 DEF Writes, Replaces
<1> QED
  BY <1>4, <1>5

-----------------------------------------------------------------------------
(* Types                                                                   *)

\* A listing of files: nothing lies below a file.
NothingBelow == \A p \in Path : snap[p] # Absent => \A q \in Above[p] : snap[q] = Absent
PlanInv == NothingBelow /\ \A o \in plan : Planned(o, snap) /\ Single(o, plan)

\* TypeOK in parts.
TreesType == /\ src \in Sources /\ snap \in Listing /\ tree \in Tree /\ WellFormed(tree)
             /\ tracker \in [Content -> Path \cup {0}]
PlanType ==
    /\ plan \subseteq Operation /\ todo \subseteq plan /\ errors \subseteq Path
    /\ ready \in BOOLEAN /\ (pc = "execute" /\ ready => \E o \in todo : Current(o) /\ Writes(o))
RunType ==
    /\ mode \in {"push", "sync"} /\ fresh \subseteq Path
    /\ pc \in {"idle", "execute", "done"} /\ runs \in 0..MaxRuns /\ faults \in 0..MaxFaults

LEMMA TypeParts == TypeOK <=> TreesType /\ PlanType /\ RunType
  BY DEF TypeOK, TreesType, PlanType, RunType, Sources

LEMMA TypeNext == TreesType' /\ PlanType' /\ RunType' => TypeOK'
  BY DEF TypeOK, TreesType, PlanType, RunType, Sources, Current

LEMMA ListingNothingBelow ==
  ASSUME NEW t \in Tree, WellFormed(t), NEW p \in Path, ListingOf(t)[p] # Absent, NEW q \in Above[p]
  PROVE  ListingOf(t)[q] = Absent
  BY WhereThingsLie, EntryAssumption DEF ListingOf, IsFile, WellFormed

LEMMA InitTyped == Init => TypeOK /\ PlanInv
<1> SUFFICES ASSUME Init PROVE TypeOK /\ PlanInv
  OBVIOUS
<1>1. src \in Sources /\ tree \in Tree /\ WellFormed(tree)
  BY PairsAssumption DEF Init, Sources
<1>2. snap \in Listing /\ NothingBelow
  BY <1>1, ListingOfTree, ListingNothingBelow DEF Init, NothingBelow
<1>3. TreesType /\ PlanType
  BY <1>1, <1>2 DEF Init, TreesType, PlanType
<1>4. fresh \subseteq Path
  BY DEF Init, Changed
<1>5. RunType
  BY <1>4, ModesAssumption, BoundsAssumption DEF Init, RunType
<1> QED
  BY <1>2, <1>3, <1>5, TypeParts DEF PlanInv, Init

LEMMA CompareTyped == TypeOK /\ PlanInv /\ Compare => TypeOK' /\ PlanInv'
<1> SUFFICES ASSUME TypeOK, Compare PROVE TypeOK' /\ PlanInv'
  OBVIOUS
<1>0. TreesType /\ PlanType /\ RunType
  BY TypeParts
<1>1. snap' \in Listing /\ NothingBelow'
  BY <1>0, ListingOfTree, ListingNothingBelow DEF Compare, TreesType, NothingBelow
<1>2. \A o \in plan' : Planned(o, snap') /\ Single(o, plan')
  BY <1>1, ComparisonPlans DEF Compare
<1>3. \A o \in plan' : Planned(o, snap)' /\ Single(o, plan)'
  BY <1>2 DEF Compare, Planned, Single, Writes, Replaces, Deleted
<1>4. TreesType'
  BY <1>0, <1>1, SeededType DEF Compare, TreesType
<1>5. PlanType'
  BY <1>2 DEF Compare, PlanType, Planned
<1>6. RunType'
  BY <1>0, BoundsAssumption DEF Compare, RunType
<1> QED
  BY <1>1, <1>3, <1>4, <1>5, <1>6, TypeNext DEF PlanInv

\* The operation in hand: nothing that writes comes after one that does not, at a path.
LEMMA InHand ==
  ASSUME TypeOK, PlanInv, NEW o \in todo, Current(o)
  PROVE  /\ Planned(o, snap) /\ o.path \in Path /\ o.path \in Nat
         /\ ready => Writes(o) /\ src[o.path] \in Content
         /\ \A x \in todo : Current(x) => x.path = o.path
<1>0. TreesType /\ PlanType
  BY TypeParts
<1>1. \A x \in todo : x \in plan /\ x.path \in Path /\ x.path \in Nat
  BY <1>0, PathAssumption DEF PlanType, Operation, Path
<1>2. \A x \in todo : Current(x) => x.path = o.path
  BY <1>1 DEF Current
<1>3. ASSUME ready PROVE Writes(o) /\ src[o.path] \in Content
  <2>1. PICK x \in todo : Current(x) /\ Writes(x)
    BY <1>0, <1>3 DEF PlanType, Current
  <2>2. Writes(o)
    BY <1>1, <1>2, <2>1 DEF PlanInv, Single
  <2>3. src[o.path] # Absent
    BY <1>1, <2>2 DEF PlanInv, Planned, Writes, Replaces
  <2> QED
    BY <1>0, <1>1, <2>2, <2>3 DEF TreesType, Sources
<1> QED
  BY <1>1, <1>2, <1>3 DEF PlanInv

\* What a copy writes.
Brought(o) == IF Origin(o) = 0 THEN src[o.path] ELSE tree[Origin(o)]

LEMMA CopiedType ==
  ASSUME TypeOK, PlanInv, NEW o \in todo, Current(o), ready, CanCopy(o), NEW e \in {Brought(o), Torn}
  PROVE  /\ [tree EXCEPT ![o.path] = e] \in Tree /\ WellFormed([tree EXCEPT ![o.path] = e])
         /\ Origin(o) \in Path \cup {0} /\ Brought(o) \in FileData /\ e \in FileData
<1>0. TreesType
  BY TypeParts
<1>1. o.path \in Path /\ src[o.path] \in Content
  BY InHand
<1>2. Origin(o) \in Path \cup {0}
  BY <1>0, <1>1 DEF Origin, TreesType
<1>3. Brought(o) \in FileData /\ e \in FileData
  BY <1>1, <1>2 DEF Brought, CanCopy, IsFile, FileData
<1>4. e \in Entry /\ ParentsExist(tree, o.path) /\ tree[o.path] # Dir
  BY <1>3, EntryAssumption DEF CanCopy, Entry
<1> QED
  BY <1>0, <1>1, <1>2, <1>3, <1>4, TreeUpdate, ExtendedWellFormed DEF TreesType

LEMMA MovedType ==
  ASSUME NEW t \in Tree, WellFormed(t), NEW p \in Path, NEW q \in Path,
         ParentsExist(t, p), t[p] = Absent, IsFile(t, q)
  PROVE  LET u == [t EXCEPT ![p] = t[q], ![q] = Absent]
         IN  u \in Tree /\ WellFormed(u)
<1> DEFINE v == [t EXCEPT ![p] = t[q]]
           u == [v EXCEPT ![q] = Absent]
<1>1. p # q /\ t[q] # Absent /\ t[q] # Dir /\ t[q] \in Entry
  BY EntryAssumption DEF IsFile, Entry
<1>2. v \in Tree /\ WellFormed(v)
  BY <1>1, TreeUpdate, ExtendedWellFormed, EntryAssumption
<1>3. u \in Tree
  BY <1>2, TreeUpdate DEF Entry
<1>4. v[q] # Dir
  BY <1>1 DEF Tree
<1> HIDE DEF v
<1>5. ASSUME NEW r \in Path, u[r] # Absent, NEW s \in Above[r]
      PROVE  u[s] = Dir
  <2>1. v[r] # Absent /\ s \in Path
    BY <1>2, <1>5, WhereThingsLie DEF Tree
  <2>2. v[s] = Dir /\ s # q
    BY <1>2, <1>4, <2>1 DEF WellFormed
  <2> QED
    BY <1>2, <2>1, <2>2 DEF Tree
<1> QED
  BY <1>3, <1>5 DEF WellFormed, v

\* What an operation in hand can make of the destination.
Outcomes(o) ==
    {tree} \cup (IF CanMakeParents(tree, o.path) THEN {WithParents(tree, o.path)} ELSE {})
    \cup (IF o.act \in {"modify", "conflict", "delete"} THEN {Removed(tree, o.path)} ELSE {})
    \cup (IF ready /\ CanCopy(o) THEN {[tree EXCEPT ![o.path] = e] : e \in {Brought(o), Torn}} ELSE {})
    \cup (LET made == WithParents(tree, o.path)
          IN  IF o.act = "move" /\ CanMakeParents(tree, o.path)
                 /\ made[o.path] = Absent /\ IsFile(made, o.from)
              THEN {[made EXCEPT ![o.path] = made[o.from], ![o.from] = Absent]} ELSE {})

LEMMA CutOffOutcome ==
  ASSUME NEW o, CutOff(o)
  PROVE  tree' \in Outcomes(o)
  BY DEF CutOff, Outcomes

LEMMA OutcomesTyped ==
  ASSUME TypeOK, PlanInv, NEW o \in todo, Current(o), NEW t \in Outcomes(o)
  PROVE  t \in Tree /\ WellFormed(t)
<1>0. TreesType /\ o.path \in Path /\ Planned(o, snap)
  BY TypeParts, InHand
<1>1. WithParents(tree, o.path) \in Tree /\ WellFormed(WithParents(tree, o.path))
      /\ ParentsExist(WithParents(tree, o.path), o.path)
  BY <1>0, TreeOperations, WithParentsWellFormed, WhereThingsLie DEF TreesType, ParentsExist, WithParents
<1>2. CASE t = Removed(tree, o.path)
  BY <1>0, <1>2, TreeOperations, RemovedWellFormed DEF TreesType
<1>3. CASE ready /\ CanCopy(o) /\ \E e \in {Brought(o), Torn} : t = [tree EXCEPT ![o.path] = e]
  BY <1>3, CopiedType
<1>4. CASE LET made == WithParents(tree, o.path)
           IN  /\ o.act = "move" /\ made[o.path] = Absent /\ IsFile(made, o.from)
               /\ t = [made EXCEPT ![o.path] = made[o.from], ![o.from] = Absent]
  <2>1. o.from \in Path
    BY <1>0, <1>4 DEF Planned, Deleted
  <2> QED
    BY <1>0, <1>1, <1>4, <2>1, MovedType
<1> QED
  BY <1>0, <1>1, <1>2, <1>3, <1>4 DEF Outcomes, TreesType

LEMMA MoveOutcome ==
  ASSUME TypeOK, PlanInv, NEW o \in todo, Current(o), MoveFile(o)
  PROVE  tree' \in Outcomes(o)
<1>1. o.from \in Path
  BY InHand DEF Planned, Deleted, MoveFile
<1>2. IsFile(WithParents(tree, o.path), o.from) => WithParents(tree, o.path)[o.from] = tree[o.from]
  BY <1>1, EntryAssumption DEF IsFile, WithParents
<1> QED
  BY <1>2 DEF MoveFile, TryWithParents, Outcomes

\* Whatever is applied, or dies, does it to the destination by the operation in hand.
LEMMA OneOperation ==
  ASSUME TypeOK, PlanInv, Apply \/ Crash
  PROVE  /\ tree' = tree \/ (\E o \in todo : Current(o) /\ tree' \in Outcomes(o))
         /\ UNCHANGED <<src, mode, snap, plan, runs>> /\ faults' \in 0..MaxFaults
         /\ fresh' \subseteq Path /\ tracker' \in [Content -> Path \cup {0}]
<1>0. TreesType /\ PlanType /\ RunType
  BY TypeParts
<1>1. Fault => faults' \in 0..MaxFaults
  BY <1>0, BoundsAssumption DEF Fault, RunType
<1>2. UNCHANGED <<src, mode, snap, plan, runs>> /\ faults' \in 0..MaxFaults
  <2>1. CASE Crash
    BY <1>1, <2>1 DEF Crash
  <2>2. ASSUME NEW o \in todo, PrepareAdd(o) \/ KeepDestination(o) \/ RemoveOld(o)
        PROVE  UNCHANGED <<src, mode, snap, plan, runs>> /\ faults' \in 0..MaxFaults
    BY <1>0, <1>1, <2>2 DEF PrepareAdd, KeepDestination, RemoveOld, RunType
  <2>3. ASSUME NEW o \in todo, CopyFile(o) \/ CopyFails(o)
        PROVE  UNCHANGED <<src, mode, snap, plan, runs>> /\ faults' \in 0..MaxFaults
    BY <1>0, <1>1, <2>3 DEF CopyFile, CopyFails, RunType
  <2>4. ASSUME NEW o \in todo, DeleteFile(o) \/ MoveFile(o)
        PROVE  UNCHANGED <<src, mode, snap, plan, runs>> /\ faults' \in 0..MaxFaults
    BY <1>0, <1>1, <2>4 DEF DeleteFile, MoveFile, RunType
  <2> QED
    BY <2>1, <2>2, <2>3, <2>4 DEF Apply
<1>3. fresh' \subseteq Path /\ tracker' \in [Content -> Path \cup {0}]
  <2>1. CASE Crash
    BY <1>0, <2>1 DEF Crash, CutOff, RunType, TreesType
  <2>2. ASSUME NEW o \in todo, CopyFile(o)
        PROVE  fresh' \subseteq Path /\ tracker' \in [Content -> Path \cup {0}]
    BY <1>0, <2>2, InHand DEF CopyFile, RunType, TreesType
  <2> QED
    BY <1>0, <2>1, <2>2 DEF Apply, PrepareAdd, KeepDestination, RemoveOld, CopyFails, CutOff,
       DeleteFile, MoveFile, RunType, TreesType
<1>4. tree' = tree \/ (\E o \in todo : Current(o) /\ tree' \in Outcomes(o))
  <2>1. CASE Crash
    BY <2>1, CutOffOutcome DEF Crash, CutOff
  <2>2. ASSUME NEW o \in todo, PrepareAdd(o) \/ KeepDestination(o) \/ RemoveOld(o) \/ CopyFails(o)
        PROVE  tree' = tree \/ (Current(o) /\ tree' \in Outcomes(o))
    BY <2>2, CutOffOutcome
       DEF PrepareAdd, KeepDestination, RemoveOld, CopyFails, Outcomes, Replaces
  <2>3. ASSUME NEW o \in todo, CopyFile(o) \/ DeleteFile(o)
        PROVE  tree' = tree \/ (Current(o) /\ tree' \in Outcomes(o))
    BY <2>3 DEF CopyFile, DeleteFile, Outcomes, Brought
  <2>4. ASSUME NEW o \in todo, MoveFile(o)
        PROVE  Current(o) /\ tree' \in Outcomes(o)
    BY <2>4, MoveOutcome DEF MoveFile
  <2> QED
    BY <2>1, <2>2, <2>3, <2>4 DEF Apply
<1> QED
  BY <1>2, <1>3, <1>4

LEMMA AppliedTyped == TypeOK /\ PlanInv /\ (Apply \/ Crash) => TypeOK'
<1> SUFFICES ASSUME TypeOK, PlanInv, Apply \/ Crash PROVE TypeOK'
  OBVIOUS
<1>0. TreesType /\ PlanType /\ RunType
  BY TypeParts
<1>1. TreesType'
  BY <1>0, OneOperation, OutcomesTyped DEF TreesType
<1>2. pc' \in {pc, "idle"}
  BY DEF Apply, Crash, PrepareAdd, KeepDestination, RemoveOld, CopyFile, CopyFails, DeleteFile, MoveFile
<1>3. RunType'
  BY <1>0, <1>2, OneOperation DEF RunType
<1>4. PlanType'
  <2>1. ASSUME NEW o \in todo, Current(o), plan' = plan,
               (Applied(o) /\ errors' = errors) \/ Reported(o)
        PROVE  PlanType'
    BY <1>0, <2>1, InHand DEF PlanType, Applied, Reported
  <2>2. ASSUME NEW o \in todo, PrepareAdd(o) \/ RemoveOld(o)
        PROVE  PlanType'
    <3>1. CASE ready' = TRUE /\ UNCHANGED <<plan, todo, errors, pc>>
      <4>1. Current(o) /\ Writes(o)
        BY <2>2 DEF PrepareAdd, RemoveOld, Writes
      <4> QED
        BY <1>0, <3>1, <4>1 DEF PlanType, Current
    <3> QED
      BY <2>1, <2>2, <3>1 DEF PrepareAdd, RemoveOld
  <2>3. ASSUME NEW o \in todo, KeepDestination(o) \/ CopyFile(o) \/ CopyFails(o) \/ DeleteFile(o)
                               \/ MoveFile(o)
        PROVE  PlanType'
    BY <2>1, <2>3 DEF KeepDestination, CopyFile, CopyFails, DeleteFile, MoveFile, Reported
  <2>4. CASE Crash
    BY <1>0, <2>4 DEF Crash, PlanType
  <2> QED
    BY <2>2, <2>3, <2>4 DEF Apply
<1> QED
  BY <1>1, <1>3, <1>4, TypeNext

LEMMA NextTyped == TypeOK /\ PlanInv /\ [Next]_vars => TypeOK' /\ PlanInv'
<1> SUFFICES ASSUME TypeOK, PlanInv, [Next]_vars PROVE TypeOK' /\ PlanInv'
  OBVIOUS
<1>0. TreesType /\ PlanType /\ RunType
  BY TypeParts
<1>1. UNCHANGED <<src, mode, snap, plan>> => PlanInv'
  BY DEF PlanInv, NothingBelow, Planned, Deleted, Single
<1>2. CASE Compare
  BY <1>2, CompareTyped
<1>3. CASE Apply \/ Crash
  BY <1>1, <1>3, AppliedTyped, OneOperation
<1>4. CASE Finish
  BY <1>0, <1>1, <1>4, TypeNext DEF Finish, TreesType, PlanType, RunType
<1>5. CASE UNCHANGED vars
  BY <1>0, <1>1, <1>5, TypeNext DEF vars, TreesType, PlanType, RunType, Current
<1> QED
  BY <1>2, <1>3, <1>4, <1>5 DEF Next

(* The types, for any source and destination: what is ready to be copied   *)
(* to is the path of an operation that writes, whatever fails or dies.     *)
THEOREM SpecTypeOK == Spec => []TypeOK
  BY InitTyped, NextTyped, PTL DEF Spec

-----------------------------------------------------------------------------
(* No file is lost without a word                                          *)

\* LossIsReported, by its halves.
OthersStay == \A p \in Path : (\A o \in plan : p \notin Touched(o)) => ListingOf(tree)[p] = snap[p]
Lost(p) == src[p] # Absent /\ snap[p] # Absent /\ tree[p] = Absent
InWork(p) == ready /\ \E o \in todo : Current(o) /\ o.path = p
LostAreReported == \A p \in Path : Lost(p) => p \in errors \/ InWork(p)

\* Of what was a file, only the operation's own can go.
LEMMA OutcomesSpare ==
  ASSUME TypeOK, PlanInv, NEW o \in todo, Current(o), NEW t \in Outcomes(o), NEW p \in Path,
         snap[p] # Absent, p # o.path, o.act = "move" => p # o.from
  PROVE  /\ ListingOf(t)[p] = ListingOf(tree)[p]
         /\ t[p] = Absent => tree[p] = Absent
<1>0. TreesType /\ o.path \in Path /\ Planned(o, snap)
  BY TypeParts, InHand
<1>1. ASSUME CanMakeParents(tree, o.path)
      PROVE  /\ ListingOf(WithParents(tree, o.path))[p] = ListingOf(tree)[p]
             /\ WithParents(tree, o.path)[p] = Absent => tree[p] = Absent
  BY <1>1, EntryAssumption DEF CanMakeParents, WithParents, ListingOf, IsFile
<1>2. CASE o.act \in {"modify", "conflict", "delete"} /\ t = Removed(tree, o.path)
  <2>1. snap[o.path] # Absent
    BY <1>0, <1>2 DEF Planned, Deleted
  <2>2. o.path \notin Above[p]
    BY <2>1 DEF PlanInv, NothingBelow
  <2> QED
    BY <1>2, <2>2 DEF Removed, ListingOf, IsFile
<1>3. ASSUME NEW e, t = [tree EXCEPT ![o.path] = e]
      PROVE  ListingOf(t)[p] = ListingOf(tree)[p] /\ t[p] = tree[p]
  BY <1>3 DEF ListingOf, IsFile
<1>4. CASE LET made == WithParents(tree, o.path)
           IN  /\ o.act = "move" /\ CanMakeParents(tree, o.path)
               /\ t = [made EXCEPT ![o.path] = made[o.from], ![o.from] = Absent]
  <2>1. t[p] = WithParents(tree, o.path)[p]
    BY <1>4 DEF WithParents
  <2>2. ListingOf(t)[p] = ListingOf(WithParents(tree, o.path))[p]
    BY <2>1 DEF ListingOf, IsFile
  <2> QED
    BY <1>1, <1>4, <2>1, <2>2
<1> QED
  BY <1>1, <1>2, <1>3, <1>4 DEF Outcomes

LossInv == pc # "idle" => OthersStay /\ LostAreReported

\* A path that no operation is about is absent, or a file that stays.
LEMMA OutcomesLeave ==
  ASSUME TypeOK, PlanInv, NEW o \in todo, Current(o), NEW t \in Outcomes(o), NEW p \in Path,
         p \notin Touched(o), ListingOf(tree)[p] = snap[p]
  PROVE  ListingOf(t)[p] = snap[p]
<1>0. TreesType /\ o.path \in Path /\ Planned(o, snap)
  BY TypeParts, InHand
<1>1. p # o.path /\ (o.act = "move" => p # o.from)
  BY DEF Touched
<1>2. CASE snap[p] # Absent
  BY <1>1, <1>2, OutcomesSpare
<1>3. CASE snap[p] = Absent
  <2>1. ~ IsFile(tree, p)
    BY <1>3, EntryAssumption DEF ListingOf, IsFile
  <2>2. ASSUME NEW u \in {tree, WithParents(tree, o.path), Removed(tree, o.path)}
        PROVE  ~ IsFile(u, p)
    BY <2>1, EntryAssumption DEF IsFile, WithParents, Removed
  <2>3. ASSUME NEW e, t = [tree EXCEPT ![o.path] = e]
        PROVE  ~ IsFile(t, p)
    BY <1>1, <2>1, <2>3 DEF IsFile
  <2>4. ASSUME o.act = "move",
               t = [WithParents(tree, o.path) EXCEPT ![o.path] = WithParents(tree, o.path)[o.from],
                                                     ![o.from] = Absent]
        PROVE  ~ IsFile(t, p)
    <3>1. t[p] = WithParents(tree, o.path)[p]
      BY <1>1, <2>4 DEF WithParents
    <3> QED
      BY <2>2, <3>1 DEF IsFile
  <2>5. ~ IsFile(t, p)
    BY <2>2, <2>3, <2>4 DEF Outcomes
  <2> QED
    BY <1>3, <2>5 DEF ListingOf
<1> QED
  BY <1>2, <1>3

LEMMA CompareLoss == TypeOK /\ PlanInv /\ Compare => LossInv'
<1> SUFFICES ASSUME TypeOK, PlanInv, Compare PROVE LossInv'
  OBVIOUS
<1>1. tree \in Tree /\ tree' = tree /\ snap' = ListingOf(tree)
  BY TypeParts DEF Compare, TreesType
<1>2. OthersStay'
  BY <1>1 DEF OthersStay
<1>3. \A p \in Path : snap'[p] # Absent => tree'[p] # Absent
  BY <1>1, EntryAssumption DEF ListingOf, IsFile
<1>4. LostAreReported'
  BY <1>3 DEF LostAreReported, Lost
<1> QED
  BY <1>2, <1>4 DEF LossInv

\* What an operation may take from what was a file at its path, or the one it moves.
LEMMA OnlyItsOwn ==
  ASSUME TypeOK, PlanInv, OthersStay, LostAreReported, pc = "execute",
         UNCHANGED <<src, mode, snap, plan>>,
         NEW o \in todo, Current(o), tree' \in Outcomes(o), todo' \subseteq todo,
         errors \subseteq errors', tree'[o.path] = Absent => \/ ~ Lost(o.path)' \/ o.path \in errors'
                                                            \/ InWork(o.path)'
  PROVE  LossInv'
<1>0. o.path \in Path /\ Planned(o, snap) /\ \A x \in todo : Current(x) => x.path = o.path
  BY InHand
<1>1. OthersStay'
  <2>1. ASSUME NEW p \in Path, \A x \in plan : p \notin Touched(x)
        PROVE  ListingOf(tree')[p] = snap[p]
    <3>1. p \notin Touched(o) /\ ListingOf(tree)[p] = snap[p]
      BY <2>1, TypeParts DEF OthersStay, PlanType
    <3> QED
      BY <3>1, OutcomesLeave
  <2> QED
    BY <2>1 DEF OthersStay, Touched
<1>2. ASSUME NEW p \in Path, Lost(p)'
      PROVE  p \in errors' \/ InWork(p)'
  <2>1. CASE p = o.path
    BY <1>2, <2>1 DEF Lost
  <2>2. CASE p # o.path
    <3>1. o.act = "move" => p # o.from
      BY <1>0, <1>2 DEF Lost, Planned, Deleted
    <3>2. Lost(p)
      BY <1>2, <2>2, <3>1, OutcomesSpare DEF Lost
    <3>3. ~ InWork(p)
      BY <1>0, <2>2 DEF InWork
    <3> QED
      BY <3>2, <3>3 DEF LostAreReported
  <2> QED
    BY <2>1, <2>2
<1> QED
  BY <1>1, <1>2 DEF LossInv, LostAreReported

LEMMA ApplyLoss == TypeOK /\ PlanInv /\ LossInv /\ Apply => LossInv'
<1> SUFFICES ASSUME TypeOK, PlanInv, LossInv, NEW o \in todo,
                    \/ PrepareAdd(o) \/ KeepDestination(o) \/ RemoveOld(o) \/ CopyFile(o)
                    \/ CopyFails(o) \/ DeleteFile(o) \/ MoveFile(o)
             PROVE  LossInv'
  BY DEF Apply
<1>0. TreesType /\ PlanType
  BY TypeParts
<1>1. Current(o) /\ pc = "execute" /\ pc' = pc /\ UNCHANGED <<src, mode, snap, plan>>
  BY DEF PrepareAdd, KeepDestination, RemoveOld, CopyFile, CopyFails, DeleteFile, MoveFile, Current
<1>2. o.path \in Path /\ Planned(o, snap) /\ (ready => Writes(o))
      /\ \A x \in todo : Current(x) => x.path = o.path
  BY <1>1, InHand
<1>3. OthersStay /\ LostAreReported
  BY <1>1 DEF LossInv
<1>4. todo' \subseteq todo /\ errors \subseteq errors'
  BY DEF PrepareAdd, KeepDestination, RemoveOld, CopyFile, CopyFails, DeleteFile, MoveFile,
     Applied, Reported
\* What is at work on nothing leaves an absent file reported.
<1>5. ASSUME ~ ready, tree'[o.path] = Absent => tree[o.path] = Absent
      PROVE  Lost(o.path)' => o.path \in errors'
  BY <1>1, <1>2, <1>3, <1>4, <1>5 DEF Lost, LostAreReported, InWork
<1>6. tree' \in Outcomes(o) /\ (tree'[o.path] = Absent =>
          ~ Lost(o.path)' \/ o.path \in errors' \/ InWork(o.path)')
  <2>1. CASE PrepareAdd(o)
    <3>1. ~ Lost(o.path)'
      BY <1>1, <1>2, <2>1 DEF PrepareAdd, Planned, Lost
    <3> QED
      BY <2>1, <3>1 DEF PrepareAdd, Outcomes
  <2>2. CASE KeepDestination(o)
    <3>1. ~ ready
      BY <1>2, <2>2 DEF KeepDestination, Writes, Replaces
    <3> QED
      BY <1>5, <2>2, <3>1 DEF KeepDestination, Outcomes
  <2>3. CASE RemoveOld(o)
    <3>1. InWork(o.path)'
      BY <1>1, <2>3 DEF RemoveOld, InWork, Current
    <3> QED
      BY <2>3, <3>1 DEF RemoveOld, Outcomes, Replaces
  <2>4. CASE CopyFile(o)
    <3>1. CASE CanCopy(o)
      <4>1. tree' = [tree EXCEPT ![o.path] = Brought(o)] /\ ready
        BY <2>4, <3>1 DEF CopyFile, Brought
      <4>2. Brought(o) \in FileData
        BY <1>1, <3>1, <4>1, CopiedType
      <4>3. tree'[o.path] # Absent
        BY <1>0, <1>2, <4>1, <4>2, EntryAssumption DEF TreesType, Tree
      <4> QED
        BY <3>1, <4>1, <4>3 DEF Outcomes
    <3>2. CASE ~ CanCopy(o)
      BY <2>4, <3>2 DEF CopyFile, Reported, Outcomes
    <3> QED
      BY <3>1, <3>2
  <2>5. CASE CopyFails(o)
    BY <2>5, CutOffOutcome DEF CopyFails, Reported, Outcomes
  <2>6. CASE DeleteFile(o)
    <3>1. ~ Lost(o.path)'
      BY <1>1, <1>2, <2>6 DEF DeleteFile, Planned, Deleted, Lost
    <3> QED
      BY <2>6, <3>1 DEF DeleteFile, Outcomes
  <2>7. CASE MoveFile(o)
    <3>1. ~ Lost(o.path)'
      BY <1>1, <1>2, <2>7 DEF MoveFile, Planned, Lost
    <3>2. tree' \in Outcomes(o)
      BY <1>1, <2>7, MoveOutcome
    <3> QED
      BY <3>1, <3>2
  <2> QED
    BY <2>1, <2>2, <2>3, <2>4, <2>5, <2>6, <2>7
<1> QED
  BY <1>1, <1>3, <1>4, <1>6, OnlyItsOwn

LEMMA NextLoss == TypeOK /\ PlanInv /\ LossInv /\ [Next]_vars => LossInv'
<1> SUFFICES ASSUME TypeOK, PlanInv, LossInv, [Next]_vars PROVE LossInv'
  OBVIOUS
<1>1. CASE Compare
  BY <1>1, CompareLoss
<1>2. CASE Apply
  BY <1>2, ApplyLoss
<1>3. CASE Crash
  BY <1>3 DEF Crash, LossInv
<1>4. CASE Finish
  <2>1. ~ ready
    BY <1>4, TypeParts DEF Finish, PlanType
  <2> QED
    BY <1>4, <2>1 DEF Finish, LossInv, OthersStay, LostAreReported, Lost, InWork
<1>5. CASE UNCHANGED vars
  BY <1>5 DEF vars, LossInv, OthersStay, LostAreReported, Lost, InWork, Current
<1> QED
  BY <1>1, <1>2, <1>3, <1>4, <1>5 DEF Next

LEMMA LossIsLossInv == LossInv => LossIsReported
  BY DEF LossInv, LossIsReported, OthersStay, LostAreReported, Lost, InWork

(* A file no operation is about is not touched, and at most the one being  *)
(* replaced is missing without an error that says so: for any plan and     *)
(* wherever it fails (applyModify removes before it copies).               *)
THEOREM SpecLossIsReported == Spec => []LossIsReported
<1>1. Init => LossInv
  BY DEF Init, LossInv
<1> QED
  BY <1>1, InitTyped, NextTyped, NextLoss, LossIsLossInv, PTL DEF Spec

-----------------------------------------------------------------------------
(* What the tracker knows                                                  *)

\* The paths whose files are to be moved away or deleted, or have just been moved to.
Goes(p) == p \in Deleted(src, snap) \/ \E o \in plan : o.act = "move" /\ o.path = p

\* What the tracker does not know is only where it will not stay, or came by a move; and
\* what it does know is nowhere of the kind.
Unknown == \A c \in Content : tracker[c] = 0 => \A p \in Path : tree[p] = c => Goes(p)
Stays == \A c \in Content : tracker[c] # 0 => ~ Goes(tracker[c])
KnownInv == pc = "execute" => Unknown /\ Stays

LEMMA CompareKnown == TypeOK /\ PlanInv /\ Compare => KnownInv'
<1> SUFFICES ASSUME TypeOK, PlanInv, Compare PROVE KnownInv'
  OBVIOUS
<1>0. /\ src \in Sources /\ tree \in Tree /\ snap' \in Listing
      /\ UNCHANGED <<src, tree, mode>> /\ snap' = ListingOf(tree) /\ tracker' = Seeded(src, snap')
      /\ plan' = Operations(src, snap')
  BY TypeParts, ListingOfTree DEF Compare, TreesType
<1>1. ASSUME NEW c \in Content, tracker'[c] = 0, NEW p \in Path, tree[p] = c
      PROVE  p \in Deleted(src, snap')
  <2>1. snap'[p] = c
    BY <1>0, <1>1 DEF ListingOf, IsFile, FileData
  <2> QED
    BY <1>0, <1>1, <2>1, SeededType DEF RemovedPaths
<1>2. ASSUME NEW c \in Content, tracker'[c] # 0
      PROVE  /\ tracker'[c] \notin Deleted(src, snap')
             /\ \A o \in plan' : ~ (o.act = "move" /\ o.path = tracker'[c])
  <2>1. tracker'[c] \notin Deleted(src, snap') /\ snap'[tracker'[c]] # Absent
    BY <1>0, <1>2, SeededType, EntryAssumption DEF RemovedPaths, FileData
  <2>2. \A o \in plan' : o.act = "move" => snap'[o.path] = Absent
    BY <1>0, ComparisonPlans DEF Planned
  <2> QED
    BY <2>1, <2>2
<1>3. \A p : Goes(p)' <=> p \in Deleted(src, snap') \/ \E o \in plan' : o.act = "move" /\ o.path = p
  BY <1>0 DEF Goes, Deleted
<1> QED
  BY <1>0, <1>1, <1>2, <1>3 DEF KnownInv, Unknown, Stays

LEMMA ApplyKnown == TypeOK /\ PlanInv /\ KnownInv /\ Apply => KnownInv'
<1> SUFFICES ASSUME TypeOK, PlanInv, KnownInv, NEW o \in todo,
                    \/ PrepareAdd(o) \/ KeepDestination(o) \/ RemoveOld(o) \/ CopyFile(o)
                    \/ CopyFails(o) \/ DeleteFile(o) \/ MoveFile(o)
             PROVE  KnownInv'
  BY DEF Apply
<1>0. TreesType /\ o \in plan
  BY TypeParts DEF PlanType
<1>1. Current(o) /\ pc = "execute" /\ UNCHANGED <<src, mode, snap, plan>>
  BY DEF PrepareAdd, KeepDestination, RemoveOld, CopyFile, CopyFails, DeleteFile, MoveFile, Current
<1>2. /\ o.path \in Path /\ Planned(o, snap) /\ Unknown /\ Stays
      /\ ready => Writes(o) /\ src[o.path] \in Content
  BY <1>1, InHand DEF KnownInv
<1>3. \A p : Goes(p)' <=> Goes(p)
  BY <1>1 DEF Goes, Deleted
\* Where the tracker is told nothing, a file that was not there has been moved there.
<1>4. ASSUME tracker' = tracker,
             \A p \in Path : tree'[p] \in Content => tree'[p] = tree[p] \/ (o.act = "move" /\ p = o.path)
      PROVE  KnownInv'
  <2>1. o.act = "move" => Goes(o.path)
    BY <1>0 DEF Goes
  <2> QED
    BY <1>2, <1>3, <1>4, <2>1 DEF KnownInv, Unknown, Stays
<1>5. \A p \in Path : /\ WithParents(tree, o.path)[p] \in {tree[p], Dir}
                      /\ TryWithParents(tree, o.path)[p] \in {tree[p], Dir}
                      /\ Removed(tree, o.path)[p] \in {tree[p], Absent}
  BY DEF WithParents, TryWithParents, Removed
<1>6. Dir \notin Content /\ Absent \notin Content
  BY EntryAssumption DEF FileData
<1>7. CASE PrepareAdd(o) \/ KeepDestination(o) \/ RemoveOld(o) \/ CopyFails(o) \/ DeleteFile(o)
  <2>1. CASE CopyFails(o)
    <3>1. tracker' = tracker /\ (tree' = tree \/ tree' = [tree EXCEPT ![o.path] = Torn])
      BY <2>1 DEF CopyFails, CutOff
    <3>2. \A p \in Path : tree'[p] \in Content => tree'[p] = tree[p]
      BY <1>0, <3>1, EntryAssumption DEF TreesType, Tree
    <3> QED
      BY <1>4, <3>1, <3>2
  <2>2. CASE PrepareAdd(o) \/ KeepDestination(o) \/ RemoveOld(o) \/ DeleteFile(o)
    BY <1>4, <1>5, <1>6, <2>2 DEF PrepareAdd, KeepDestination, RemoveOld, DeleteFile
  <2> QED
    BY <1>7, <2>1, <2>2
<1>8. CASE MoveFile(o)
  <2>1. o.act = "move" /\ tracker' = tracker
    BY <1>8 DEF MoveFile
  <2>2. ASSUME NEW p \in Path, tree'[p] \in Content, p # o.path
        PROVE  tree'[p] = tree[p]
    <3>1. CASE tree' = TryWithParents(tree, o.path)
      BY <1>5, <1>6, <2>2, <3>1
    <3>2. CASE tree' = [WithParents(tree, o.path) EXCEPT ![o.path] = tree[o.from], ![o.from] = Absent]
      <4>1. tree'[p] \in {WithParents(tree, o.path)[p], Absent}
        BY <2>2, <3>2 DEF WithParents
      <4> QED
        BY <1>5, <1>6, <2>2, <4>1
    <3> QED
      BY <1>8, <3>1, <3>2 DEF MoveFile
  <2> QED
    BY <1>4, <2>1, <2>2
<1>9. CASE CopyFile(o)
  <2>1. CASE ~ CanCopy(o)
    BY <1>4, <1>9, <2>1 DEF CopyFile
  <2>2. CASE CanCopy(o)
    <3>1. /\ tree' = [tree EXCEPT ![o.path] = Brought(o)]
          /\ tracker' = [tracker EXCEPT ![src[o.path]] = o.path]
      BY <1>9, <2>2 DEF CopyFile, Brought
    <3>2. src[o.path] \in Content /\ Writes(o) /\ Origin(o) \in Path \cup {0}
      BY <1>1, <1>2, <1>9, <2>2, CopiedType DEF CopyFile
    <3>3. ~ Goes(o.path)
      <4>1. o.path \notin Deleted(src, snap)
        BY <1>6, <3>2 DEF Deleted
      <4>2. \A x \in plan : x.path = o.path => Writes(x)
        BY <1>0, <3>2 DEF PlanInv, Single
      <4> QED
        BY <4>1, <4>2 DEF Goes, Writes, Replaces
    <3>4. ASSUME NEW c \in Content, tracker'[c] = 0, NEW p \in Path, tree'[p] = c
          PROVE  Goes(p)
      <4>0. o.path # 0
        BY <1>2, PathAssumption DEF Path
      <4>1. c # src[o.path] /\ tracker[c] = 0
        BY <1>0, <3>1, <3>2, <3>4, <4>0 DEF TreesType
      <4>2. CASE p # o.path
        BY <1>2, <3>1, <3>4, <4>1, <4>2 DEF Unknown
      <4>3. CASE p = o.path
        <5>1. Brought(o) = c
          BY <1>0, <3>1, <3>4, <4>3 DEF TreesType, Tree
        <5>2. Origin(o) # 0 /\ tree[Origin(o)] = c
          BY <4>1, <5>1 DEF Brought
        <5>3. Goes(Origin(o))
          BY <1>2, <3>2, <4>1, <5>2 DEF Unknown
        <5> QED
          BY <1>2, <3>2, <5>2, <5>3 DEF Stays, Origin
      <4> QED
        BY <4>2, <4>3
    <3>5. Stays'
      BY <1>0, <1>2, <1>3, <3>1, <3>2, <3>3 DEF Stays, TreesType
    <3> QED
      BY <1>3, <3>4, <3>5 DEF KnownInv, Unknown
  <2> QED
    BY <2>1, <2>2
<1> QED
  BY <1>7, <1>8, <1>9

LEMMA NextKnown == TypeOK /\ PlanInv /\ KnownInv /\ [Next]_vars => KnownInv'
<1> SUFFICES ASSUME TypeOK, PlanInv, KnownInv, [Next]_vars PROVE KnownInv'
  OBVIOUS
<1>1. CASE Compare
  BY <1>1, CompareKnown
<1>2. CASE Apply
  BY <1>2, ApplyKnown
<1>3. CASE Crash \/ Finish
  BY <1>3 DEF Crash, Finish, KnownInv
<1>4. CASE UNCHANGED vars
  BY <1>4 DEF vars, KnownInv, Unknown, Stays, Goes, Deleted
<1> QED
  BY <1>1, <1>2, <1>3, <1>4 DEF Next

(* A file is fetched from the source only if the destination has its       *)
(* content nowhere but in files that are moved or deleted: in spite of the *)
(* tracker being told neither of moves nor of what is overwritten          *)
(* (ContentTracker, applyMove).                                            *)
THEOREM SpecFetchedOnlyIfMissing == Spec => FetchedOnlyIfMissing
<1>1. Init => KnownInv
  BY DEF Init, KnownInv
<1>2. KnownInv => \A c \in Content : pc = "execute" /\ tracker[c] = 0 /\ tracker'[c] # 0 =>
           \A p \in Path : tree[p] = c => \/ p \in Deleted(src, snap)
                                          \/ \E o \in plan : o.act = "move" /\ o.path = p
  BY DEF KnownInv, Unknown, Goes
<1> QED
  BY <1>1, <1>2, InitTyped, NextTyped, NextKnown, PTL DEF Spec, FetchedOnlyIfMissing
-----------------------------------------------------------------------------
(* Errors                                                                  *)

LEMMA RanksDiffer ==
  ASSUME NEW S \in SUBSET Path, NEW p \in S, NEW q \in S, p < q
  PROVE  Rank(p, S) # Rank(q, S)
<1> DEFINE P == {r \in S : r < p}
           Q == {r \in S : r < q}
<1>1. S \subseteq Nat
  BY PathAssumption DEF Path
<1>2. IsFiniteSet(Q)
  <2>1. IsFiniteSet(Path)
    BY PathAssumption, FS_Interval DEF Path
  <2> QED
    BY <2>1, FS_Subset
<1>3. P \subseteq Q /\ P # Q
  <2>1. p \in Q /\ p \notin P
    BY <1>1
  <2>2. \A r \in S : r < p => r < q
    BY <1>1
  <2> QED
    BY <2>1, <2>2
<1>4. Cardinality(P) # Cardinality(Q)
  BY <1>2, <1>3, FS_Subset
<1> QED
  BY <1>4 DEF Rank

\* Additions and deletions are paired one to one.
LEMMA MovesPair ==
  ASSUME NEW s \in Sources, NEW d \in Listing, NEW m \in Moves(s, d), NEW n \in Moves(s, d),
         m[1] = n[1] \/ m[2] = n[2]
  PROVE  m = n
<1> DEFINE A == {p \in Added(s, d) : s[p] = s[m[1]]}
           D == {q \in Deleted(s, d) : d[q] = d[m[2]]}
<1>1. /\ m \in Added(s, d) \X Deleted(s, d) /\ n \in Added(s, d) \X Deleted(s, d)
      /\ s[m[1]] = d[m[2]] /\ s[n[1]] = d[n[2]]
      /\ Rank(m[1], A) = Rank(m[2], D)
  BY DEF Moves
<1>2. s[m[1]] = s[n[1]] /\ d[m[2]] = d[n[2]]
  BY <1>1
<1>3. Rank(n[1], A) = Rank(n[2], D)
  BY <1>2 DEF Moves
<1>4. A \subseteq Path /\ D \subseteq Path
  BY DEF Added, Deleted
<1>5. m[1] \in A /\ n[1] \in A /\ m[2] \in D /\ n[2] \in D
  BY <1>1, <1>2
<1> HIDE DEF A, D
<1>6. m[1] = n[1] /\ m[2] = n[2]
  <2>1. \A S \in SUBSET Path : \A p, q \in S : Rank(p, S) = Rank(q, S) => p = q
    <3>1. \A p, q \in Path : p = q \/ p < q \/ q < p
      BY PathAssumption DEF Path
    <3> QED
      BY <3>1, RanksDiffer
  <2> QED
    BY <1>1, <1>3, <1>4, <1>5, <2>1
<1> QED
  BY <1>1, <1>6

\* The operation takes away what is at the path.
Took(o, p) == \/ o.act = "delete" /\ o.path = p
              \/ o.act = "move" /\ o.from = p

\* No two operations are about one path, and no two take the same file.
Distinct(ops) ==
    \A x, y \in ops : /\ x.path = y.path => x = y
                      /\ \A p \in Path : Took(x, p) /\ Took(y, p) => x = y

LEMMA ComparisonDistinct ==
  ASSUME src \in Sources, NEW d \in Listing
  PROVE  /\ Distinct(Operations(src, d))
         /\ \A o \in Operations(src, d) : Writes(o) => src[o.path] # d[o.path]
<1> DEFINE moves == Moves(src, d)
           to == {m[1] : m \in moves}
           from == {m[2] : m \in moves}
           op(act, p) == [act |-> act, path |-> p, from |-> 0]
           Kind(x) == \/ /\ x.act = "add" /\ x.path \in Added(src, d) \ to
                      \/ /\ x.act = "delete" /\ x.path \in Deleted(src, d) \ from
                      \/ /\ mode = "sync" /\ x.path \in fresh /\ x.act = "conflict"
                         /\ x.path \in Changed(src, d)
                      \/ /\ mode = "sync" /\ x.path \notin fresh /\ x.act = "keep"
                         /\ x.path \in Changed(src, d)
                      \/ /\ mode # "sync" /\ x.act = "modify" /\ x.path \in Changed(src, d)
<1>1. ASSUME NEW x \in Operations(src, d)
      PROVE  \/ \E m \in moves : x = [act |-> "move", path |-> m[1], from |-> m[2]]
             \/ Kind(x) /\ x = op(x.act, x.path)
  BY <1>1 DEF Operations
<1>2. \A m \in moves : m[1] \in Added(src, d) /\ m[2] \in Deleted(src, d) /\ m[1] \in to /\ m[2] \in from
  BY DEF Moves
<1>3. \A m, n \in moves : m[1] = n[1] \/ m[2] = n[2] => m = n
  BY MovesPair
<1>4. \A p \in Path : /\ p \in Added(src, d) => p \notin Deleted(src, d) /\ p \notin Changed(src, d)
                      /\ p \in Deleted(src, d) => p \notin Changed(src, d)
  BY DEF Added, Deleted, Changed
<1>5. Added(src, d) \subseteq Path /\ Deleted(src, d) \subseteq Path /\ Changed(src, d) \subseteq Path
  BY DEF Added, Deleted, Changed
<1> HIDE DEF moves, to, from
<1>6. ASSUME NEW x \in Operations(src, d), NEW y \in Operations(src, d), x.path = y.path
      PROVE  x = y
  <2>1. CASE \E m \in moves : x = [act |-> "move", path |-> m[1], from |-> m[2]]
    <3>1. PICK m \in moves : x = [act |-> "move", path |-> m[1], from |-> m[2]]
      BY <2>1
    <3>2. ~ Kind(y)
      BY <1>2, <1>4, <1>5, <1>6, <3>1
    <3>3. PICK n \in moves : y = [act |-> "move", path |-> n[1], from |-> n[2]]
      BY <1>1, <3>2
    <3> QED
      BY <1>3, <1>6, <3>1, <3>3
  <2>2. CASE Kind(x) /\ x = op(x.act, x.path)
    <3>1. Kind(y) /\ y = op(y.act, y.path)
      <4>1. ASSUME NEW n \in moves, y = [act |-> "move", path |-> n[1], from |-> n[2]]
            PROVE  FALSE
        BY <1>2, <1>4, <1>5, <1>6, <2>2, <4>1
      <4> QED
        BY <1>1, <4>1
    <3>2. x.act = y.act
      BY <1>4, <1>5, <1>6, <2>2, <3>1
    <3> QED
      BY <1>6, <2>2, <3>1, <3>2
  <2> QED
    BY <1>1, <2>1, <2>2
<1>7. ASSUME NEW x \in Operations(src, d), NEW y \in Operations(src, d), NEW p \in Path,
             Took(x, p), Took(y, p)
      PROVE  x = y
  <2>1. ASSUME NEW z \in Operations(src, d), Took(z, p)
        PROVE  \/ z.act = "delete" /\ z.path = p /\ p \notin from
               \/ \E m \in moves : z = [act |-> "move", path |-> m[1], from |-> m[2]] /\ m[2] = p
    BY <1>1, <2>1 DEF Took
  <2> QED
    BY <1>2, <1>3, <1>6, <1>7, <2>1
<1>8. ASSUME NEW o \in Operations(src, d), Writes(o)
      PROVE  src[o.path] # d[o.path]
  <2>1. Kind(o)
    BY <1>1, <1>8 DEF Writes, Replaces
  <2> QED
    BY <2>1, <1>8 DEF Writes, Replaces, Added, Changed
<1> QED
  BY <1>6, <1>7, <1>8 DEF Distinct

\* While nothing fails, a file that was scanned is there, or has been moved or deleted as
\* planned, or is the one being replaced.
Held(p) == IsFile(tree, p) \/ (\E x \in plan \ todo : Took(x, p)) \/ InWork(p)
FilesHeld == \A p \in Path : snap[p] # Absent => Held(p)

\* No file is in the way of one that is to come, only a directory can be.
TargetsFree == \A o \in todo : o.act \in {"add", "move"} => ~ IsFile(tree, o.path)

\* What the tracker knows was scanned there, or has been copied there already.
TrackedThere ==
    \A c \in Content : tracker[c] # 0 =>
        \/ snap[tracker[c]] = c
        \/ IsFile(tree, tracker[c]) /\ \A x \in todo : tracker[c] < x.path

\* What is prepared for a copy.
Prepared == ready => \A o \in todo : Current(o) =>
                /\ ParentsExist(tree, o.path)
                /\ Replaces(o) => tree[o.path] = Absent

Unreported == \A o \in todo : o.path \notin errors

Clean == FilesHeld /\ TargetsFree /\ TrackedThere /\ Prepared /\ Unreported
CleanInv ==
    /\ Distinct(plan) /\ \A o \in plan : Writes(o) => src[o.path] # snap[o.path]
    /\ pc = "execute" /\ faults = 0 => Clean

\* What ErrorsOnlyWhereBlocked says of a path.
Blocked(p) == \/ \E q \in Above[p] : IsFile(tree, q) \/ snap[q] # Absent
              \/ tree[p] = Dir

LEMMA CompareClean == TypeOK /\ PlanInv /\ Compare => CleanInv' /\ errors' = {}
<1> SUFFICES ASSUME TypeOK, PlanInv, Compare PROVE CleanInv' /\ errors' = {}
  OBVIOUS
<1>0. /\ src \in Sources /\ tree \in Tree /\ snap' \in Listing
      /\ UNCHANGED <<src, tree, mode, fresh>> /\ snap' = ListingOf(tree)
      /\ tracker' = Seeded(src, snap') /\ plan' = Operations(src, snap') /\ todo' = plan'
      /\ errors' = {} /\ ready' = FALSE
  BY TypeParts, ListingOfTree DEF Compare, TreesType
<1>1. \A p \in Path : snap'[p] # Absent <=> IsFile(tree, p)
  BY <1>0, EntryAssumption DEF ListingOf, IsFile
<1>2. /\ Distinct(plan') /\ \A o \in plan' : Writes(o) => src[o.path] # snap'[o.path]
      /\ \A o \in plan' : Planned(o, snap')
  BY <1>0, ComparisonDistinct, ComparisonPlans
<1>3. FilesHeld'
  BY <1>0, <1>1 DEF FilesHeld, Held
<1>4. TargetsFree'
  <2>1. ASSUME NEW o \in plan', o.act \in {"add", "move"}
        PROVE  ~ IsFile(tree, o.path)
    BY <1>1, <1>2, <2>1 DEF Planned, Operation
  <2> QED
    BY <1>0, <2>1 DEF TargetsFree
<1>5. TrackedThere'
  BY <1>0, SeededType DEF TrackedThere
<1> QED
  BY <1>0, <1>2, <1>3, <1>4, <1>5 DEF CleanInv, Clean, Prepared, Unreported, Distinct, Took, Writes, Replaces

\* The operation in hand, and what it finds.
LEMMA Alone ==
  ASSUME TypeOK, PlanInv, CleanInv, NEW o \in todo, Current(o)
  PROVE  /\ o \in plan /\ o.path \in Path /\ Planned(o, snap) /\ o \in Operation
         /\ \A x \in todo : /\ x \in plan /\ Planned(x, snap) /\ x.path \in Path
                            /\ x = o \/ o.path < x.path
                            /\ Current(x) => x = o
<1>1. todo \subseteq plan /\ Distinct(plan) /\ \A x \in plan : Planned(x, snap) /\ x \in Operation
  BY TypeParts DEF PlanType, CleanInv, PlanInv
<1>2. \A x \in plan : x.path \in Path /\ x.path \in Nat
  BY <1>1, PathAssumption DEF Operation, Path
<1>3. \A x \in todo : x # o => x.path # o.path
  BY <1>1 DEF Distinct
<1>4. \A x \in todo : o.path <= x.path /\ (Current(x) => x.path <= o.path)
  BY DEF Current
<1> QED
  BY <1>1, <1>2, <1>3, <1>4

LEMMA OldIsThere ==
  ASSUME TypeOK, PlanInv, CleanInv, Clean, NEW o \in todo, Current(o), NEW p \in Path, snap[p] # Absent,
         \/ Replaces(o) /\ p = o.path /\ ~ ready
         \/ Took(o, p)
         \/ Writes(o) /\ ~ Goes(p) /\ p # o.path
  PROVE  IsFile(tree, p)
<1>1. Planned(o, snap) /\ (ready => Writes(o))
  BY InHand
<1>2. ~ InWork(p)
  <2>1. Took(o, p) => ~ ready
    BY <1>1 DEF Took, Writes, Replaces
  <2> QED
    BY <2>1, Alone DEF InWork
<1>3. ASSUME NEW x \in plan \ todo, Took(x, p)
      PROVE  FALSE
  <2>1. p \in Deleted(src, snap)
    BY <1>3 DEF PlanInv, Planned, Took
  <2>2. ~ Took(o, p)
    BY <1>3, Alone DEF CleanInv, Distinct
  <2>3. Replaces(o) => p # o.path
    BY <1>1, <2>1 DEF Planned, Replaces, Deleted
  <2> QED
    BY <2>1, <2>2, <2>3 DEF Goes
<1> QED
  BY <1>2, <1>3 DEF Clean, FilesHeld, Held

\* What a copy needs is there, but for a directory in its place.
LEMMA CopyPossible ==
  ASSUME TypeOK, PlanInv, KnownInv, CleanInv, Clean, NEW o \in todo, Current(o), ready
  PROVE  /\ Writes(o) /\ (CanCopy(o) \/ tree[o.path] = Dir)
         /\ Replaces(o) => CanCopy(o)
<1>1. /\ Writes(o) /\ src[o.path] \in Content /\ o.path \in Path /\ o \in plan
      /\ tracker \in [Content -> Path \cup {0}] /\ tree \in Tree /\ pc = "execute"
  BY InHand, Alone, TypeParts DEF TreesType, Current
<1>2. ParentsExist(tree, o.path) /\ (Replaces(o) => tree[o.path] = Absent)
  BY DEF Clean, Prepared
<1>3. tree[o.path] \in {Absent, Dir}
  <2>1. ~ Replaces(o) => ~ IsFile(tree, o.path)
    BY <1>1 DEF Clean, TargetsFree, Writes
  <2> QED
    BY <1>1, <1>2, <2>1 DEF Tree, Entry, IsFile
<1>4. ASSUME Origin(o) # 0
      PROVE  IsFile(tree, Origin(o))
  <2>1. Origin(o) \in Path /\ ~ Goes(Origin(o))
    BY <1>1, <1>4 DEF Origin, KnownInv, Stays
  <2>2. CASE snap[Origin(o)] = src[o.path]
    <3>1. Origin(o) # o.path /\ snap[Origin(o)] # Absent
      BY <1>1, <2>2, EntryAssumption DEF CleanInv, FileData
    <3> QED
      BY <1>1, <2>1, <3>1, OldIsThere
  <2> QED
    BY <1>1, <1>4, <2>2 DEF Clean, TrackedThere, Origin
<1> QED
  BY <1>1, <1>2, <1>3, <1>4, EntryAssumption DEF CanCopy

\* What the outcome of an operation leaves as it is.
LEMMA OutcomesKeep ==
  ASSUME TypeOK, PlanInv, CleanInv, NEW o \in todo, Current(o), NEW t \in Outcomes(o), NEW p \in Path
  PROVE  /\ /\ IsFile(tree, p) /\ p \notin Touched(o)
            /\ o.act \in {"modify", "conflict", "delete"} => o.path \notin Above[p]
            => IsFile(t, p) /\ t[p] = tree[p]
         /\ ~ IsFile(tree, p) /\ p # o.path => ~ IsFile(t, p)
         /\ /\ tree[p] = Dir
            /\ o.act \in {"modify", "conflict", "delete"} => p # o.path /\ o.path \notin Above[p]
            => t[p] = Dir
<1> DEFINE w == WithParents(tree, o.path)
           Kept(u) == /\ /\ IsFile(tree, p) /\ p \notin Touched(o)
                         /\ o.act \in {"modify", "conflict", "delete"} => o.path \notin Above[p]
                         => IsFile(u, p) /\ u[p] = tree[p]
                      /\ ~ IsFile(tree, p) /\ p # o.path => ~ IsFile(u, p)
                      /\ /\ tree[p] = Dir
                         /\ o.act \in {"modify", "conflict", "delete"} => p # o.path /\ o.path \notin Above[p]
                         => u[p] = Dir
<1>0. o.path \in Path /\ Planned(o, snap) /\ tree \in Tree
  BY Alone, TypeParts DEF TreesType
<1>1. CASE t = tree
  BY <1>1
<1>2. ASSUME CanMakeParents(tree, o.path)
      PROVE  Kept(w)
  BY <1>2, EntryAssumption DEF CanMakeParents, WithParents, IsFile
<1>3. CASE o.act \in {"modify", "conflict", "delete"} /\ t = Removed(tree, o.path)
  BY <1>3, EntryAssumption DEF Removed, IsFile, Touched
<1>4. CASE CanCopy(o) /\ \E e \in {Brought(o), Torn} : t = [tree EXCEPT ![o.path] = e]
  BY <1>0, <1>4, EntryAssumption DEF CanCopy, IsFile, Touched
<1>5. CASE /\ o.act = "move" /\ CanMakeParents(tree, o.path) /\ w[o.path] = Absent /\ IsFile(w, o.from)
           /\ t = [w EXCEPT ![o.path] = w[o.from], ![o.from] = Absent]
  <2>1. p # o.path /\ p # o.from => t[p] = w[p]
    BY <1>5 DEF WithParents
  <2>2. Kept(w)
    BY <1>2, <1>5
  <2>3. p = o.from /\ p # o.path => t[p] = Absent /\ IsFile(w, p)
    BY <1>0, <1>5 DEF WithParents
  <2>4. p = o.path => w[p] = Absent
    BY <1>5
  <2>5. tree[p] = Dir => w[p] = Dir
    BY DEF WithParents
  <2>6. p = o.path => tree[p] # Dir
    BY <2>4, <2>5, EntryAssumption
  <2> HIDE DEF w
  <2> QED
    BY <1>5, <2>1, <2>2, <2>3, <2>5, <2>6, EntryAssumption DEF IsFile, Touched
<1> QED
  BY <1>1, <1>2, <1>3, <1>4, <1>5 DEF Outcomes

\* What every operation does to the invariant, from what it does at its own path.
LEMMA StepClean ==
  ASSUME TypeOK, PlanInv, KnownInv, CleanInv, Clean, \A p \in errors : Blocked(p),
         NEW o \in todo, Current(o), UNCHANGED <<src, mode, snap, plan, pc>>,
         tree' \in Outcomes(o), todo' = todo \/ todo' = todo \ {o},
         \/ errors' = errors
         \/ errors' = errors \cup {o.path} /\ todo' = todo \ {o} /\ Blocked(o.path)',
         snap[o.path] # Absent => Held(o.path)',
         o.act = "move" => todo' = todo \ {o},
         todo' = todo /\ o.act = "add" => ~ IsFile(tree', o.path),
         \/ tracker' = tracker
         \/ /\ tracker' = [tracker EXCEPT ![src[o.path]] = o.path]
            /\ IsFile(tree', o.path) /\ todo' = todo \ {o},
         Prepared'
  PROVE  Clean' /\ \A p \in errors' : Blocked(p)'
<1>0. /\ o \in plan /\ o.path \in Path /\ Planned(o, snap) /\ pc = "execute"
      /\ tree \in Tree /\ tracker \in [Content -> Path \cup {0}] /\ errors \subseteq Path
      /\ \A x \in todo : x \in plan /\ x.path \in Path /\ (x = o \/ o.path < x.path)
      /\ Stays /\ ~ o.path < o.path
  BY Alone, TypeParts, PathAssumption DEF TreesType, PlanType, Current, KnownInv, Path
<1>1. o.act = "move" => o.from \in Deleted(src, snap) /\ snap[o.from] # Absent
  BY <1>0 DEF Planned, Deleted
<1>2. o.act \in {"modify", "conflict", "delete"} => snap[o.path] # Absent
  BY <1>0 DEF Planned, Deleted
<1>3. FilesHeld'
  <2> SUFFICES ASSUME NEW p \in Path, snap[p] # Absent
               PROVE  Held(p)'
    BY DEF FilesHeld
  <2>1. CASE p = o.path
    BY <2>1
  <2>2. CASE o.act = "move" /\ p = o.from
    BY <1>0, <2>2 DEF Held, Took
  <2>3. CASE p # o.path /\ (o.act = "move" => p # o.from)
    <3>1. ListingOf(tree')[p] = ListingOf(tree)[p]
      BY <2>3, OutcomesSpare
    <3>2. IsFile(tree, p) => IsFile(tree', p)
      BY <3>1, EntryAssumption DEF ListingOf, IsFile
    <3>3. ~ InWork(p)
      BY <2>3, Alone DEF InWork
    <3>4. (\E x \in plan \ todo : Took(x, p)) => \E x \in (plan \ todo)' : Took(x, p)
      BY <1>0
    <3> QED
      BY <3>2, <3>3, <3>4 DEF Clean, FilesHeld, Held, Took
  <2> QED
    BY <2>1, <2>2, <2>3
<1>4. TargetsFree'
  <2> SUFFICES ASSUME NEW x \in todo', x.act \in {"add", "move"}
               PROVE  ~ IsFile(tree', x.path)
    BY DEF TargetsFree
  <2>1. x \in todo /\ ~ IsFile(tree, x.path) /\ x.path \in Path
    BY <1>0 DEF Clean, TargetsFree
  <2>2. CASE x = o
    BY <2>2
  <2>3. CASE x # o
    BY <1>0, <2>1, <2>3, OutcomesKeep
  <2> QED
    BY <2>2, <2>3
<1>5. TrackedThere'
  <2> SUFFICES ASSUME NEW c \in Content, tracker'[c] # 0
               PROVE  \/ snap[tracker'[c]] = c
                      \/ IsFile(tree', tracker'[c]) /\ \A x \in todo' : tracker'[c] < x.path
    BY DEF TrackedThere
  <2>1. CASE tracker'[c] = tracker[c]
    <3> DEFINE p == tracker[c]
    <3>1. p \in Path /\ ~ Goes(p)
      BY <1>0, <2>1 DEF Stays
    <3>2. ASSUME IsFile(tree, p), \A x \in todo : p < x.path
          PROVE  IsFile(tree', p)
      <4>1. p < o.path
        BY <3>2
      <4>2. o.path \notin Above[p] /\ p # o.path
        <5>1. o.path \in Above[p] => o.path < p
          BY <3>1, WhereThingsLie
        <5> QED
          BY <1>0, <3>1, <4>1, <5>1, PathAssumption DEF Path
      <4>3. p \notin Touched(o)
        BY <1>1, <3>1, <4>2 DEF Touched, Goes
      <4> QED
        BY <3>1, <3>2, <4>2, <4>3, OutcomesKeep
    <3> QED
      BY <2>1, <3>2 DEF Clean, TrackedThere
  <2>2. CASE /\ tracker'[c] = o.path
             /\ IsFile(tree', o.path) /\ todo' = todo \ {o}
    BY <1>0, <2>2
  <2> QED
    BY <1>0, <2>1, <2>2
<1>6. Unreported'
  BY <1>0 DEF Clean, Unreported
<1>7. ASSUME NEW p \in errors
      PROVE  Blocked(p)'
  <2>0. p \in Path /\ p # o.path
    BY <1>0 DEF Clean, Unreported
  <2>1. CASE \E q \in Above[p] : snap[q] # Absent
    BY <2>1 DEF Blocked
  <2>2. ASSUME \A q \in Above[p] : snap[q] = Absent, NEW q \in Above[p], IsFile(tree, q)
        PROVE  IsFile(tree', q)
    <3>1. q \in Path /\ Above[q] \subseteq Above[p]
      BY <2>0, WhereThingsLie
    <3>2. o.act \in {"modify", "conflict", "delete"} => o.path \notin Above[q]
      BY <1>2, <2>2, <3>1
    <3>3. q # o.path
      <4>1. o.act \in {"add", "move"} => ~ IsFile(tree, o.path)
        BY DEF Clean, TargetsFree
      <4>2. o.act \in {"add", "move", "keep", "modify", "conflict", "delete"}
        BY Alone DEF Operation
      <4>3. o.act = "keep" => snap[o.path] # Absent
        BY <1>0 DEF Planned
      <4> QED
        BY <1>2, <2>2, <4>1, <4>2, <4>3
    <3>4. q \notin Touched(o)
      BY <1>1, <2>2, <3>3 DEF Touched
    <3> QED
      BY <2>2, <3>1, <3>2, <3>4, OutcomesKeep
  <2>3. CASE (\A q \in Above[p] : snap[q] = Absent) /\ tree[p] = Dir
    <3>1. tree'[p] = Dir
      BY <1>2, <2>0, <2>3, OutcomesKeep
    <3> QED
      BY <3>1 DEF Blocked
  <2> QED
    BY <2>1, <2>2, <2>3 DEF Blocked
<1> QED
  BY <1>3, <1>4, <1>5, <1>6, <1>7 DEF Clean

LEMMA ApplyClean ==
  ASSUME TypeOK, PlanInv, KnownInv, CleanInv, Clean, \A p \in errors : Blocked(p),
         faults = 0, faults' = 0, Apply
  PROVE  Clean' /\ \A p \in errors' : Blocked(p)'
<1> PICK o \in todo : \/ PrepareAdd(o) \/ KeepDestination(o) \/ RemoveOld(o) \/ CopyFile(o)
                      \/ CopyFails(o) \/ DeleteFile(o) \/ MoveFile(o)
  BY DEF Apply
<1>0. /\ Current(o) /\ pc = "execute" /\ UNCHANGED <<src, mode, snap, plan, pc>> /\ ~ Fault
      /\ o \in plan /\ o.path \in Path /\ Planned(o, snap) /\ tree \in Tree
      /\ src[o.path] \in Content \cup {Absent}
      /\ ready => Writes(o) /\ src[o.path] \in Content
      /\ \A x \in todo : Current(x) => x = o
  BY Alone, InHand, TypeParts
     DEF PrepareAdd, KeepDestination, RemoveOld, CopyFile, CopyFails, DeleteFile, MoveFile, Current,
         Fault, TreesType, Sources
<1>1. Applied(o) \/ Reported(o) => todo' = todo \ {o} /\ Prepared'
  BY DEF Applied, Reported, Prepared
<1>2. tree \in Outcomes(o)
  BY DEF Outcomes
<1>3. o.path \notin Above[o.path] /\ \A q \in Above[o.path] : q \in Path /\ o.path \notin Above[q]
  BY <1>0, WhereThingsLie
<1>4. CASE PrepareAdd(o)
  <2>0. o.act = "add" /\ ~ ready /\ snap[o.path] = Absent /\ tracker' = tracker
    BY <1>0, <1>4 DEF PrepareAdd, Planned
  <2>1. CASE /\ CanMakeParents(tree, o.path) /\ ready' = TRUE /\ tree' = WithParents(tree, o.path)
             /\ todo' = todo /\ errors' = errors
    <3>1. tree' \in Outcomes(o) /\ ParentsExist(tree', o.path)
      BY <1>3, <2>1 DEF Outcomes, ParentsExist, WithParents
    <3>2. Prepared'
      BY <1>0, <2>0, <2>1, <3>1 DEF Prepared, Current, Replaces
    <3>3. ~ IsFile(tree', o.path)
      <4>1. ~ IsFile(tree, o.path)
        BY <2>0 DEF Clean, TargetsFree
      <4> QED
        BY <1>0, <1>3, <2>1, <4>1 DEF IsFile, WithParents
    <3> QED
      BY <1>0, <2>0, <2>1, <3>1, <3>2, <3>3, StepClean
  <2>2. CASE ~ CanMakeParents(tree, o.path) /\ Reported(o) /\ tree' = tree
    <3>1. Blocked(o.path)'
      BY <2>2 DEF Blocked, CanMakeParents
    <3> QED
      BY <1>0, <1>1, <1>2, <2>0, <2>2, <3>1, StepClean DEF Reported
  <2> QED
    BY <1>0, <1>4, <2>1, <2>2 DEF PrepareAdd
<1>5. CASE KeepDestination(o)
  <2>1. o.act = "keep" /\ ~ ready /\ tree' = tree /\ snap[o.path] # Absent
    BY <1>0, <1>5 DEF KeepDestination, Planned, Writes, Replaces
  <2>2. Held(o.path)'
    <3>1. Held(o.path) /\ ~ InWork(o.path)
      BY <1>0, <2>1 DEF Clean, FilesHeld, InWork
    <3> QED
      BY <1>0, <1>5, <2>1, <3>1 DEF Held, KeepDestination, Applied, Took
  <2> QED
    BY <1>0, <1>1, <1>2, <1>5, <2>1, <2>2, StepClean DEF KeepDestination
<1>6. CASE RemoveOld(o)
  <2>0. /\ Replaces(o) /\ ~ ready /\ ready' = TRUE /\ tree' = Removed(tree, o.path)
        /\ UNCHANGED <<todo, errors, tracker>>
    BY <1>0, <1>6 DEF RemoveOld
  <2>1. o.act \in {"modify", "conflict"} /\ snap[o.path] # Absent
    BY <1>0, <2>0 DEF Replaces, Planned
  <2>2. IsFile(tree, o.path)
    BY <1>0, <2>0, <2>1, OldIsThere
  <2>3. ParentsExist(tree, o.path)
    BY <1>0, <2>2, TypeParts, EntryAssumption DEF TreesType, WellFormed, IsFile, ParentsExist
  <2>4. Prepared'
    BY <1>0, <1>3, <2>0, <2>3 DEF Prepared, Removed, ParentsExist, Current
  <2>5. Held(o.path)'
    BY <1>0, <2>0 DEF Held, InWork, Current
  <2>6. tree' \in Outcomes(o)
    BY <2>0, <2>1 DEF Outcomes
  <2> QED
    BY <1>0, <2>0, <2>1, <2>4, <2>5, <2>6, StepClean
<1>7. CASE CopyFile(o)
  <2>0. ready /\ Writes(o)
    BY <1>0, <1>7 DEF CopyFile
  <2>1. CASE CanCopy(o)
    <3>1. /\ tree' = [tree EXCEPT ![o.path] = Brought(o)] /\ Applied(o) /\ errors' = errors
          /\ tracker' = [tracker EXCEPT ![src[o.path]] = o.path]
      BY <1>0, <1>7, <2>1 DEF CopyFile, Brought
    <3>2. Brought(o) \in FileData
      BY <1>0, <2>0, <2>1, CopiedType
    <3>3. IsFile(tree', o.path) /\ tree' \in Outcomes(o)
      BY <1>0, <2>0, <2>1, <3>1, <3>2 DEF IsFile, Tree, Outcomes
    <3>4. Held(o.path)'
      BY <3>3 DEF Held
    <3> QED
      BY <1>0, <1>1, <2>0, <3>1, <3>3, <3>4, StepClean DEF Writes, Replaces
  <2>2. CASE ~ CanCopy(o)
    <3>1. tree[o.path] = Dir /\ ~ Replaces(o) /\ o.act = "add"
      BY <1>0, <2>0, <2>2, CopyPossible DEF Writes
    <3>2. Reported(o) /\ UNCHANGED <<tree, tracker>>
      BY <1>7, <2>2 DEF CopyFile
    <3>3. Blocked(o.path)' /\ snap[o.path] = Absent
      BY <1>0, <3>1, <3>2 DEF Blocked, Planned
    <3> QED
      BY <1>0, <1>1, <1>2, <3>1, <3>2, <3>3, StepClean DEF Reported
  <2> QED
    BY <2>1, <2>2
<1>8. CASE CopyFails(o)
  BY <1>0, <1>8 DEF CopyFails
<1>9. CASE DeleteFile(o)
  <2>1. o.act = "delete" /\ tracker' = tracker /\ snap[o.path] # Absent /\ Took(o, o.path)
    BY <1>0, <1>9 DEF DeleteFile, Planned, Deleted, Took
  <2>2. IsFile(tree, o.path)
    BY <1>0, <2>1, OldIsThere
  <2>3. tree' = Removed(tree, o.path) /\ Applied(o) /\ errors' = errors
    BY <1>0, <1>9, <2>2, EntryAssumption DEF DeleteFile, IsFile
  <2>4. Held(o.path)'
    BY <1>0, <1>1, <2>1, <2>3 DEF Held, Took
  <2>5. tree' \in Outcomes(o)
    BY <2>1, <2>3 DEF Outcomes
  <2> QED
    BY <1>0, <1>1, <2>1, <2>3, <2>4, <2>5, StepClean
<1>10. CASE MoveFile(o)
  <2> DEFINE w == WithParents(tree, o.path)
  <2>1. o.act = "move" /\ tracker' = tracker /\ snap[o.path] = Absent /\ tree' \in Outcomes(o)
    BY <1>0, <1>10, MoveOutcome DEF MoveFile, Planned
  <2>2. CASE Applied(o) /\ errors' = errors
    BY <1>0, <1>1, <2>1, <2>2, StepClean
  <2>3. CASE /\ ~ (CanMakeParents(tree, o.path) /\ w[o.path] = Absent /\ IsFile(w, o.from))
             /\ Reported(o) /\ tree' = TryWithParents(tree, o.path)
    <3>1. o.from \in Path /\ snap[o.from] # Absent /\ Took(o, o.from)
      BY <1>0, <2>1 DEF Planned, Deleted, Took
    <3>2. IsFile(tree, o.from)
      BY <1>0, <3>1, OldIsThere
    <3>3. Blocked(o.path)'
      <4>1. CASE ~ CanMakeParents(tree, o.path)
        BY <2>3, <4>1 DEF TryWithParents, CanMakeParents, Blocked
      <4>2. CASE CanMakeParents(tree, o.path)
        <5>1. IsFile(w, o.from)
          BY <3>1, <3>2, <4>2 DEF CanMakeParents, WithParents, IsFile
        <5>2. w[o.path] = tree[o.path] /\ tree' = w
          BY <1>0, <1>3, <2>3, <4>2 DEF WithParents, TryWithParents
        <5>3. ~ IsFile(tree, o.path)
          BY <2>1 DEF Clean, TargetsFree
        <5>4. tree[o.path] = Dir
          BY <1>0, <2>3, <4>2, <5>1, <5>2, <5>3 DEF Tree, Entry, IsFile
        <5> QED
          BY <5>2, <5>4 DEF Blocked
      <4> QED
        BY <4>1, <4>2
    <3> QED
      BY <1>0, <1>1, <2>1, <2>3, <3>3, StepClean DEF Reported
  <2> QED
    BY <1>0, <1>10, <2>2, <2>3 DEF MoveFile
<1> QED
  BY <1>4, <1>5, <1>6, <1>7, <1>8, <1>9, <1>10

LEMMA NextClean ==
  TypeOK /\ PlanInv /\ KnownInv /\ CleanInv /\ ErrorsOnlyWhereBlocked /\ [Next]_vars
  => CleanInv' /\ ErrorsOnlyWhereBlocked'
<1> SUFFICES ASSUME TypeOK, PlanInv, KnownInv, CleanInv, ErrorsOnlyWhereBlocked, [Next]_vars
             PROVE  CleanInv' /\ ErrorsOnlyWhereBlocked'
  OBVIOUS
<1>1. CASE Compare
  BY <1>1, CompareClean DEF ErrorsOnlyWhereBlocked
<1>2. faults \in Nat
  BY TypeParts, BoundsAssumption DEF RunType
<1>3. UNCHANGED <<src, snap, plan>> =>
          (Distinct(plan) /\ \A o \in plan : Writes(o) => src[o.path] # snap[o.path])'
  BY DEF CleanInv, Distinct, Took, Writes, Replaces
<1>4. CASE Apply
  <2>1. UNCHANGED <<src, mode, snap, plan>> /\ faults' \in {faults, faults + 1} /\ pc = "execute"
    BY <1>4 DEF Apply, PrepareAdd, KeepDestination, RemoveOld, CopyFile, CopyFails, DeleteFile,
       MoveFile, Fault, Current
  <2>2. faults' = 0 => faults = 0
    BY <1>2, <2>1
  <2>3. faults = 0 => Clean /\ \A p \in errors : Blocked(p)
    BY <2>1 DEF CleanInv, ErrorsOnlyWhereBlocked, Blocked
  <2>4. faults' = 0 => Clean' /\ \A p \in errors' : Blocked(p)'
    BY <1>4, <2>2, <2>3, ApplyClean
  <2> QED
    BY <1>3, <2>1, <2>4 DEF CleanInv, ErrorsOnlyWhereBlocked, Blocked
<1>5. CASE Crash
  <2>1. faults' # 0 /\ UNCHANGED <<src, mode, snap, plan>>
    BY <1>2, <1>5 DEF Crash, Fault
  <2> QED
    BY <1>3, <2>1 DEF CleanInv, ErrorsOnlyWhereBlocked
<1>6. CASE Finish
  BY <1>3, <1>6 DEF Finish, CleanInv, ErrorsOnlyWhereBlocked
<1>7. CASE UNCHANGED vars
  BY <1>3, <1>7 DEF vars, CleanInv, ErrorsOnlyWhereBlocked, Clean, FilesHeld, Held, InWork, Current,
     TargetsFree, TrackedThere, Prepared, Unreported, Replaces, Took
<1> QED
  BY <1>1, <1>4, <1>5, <1>6, <1>7 DEF Next

(* Where nothing fails, an error means that a file is to be where a        *)
(* directory is or was, or the other way round: moves find what they move, *)
(* deletions what they delete, and copies the file the tracker names,      *)
(* though execute goes by path and overwrites what the tracker points at   *)
(* (EfficientSyncExecutor.execute, ContentTracker).                        *)
THEOREM SpecErrorsOnlyWhereBlocked == Spec => []ErrorsOnlyWhereBlocked
<1>1. Init => CleanInv /\ KnownInv /\ ErrorsOnlyWhereBlocked
  BY DEF Init, CleanInv, KnownInv, Distinct, ErrorsOnlyWhereBlocked
<1> QED
  BY <1>1, InitTyped, NextTyped, NextKnown, NextClean, PTL DEF Spec

-----------------------------------------------------------------------------
(* What a run delivers                                                     *)

\* What is moved has the content wanted, and nothing that differs is passed over.
Exact(ops, d) ==
    /\ \A o \in ops : /\ o.act = "move" => src[o.path] = d[o.from]
                      /\ o.act = "keep" => mode = "sync"
    /\ \A p \in Path : src[p] # d[p] /\ (src[p] # Absent \/ mode # "sync") =>
           \E o \in ops : p \in Touched(o)

LEMMA ComparisonExact ==
  ASSUME src \in Sources, NEW d \in Listing
  PROVE  Exact(Operations(src, d), d)
<1> DEFINE moves == Moves(src, d)
           to == {m[1] : m \in moves}
           from == {m[2] : m \in moves}
           op(act, p) == [act |-> act, path |-> p, from |-> 0]
           mv(m) == [act |-> "move", path |-> m[1], from |-> m[2]]
<1>1. ASSUME NEW o \in Operations(src, d), o.act = "move"
      PROVE  src[o.path] = d[o.from]
  <2>1. PICK m \in moves : o = mv(m)
    BY <1>1 DEF Operations
  <2> QED
    BY <2>1 DEF Moves
<1>2. ASSUME NEW o \in Operations(src, d), o.act = "keep"
      PROVE  mode = "sync"
  BY <1>2 DEF Operations
<1>3. ASSUME NEW p \in Path, src[p] # d[p], src[p] # Absent \/ mode # "sync"
      PROVE  \E o \in Operations(src, d) : p \in Touched(o)
  <2>1. ASSUME NEW m \in moves
        PROVE  mv(m) \in Operations(src, d) /\ m[1] \in Touched(mv(m)) /\ m[2] \in Touched(mv(m))
    BY DEF Operations, Touched
  <2>2. ASSUME NEW act
        PROVE  p \in Touched(op(act, p))
    BY DEF Touched
  <2>3. CASE p \in to \/ p \in from
    BY <2>1, <2>3
  <2>4. CASE p \notin to /\ p \notin from /\ src[p] # Absent /\ d[p] = Absent
    <3>1. op("add", p) \in Operations(src, d)
      BY <2>4 DEF Operations, Added
    <3> QED
      BY <2>2, <3>1
  <2>5. CASE p \notin to /\ p \notin from /\ src[p] = Absent
    <3>1. op("delete", p) \in Operations(src, d)
      BY <1>3, <2>5 DEF Operations, Deleted
    <3> QED
      BY <2>2, <3>1
  <2>6. CASE src[p] # Absent /\ d[p] # Absent
    <3>1. p \in Changed(src, d)
      BY <1>3, <2>6 DEF Changed
    <3>2. \E act \in {"conflict", "keep", "modify"} : op(act, p) \in Operations(src, d)
      BY <3>1 DEF Operations
    <3> QED
      BY <2>2, <3>2
  <2> QED
    BY <2>3, <2>4, <2>5, <2>6
<1> QED
  BY <1>1, <1>2, <1>3 DEF Exact

\* What an operation leaves that is done, reports nothing and has copied nothing stale.
Right(o) ==
    /\ Writes(o) \/ o.act = "move" => ListingOf(tree)[o.path] = src[o.path]
    /\ \A p \in Path : Took(o, p) => ~ IsFile(tree, p)

\* No file that was scanned has changed, unless an operation was about it.
Intact == \A p \in Path :
    /\ snap[p] # Absent /\ ~ InWork(p)
    /\ \A x \in plan \ todo : ~ Took(x, p) /\ ~ (Replaces(x) /\ x.path = p)
    => ListingOf(tree)[p] = snap[p]

\* What is done is right; so is what the tracker points at, even if it has an error.
Told(o) == Writes(o) /\ tracker[src[o.path]] = o.path
Delivered == \A o \in plan \ todo :
    ~ Stale(o) /\ (o.path \notin errors \/ Told(o)) => Right(o)

\* The tracker names what it was seeded with or what has been copied since, and of what
\* has been copied it has been told.
WrittenTo(p, c) == \E y \in plan \ todo : Writes(y) /\ src[y.path] = c /\ y.path = p
Origins == \A c \in Content : tracker[c] # 0 =>
    tracker[c] = Seeded(src, snap)[c] \/ WrittenTo(tracker[c], c)
Informed == \A w \in plan \ todo :
    Writes(w) /\ w.path \notin errors => WrittenTo(tracker[src[w.path]], src[w.path])

InOrder == \A x \in plan \ todo, y \in todo : x.path < y.path

DeliverInv == pc # "idle" => /\ Exact(plan, snap) /\ Intact /\ Delivered
                             /\ Origins /\ Informed /\ InOrder

LEMMA CompareDeliver == TypeOK /\ PlanInv /\ Compare => DeliverInv'
<1> SUFFICES ASSUME TypeOK, PlanInv, Compare PROVE DeliverInv'
  OBVIOUS
<1>1. /\ src \in Sources /\ tree \in Tree /\ snap' \in Listing
      /\ UNCHANGED <<src, tree, mode, fresh>> /\ snap' = ListingOf(tree)
      /\ tracker' = Seeded(src, snap') /\ plan' = Operations(src, snap') /\ todo' = plan'
  BY TypeParts, ListingOfTree DEF Compare, TreesType
<1>2. Exact(plan, snap)'
  BY <1>1, ComparisonExact DEF Exact, Touched
<1>3. Intact' /\ Delivered' /\ Informed' /\ InOrder'
  BY <1>1 DEF Intact, Delivered, Informed, InOrder
<1>4. Seeded(src, snap)' = tracker'
  BY <1>1 DEF Seeded, RemovedPaths, Deleted
<1>5. Origins'
  BY <1>4 DEF Origins
<1> QED
  BY <1>2, <1>3, <1>5 DEF DeliverInv

\* A copy that is not stale copies what is wanted.
LEMMA CopyRight ==
  ASSUME TypeOK, PlanInv, KnownInv, CleanInv, DeliverInv,
         NEW o \in todo, Current(o), ready, CanCopy(o), ~ Stale(o)
  PROVE  Brought(o) = src[o.path]
<1> DEFINE t == Origin(o)
           c == src[o.path]
<1>1. /\ Writes(o) /\ c \in Content /\ o.path \in Path /\ o \in plan /\ pc = "execute"
      /\ src \in Sources /\ snap \in Listing /\ t \in Path \cup {0}
      /\ c # snap[o.path]
  BY InHand, Alone, CopiedType, TypeParts DEF TreesType, Current, CleanInv
<1>2. Intact /\ Delivered /\ Origins /\ Informed /\ InOrder /\ Stays
  BY <1>1 DEF DeliverInv, KnownInv
<1>3. \A x \in todo : x = o \/ o.path < x.path
  BY Alone
<1>4. CASE t = 0
  BY <1>4 DEF Brought
<1>5. CASE t # 0 /\ t = Seeded(src, snap)[c]
  <2>1. snap[t] = c /\ snap[t] # Absent /\ t \in Path /\ t \notin Deleted(src, snap)
    BY <1>1, <1>5, SeededType, EntryAssumption DEF RemovedPaths, FileData
  <2>2. ~ InWork(t)
    BY <1>1, <2>1, Alone DEF InWork
  <2>3. ASSUME NEW x \in plan \ todo, Took(x, t)
        PROVE  FALSE
    BY <2>1, <2>3 DEF PlanInv, Planned, Took
  <2>4. ASSUME NEW x \in plan \ todo, Replaces(x), x.path = t
        PROVE  FALSE
    <3>1. t < o.path
      BY <1>2, <2>4 DEF InOrder
    <3>2. ASSUME NEW w \in plan, Writes(w), src[w.path] = c, w.path < t, w.path \notin errors
          PROVE  FALSE
      <4>1. w \notin todo
        <5>1. w.path \in Nat /\ t \in Nat /\ o.path \in Nat
          BY <1>1, <2>1, TypeParts, PathAssumption DEF PlanType, Operation, Path
        <5> QED
          BY <1>3, <3>1, <3>2, <5>1
      <4>2. WrittenTo(t, c)
        BY <1>2, <3>2, <4>1 DEF Informed, Origin
      <4> QED
        BY <2>1, <4>2 DEF WrittenTo, CleanInv
    <3>3. Stale(o)
      BY <1>1, <1>5, <2>4, <3>1, <3>2 DEF Stale
    <3> QED
      BY <3>3
  <2>5. ListingOf(tree)[t] = c
    BY <1>2, <2>1, <2>2, <2>3, <2>4 DEF Intact
  <2> QED
    BY <1>5, <2>1, <2>5 DEF Brought, ListingOf
<1>6. CASE t # 0 /\ WrittenTo(t, c)
  <2>1. PICK y \in plan \ todo : Writes(y) /\ src[y.path] = c /\ y.path = t
    BY <1>6 DEF WrittenTo
  <2>2. y.path < o.path
    BY <1>2, <2>1 DEF InOrder
  <2>3. ~ Stale(y)
    <3>1. ASSUME Stale(y)
          PROVE  Stale(o)
      <4> DEFINE s == Seeded(src, snap)[c]
      <4>1. PICK w \in plan : w.path = s /\ s < y.path /\ Replaces(w)
        BY <2>1, <3>1 DEF Stale
      <4>2. s < o.path
        <5>1. s \in Nat /\ y.path \in Nat /\ o.path \in Nat
          BY <1>1, <2>1, <4>1, TypeParts, PathAssumption DEF PlanType, Operation, Path
        <5> QED
          BY <2>2, <4>1, <5>1
      <4> QED
        BY <1>1, <2>1, <3>1, <4>1, <4>2 DEF Stale
    <3> QED
      BY <3>1
  <2>4. Right(y)
    BY <1>2, <2>1, <2>3 DEF Delivered, Told, Origin
  <2>5. ListingOf(tree)[t] = c
    BY <2>1, <2>4 DEF Right
  <2> QED
    BY <1>1, <1>6, <2>5, EntryAssumption DEF Brought, ListingOf, FileData
<1> QED
  BY <1>1, <1>2, <1>4, <1>5, <1>6 DEF Origins, Origin

\* The tracker does not name the path of a copy before it is made.
LEMMA NotToldYet ==
  ASSUME TypeOK, PlanInv, CleanInv, DeliverInv, NEW o \in todo, Current(o), Writes(o)
  PROVE  ~ Told(o)
<1>1. /\ src \in Sources /\ snap \in Listing /\ src[o.path] # Absent /\ src[o.path] # snap[o.path]
      /\ o.path \in Path /\ o \in plan /\ o.path # 0
  BY Alone, TypeParts, PathAssumption DEF TreesType, CleanInv, Planned, Writes, Replaces, Path
<1>2. src[o.path] \in Content /\ Origins
  BY <1>1 DEF Sources, DeliverInv, Current
<1>3. o.path # Seeded(src, snap)[src[o.path]]
  BY <1>1, <1>2, SeededType
<1>4. ~ WrittenTo(o.path, src[o.path])
  BY <1>1 DEF WrittenTo, CleanInv, Distinct
<1> QED
  BY <1>1, <1>2, <1>3, <1>4 DEF Origins, Told

\* What every operation does to the invariant, from what it does at its own path.
LEMMA StepDelivers ==
  ASSUME TypeOK, PlanInv, KnownInv, CleanInv, DeliverInv,
         NEW o \in todo, Current(o), UNCHANGED <<src, mode, snap, plan, pc>>,
         tree' \in Outcomes(o), todo' = todo \/ todo' = todo \ {o},
         errors \subseteq errors', errors' \subseteq errors \cup {o.path},
         \/ tracker' = tracker
         \/ Writes(o) /\ todo' = todo \ {o} /\ tracker' = [tracker EXCEPT ![src[o.path]] = o.path],
         Replaces(o) /\ todo' = todo => InWork(o.path)',
         o.act = "keep" => tree' = tree,
         o.act \in {"delete", "move"} => todo' = todo \ {o},
         Writes(o) /\ todo' = todo \ {o} /\ o.path \notin errors' => Told(o)',
         todo' = todo \ {o} /\ ~ Stale(o) /\ (o.path \notin errors' \/ Told(o)') => Right(o)'
  PROVE  DeliverInv'
<1>0. /\ o \in plan /\ o.path \in Path /\ Planned(o, snap) /\ o \in Operation /\ pc = "execute"
      /\ src \in Sources /\ snap \in Listing /\ tracker \in [Content -> Path \cup {0}]
      /\ \A x \in todo : x \in plan /\ (x = o \/ o.path < x.path)
      /\ \A x \in plan : Planned(x, snap) /\ x \in Operation /\ x.path \in Path
      /\ \A x, y \in plan : x.path = y.path => x = y
  BY Alone, TypeParts DEF TreesType, PlanType, Current, PlanInv, CleanInv, Distinct, Planned, Operation
<1>1. Exact(plan, snap) /\ Intact /\ Delivered /\ Origins /\ Informed /\ InOrder
  BY <1>0 DEF DeliverInv
<1>2. Exact(plan, snap)'
  BY <1>1 DEF Exact, Touched
<1>3. InOrder'
  BY <1>0, <1>1 DEF InOrder
<1>4. \A x \in (plan \ todo)' : \/ x = o /\ todo' = todo \ {o}
                                \/ x \in plan \ todo
  OBVIOUS
<1>5. plan \ todo \subseteq (plan \ todo)'
  BY <1>0
<1>6. Seeded(src, snap)' = Seeded(src, snap)
  BY DEF Seeded, RemovedPaths, Deleted
<1> DEFINE NowWrittenTo(p, c) == \E y \in (plan \ todo)' : Writes(y) /\ src[y.path] = c /\ y.path = p
<1>7. \A p, c : WrittenTo(p, c) => NowWrittenTo(p, c)
  BY <1>5 DEF WrittenTo
<1>8. ASSUME NEW c \in Content, tracker'[c] # tracker[c]
      PROVE  tracker'[c] = o.path /\ NowWrittenTo(tracker'[c], c)
  <2>1. c = src[o.path] /\ tracker'[c] = o.path /\ Writes(o) /\ todo' = todo \ {o}
    BY <1>0, <1>8
  <2>2. o \in (plan \ todo)'
    BY <1>0, <2>1
  <2> QED
    BY <2>1, <2>2
<1> HIDE DEF NowWrittenTo
<1>9. Origins'
  <2> SUFFICES ASSUME NEW c \in Content, tracker'[c] # 0
               PROVE  tracker'[c] = Seeded(src, snap)[c] \/ NowWrittenTo(tracker'[c], c)
    BY <1>6 DEF Origins, WrittenTo, NowWrittenTo, Writes, Replaces
  <2> QED
    BY <1>1, <1>7, <1>8 DEF Origins
<1>10. Informed'
  <2> SUFFICES ASSUME NEW w \in (plan \ todo)', Writes(w), w.path \notin errors'
               PROVE  NowWrittenTo(tracker'[src[w.path]], src[w.path])
    BY DEF Informed, WrittenTo, NowWrittenTo, Writes, Replaces
  <2>1. src[w.path] \in Content
    BY <1>0 DEF Planned, Writes, Replaces, Sources
  <2>2. CASE w = o /\ todo' = todo \ {o}
    <3>1. tracker'[src[w.path]] = o.path
      BY <2>2 DEF Told
    <3> QED
      BY <2>2, <3>1 DEF NowWrittenTo
  <2>3. CASE w \in plan \ todo
    <3>1. WrittenTo(tracker[src[w.path]], src[w.path])
      BY <1>1, <2>3 DEF Informed
    <3> QED
      BY <1>7, <1>8, <2>1, <3>1
  <2> QED
    BY <1>4, <2>2, <2>3
<1>11. Intact'
  <2> SUFFICES ASSUME NEW p \in Path, snap[p] # Absent, ~ InWork(p)',
                      \A x \in (plan \ todo)' : ~ Took(x, p) /\ ~ (Replaces(x) /\ x.path = p)
               PROVE  ListingOf(tree')[p] = snap[p]
    BY DEF Intact, Took, Replaces
  <2>1. CASE p = o.path
    <3>1. o.act = "keep"
      <4>1. o.act \notin {"add", "move"}
        BY <1>0, <2>1 DEF Planned
      <4>2. o.act # "delete"
        BY <1>0, <2>1 DEF Took
      <4>3. ~ Replaces(o)
        BY <1>0, <2>1
      <4> QED
        BY <1>0, <4>1, <4>2, <4>3 DEF Operation, Replaces
    <3>2. ~ InWork(p)
      BY <1>0, <3>1, InHand, Alone DEF InWork, Writes, Replaces
    <3> QED
      BY <1>1, <1>5, <3>1, <3>2 DEF Intact
  <2>2. CASE p # o.path
    <3>1. o.act = "move" => p # o.from
      BY <1>0 DEF Took
    <3>2. ListingOf(tree')[p] = ListingOf(tree)[p]
      BY <2>2, <3>1, OutcomesSpare
    <3>3. ~ InWork(p)
      BY <2>2, Alone DEF InWork
    <3> QED
      BY <1>1, <1>5, <3>2, <3>3 DEF Intact
  <2> QED
    BY <2>1, <2>2
<1>12. ASSUME NEW y \in plan \ todo, Right(y)
       PROVE  Right(y)'
  <2>0. y # o /\ y.path < o.path /\ y.path \in Path /\ y.path # o.path
    BY <1>0, <1>1 DEF InOrder
  <2>1. ASSUME Writes(y) \/ y.act = "move"
        PROVE  ListingOf(tree')[y.path] = src[y.path]
    <3> DEFINE p == y.path
    <3>1. src[p] \in Content /\ ListingOf(tree)[p] = src[p]
      BY <1>0, <1>12, <2>0, <2>1 DEF Right, Planned, Writes, Replaces, Sources
    <3>2. IsFile(tree, p) /\ tree[p] = src[p]
      BY <2>0, <3>1, EntryAssumption DEF ListingOf, FileData
    <3>3. o.path \notin Above[p]
      <4>1. o.path \in Above[p] => o.path < p
        BY <2>0, WhereThingsLie
      <4> QED
        BY <1>0, <2>0, <4>1, PathAssumption DEF Path
    <3>4. p \notin Touched(o)
      BY <1>0, <2>0, <3>1, EntryAssumption DEF Touched, Planned, Deleted, FileData
    <3>5. IsFile(tree', p) /\ tree'[p] = tree[p]
      BY <2>0, <3>2, <3>3, <3>4, OutcomesKeep
    <3> QED
      BY <2>0, <3>2, <3>5 DEF ListingOf
  <2>2. ASSUME NEW p \in Path, Took(y, p)
        PROVE  ~ IsFile(tree', p)
    <3>1. p \in Deleted(src, snap)
      BY <1>0, <2>2 DEF Planned, Took
    <3>2. ~ Took(o, p)
      BY <1>0, <2>0, <2>2 DEF CleanInv, Distinct
    <3>3. p # o.path
      BY <1>0, <3>1, <3>2 DEF Took, Planned, Operation, Deleted
    <3>4. ~ IsFile(tree, p)
      BY <1>12, <2>2 DEF Right
    <3> QED
      BY <3>3, <3>4, OutcomesKeep
  <2> QED
    BY <2>1, <2>2 DEF Right, Writes, Replaces, Took
<1>13. Delivered'
  <2> SUFFICES ASSUME NEW y \in (plan \ todo)', ~ Stale(y)', y.path \notin errors' \/ Told(y)'
               PROVE  Right(y)'
    BY DEF Delivered
  <2>1. ~ Stale(y)
    BY <1>6 DEF Stale, Writes, Replaces
  <2>2. CASE y = o /\ todo' = todo \ {o}
    BY <2>1, <2>2
  <2>3. CASE y \in plan \ todo
    <3>1. Told(y)' => Told(y)
      <4>1. ASSUME Told(y)'
            PROVE  tracker[src[y.path]] = y.path
        <5>1. y.path # o.path /\ src[y.path] \in Content
          BY <1>0, <2>3, <4>1 DEF Told, Planned, Writes, Replaces, Sources
        <5> QED
          BY <1>8, <4>1, <5>1 DEF Told
      <4> QED
        BY <4>1 DEF Told, Writes, Replaces
    <3>2. Right(y)
      BY <1>1, <2>1, <2>3, <3>1 DEF Delivered
    <3> QED
      BY <1>12, <2>3, <3>2
  <2> QED
    BY <1>4, <2>2, <2>3
<1> QED
  BY <1>2, <1>3, <1>9, <1>10, <1>11, <1>13 DEF DeliverInv

LEMMA ApplyDelivers ==
  ASSUME TypeOK, PlanInv, KnownInv, CleanInv, DeliverInv, Apply
  PROVE  DeliverInv'
<1> PICK o \in todo : \/ PrepareAdd(o) \/ KeepDestination(o) \/ RemoveOld(o) \/ CopyFile(o)
                      \/ CopyFails(o) \/ DeleteFile(o) \/ MoveFile(o)
  BY DEF Apply
<1>0. /\ Current(o) /\ pc = "execute" /\ UNCHANGED <<src, mode, snap, plan, pc>>
      /\ o \in plan /\ o.path \in Path /\ Planned(o, snap) /\ tree \in Tree
      /\ ready => Writes(o) /\ src[o.path] \in Content
  BY Alone, InHand, TypeParts
     DEF PrepareAdd, KeepDestination, RemoveOld, CopyFile, CopyFails, DeleteFile, MoveFile, Current,
         TreesType
<1>1. tree \in Outcomes(o)
  BY DEF Outcomes
<1>2. Applied(o) => todo' = todo \ {o}
  BY DEF Applied
\* What is reported, the tracker not being told of it, need not be right.
<1>3. ASSUME Reported(o), tracker' = tracker, tree' \in Outcomes(o), o.act # "keep"
      PROVE  DeliverInv'
  <2>1. todo' = todo \ {o} /\ errors' = errors \cup {o.path} /\ o \notin todo'
    BY <1>3 DEF Reported, Applied
  <2>2. ~ Told(o)'
    <3>1. Writes(o) => ~ Told(o)
      BY <1>0, NotToldYet
    <3> QED
      BY <1>0, <1>3, <3>1 DEF Told, Writes, Replaces
  <2>3. todo' # todo
    BY <2>1
  <2> QED
    BY <1>0, <1>3, <2>1, <2>2, <2>3, StepDelivers
<1>4. CASE PrepareAdd(o)
  <2>0. o.act = "add" /\ tracker' = tracker
    BY <1>4 DEF PrepareAdd
  <2>1. CASE /\ CanMakeParents(tree, o.path) /\ tree' = WithParents(tree, o.path)
             /\ todo' = todo /\ errors' = errors
    <3>1. tree' \in Outcomes(o) /\ todo' # todo \ {o}
      BY <2>1 DEF Outcomes
    <3> QED
      BY <1>0, <2>0, <2>1, <3>1, StepDelivers DEF Replaces
  <2>2. CASE Reported(o) /\ tree' = tree
    BY <1>1, <1>3, <2>0, <2>2
  <2> QED
    BY <1>4, <2>1, <2>2 DEF PrepareAdd
<1>5. CASE KeepDestination(o)
  <2>1. o.act = "keep" /\ tree' = tree /\ tracker' = tracker /\ errors' = errors /\ Applied(o)
    BY <1>5 DEF KeepDestination
  <2>2. Right(o)'
    BY <2>1 DEF Right, Took, Writes, Replaces
  <2> QED
    BY <1>0, <1>1, <1>2, <2>1, <2>2, StepDelivers DEF Writes, Replaces
<1>6. CASE RemoveOld(o)
  <2>1. /\ Replaces(o) /\ ready' = TRUE /\ UNCHANGED <<todo, errors, tracker>>
        /\ tree' = tree \/ tree' = Removed(tree, o.path)
    BY <1>6 DEF RemoveOld
  <2>2. o.act \in {"modify", "conflict"} /\ tree' \in Outcomes(o) /\ todo' # todo \ {o}
    BY <2>1 DEF Replaces, Outcomes
  <2>3. InWork(o.path)'
    BY <1>0, <2>1 DEF InWork, Current
  <2> QED
    BY <1>0, <2>1, <2>2, <2>3, StepDelivers
<1>7. CASE CopyFile(o)
  <2>0. ready /\ Writes(o) /\ o.act \notin {"keep", "move", "delete"}
    BY <1>0, <1>7 DEF CopyFile, Writes, Replaces
  <2>1. CASE CanCopy(o)
    <3>1. /\ tree' = [tree EXCEPT ![o.path] = Brought(o)]
          /\ todo' = todo \ {o} /\ errors \subseteq errors' /\ errors' \subseteq errors \cup {o.path}
          /\ tracker' = [tracker EXCEPT ![src[o.path]] = o.path]
      BY <1>7, <2>1 DEF CopyFile, Brought, Applied, Reported
    <3>2. Told(o)'
      BY <1>0, <2>0, <3>1, TypeParts DEF TreesType, Told, Writes, Replaces
    <3>3. tree' \in Outcomes(o) /\ todo' # todo
      BY <2>0, <2>1, <3>1 DEF Outcomes
    <3>4. ~ Stale(o) => Right(o)'
      <4>1. ASSUME ~ Stale(o)
            PROVE  ListingOf(tree')[o.path] = src[o.path]
        <5>1. Brought(o) = src[o.path]
          BY <1>0, <2>0, <2>1, <4>1, CopyRight
        <5> QED
          BY <1>0, <2>0, <3>1, <5>1 DEF ListingOf, IsFile, FileData, Tree
      <4> QED
        BY <1>0, <2>0, <4>1 DEF Right, Took
    <3> QED
      BY <1>0, <2>0, <3>1, <3>2, <3>3, <3>4, StepDelivers
  <2>2. CASE ~ CanCopy(o)
    BY <1>1, <1>3, <1>7, <2>0, <2>2 DEF CopyFile
  <2> QED
    BY <2>1, <2>2
<1>8. CASE CopyFails(o)
  BY <1>0, <1>1, <1>3, <1>8, CutOffOutcome DEF CopyFails, Writes, Replaces
<1>9. CASE DeleteFile(o)
  <2>0. o.act = "delete" /\ tracker' = tracker
    BY <1>9 DEF DeleteFile
  <2>1. CASE tree' = Removed(tree, o.path) /\ Applied(o) /\ errors' = errors
    <3>1. tree' \in Outcomes(o)
      BY <2>0, <2>1 DEF Outcomes
    <3>2. Right(o)'
      BY <2>0, <2>1, EntryAssumption DEF Right, Took, Writes, Replaces, Removed, IsFile
    <3> QED
      BY <1>0, <1>2, <2>0, <2>1, <3>1, <3>2, StepDelivers DEF Writes, Replaces
  <2>2. CASE Reported(o) /\ tree' = tree
    BY <1>1, <1>3, <2>0, <2>2
  <2> QED
    BY <1>9, <2>1, <2>2 DEF DeleteFile
<1>10. CASE MoveFile(o)
  <2> DEFINE w == WithParents(tree, o.path)
  <2>0. o.act = "move" /\ tracker' = tracker /\ tree' \in Outcomes(o)
    BY <1>0, <1>10, MoveOutcome DEF MoveFile
  <2>1. CASE /\ CanMakeParents(tree, o.path) /\ IsFile(w, o.from)
             /\ tree' = [w EXCEPT ![o.path] = tree[o.from], ![o.from] = Absent]
             /\ Applied(o) /\ errors' = errors
    <3>1. /\ o.from \in Path /\ o.from # o.path /\ snap[o.from] # Absent /\ src[o.from] = Absent
          /\ Took(o, o.from) /\ src[o.path] = snap[o.from]
      BY <1>0, <2>0 DEF Planned, Deleted, Took, DeliverInv, Exact
    <3>2. IsFile(tree, o.from)
      BY <2>1, <3>1, EntryAssumption DEF WithParents, IsFile
    <3>3. ListingOf(tree)[o.from] = snap[o.from]
      <4>1. ~ InWork(o.from)
        BY <1>0, <2>0 DEF InWork, Writes, Replaces
      <4>2. ASSUME NEW x \in plan \ todo
            PROVE  ~ Took(x, o.from) /\ ~ (Replaces(x) /\ x.path = o.from)
        <5>1. ~ Took(x, o.from)
          BY <1>0, <3>1, <4>2 DEF CleanInv, Distinct
        <5>2. Replaces(x) => src[x.path] # Absent
          BY <4>2 DEF PlanInv, Planned, Replaces
        <5> QED
          BY <3>1, <5>1, <5>2
      <4> QED
        BY <1>0, <3>1, <4>1, <4>2 DEF DeliverInv, Intact
    <3>4. tree'[o.path] = src[o.path] /\ tree'[o.from] = Absent
      BY <1>0, <2>1, <3>1, <3>2, <3>3 DEF WithParents, ListingOf
    <3>5. Right(o)'
      BY <1>0, <2>0, <3>1, <3>2, <3>3, <3>4, EntryAssumption
         DEF Right, ListingOf, IsFile, Took, Writes, Replaces
    <3> QED
      BY <1>0, <1>2, <2>0, <2>1, <3>5, StepDelivers DEF Writes, Replaces
  <2>2. CASE Reported(o)
    BY <1>3, <2>0, <2>2
  <2> QED
    BY <1>10, <2>1, <2>2 DEF MoveFile
<1> QED
  BY <1>4, <1>5, <1>6, <1>7, <1>8, <1>9, <1>10

\* A crash ends a run, and a run ends where nothing is left to do.
LEMMA NextDelivers ==
  TypeOK /\ PlanInv /\ KnownInv /\ CleanInv /\ DeliverInv /\ [Next]_vars => DeliverInv'
<1> SUFFICES ASSUME TypeOK, PlanInv, KnownInv, CleanInv, DeliverInv, [Next]_vars PROVE DeliverInv'
  OBVIOUS
<1>1. CASE Compare
  BY <1>1, CompareDeliver
<1>2. CASE Apply
  BY <1>2, ApplyDelivers
<1>3. CASE Crash
  BY <1>3 DEF Crash, DeliverInv
<1>4. ASSUME UNCHANGED <<src, tree, mode, snap, plan, todo, tracker, errors>>, pc # "idle",
             \A p : InWork(p)' <=> InWork(p)
      PROVE  DeliverInv'
  <2>1. \A o : (Stale(o)' <=> Stale(o)) /\ (Right(o)' <=> Right(o)) /\ (Told(o)' <=> Told(o))
    BY <1>4 DEF Stale, Right, Told, Seeded, RemovedPaths, Deleted, Writes, Replaces, Took
  <2>2. Seeded(src, snap)' = Seeded(src, snap)
    BY <1>4 DEF Seeded, RemovedPaths, Deleted
  <2> QED
    BY <1>4, <2>1, <2>2 DEF DeliverInv, Exact, Touched, Intact, Delivered, Origins, WrittenTo, Informed,
       InOrder, Writes, Replaces, Took
<1>5. CASE Finish
  BY <1>4, <1>5 DEF Finish, InWork
<1>6. CASE UNCHANGED vars
  <2>1. pc = "idle" => DeliverInv'
    BY <1>6 DEF vars, DeliverInv
  <2> QED
    BY <1>4, <1>6, <2>1 DEF vars, InWork, Current
<1> QED
  BY <1>1, <1>2, <1>3, <1>5, <1>6 DEF Next

LEMMA DoneIsDelivered ==
  ASSUME TypeOK, PlanInv, LossInv, CleanInv, DeliverInv, pc = "done", todo = {},
         NEW p \in Path \ Excused
  PROVE  ListingOf(tree)[p] = Wanted(p)
<1>1. /\ Exact(plan, snap) /\ Intact /\ Delivered /\ OthersStay /\ mode \in {"push", "sync"}
      /\ tree \in Tree /\ plan \subseteq Operation
  BY TypeParts DEF DeliverInv, LossInv, RunType, TreesType, PlanType
<1>2. CASE \A o \in plan : p \notin Touched(o)
  <2>1. ListingOf(tree)[p] = snap[p]
    BY <1>1, <1>2 DEF OthersStay
  <2>2. src[p] # Absent \/ mode # "sync" => src[p] = snap[p]
    BY <1>1, <1>2 DEF Exact
  <2> QED
    BY <1>1, <2>1, <2>2 DEF Wanted
<1>3. ASSUME NEW o \in plan, p \in Touched(o)
      PROVE  ListingOf(tree)[p] = Wanted(p)
  <2>0. o.path \notin errors /\ ~ Stale(o) /\ Planned(o, snap) /\ o \in Operation
    BY <1>1, <1>3 DEF Excused, PlanInv
  <2>1. Right(o)
    BY <1>1, <2>0 DEF Delivered
  <2>2. CASE p = o.path /\ o.act = "keep"
    <3>1. ~ InWork(p) /\ snap[p] # Absent /\ src[p] # Absent
      BY <2>0, <2>2 DEF InWork, Planned
    <3>2. \A x \in plan \ todo : ~ Took(x, p) /\ ~ (Replaces(x) /\ x.path = p)
      BY <2>2, <3>1 DEF CleanInv, Distinct, PlanInv, Planned, Took, Deleted, Replaces
    <3>3. ListingOf(tree)[p] = snap[p]
      BY <1>1, <3>1, <3>2 DEF Intact
    <3> QED
      BY <1>1, <2>2, <3>3 DEF Wanted, Exact
  <2>3. CASE p = o.path /\ (Writes(o) \/ o.act = "move")
    <3>1. src[p] # Absent /\ o.act # "keep"
      BY <2>0, <2>3 DEF Planned, Writes, Replaces
    <3>2. Wanted(p) = src[p]
      BY <1>1, <2>3, <3>1 DEF Wanted, CleanInv, Distinct
    <3> QED
      BY <2>1, <2>3, <3>2 DEF Right
  <2>4. CASE Took(o, p)
    <3>1. p \in Deleted(src, snap) /\ ~ IsFile(tree, p)
      BY <2>0, <2>1, <2>4 DEF Planned, Took, Right
    <3>2. mode = "push" /\ src[p] = Absent
      BY <1>1, <3>1 DEF Deleted
    <3> QED
      BY <3>1, <3>2 DEF Wanted, ListingOf
  <2> QED
    BY <1>3, <2>0, <2>2, <2>3, <2>4 DEF Touched, Took, Operation, Writes, Replaces
<1> QED
  BY <1>2, <1>3

(* After a run the destination is what the mode asks for, but for what is  *)
(* reported and for copies of a file the run itself has rewritten: for any *)
(* trees, whatever fails, and whatever earlier runs have left or died of   *)
(* (execute goes on after an error; ContentTracker is told of every copy). *)
THEOREM SpecDeliveredUnlessStale == Spec => []DeliveredUnlessStale
<1> DEFINE Over == pc = "done" => todo = {}
<1>1. Init => CleanInv /\ KnownInv /\ LossInv /\ DeliverInv /\ ErrorsOnlyWhereBlocked /\ Over
  BY DEF Init, CleanInv, KnownInv, LossInv, Distinct, DeliverInv, ErrorsOnlyWhereBlocked
<1>2. Over /\ [Next]_vars => Over'
  BY DEF Next, Compare, Apply, Finish, Crash, vars, PrepareAdd, KeepDestination, RemoveOld, CopyFile,
     CopyFails, DeleteFile, MoveFile, Current
<1>3. TypeOK /\ PlanInv /\ LossInv /\ CleanInv /\ DeliverInv /\ Over => DeliveredUnlessStale
  BY DoneIsDelivered DEF DeliveredUnlessStale
<1> HIDE DEF Over
<1> QED
  BY <1>1, <1>2, <1>3, InitTyped, NextTyped, NextKnown, NextLoss, NextClean, NextDelivers, PTL DEF Spec

-----------------------------------------------------------------------------
(* What a second run mends                                                 *)

\* A file that is not what it is to be has been copied from an earlier path that stays.
Traced(p) == IsFile(tree, p) /\ tree[p] # src[p] =>
    \E v \in Path : v < p /\ tree[v] = tree[p] /\ (src[v] # Absent \/ mode = "sync")

\* What is kept is newer; what has been written or moved to is right, or can be traced.
KeptAreNewer == \A o \in plan : o.act = "keep" => o.path \notin fresh
AllTraced == \A o \in plan \ todo : Writes(o) \/ o.act = "move" => Traced(o.path)

\* No copy comes from a file the same run rewrites before.
NoneStale == \A o, w \in plan : /\ Writes(o) /\ Replaces(w)
                                /\ w.path = Seeded(src, snap)[src[o.path]]
                                => ~ (w.path < o.path)

MendInv ==
    /\ pc = "done" => todo = {}
    /\ faults = 0 =>
        /\ pc = "idle" => runs = 0
        /\ pc # "idle" => /\ KeptAreNewer /\ AllTraced
                          /\ runs > 1 => NoneStale

\* The tracker is seeded with the least of the paths that hold a content and stay.
LEMMA SeededLeast ==
  ASSUME NEW s \in Sources, NEW d \in Listing, NEW c \in Content,
         NEW p \in Path \ RemovedPaths(s, d), d[p] = c
  PROVE  Seeded(s, d)[c] \in Path /\ Seeded(s, d)[c] <= p
<1> DEFINE h == {q \in Path \ RemovedPaths(s, d) : d[q] = c}
<1>1. Seeded(s, d)[c] = Min(h)
  BY DEF Seeded
<1>2. h \in SUBSET Path /\ p \in h
  OBVIOUS
<1> HIDE DEF h
<1>3. Min(h) \in h /\ Min(h) <= p
  BY <1>2, FirstHolder
<1> QED
  BY <1>1, <1>2, <1>3

\* What the dates have to do with it.
LEMMA ComparisonDates ==
  ASSUME NEW d \in Listing, NEW o \in Operations(src, d)
  PROVE  /\ o.act = "keep" => o.path \notin fresh
         /\ Replaces(o) => /\ src[o.path] # Absent /\ src[o.path] # d[o.path]
                           /\ mode = "sync" => o.path \in fresh
  BY DEF Operations, Replaces, Changed

\* When a path is compared again, what it holds can be traced, or it stays as it is.
LEMMA TracedOrRight ==
  ASSUME TypeOK, PlanInv, LossInv, DeliverInv, MendInv, pc = "done", faults = 0,
         NEW p \in Path, src[p] # Absent, ListingOf(tree)[p] # Absent, ListingOf(tree)[p] # src[p],
         mode = "sync" => p \in fresh
  PROVE  Traced(p)
<1>1. /\ OthersStay /\ Exact(plan, snap) /\ KeptAreNewer /\ AllTraced /\ todo = {}
      /\ \A x \in plan : Planned(x, snap) /\ x \in Operation
  BY DEF LossInv, DeliverInv, MendInv, PlanInv, Planned
<1>2. PICK o \in plan : p \in Touched(o)
  BY <1>1 DEF OthersStay, Exact
<1>3. p = o.path
  BY <1>1, <1>2 DEF Touched, Planned, Deleted
<1>4. o.act # "delete"
  BY <1>1, <1>3 DEF Planned, Deleted
<1>5. o.act # "keep"
  BY <1>1, <1>3 DEF KeptAreNewer, Exact
<1>6. Writes(o) \/ o.act = "move"
  BY <1>1, <1>4, <1>5 DEF Operation, Writes, Replaces
<1> QED
  BY <1>1, <1>3, <1>6 DEF AllTraced

LEMMA CompareMend ==
  ASSUME TypeOK, PlanInv, LossInv, DeliverInv, MendInv, Compare
  PROVE  MendInv'
<1>1. /\ src \in Sources /\ tree \in Tree /\ snap' \in Listing /\ runs \in Nat
      /\ UNCHANGED <<src, tree, mode, fresh, faults>> /\ snap' = ListingOf(tree)
      /\ plan' = Operations(src, snap') /\ todo' = plan' /\ runs' = runs + 1
      /\ pc \in {"idle", "done"} /\ pc' = "execute"
  BY TypeParts, ListingOfTree, BoundsAssumption DEF Compare, TreesType, RunType
<1>2. KeptAreNewer' /\ AllTraced'
  BY <1>1, ComparisonDates DEF KeptAreNewer, AllTraced
<1>3. ASSUME faults = 0, runs + 1 > 1, NEW o \in plan', NEW w \in plan', Writes(o), Replaces(w),
             w.path = Seeded(src, snap')[src[o.path]], w.path < o.path
      PROVE  FALSE
  <2> DEFINE u == w.path
             c == src[o.path]
  <2>1. pc = "done"
    BY <1>1, <1>3 DEF MendInv
  <2>2. o.path \in Path /\ u \in Path /\ Planned(o, snap') /\ Planned(w, snap')
    BY <1>1, ComparisonPlans DEF Planned, Operation
  <2>3. c \in Content /\ c # Absent
    BY <1>1, <1>3, <2>2 DEF Planned, Writes, Replaces, Sources
  <2>4. u # 0
    BY <2>2, PathAssumption DEF Path
  <2>5. snap'[u] = c
    BY <1>1, <1>3, <2>3, <2>4, SeededType
  <2>6. src[u] # Absent /\ src[u] # snap'[u] /\ (mode = "sync" => u \in fresh)
    BY <1>1, <1>3, ComparisonDates
  <2>7. Traced(u)
    BY <1>1, <1>3, <2>1, <2>2, <2>3, <2>5, <2>6, TracedOrRight
  <2>8. tree[u] = c /\ IsFile(tree, u)
    BY <1>1, <2>2, <2>3, <2>5 DEF ListingOf
  <2>9. PICK v \in Path : v < u /\ tree[v] = c /\ (src[v] # Absent \/ mode = "sync")
    BY <2>5, <2>6, <2>7, <2>8 DEF Traced
  <2>10. snap'[v] = c
    BY <1>1, <2>8, <2>9 DEF ListingOf, IsFile
  <2>11. v \notin RemovedPaths(src, snap')
    BY <2>9 DEF RemovedPaths, Deleted
  <2>12. u <= v
    BY <1>1, <1>3, <2>3, <2>10, <2>11, SeededLeast
  <2> QED
    BY <2>2, <2>9, <2>12, PathAssumption DEF Path
<1>4. faults = 0 /\ runs' > 1 => NoneStale'
  <2>1. Seeded(src, snap)' = Seeded(src, snap')
    BY <1>1 DEF Seeded, RemovedPaths, Deleted
  <2> QED
    BY <1>1, <1>3, <2>1 DEF NoneStale, Writes, Replaces
<1> QED
  BY <1>1, <1>2, <1>4 DEF MendInv

\* Where a copy comes from: what lies ahead is as it was, what lies behind will stay.
LEMMA CopyTraced ==
  ASSUME TypeOK, PlanInv, CleanInv, DeliverInv, NEW o \in todo, Current(o), ready, CanCopy(o),
         Brought(o) # src[o.path]
  PROVE  /\ Origin(o) \in Path /\ Origin(o) < o.path /\ IsFile(tree, Origin(o))
         /\ src[Origin(o)] # Absent \/ mode = "sync"
<1> DEFINE t == Origin(o)
           c == src[o.path]
<1>1. /\ c \in Content /\ o.path \in Path /\ pc = "execute" /\ mode \in {"push", "sync"}
      /\ src \in Sources /\ snap \in Listing /\ t \in Path \cup {0} /\ tree[o.path] = Absent
  BY InHand, CopiedType, TypeParts DEF TreesType, Current, RunType, CanCopy
<1>2. Intact /\ Origins /\ InOrder
  BY <1>1 DEF DeliverInv
<1>3. t \in Path /\ IsFile(tree, t) /\ Brought(o) = tree[t]
  BY <1>1 DEF Brought, CanCopy
<1>4. t # o.path /\ t # 0
  BY <1>1, <1>3, EntryAssumption, PathAssumption DEF IsFile, Path
<1>5. CASE t = Seeded(src, snap)[c]
  <2>1. snap[t] = c /\ snap[t] # Absent /\ t \notin Deleted(src, snap)
    BY <1>1, <1>4, <1>5, SeededType, EntryAssumption DEF RemovedPaths, FileData
  <2>2. src[t] # Absent \/ mode = "sync"
    BY <1>1, <1>3, <2>1 DEF Deleted
  <2>3. ASSUME o.path < t
        PROVE  FALSE
    <3>1. ~ InWork(t)
      BY <1>4, Alone DEF InWork
    <3>2. ASSUME NEW x \in plan \ todo, Took(x, t)
          PROVE  FALSE
      BY <2>1, <3>2 DEF PlanInv, Planned, Took
    <3>3. ASSUME NEW x \in plan \ todo, x.path = t
          PROVE  FALSE
      <4>1. t < o.path
        BY <1>2, <3>3 DEF InOrder
      <4> QED
        BY <1>1, <1>3, <2>3, <4>1, PathAssumption DEF Path
    <3>4. ListingOf(tree)[t] = c
      BY <1>2, <1>3, <2>1, <3>1, <3>2, <3>3 DEF Intact
    <3> QED
      BY <1>3, <3>4 DEF ListingOf
  <2> QED
    BY <1>1, <1>3, <1>4, <2>2, <2>3, PathAssumption DEF Path
<1>6. CASE WrittenTo(t, c)
  <2>1. PICK y \in plan \ todo : Writes(y) /\ y.path = t
    BY <1>6 DEF WrittenTo
  <2>2. t < o.path
    BY <1>2, <2>1 DEF InOrder
  <2>3. src[t] # Absent
    BY <2>1 DEF PlanInv, Planned, Writes, Replaces
  <2> QED
    BY <1>3, <2>2, <2>3
<1> QED
  BY <1>1, <1>2, <1>4, <1>5, <1>6 DEF Origins, Origin

\* What can be traced stays so whatever is done behind it.
LEMMA StillTraced ==
  ASSUME TypeOK, PlanInv, CleanInv, DeliverInv, NEW o \in todo, Current(o), tree' \in Outcomes(o),
         UNCHANGED <<src, mode>>, NEW p \in Path, p < o.path, src[p] # Absent, Traced(p)
  PROVE  Traced(p)'
<1>1. /\ o.path \in Path /\ Planned(o, snap)
  BY Alone
<1>2. ASSUME NEW v \in Path, v < o.path, src[v] # Absent \/ mode = "sync"
      PROVE  /\ IsFile(tree, v) => IsFile(tree', v) /\ tree'[v] = tree[v]
             /\ ~ IsFile(tree, v) => ~ IsFile(tree', v)
  <2>1. v # o.path /\ o.path \notin Above[v]
    BY <1>1, <1>2, AboveAssumption, PathAssumption DEF Path
  <2>2. v \notin Touched(o)
    BY <1>1, <1>2, <2>1 DEF Touched, Planned, Deleted
  <2> QED
    BY <2>1, <2>2, OutcomesKeep
<1>3. SUFFICES ASSUME IsFile(tree', p), tree'[p] # src[p]
               PROVE  \E v \in Path : v < p /\ tree'[v] = tree'[p] /\ (src[v] # Absent \/ mode = "sync")
  BY DEF Traced
<1>4. IsFile(tree, p) /\ tree'[p] = tree[p]
  BY <1>2, <1>3
<1>5. PICK v \in Path : v < p /\ tree[v] = tree[p] /\ (src[v] # Absent \/ mode = "sync")
  BY <1>3, <1>4 DEF Traced
<1>6. v < o.path /\ IsFile(tree, v)
  BY <1>1, <1>4, <1>5, PathAssumption DEF IsFile, Path
<1> QED
  BY <1>2, <1>4, <1>5, <1>6

LEMMA ApplyMend ==
  ASSUME TypeOK, PlanInv, KnownInv, CleanInv, DeliverInv, DeliverInv', MendInv, Apply, faults = 0,
         faults' = 0
  PROVE  MendInv'
<1> PICK o \in todo : \/ PrepareAdd(o) \/ KeepDestination(o) \/ RemoveOld(o) \/ CopyFile(o)
                      \/ CopyFails(o) \/ DeleteFile(o) \/ MoveFile(o)
  BY DEF Apply
<1>0. /\ Current(o) /\ pc = "execute" /\ UNCHANGED <<src, mode, snap, plan, pc, runs>>
      /\ o \in plan /\ o.path \in Path /\ Planned(o, snap) /\ tree \in Tree
      /\ ready => Writes(o)
      /\ \A x \in plan : Planned(x, snap) /\ x \in Operation /\ x.path \in Path
  BY Alone, InHand, TypeParts
     DEF PrepareAdd, KeepDestination, RemoveOld, CopyFile, CopyFails, DeleteFile, MoveFile, Current,
         TreesType, PlanInv, Planned, Operation
<1>1. /\ Clean /\ KeptAreNewer /\ AllTraced /\ (runs > 1 => NoneStale) /\ InOrder
      /\ ~ Fault
  BY <1>0 DEF CleanInv, MendInv, DeliverInv, Fault
<1>2. todo' = todo \/ todo' = todo \ {o}
  BY DEF PrepareAdd, KeepDestination, RemoveOld, CopyFile, CopyFails, DeleteFile, MoveFile, Applied,
         Reported
<1>3. tree' \in Outcomes(o)
  <2>1. MoveFile(o) => tree' \in Outcomes(o)
    BY <1>0, MoveOutcome
  <2>2. KeepDestination(o) \/ CopyFails(o) => tree' = tree
    BY <1>1 DEF KeepDestination, CopyFails
  <2>3. PrepareAdd(o) => \/ tree' = tree
                         \/ CanMakeParents(tree, o.path) /\ tree' = WithParents(tree, o.path)
    BY DEF PrepareAdd
  <2>4. RemoveOld(o) \/ DeleteFile(o) =>
            \/ tree' = tree
            \/ o.act \in {"modify", "conflict", "delete"} /\ tree' = Removed(tree, o.path)
    BY DEF RemoveOld, DeleteFile, Replaces
  <2>5. CopyFile(o) => \/ tree' = tree
                       \/ ready /\ CanCopy(o) /\ tree' = [tree EXCEPT ![o.path] = Brought(o)]
    BY DEF CopyFile, Brought
  <2> QED
    BY <2>1, <2>2, <2>3, <2>4, <2>5 DEF Outcomes
<1>4. KeptAreNewer'
  <2>1. fresh' = fresh \/ (fresh' = fresh \cup {o.path} /\ Writes(o))
    BY <1>0, <1>1 DEF PrepareAdd, KeepDestination, RemoveOld, CopyFile, CopyFails, DeleteFile, MoveFile
  <2>2. \A x \in plan : x.path = o.path => x = o
    BY <1>0 DEF CleanInv, Distinct
  <2> QED
    BY <1>0, <1>1, <2>1, <2>2 DEF KeptAreNewer, Writes, Replaces
\* An operation that is reported leaves no file.
<1>5. ASSUME tree' = tree \/ tree' = TryWithParents(tree, o.path), ~ IsFile(tree, o.path)
      PROVE  Traced(o.path)'
  <2>1. o.path \notin Above[o.path]
    BY <1>0, AboveAssumption, PathAssumption DEF Path
  <2>2. tree'[o.path] = tree[o.path]
    BY <1>0, <1>5, <2>1 DEF TryWithParents, WithParents
  <2> QED
    BY <1>5, <2>2 DEF Traced, IsFile
<1>6. o.act \in {"add", "move"} => ~ IsFile(tree, o.path)
  BY <1>1 DEF Clean, TargetsFree
<1>7. ASSUME todo' # todo, Writes(o) \/ o.act = "move"
      PROVE  Traced(o.path)'
  <2>1. CASE PrepareAdd(o)
    BY <1>1, <1>5, <1>6, <1>7, <2>1 DEF PrepareAdd
  <2>2. CASE KeepDestination(o) \/ DeleteFile(o) \/ RemoveOld(o)
    BY <1>7, <2>2 DEF KeepDestination, DeleteFile, RemoveOld, Writes, Replaces
  <2>3. CASE CopyFile(o)
    <3>1. ready
      BY <2>3 DEF CopyFile
    <3>2. CASE ~ CanCopy(o)
      <4>1. tree[o.path] = Dir /\ tree' = tree
        BY <1>0, <1>1, <2>3, <3>1, <3>2, CopyPossible DEF CopyFile
      <4> QED
        BY <1>5, <4>1, EntryAssumption DEF IsFile
    <3>3. CASE CanCopy(o)
      <4>1. tree' = [tree EXCEPT ![o.path] = Brought(o)] /\ tree'[o.path] = Brought(o)
        BY <1>0, <2>3, <3>3 DEF CopyFile, Brought, Tree
      <4>2. SUFFICES ASSUME Brought(o) # src[o.path]
                     PROVE  Traced(o.path)'
        BY <1>0, <4>1 DEF Traced
      <4>3. /\ Origin(o) \in Path /\ Origin(o) < o.path /\ IsFile(tree, Origin(o))
            /\ src[Origin(o)] # Absent \/ mode = "sync"
        BY <1>0, <3>1, <3>3, <4>2, CopyTraced
      <4>4. Origin(o) # 0 /\ Origin(o) # o.path
        BY <1>0, <4>3, PathAssumption DEF Path
      <4>5. tree'[Origin(o)] = tree'[o.path]
        BY <4>1, <4>3, <4>4, <1>0 DEF Brought, Tree
      <4> QED
        BY <1>0, <4>3, <4>5 DEF Traced
    <3> QED
      BY <3>2, <3>3
  <2>4. CASE CopyFails(o)
    BY <1>1, <2>4 DEF CopyFails
  <2>5. CASE MoveFile(o)
    <3>1. CASE Applied(o) /\ errors' = errors
      <4>1. o \in plan' \ todo' /\ o.path \notin errors'
        BY <1>0, <1>1, <3>1 DEF Applied, Clean, Unreported
      <4>2. o.act = "move" /\ pc' # "idle"
        BY <1>0, <2>5 DEF MoveFile
      <4>3. ~ Stale(o)'
        BY <4>2 DEF Stale, Writes, Replaces
      <4>4. Right(o)'
        BY <4>1, <4>2, <4>3 DEF DeliverInv, Delivered
      <4> QED
        BY <1>0, <4>2, <4>4 DEF Right, Traced, ListingOf
    <3>2. CASE tree' = TryWithParents(tree, o.path)
      BY <1>5, <1>6, <2>5, <3>2 DEF MoveFile
    <3> QED
      BY <2>5, <3>1, <3>2 DEF MoveFile
  <2> QED
    BY <2>1, <2>2, <2>3, <2>4, <2>5
<1>8. AllTraced'
  <2>1. ASSUME NEW x \in plan \ todo, Writes(x) \/ x.act = "move"
        PROVE  Traced(x.path)'
    <3>1. x.path < o.path /\ src[x.path] # Absent
      BY <1>0, <1>1, <2>1 DEF InOrder, Planned, Writes, Replaces
    <3>2. Traced(x.path)
      BY <1>1, <2>1 DEF AllTraced
    <3> QED
      BY <1>0, <1>3, <3>1, <3>2, StillTraced
  <2> QED
    BY <1>0, <1>2, <1>7, <2>1 DEF AllTraced, Writes, Replaces
<1>9. NoneStale' <=> NoneStale
  BY <1>0 DEF NoneStale, Writes, Replaces, Seeded, RemovedPaths, Deleted
<1> QED
  BY <1>0, <1>1, <1>4, <1>8, <1>9 DEF MendInv

LEMMA NextMend ==
  /\ TypeOK /\ PlanInv /\ KnownInv /\ LossInv /\ CleanInv /\ DeliverInv /\ DeliverInv' /\ MendInv
  /\ [Next]_vars
  => MendInv'
<1> SUFFICES ASSUME TypeOK, PlanInv, KnownInv, LossInv, CleanInv, DeliverInv, DeliverInv', MendInv,
                    [Next]_vars
             PROVE  MendInv'
  OBVIOUS
<1>1. CASE Compare
  BY <1>1, CompareMend
<1>2. faults \in Nat /\ (Fault => faults' # 0)
  BY TypeParts, BoundsAssumption DEF RunType, Fault
<1>3. CASE Apply
  <2>1. faults' = faults \/ Fault
    BY <1>3 DEF Apply, PrepareAdd, KeepDestination, RemoveOld, CopyFile, CopyFails, DeleteFile, MoveFile
  <2>2. pc' = "execute"
    BY <1>3 DEF Apply, PrepareAdd, KeepDestination, RemoveOld, CopyFile, CopyFails, DeleteFile, MoveFile,
       Current
  <2>3. CASE faults' = 0
    BY <1>2, <1>3, <2>1, <2>3, ApplyMend
  <2> QED
    BY <2>2, <2>3 DEF MendInv
<1>4. CASE Crash
  BY <1>2, <1>4 DEF Crash, MendInv
<1>5. ASSUME UNCHANGED <<src, tree, mode, fresh, snap, plan, todo, runs, faults>>
      PROVE  /\ KeptAreNewer' <=> KeptAreNewer
             /\ AllTraced' <=> AllTraced
             /\ NoneStale' <=> NoneStale
  BY <1>5 DEF KeptAreNewer, AllTraced, NoneStale, Traced, Writes, Replaces, Seeded, RemovedPaths, Deleted
<1>6. CASE Finish
  BY <1>5, <1>6 DEF Finish, MendInv
<1>7. CASE UNCHANGED vars
  BY <1>5, <1>7 DEF vars, MendInv
<1> QED
  BY <1>1, <1>3, <1>4, <1>6, <1>7 DEF Next

(* A second run in which nothing fails, and each after it, delivers all    *)
(* that is wanted unless it reports an error: the tracker is seeded with   *)
(* the first path that holds a content, and what an earlier run copied     *)
(* from the wrong place has the content of a path before it that stays,    *)
(* so that nothing is copied from a file that is yet to be mended          *)
(* (ContentTracker.init, EfficientSyncExecutor.execute).                   *)
THEOREM SpecSecondRunMends == Spec => []SecondRunMends
<1>1. Init => CleanInv /\ KnownInv /\ LossInv /\ DeliverInv /\ ErrorsOnlyWhereBlocked /\ MendInv
  BY DEF Init, CleanInv, KnownInv, LossInv, Distinct, DeliverInv, ErrorsOnlyWhereBlocked, MendInv
<1>2. TypeOK /\ PlanInv /\ LossInv /\ CleanInv /\ DeliverInv /\ MendInv => SecondRunMends
  <2> SUFFICES ASSUME TypeOK, PlanInv, LossInv, CleanInv, DeliverInv, MendInv,
                      pc = "done", runs > 1, faults = 0, errors = {}, NEW p \in Path
               PROVE  ListingOf(tree)[p] = Wanted(p)
    BY DEF SecondRunMends
  <2>1. NoneStale /\ todo = {}
    BY DEF MendInv
  <2>2. \A o \in plan : ~ Stale(o)
    BY <2>1 DEF Stale, NoneStale
  <2>3. p \notin Excused
    BY <2>2 DEF Excused
  <2> QED
    BY <2>1, <2>3, DoneIsDelivered
<1> QED
  BY <1>1, <1>2, InitTyped, NextTyped, NextKnown, NextLoss, NextClean, NextDelivers, NextMend, PTL
     DEF Spec
===============================================================================
