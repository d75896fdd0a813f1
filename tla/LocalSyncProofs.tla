----------------------------- MODULE LocalSyncProofs -----------------------------
(***************************************************************************)
(* What a local synchronisation promises, for any two trees and any number *)
(* of runs, failures and crashes.                                          *)
(***************************************************************************)
EXTENDS LocalSync, FileTreeProofs, WellFoundedInduction

-----------------------------------------------------------------------------
(* What the operations make of a tree                                      *)

LEMMA Subtrees ==
  ASSUME NEW p \in Path, NEW q \in Path, NEW r \in Above[q]
  PROVE  /\ r \in Path /\ Subtree(p) \subseteq Path
         /\ r \in Subtree(p) => q \in Subtree(p)
         /\ q \in Subtree(p) => r \in Subtree(p) \/ r \in Above[p]
<1>1. r \in Path /\ Subtree(p) \subseteq Path
  BY WhereThingsLie DEF Subtree, Below
<1>2. r \in Subtree(p) => q \in Subtree(p)
  BY <1>1, WhereThingsLie DEF Subtree, Below
<1>3. ASSUME q \in Subtree(p)
      PROVE  r \in Subtree(p) \/ r \in Above[p]
  <2>1. CASE q = p
    BY <2>1
  <2>2. CASE p \in Above[q]
    BY <1>1, <2>2, ChainAssumption DEF Subtree, Below
  <2> QED
    BY <1>3, <2>1, <2>2 DEF Subtree, Below
<1> QED
  BY <1>1, <1>2, <1>3

LEMMA CopiedType ==
  ASSUME NEW t \in Tree, WellFormed(t), NEW from \in Tree, WellFormed(from), NEW p \in Path,
         ParentsExist(t, p), t[p] = Absent, NEW k \in Subtree(p)
  PROVE  /\ Copied(t, from, p) \in Tree /\ WellFormed(Copied(t, from, p))
         /\ PartlyCopied(t, from, p, k) \in Tree /\ WellFormed(PartlyCopied(t, from, p, k))
<1>1. Copied(t, from, p) \in Tree /\ PartlyCopied(t, from, p, k) \in Tree
  BY DEF Copied, PartlyCopied, Tree, Entry, FileData
<1>2. \A q \in Subtree(p) : q \in Path /\ t[q] = Absent
  BY EntryAssumption DEF Subtree, Below, WellFormed
<1>3. ASSUME NEW q \in Path, Copied(t, from, p)[q] # Absent, NEW r \in Above[q]
      PROVE  Copied(t, from, p)[r] = Dir
  <2>1. CASE q \in Subtree(p)
    BY <1>3, <2>1, Subtrees DEF Copied, WellFormed, ParentsExist
  <2>2. CASE q \notin Subtree(p)
    BY <1>3, <2>2, Subtrees DEF Copied, WellFormed
  <2> QED
    BY <2>1, <2>2
<1>4. ASSUME NEW q \in Path, PartlyCopied(t, from, p, k)[q] # Absent, NEW r \in Above[q]
      PROVE  PartlyCopied(t, from, p, k)[r] = Dir
  <2>0. r \in Path /\ r < q /\ k \in Path
    BY <1>2, WhereThingsLie
  <2>1. CASE q \in Subtree(p)
    <3>1. ~ (k < q) /\ from[q] # Absent
      BY <1>2, <1>4, <2>0, <2>1, EntryAssumption DEF PartlyCopied
    <3>2. r # k /\ ~ (k < r)
      BY <2>0, <3>1 DEF Path
    <3>3. from[r] = Dir
      BY <3>1 DEF WellFormed
    <3>4. r \in Above[p] /\ r \notin Subtree(p) => t[r] = Dir
      BY DEF ParentsExist
    <3> QED
      BY <2>0, <2>1, <3>2, <3>3, <3>4, Subtrees DEF PartlyCopied
  <2>2. CASE q \notin Subtree(p)
    <3>1. t[q] # Absent /\ r \notin Subtree(p)
      BY <1>4, <2>2, Subtrees DEF PartlyCopied
    <3> QED
      BY <2>0, <3>1 DEF PartlyCopied, WellFormed
  <2> QED
    BY <2>1, <2>2
<1> QED
  BY <1>1, <1>3, <1>4 DEF WellFormed

LEMMA RoomType ==
  ASSUME NEW t \in Tree, WellFormed(t), NEW p \in Path
  PROVE  /\ Removed(Housed(t, p), p) \in Tree /\ WellFormed(Removed(Housed(t, p), p))
         /\ Removed(t, p) \in Tree /\ WellFormed(Removed(t, p))
  BY HousedWellFormed, TreeOperations, RemovedWellFormed

\* What is left of a directory whose removal stops on the way is as it was.
LEMMA PartOfItRemoved ==
  ASSUME NEW t \in Tree, NEW p \in Path, NEW v \in PartlyRemoved(t, p)
  PROVE  /\ v \in Tree /\ (WellFormed(t) => WellFormed(v))
         /\ \A q \in Path : v[q] = t[q] \/ (v[q] = Absent /\ q \in Below(p))
<1>1. PICK gone \in SUBSET Below(p) : /\ \A q \in gone : Below(q) \subseteq gone
                                      /\ v = [q \in Path |-> IF q \in gone THEN Absent ELSE t[q]]
  BY DEF PartlyRemoved
<1>2. \A q \in Path : v[q] = t[q] \/ (v[q] = Absent /\ q \in Below(p))
  BY <1>1
<1>3. v \in Tree
  BY <1>1 DEF Tree, Entry
<1>4. ASSUME WellFormed(t), NEW q \in Path, v[q] # Absent, NEW r \in Above[q]
      PROVE  v[r] = Dir
  <2>1. q \notin gone /\ t[q] # Absent /\ r \in Path
    BY <1>1, <1>4, AboveAssumption
  <2>2. r \notin gone
    BY <1>1, <1>4, <2>1 DEF Below
  <2> QED
    BY <1>1, <1>4, <2>1, <2>2 DEF WellFormed
<1> QED
  BY <1>2, <1>3, <1>4 DEF WellFormed

LEMMA DirectoryMade ==
  ASSUME NEW t \in Tree, WellFormed(t), NEW p \in Path, t[p] = Absent
  PROVE  /\ [WithParents(t, p) EXCEPT ![p] = Dir] \in Tree
         /\ WellFormed([WithParents(t, p) EXCEPT ![p] = Dir])
<1>1. WithParents(t, p) \in Tree /\ WellFormed(WithParents(t, p))
  BY TreeOperations, WithParentsWellFormed
<1>2. ParentsExist(WithParents(t, p), p) /\ WithParents(t, p)[p] # Dir
  BY WhereThingsLie, EntryAssumption DEF ParentsExist, WithParents
<1> QED
  BY <1>1, <1>2, TreeUpdate, ExtendedWellFormed DEF Entry

-----------------------------------------------------------------------------
(* Types                                                                   *)

\* TypeOK in parts.
TreesType ==
    /\ tree \in [Side -> Tree] /\ \A s \in Side : WellFormed(tree[s])
    /\ start \in [Side -> Tree] /\ \A s \in Side : WellFormed(start[s])
RunType ==
    /\ missed \in [Side -> SUBSET Path]
    /\ newer \in [Path -> Side \cup {"same"}] /\ dates \in [Path -> Side \cup {"same"}]
    /\ mode \in Mode /\ options \subseteq Option
    /\ pc \in {"idle", "execute", "verify", "done", "thrown", "crashed"}
    /\ runs \in 0..MaxRuns /\ faults \in 0..MaxFaults
PlanType ==
    /\ plan \subseteq Operation /\ todo \subseteq plan /\ errors \subseteq plan \ todo
    /\ ready \in Path \cup {0}
    /\ ready # 0 => \E o \in todo : /\ o.path = ready
                                    /\ o.act = "copy" \/ (o.act = "delete" /\ pc = "crashed")

LEMMA TypeParts == TypeOK <=> TreesType /\ RunType /\ PlanType
  BY DEF TypeOK, TreesType, RunType, PlanType

LEMMA TypeNext == TreesType' /\ RunType' /\ PlanType' => TypeOK'
  BY DEF TypeOK, TreesType, RunType, PlanType

LEMMA InitType == Init => TypeOK
<1> SUFFICES ASSUME Init PROVE TypeOK
  OBVIOUS
<1>1. TreesType
  <2>1. tree \in [Side -> Tree] /\ WellFormed(tree["a"]) /\ WellFormed(tree["b"])
    BY StartsAssumption DEF Init
  <2>2. \A s \in Side : WellFormed(tree[s])
    BY <2>1 DEF Side
  <2> QED
    BY <2>1, <2>2 DEF Init, TreesType
<1>2. RunType
  <2>1. newer \in [Path -> Side \cup {"same"}]
    BY DEF Init, Dates
  <2>2. mode \in Mode /\ options \subseteq Option
    BY ModesAssumption DEF Init
  <2>3. runs \in 0..MaxRuns /\ faults \in 0..MaxFaults
    BY BoundsAssumption DEF Init
  <2> QED
    BY <2>1, <2>2, <2>3 DEF Init, RunType
<1>3. PlanType
  BY DEF Init, PlanType
<1> QED
  BY <1>1, <1>2, <1>3, TypeParts

LEMMA MissedType ==
  ASSUME NEW m \in [Side -> Unscanned \cup {{}}]
  PROVE  m \in [Side -> SUBSET Path]
<1>1. Unscanned \subseteq SUBSET Path
  BY DEF Unscanned, Unreadable, Below
<1> QED
  BY <1>1

LEMMA PlansType ==
  ASSUME NEW S, NEW date
  PROVE  OneWayPlan(S, date) \subseteq Operation /\ TwoWayPlan(S, date) \subseteq Operation
<1>1. \A act \in {"copy", "createDirectory", "delete"}, s \in Side, p \in Path, i \in 1..3 :
          Op(act, s, p, i) \in Operation
  BY DEF Op, Operation
<1>2. \A s \in Side : OnlyIn(s, S) \subseteq Path /\ Other(s) \in Side
  BY DEF OnlyIn, Missing, Side, Other
<1>3. Unlike(S, date) \subseteq Path /\ Diverged(S, date) \subseteq Path
  BY DEF Diverged, Unlike, Modified, InBoth, BothFiles
<1>4. OneWayPlan(S, date) \subseteq Operation
  <2>1. Additions(S) \subseteq Operation
    BY <1>1, <1>2 DEF Additions, Side
  <2>2. Deletions(S) \subseteq Operation
    BY <1>1, <1>2 DEF Deletions, Side
  <2>3. Updates(S, date) \subseteq Operation
    BY <1>1, <1>3 DEF Updates, Side
  <2> QED
    BY <2>1, <2>2, <2>3 DEF OneWayPlan
<1>5. TwoWayPlan(S, date) \subseteq Operation
  <2>1. \A p \in Path : Winner(S, date, p) \in Side
    BY DEF Winner, Side
  <2>2. \A p \in Path : Resolution(S, Winner(S, date, p), p) \in Operation
    BY <1>1, <1>2, <2>1 DEF Resolution
  <2> QED
    BY <1>2, <1>3, <2>2 DEF TwoWayPlan, Side
<1> QED
  BY <1>4, <1>5

LEMMA CompareType == TypeOK /\ Compare => TypeOK'
<1> SUFFICES ASSUME TypeOK, Compare PROVE TypeOK'
  OBVIOUS
<1>0. TreesType /\ RunType /\ PlanType
  BY TypeParts
<1>1. TreesType'
  BY <1>0 DEF Compare, TreesType
<1>2. missed' \in [Side -> SUBSET Path]
  BY MissedType DEF Compare
<1>3. pc' \in {"thrown", "execute"} /\ runs' \in 0..MaxRuns
      /\ dates' \in [Path -> Side \cup {"same"}]
  BY <1>0, BoundsAssumption DEF Compare, RunType, DatesRead, Dates
<1>4. faults' \in 0..MaxFaults
  BY <1>0, BoundsAssumption DEF Compare, Scan, Fault, RunType
<1>5. RunType'
  BY <1>0, <1>2, <1>3, <1>4 DEF Compare, RunType
<1>6. plan' \subseteq Operation /\ todo' \subseteq plan'
  BY PlansType DEF Compare
<1>7. PlanType'
  BY <1>6 DEF Compare, PlanType
<1> QED
  BY <1>1, <1>5, <1>7, TypeNext

RoomMade(o) == \E x \in plan : x.act = "copy" /\ x.path = o.path

\* What an operation makes of its side.
Outcomes(o) ==
    LET t == tree[o.to]
        from == tree[Other(o.to)]
    IN  {t}
        \cup (IF o.act = "delete" THEN {Removed(t, o.path)} ELSE {})
        \cup (IF o.act = "copy" /\ CanHouse(t, o.path) THEN {Removed(Housed(t, o.path), o.path)} ELSE {})
        \cup (IF RoomMade(o) /\ CanCopy(o)
              THEN {Copied(t, from, o.path)} \cup {PartlyCopied(t, from, o.path, k) : k \in Subtree(o.path)}
              ELSE {})
        \cup (IF o.act = "createDirectory" /\ t[o.path] = Absent /\ CanMakeParents(t, o.path)
              THEN {[WithParents(t, o.path) EXCEPT ![o.path] = Dir]} ELSE {})
        \cup (IF o.act = "delete" \/ (o.act = "copy" /\ CanHouse(t, o.path))
              THEN PartlyRemoved(Cleared(o), o.path) ELSE {})

Touches(o) == \E t \in Outcomes(o) : tree' = [tree EXCEPT ![o.to] = t]

\* What a removal that stops has done to its side.
LEMMA RemovalTouches ==
  ASSUME NEW o \in todo, RemovalStops(o), o.act \in {"copy", "delete"}
  PROVE  Touches(o)
  BY DEF RemovalStops, On, Touches, Outcomes

\* Whatever executes, or dies, does it to one side by the operation in hand.
LEMMA OneOperation ==
  ASSUME TypeOK, Execute \/ Crash
  PROVE  /\ UNCHANGED tree \/ \E o \in todo : Touches(o)
         /\ UNCHANGED <<mode, options, start, dates, missed, plan, runs>> /\ faults' \in 0..MaxFaults
<1>0. TreesType /\ RunType /\ PlanType
  BY TypeParts
<1>1. Fault => faults' \in 0..MaxFaults
  BY <1>0, BoundsAssumption DEF Fault, RunType
<1>2. ASSUME NEW o \in todo, MakeRoom(o)
      PROVE  /\ UNCHANGED tree \/ Touches(o)
             /\ UNCHANGED <<mode, options, start, dates, missed, plan, runs>> /\ faults' \in 0..MaxFaults
  <2>1. UNCHANGED <<mode, options, start, dates, missed, plan, runs>> /\ faults' \in 0..MaxFaults
    BY <1>0, <1>1, <1>2 DEF MakeRoom, RemovalStops, RunType
  <2>2. UNCHANGED tree \/ Touches(o)
    BY <1>2, RemovalTouches DEF MakeRoom, Cleared, On, Touches, Outcomes
  <2> QED
    BY <2>1, <2>2
<1>3. ASSUME NEW o \in todo, Current(o), ready # 0
      PROVE  RoomMade(o)
  BY <1>0, <1>3 DEF PlanType, RoomMade, Current
<1>4. ASSUME NEW o \in todo, Current(o), ready # 0, Interrupted(o)
      PROVE  (UNCHANGED tree \/ Touches(o)) /\ faults' \in 0..MaxFaults
  BY <1>1, <1>4, <1>3 DEF Interrupted, On, Touches, Outcomes
<1>5. ASSUME NEW o \in todo, CopyItem(o) \/ CopyFails(o)
      PROVE  /\ UNCHANGED tree \/ Touches(o)
             /\ UNCHANGED <<mode, options, start, dates, missed, plan, runs>> /\ faults' \in 0..MaxFaults
  <2>1. CASE CopyItem(o)
    BY <1>0, <1>3, <2>1 DEF CopyItem, On, Touches, Outcomes, RunType
  <2>2. CASE CopyFails(o)
    BY <1>4, <2>2 DEF CopyFails
  <2> QED
    BY <1>5, <2>1, <2>2
<1>6. ASSUME NEW o \in todo, CreateDirectory(o) \/ DeleteItem(o)
      PROVE  /\ UNCHANGED tree \/ Touches(o)
             /\ UNCHANGED <<mode, options, start, dates, missed, plan, runs>> /\ faults' \in 0..MaxFaults
  <2>1. UNCHANGED <<mode, options, start, dates, missed, plan, runs>> /\ faults' \in 0..MaxFaults
    BY <1>0, <1>1, <1>6 DEF CreateDirectory, DeleteItem, RemovalStops, RunType
  <2>2. UNCHANGED tree \/ Touches(o)
    BY <1>6, RemovalTouches DEF CreateDirectory, DeleteItem, On, Touches, Outcomes
  <2> QED
    BY <2>1, <2>2
<1>7. CASE Crash
  <2>1. ASSUME NEW o \in todo, RemovalStops(o)
        PROVE  faults' \in 0..MaxFaults
    BY <1>1, <2>1 DEF RemovalStops
  <2> QED
    BY <1>1, <1>4, <1>7, <2>1, RemovalTouches DEF Crash
<1> QED
  BY <1>2, <1>5, <1>6, <1>7 DEF Execute

LEMMA OutcomesType ==
  ASSUME TypeOK, NEW o \in todo, NEW t \in Outcomes(o)
  PROVE  t \in Tree /\ WellFormed(t) /\ o \in plan /\ o.to \in Side /\ o.path \in Path
<1>1. /\ o \in plan /\ o.to \in Side /\ o.path \in Path /\ Other(o.to) \in Side
      /\ tree[o.to] \in Tree /\ WellFormed(tree[o.to])
      /\ tree[Other(o.to)] \in Tree /\ WellFormed(tree[Other(o.to)])
  BY TypeParts DEF PlanType, TreesType, Operation, Other, Side
<1>2. CASE t \in {Removed(Housed(tree[o.to], o.path), o.path), Removed(tree[o.to], o.path), tree[o.to]}
  BY <1>1, <1>2, RoomType
<1>3. CASE /\ CanCopy(o)
           /\ \/ t = Copied(tree[o.to], tree[Other(o.to)], o.path)
              \/ \E k \in Subtree(o.path) : t = PartlyCopied(tree[o.to], tree[Other(o.to)], o.path, k)
  <2>1. o.path \in Subtree(o.path)
    BY DEF Subtree
  <2> QED
    BY <1>1, <1>3, <2>1, CopiedType DEF CanCopy
<1>4. CASE tree[o.to][o.path] = Absent /\ t = [WithParents(tree[o.to], o.path) EXCEPT ![o.path] = Dir]
  BY <1>1, <1>4, DirectoryMade
<1>5. CASE t \in PartlyRemoved(Cleared(o), o.path)
  <2>1. Cleared(o) \in Tree /\ WellFormed(Cleared(o))
    BY <1>1, HousedWellFormed DEF Cleared
  <2> QED
    BY <1>1, <1>5, <2>1, PartOfItRemoved
<1> QED
  BY <1>1, <1>2, <1>3, <1>4, <1>5 DEF Outcomes

LEMMA ExecuteType == TypeOK /\ (Execute \/ Crash) => TypeOK'
<1> SUFFICES ASSUME TypeOK, Execute \/ Crash PROVE TypeOK'
  OBVIOUS
<1>0. TreesType /\ RunType /\ PlanType
  BY TypeParts
<1>1. TreesType'
  <2>1. start' = start
    BY OneOperation
  <2>2. CASE UNCHANGED tree
    BY <1>0, <2>1, <2>2 DEF TreesType
  <2>3. ASSUME NEW o \in todo, NEW t \in Outcomes(o), tree' = [tree EXCEPT ![o.to] = t]
        PROVE  TreesType'
    BY <1>0, <2>1, <2>3, OutcomesType DEF TreesType
  <2> QED
    BY <2>2, <2>3, OneOperation DEF Touches
<1>2. PlanType'
  <2>1. ASSUME NEW o \in todo, Current(o), plan' = plan,
               (Applied(o) /\ errors' = errors) \/ Reported(o)
        PROVE  PlanType'
    BY <1>0, <2>1 DEF PlanType, Applied, Reported
  <2>2. ASSUME NEW o \in todo, MakeRoom(o)
        PROVE  PlanType'
    <3>1. CASE ready' = o.path /\ UNCHANGED <<plan, todo, errors>>
      <4>1. o.path \in Path /\ o.act = "copy"
        BY <1>0, <2>2 DEF PlanType, Operation, MakeRoom
      <4> QED
        BY <1>0, <3>1, <4>1 DEF PlanType
    <3> QED
      BY <2>1, <2>2, <3>1 DEF MakeRoom
  <2>3. ASSUME NEW o \in todo, CopyItem(o) \/ CopyFails(o) \/ CreateDirectory(o) \/ DeleteItem(o)
        PROVE  PlanType'
    BY <2>1, <2>3 DEF CopyItem, CopyFails, CreateDirectory, DeleteItem, Reported
  <2>4. CASE Crash
    BY <1>0, <2>4 DEF Crash, PlanType, Operation
  <2> QED
    BY <2>2, <2>3, <2>4 DEF Execute
<1>3. RunType'
  <2>1. newer' \in [Path -> Side \cup {"same"}]
    <3>1. ASSUME NEW o \in todo, Interrupted(o)
          PROVE  newer' \in [Path -> Side \cup {"same"}]
      BY <1>0, <3>1 DEF Interrupted, RunType, PlanType, Operation
    <3>2. ASSUME NEW o \in todo, CopyItem(o)
          PROVE  newer' \in [Path -> Side \cup {"same"}]
      BY <1>0, <3>2 DEF CopyItem, RunType, PlanType, Operation
    <3> QED
      BY <1>0, <3>1, <3>2 DEF Execute, Crash, MakeRoom, CopyFails, CreateDirectory, DeleteItem, RunType
  <2>2. pc' \in {pc, "crashed"}
    BY DEF Execute, Crash, MakeRoom, CopyItem, CopyFails, CreateDirectory, DeleteItem
  <2> QED
    BY <1>0, <2>1, <2>2, OneOperation DEF RunType
<1> QED
  BY <1>1, <1>2, <1>3, TypeNext

LEMMA NextType == TypeOK /\ [Next]_vars => TypeOK'
<1> SUFFICES ASSUME TypeOK, [Next]_vars PROVE TypeOK'
  OBVIOUS
<1>0. TreesType /\ RunType /\ PlanType
  BY TypeParts
<1>1. CASE UNCHANGED vars
  BY <1>0, <1>1, TypeNext DEF vars, TreesType, RunType, PlanType
<1>2. CASE Compare
  BY <1>2, CompareType
<1>3. CASE Execute \/ Crash
  BY <1>3, ExecuteType
<1>4. CASE Finish
  BY <1>0, <1>4, TypeNext DEF Finish, TreesType, RunType, PlanType
<1>5. CASE Verify
  <2>1. TreesType' /\ PlanType'
    BY <1>0, <1>5 DEF Verify, TreesType, PlanType
  <2>2. faults' \in 0..MaxFaults
    BY <1>0, <1>5, BoundsAssumption DEF Verify, Scan, Fault, RunType
  <2>3. missed' \in [Side -> SUBSET Path]
    <3>1. PICK m \in [Side -> Unscanned \cup {{}}] : missed' = [s \in Side |-> missed[s] \cup m[s]]
      BY <1>5 DEF Verify
    <3> QED
      BY <1>0, <3>1, MissedType DEF RunType
  <2>4. RunType'
    BY <1>0, <1>5, <2>2, <2>3 DEF Verify, RunType
  <2> QED
    BY <2>1, <2>4, TypeNext
<1> QED
  BY <1>1, <1>2, <1>3, <1>4, <1>5 DEF Next

(* The types of every variable, for any two trees: whatever fails, both    *)
(* sides stay trees a file system can hold.                                *)
THEOREM SpecTypeOK == Spec => []TypeOK
  BY InitType, NextType, PTL DEF Spec

-----------------------------------------------------------------------------
(* The version that is to be on both sides                                 *)

From(o) == Other(o.to)

\* An operation deletes what the other side has not, or brings what it has: and that,
\* where nothing clashes, is the version wanted.
Sound(o) ==
    /\ o.act = "delete" => /\ start[o.to][o.path] # Absent
                           /\ start[From(o)][o.path] = Absent \/ o.path \in missed[From(o)]
    /\ o.act # "delete" => start[From(o)][o.path] # Absent
    /\ o.act = "copy" => start[From(o)][o.path] \in FileData \/ Clash(o.path)
    /\ Clear(o.path) => start[From(o)][o.path] = Wanted(From(o), o.path)

\* Operations at one path go one way; and where one thing that only one side has is
\* brought, or deleted, everything of that sort is.
Complete(o) ==
    /\ \A x \in plan : x.path = o.path => x.to = o.to
    /\ \A p \in Path :
          /\ Clear(p)
          /\ IF o.act = "delete" THEN start[o.to][p] # Absent /\ start[From(o)][p] = Absent
             ELSE start[o.to][p] = Absent /\ start[From(o)][p] # Absent
          => \E x \in plan : x.path = p /\ x.to = o.to

\* What is passed over, is with all that is in it.
MissedBelow == \A s \in Side, p \in Path : p \in missed[s] => Below(p) \subseteq missed[s]

PlanInv == (\A o \in plan : Sound(o) /\ Complete(o)) /\ MissedBelow

LEMMA WhatIsMissed ==
  ASSUME NEW m \in [Side -> Unscanned \cup {{}}], NEW s \in Side, NEW p \in Path, p \in m[s]
  PROVE  Below(p) \subseteq m[s]
<1>1. m[s] \in Unscanned
  OBVIOUS
<1>2. CASE m[s] = Path
  BY <1>2 DEF Below
<1>3. ASSUME NEW q \in Path, m[s] = Below(q) \/ m[s] = {q} \cup Below(q)
      PROVE  Below(p) \subseteq m[s]
  BY <1>3, WhereThingsLie DEF Below
<1> QED
  BY <1>1, <1>2, <1>3 DEF Unscanned, Unreadable

\* A snapshot has what there is, but for what it missed.
LEMMA SnapshotsShow ==
  ASSUME TypeOK, NEW m \in [Side -> SUBSET Path], NEW s \in Side, NEW p \in Path
  PROVE  LET S == [r \in Side |-> Snapshot(r, tree, m)]
         IN  /\ S[s][p] # Absent => tree[s][p] = S[s][p]
             /\ p \notin m[s] => S[s][p] = tree[s][p]
             /\ S[s][p] \in Entry
  BY TypeParts DEF Snapshot, TreesType, Tree, Entry

LEMMA OneWayPlanned ==
  ASSUME TypeOK, Compare, mode = "oneWay"
  PROVE  \A o \in plan' : Sound(o)' /\ Complete(o)'
<1> DEFINE S == [s \in Side |-> Snapshot(s, tree, missed')]
           P == OneWayPlan(S, dates')
<1>0. /\ plan' = P /\ start' = tree /\ mode' = mode /\ options' = options
      /\ missed' \in [Side -> SUBSET Path]
  BY MissedType DEF Compare
<1>1. \A s \in Side, p \in Path :
        /\ S[s][p] # Absent => start'[s][p] = S[s][p]
        /\ p \notin missed'[s] => S[s][p] = start'[s][p]
        /\ S[s][p] \in Entry
  <2>1. \A s \in Side, p \in Path : start'[s][p] = tree[s][p]
    BY <1>0
  <2> QED
    BY <1>0, <2>1, SnapshotsShow
<1>2. Other("b") = "a" /\ Other("a") = "b" /\ "a" \in Side /\ "b" \in Side
  BY DEF Other, Side
<1> HIDE DEF S
<1>3. \A p \in Path :
        /\ S["a"][p] # Absent => start'["a"][p] = S["a"][p]
        /\ p \notin missed'["a"] => S["a"][p] = start'["a"][p]
        /\ S["b"][p] # Absent => start'["b"][p] = S["b"][p]
        /\ p \notin missed'["b"] => S["b"][p] = start'["b"][p]
        /\ S["a"][p] \in Entry /\ S["b"][p] \in Entry
  BY <1>1, <1>2
<1>4. ASSUME NEW o \in P
      PROVE  /\ o.to = "b" /\ o.path \in Path
             /\ \/ /\ o.act \in {"copy", "createDirectory"} /\ S["b"][o.path] = Absent
                   /\ S["a"][o.path] # Absent
                   /\ o.act = "copy" => S["a"][o.path] # Dir
                \/ /\ o.act = "delete" /\ S["a"][o.path] = Absent /\ S["b"][o.path] # Absent
                   /\ "deleteExtraFiles" \in options
                \/ /\ o.act = "copy" /\ S["a"][o.path] # Absent
                   /\ S["b"][o.path] # Absent /\ S["b"][o.path] # Dir
  <2>1. CASE o \in Additions(S)
    BY <1>2, <2>1 DEF Additions, Op, OnlyIn, Missing
  <2>2. CASE o \in Deletions(S)
    BY <1>2, <2>2 DEF Deletions, Op, OnlyIn, Missing
  <2>3. CASE o \in Updates(S, dates')
    <3>1. PICK p \in Unlike(S, dates') : S["b"][p] # Dir /\ o = Op("copy", "b", p, 3)
      BY <2>3 DEF Updates
    <3>2. p \in Path /\ S["a"][p] # Absent /\ S["b"][p] # Absent
      BY EntryAssumption DEF Unlike, Modified, InBoth, BothFiles, IsFile
    <3> QED
      BY <3>1, <3>2 DEF Op
  <2> QED
    BY <2>1, <2>2, <2>3 DEF OneWayPlan
<1>5. ASSUME NEW p \in Path
      PROVE  /\ S["a"][p] # Absent /\ S["b"][p] = Absent => \E x \in P : x.path = p /\ x.to = "b"
             /\ /\ S["b"][p] # Absent /\ S["a"][p] = Absent /\ "deleteExtraFiles" \in options
                => \E x \in P : x.path = p /\ x.to = "b"
  <2>1. CASE p \in OnlyIn("a", S)
    <3>1. Op(IF S["a"][p] = Dir THEN "createDirectory" ELSE "copy", "b", p, 1) \in P
      BY <2>1 DEF OneWayPlan, Additions
    <3>2. \A act : Op(act, "b", p, 1).path = p /\ Op(act, "b", p, 1).to = "b"
      BY DEF Op
    <3> QED
      BY <2>1, <3>1, <3>2 DEF OnlyIn, Missing, Other
  <2>2. CASE p \in OnlyIn("b", S) /\ "deleteExtraFiles" \in options
    <3>1. Op("delete", "b", p, 2) \in P
      BY <2>2 DEF OneWayPlan, Deletions
    <3>2. Op("delete", "b", p, 2).path = p /\ Op("delete", "b", p, 2).to = "b"
      BY DEF Op
    <3> QED
      BY <2>2, <3>1, <3>2 DEF OnlyIn, Missing, Other
  <2> QED
    BY <1>2, <2>1, <2>2 DEF OnlyIn, Missing
<1> HIDE DEF P
<1>6. ASSUME NEW o \in P
      PROVE  Sound(o)'
  <2>1. Clear(o.path)' => start'["a"][o.path] = Wanted("a", o.path)'
    BY <1>0 DEF Wanted
  <2>2. From(o)' = "a" /\ o.to = "b"
    BY <1>2, <1>4, <1>6 DEF From
  <2>3. /\ o.act = "delete" => /\ start'["b"][o.path] # Absent
                               /\ start'["a"][o.path] = Absent \/ o.path \in missed'["a"]
        /\ o.act # "delete" => start'["a"][o.path] # Absent
    BY <1>3, <1>4, <1>6
  <2>4. o.act = "copy" => start'["a"][o.path] \in FileData \/ Clash(o.path)'
    <3>1. ASSUME o.act = "copy", start'["a"][o.path] \notin FileData
          PROVE  /\ o.path \in Path /\ start'["a"][o.path] = Dir /\ start'["b"][o.path] # Absent
                 /\ start'["b"][o.path] # Dir
      BY <1>3, <1>4, <1>6, <3>1 DEF Entry
    <3> QED
      BY <3>1, EntryAssumption DEF Clash, InBoth
  <2> QED
    BY <2>1, <2>2, <2>3, <2>4 DEF Sound
<1>7. ASSUME NEW o \in P
      PROVE  Complete(o)'
  <2>1. From(o)' = "a" /\ o.to = "b" /\ \A x \in P : x.to = "b"
    BY <1>2, <1>4, <1>7 DEF From
  <2>2. \A p \in Path : Clear(p)' => S["a"][p] = start'["a"][p] /\ S["b"][p] = start'["b"][p]
    BY <1>3, <1>2 DEF Clear
  <2>3. o.act = "delete" => "deleteExtraFiles" \in options
    BY <1>4, <1>7
  <2> QED
    BY <1>0, <1>5, <2>1, <2>2, <2>3 DEF Complete
<1> QED
  BY <1>0, <1>6, <1>7

LEMMA TwoWayPlanned ==
  ASSUME TypeOK, Compare, mode \in {"newest", "sourceWins", "destinationWins"}
  PROVE  \A o \in plan' : Sound(o)' /\ Complete(o)'
<1> DEFINE S == [s \in Side |-> Snapshot(s, tree, missed')]
           W(p) == Winner(S, dates', p)
           P == TwoWayPlan(S, dates')
<1>0. /\ plan' = P /\ start' = tree /\ mode' = mode /\ missed' \in [Side -> SUBSET Path]
  BY MissedType DEF Compare
<1>1. \A s \in Side, p \in Path :
        /\ S[s][p] # Absent => start'[s][p] = S[s][p]
        /\ p \notin missed'[s] => S[s][p] = start'[s][p]
        /\ S[s][p] \in Entry
  <2>1. \A s \in Side, p \in Path : start'[s][p] = tree[s][p]
    BY <1>0
  <2> QED
    BY <1>0, <2>1, SnapshotsShow
<1>2. Other("b") = "a" /\ Other("a") = "b" /\ "a" \in Side /\ "b" \in Side
  BY DEF Other, Side
<1> HIDE DEF S
\* Who wins.
<1>3. ASSUME NEW p \in Path
      PROVE  /\ W(p) \in Side /\ Other(W(p)) \in Side /\ Other(Other(W(p))) = W(p)
             /\ mode = "sourceWins" => W(p) = "a"
             /\ mode = "destinationWins" => W(p) = "b"
             /\ mode = "newest" /\ p \in OnlyIn("a", S) => W(p) = "a"
             /\ mode = "newest" /\ p \in OnlyIn("b", S) => W(p) = "b"
             /\ mode = "newest" /\ p \notin OnlyIn("a", S) \cup OnlyIn("b", S) =>
                   W(p) = IF dates'[p] = "a" THEN "a" ELSE "b"
  <2>1. ~ (p \in OnlyIn("a", S) /\ p \in OnlyIn("b", S))
    BY <1>2 DEF OnlyIn, Missing
  <2>2. W(p) = "a" \/ W(p) = "b"
    BY DEF Winner
  <2>3. /\ mode = "sourceWins" => W(p) = "a"
        /\ mode = "destinationWins" => W(p) = "b"
        /\ mode = "newest" /\ p \in OnlyIn("a", S) => W(p) = "a"
        /\ mode = "newest" /\ p \in OnlyIn("b", S) => W(p) = "b"
        /\ mode = "newest" /\ p \notin OnlyIn("a", S) \cup OnlyIn("b", S) =>
              W(p) = IF dates'[p] = "a" THEN "a" ELSE "b"
    BY <2>1 DEF Winner
  <2> QED
    BY <1>2, <2>2, <2>3
<1>4. ASSUME NEW o \in P
      PROVE  /\ o.path \in Path /\ o.to = Other(W(o.path))
             /\ o.path \in OnlyIn("a", S) \cup OnlyIn("b", S) \cup Diverged(S, dates')
             /\ o.act = IF S[W(o.path)][o.path] = Absent THEN "delete"
                        ELSE IF S[W(o.path)][o.path] = Dir THEN "createDirectory" ELSE "copy"
  <2>1. PICK p \in OnlyIn("a", S) \cup OnlyIn("b", S) \cup Diverged(S, dates') : o = Resolution(S, W(p), p)
    BY DEF TwoWayPlan
  <2>2. p \in Path
    BY DEF OnlyIn, Missing, Diverged, Unlike, Modified, InBoth, BothFiles
  <2> HIDE DEF W
  <2> QED
    BY <2>1, <2>2 DEF Resolution, Op
<1>5. ASSUME NEW p \in OnlyIn("a", S) \cup OnlyIn("b", S)
      PROVE  \E x \in P : x.path = p /\ x.to = Other(W(p))
  <2>1. Resolution(S, W(p), p) \in P
    BY DEF TwoWayPlan
  <2>2. Resolution(S, W(p), p).path = p /\ Resolution(S, W(p), p).to = Other(W(p))
    BY DEF Resolution, Op
  <2> QED
    BY <2>1, <2>2
<1> HIDE DEF P, W
\* One of the two has something at a path there is an operation for.
<1>6. ASSUME NEW p \in OnlyIn("a", S) \cup OnlyIn("b", S) \cup Diverged(S, dates')
      PROVE  /\ p \in Path
             /\ \/ p \in OnlyIn("a", S) /\ S["a"][p] # Absent /\ S["b"][p] = Absent
                \/ p \in OnlyIn("b", S) /\ S["b"][p] # Absent /\ S["a"][p] = Absent
                \/ S["a"][p] # Absent /\ S["b"][p] # Absent
  BY <1>2, EntryAssumption DEF OnlyIn, Missing, Diverged, Unlike, Modified, InBoth, BothFiles, IsFile
<1>7. \A p \in Path :
        /\ S["a"][p] # Absent => start'["a"][p] = S["a"][p]
        /\ p \notin missed'["a"] => S["a"][p] = start'["a"][p]
        /\ S["b"][p] # Absent => start'["b"][p] = S["b"][p]
        /\ p \notin missed'["b"] => S["b"][p] = start'["b"][p]
        /\ S["a"][p] \in Entry /\ S["b"][p] \in Entry
  BY <1>1, <1>2
<1>8. ASSUME NEW p \in Path, Clear(p)'
      PROVE  S["a"][p] = start'["a"][p] /\ S["b"][p] = start'["b"][p]
  BY <1>2, <1>7, <1>8 DEF Clear
<1>9. ASSUME NEW o \in P
      PROVE  Sound(o)'
  <2> DEFINE p == o.path
             w == W(p)
  <2>1. p \in Path /\ o.to = Other(w) /\ Other(o.to) = w /\ w \in Side /\ o.to \in Side
    BY <1>3, <1>4, <1>9
  <2>2. o.act = IF S[w][p] = Absent THEN "delete" ELSE IF S[w][p] = Dir THEN "createDirectory" ELSE "copy"
    BY <1>4, <1>9
  <2>3. S[w][p] = Absent => S[o.to][p] # Absent
    BY <1>2, <1>4, <1>6, <1>9, <2>1 DEF Side
  <2>4. w = "a" \/ w = "b"
    BY <2>1 DEF Side
  <2>5. ASSUME Clear(p)'
        PROVE  start'[Other(o.to)][p] = Wanted(Other(o.to), p)'
    <3>1. S["a"][p] = start'["a"][p] /\ S["b"][p] = start'["b"][p]
      BY <1>8, <2>1, <2>5
    <3>2. CASE mode = "sourceWins"
      BY <1>0, <1>3, <2>1, <3>2 DEF Wanted
    <3>3. CASE mode = "destinationWins"
      BY <1>0, <1>3, <2>1, <3>3 DEF Wanted
    <3>4. CASE mode = "newest"
      <4>1. CASE p \in OnlyIn("a", S)
        BY <1>0, <1>2, <1>3, <2>1, <3>1, <3>4, <4>1 DEF Wanted, OnlyIn, Missing
      <4>2. CASE p \in OnlyIn("b", S)
        BY <1>0, <1>2, <1>3, <2>1, <3>1, <3>4, <4>2 DEF Wanted, OnlyIn, Missing
      <4>3. CASE p \notin OnlyIn("a", S) \cup OnlyIn("b", S)
        <5>1. start'["a"][p] # Absent /\ start'["b"][p] # Absent
          BY <1>4, <1>6, <1>9, <3>1, <4>3
        <5>2. Other(o.to) = IF dates'[p] = "a" THEN "a" ELSE "b"
          BY <1>3, <2>1, <3>4, <4>3
        <5>3. Wanted(Other(o.to), p)' = IF dates'[p] = "a" THEN start'["a"][p] ELSE start'["b"][p]
          BY <1>0, <3>4, <5>1 DEF Wanted
        <5> QED
          BY <5>2, <5>3
      <4> QED
        BY <4>1, <4>2, <4>3
    <3> QED
      BY <3>2, <3>3, <3>4
  <2> HIDE DEF w
  <2>6. /\ S[w][p] # Absent => start'[w][p] = S[w][p]
        /\ S[o.to][p] # Absent => start'[o.to][p] = S[o.to][p]
        /\ p \notin missed'[w] => S[w][p] = start'[w][p]
        /\ S[w][p] \in Entry
    BY <1>1, <2>1
  <2>7. /\ o.act = "delete" => /\ start'[o.to][p] # Absent
                               /\ start'[w][p] = Absent \/ p \in missed'[w]
        /\ o.act # "delete" => start'[w][p] # Absent
        /\ o.act = "copy" => start'[w][p] \in FileData
    BY <2>2, <2>3, <2>6 DEF Entry
  <2> QED
    BY <2>1, <2>5, <2>7 DEF Sound, From
<1>10. ASSUME NEW o \in P
       PROVE  Complete(o)'
  <2> DEFINE q == o.path
  <2>1. q \in Path /\ o.to = Other(W(q)) /\ From(o)' = W(q)
    BY <1>3, <1>4, <1>10 DEF From
  <2>2. \A x \in P : x.path = q => x.to = o.to
    BY <1>4, <2>1
  <2>3. ASSUME NEW p \in Path, Clear(p)', o.act = "delete",
               start'[o.to][p] # Absent, start'[W(q)][p] = Absent
        PROVE  \E x \in P : x.path = p /\ x.to = o.to
    <3>1. S["a"][p] = start'["a"][p] /\ S["b"][p] = start'["b"][p]
      BY <1>8, <2>3
    <3>2. p \in OnlyIn(o.to, S)
      BY <1>2, <1>3, <2>1, <2>3, <3>1 DEF OnlyIn, Missing, Side
    <3>3. mode # "newest"
      BY <1>3, <1>4, <1>6, <1>10, <2>3
    <3>4. W(p) = W(q)
      BY <1>3, <2>1, <3>3
    <3>5. p \in OnlyIn("a", S) \cup OnlyIn("b", S)
      BY <1>2, <1>3, <2>1, <3>2 DEF Side
    <3> QED
      BY <1>5, <2>1, <3>4, <3>5
  <2>4. ASSUME NEW p \in Path, Clear(p)',
               start'[o.to][p] = Absent, start'[W(q)][p] # Absent
        PROVE  \E x \in P : x.path = p /\ x.to = o.to
    <3>1. S["a"][p] = start'["a"][p] /\ S["b"][p] = start'["b"][p]
      BY <1>8, <2>4
    <3>2. p \in OnlyIn(W(q), S)
      BY <1>2, <1>3, <2>1, <2>4, <3>1 DEF OnlyIn, Missing, Side
    <3>3. W(p) = W(q)
      BY <1>3, <2>1, <3>2 DEF Side
    <3>4. p \in OnlyIn("a", S) \cup OnlyIn("b", S)
      BY <1>2, <1>3, <2>1, <3>2 DEF Side
    <3> QED
      BY <1>5, <2>1, <3>3, <3>4
  <2> QED
    BY <1>0, <2>1, <2>2, <2>3, <2>4 DEF Complete
<1> QED
  BY <1>0, <1>9, <1>10

\* What the plan has no operation for stays as it was, where nothing clashes.
Unplanned(s, p) == \A o \in plan : o.path = p => o.to # s
Kept == \A s \in Side, p \in Path : Clear(p) /\ Unplanned(s, p) => tree[s][p] = start[s][p]

LocalInv == TypeOK /\ PlanInv /\ Kept

LEMMA Sides ==
  ASSUME NEW s \in Side
  PROVE  Other(s) \in Side /\ Other(Other(s)) = s /\ Other(s) # s /\ Side = {s, Other(s)}
  BY DEF Side, Other

\* Neither the parents made for an operation, nor what is removed or copied with it,
\* is anything the plan does not speak of.
LEMMA OperationKeeps ==
  ASSUME LocalInv, NEW o \in todo, NEW t \in Outcomes(o), NEW p \in Path,
         Clear(p), Unplanned(o.to, p)
  PROVE  t[p] = start[o.to][p]
<1> DEFINE q == o.path
           to == o.to
           from == From(o)
<1>1. /\ o \in plan /\ q \in Path /\ to \in Side /\ from \in Side
      /\ p # q /\ p \notin Above[p]
      /\ Sound(o) /\ Complete(o) /\ MissedBelow
  BY Sides, TypeParts, WhereThingsLie DEF LocalInv, PlanInv, PlanType, Operation, From, Unplanned
<1>2. /\ tree[to] \in Tree /\ tree[from] \in Tree
      /\ WellFormed(start[to]) /\ WellFormed(start[from])
  BY <1>1, TypeParts DEF LocalInv, TreesType
<1>3. tree[to][p] = start[to][p]
  BY <1>1 DEF LocalInv, Kept
<1> HIDE DEF from
\* What is made above the path is there.
<1>4. ASSUME o.act # "delete", p \in Above[q]
      PROVE  tree[to][p] = Dir
  <2>1. start[from][q] # Absent
    BY <1>1, <1>4 DEF Sound, from
  <2>2. start[from][p] = Dir
    BY <1>1, <1>2, <1>4, <2>1 DEF WellFormed
  <2>3. start[to][p] # Absent
    BY <1>1, <1>4, <2>2, EntryAssumption DEF Complete, Unplanned, from
  <2>4. CASE to = "a" /\ from = "b"
    BY <1>3, <2>2, <2>3, <2>4, EntryAssumption DEF Clear, Clash, InBoth
  <2>5. CASE to = "b" /\ from = "a"
    BY <1>3, <2>2, <2>3, <2>5, EntryAssumption DEF Clear, Clash, InBoth
  <2> QED
    BY <1>1, <2>4, <2>5 DEF Side, from, From, Other
\* Nothing lies below what is copied.
<1>5. ASSUME NEW x \in plan, x.act = "copy", x.path = q, q \in Above[p]
      PROVE  tree[to][p] = Absent /\ tree[from][p] = Absent
  <2>1. x.to = to /\ Sound(x) /\ From(x) = from
    BY <1>1, <1>5 DEF Complete, LocalInv, PlanInv, From, from
  <2>2. ~ Clash(q)
    BY <1>5 DEF Clear
  <2>3. start[from][q] \in FileData
    BY <1>5, <2>1, <2>2 DEF Sound
  <2>4. start[to][q] # Dir
    <3>1. CASE to = "a" /\ from = "b"
      BY <1>1, <2>2, <2>3, <3>1, EntryAssumption DEF Clash, InBoth
    <3>2. CASE to = "b" /\ from = "a"
      BY <1>1, <2>2, <2>3, <3>2, EntryAssumption DEF Clash, InBoth
    <3> QED
      BY <1>1, <3>1, <3>2 DEF Side, from, From, Other
  <2>5. start[from][p] = Absent /\ start[to][p] = Absent
    BY <1>2, <1>5, <2>3, <2>4, EntryAssumption DEF WellFormed
  <2>6. ASSUME NEW y \in plan, y.path = p
        PROVE  FALSE
    <3>1. Sound(y) /\ y.to \in {to, from} /\ From(y) \in {to, from}
      BY <1>1, Sides, TypeParts DEF LocalInv, PlanInv, PlanType, Operation, From, from
    <3> QED
      BY <2>5, <2>6, <3>1 DEF Sound
  <2>7. tree[from][p] = start[from][p]
    BY <1>1, <2>6 DEF LocalInv, Kept, Unplanned
  <2> QED
    BY <1>3, <2>5, <2>7
\* What is deleted with a directory is the other side's no more than it.
<1>6. ASSUME o.act = "delete", q \in Above[p]
      PROVE  tree[to][p] = Absent
  <2>1. p \notin missed[from] /\ p \in Below(q)
    BY <1>1, <1>6 DEF Clear, Below
  <2>2. start[from][q] = Absent
    BY <1>1, <1>6, <2>1 DEF Sound, MissedBelow, from
  <2>3. start[from][p] = Absent
    BY <1>2, <1>6, <2>2, EntryAssumption DEF WellFormed
  <2> QED
    BY <1>1, <1>3, <1>6, <2>3 DEF Complete, Unplanned, from
<1>7. CASE t = tree[to]
  BY <1>3, <1>7
<1>8. CASE o.act = "delete" /\ t = Removed(tree[to], q)
  BY <1>1, <1>3, <1>6, <1>8 DEF Removed
<1>9. CASE o.act = "copy" /\ t = Removed(Housed(tree[to], q), q)
  <2>1. Housed(tree[to], q)[p] = tree[to][p]
    BY <1>4, <1>9 DEF Housed, WithParents
  <2> QED
    BY <1>1, <1>3, <1>5, <1>9, <2>1 DEF Removed
<1>10. CASE RoomMade(o) /\ t = Copied(tree[to], tree[from], q)
  BY <1>1, <1>3, <1>5, <1>10 DEF Copied, RoomMade, Subtree, Below
<1>11. ASSUME RoomMade(o), NEW k \in Subtree(q), t = PartlyCopied(tree[to], tree[from], q, k)
       PROVE  t[p] = start[to][p]
  <2>1. CASE p \in Subtree(q)
    <3>1. tree[to][p] = Absent /\ tree[from][p] = Absent
      BY <1>1, <1>5, <1>11, <2>1 DEF RoomMade, Subtree, Below
    <3> QED
      BY <1>3, <1>11, <3>1, EntryAssumption DEF PartlyCopied
  <2>2. CASE p \notin Subtree(q)
    BY <1>3, <1>11, <2>2 DEF PartlyCopied
  <2> QED
    BY <2>1, <2>2
<1>12. CASE o.act = "createDirectory" /\ t = [WithParents(tree[to], q) EXCEPT ![q] = Dir]
  BY <1>1, <1>3, <1>4, <1>12 DEF WithParents
<1>13. CASE o.act \in {"copy", "delete"} /\ t \in PartlyRemoved(Cleared(o), q)
  <2>1. Cleared(o)[p] = tree[to][p] /\ Cleared(o) \in Tree
    BY <1>1, <1>2, <1>4, <1>13, TreeOperations DEF Cleared, Housed, WithParents
  <2>2. p \in Below(q) => tree[to][p] = Absent
    BY <1>1, <1>5, <1>6, <1>13 DEF Below
  <2> QED
    BY <1>1, <1>3, <1>13, <2>1, <2>2, PartOfItRemoved
<1> QED
  BY <1>7, <1>8, <1>9, <1>10, <1>11, <1>12, <1>13 DEF Outcomes, from, From

LEMMA InitLocal == Init => LocalInv
<1> SUFFICES ASSUME Init PROVE LocalInv
  OBVIOUS
<1>1. TypeOK
  BY InitType
<1>2. PlanInv /\ Kept
  BY DEF Init, PlanInv, MissedBelow, Kept
<1> QED
  BY <1>1, <1>2 DEF LocalInv

LEMMA CompareLocal == LocalInv /\ Compare => LocalInv'
<1> SUFFICES ASSUME LocalInv, Compare PROVE LocalInv'
  OBVIOUS
<1>0. TypeOK /\ mode \in Mode
  BY TypeParts DEF LocalInv, RunType
<1>1. TypeOK'
  BY <1>0, CompareType
<1>2. Kept'
  BY DEF Compare, Kept
<1>3. MissedBelow'
  BY WhatIsMissed DEF Compare, MissedBelow
<1>4. \A o \in plan' : Sound(o)' /\ Complete(o)'
  <2>1. CASE mode = "oneWay"
    BY <1>0, <2>1, OneWayPlanned
  <2>2. CASE mode = "error"
    BY <2>2 DEF Compare
  <2>3. CASE mode \in {"newest", "sourceWins", "destinationWins"}
    BY <1>0, <2>3, TwoWayPlanned
  <2> QED
    BY <1>0, <2>1, <2>2, <2>3 DEF Mode
<1> QED
  BY <1>1, <1>2, <1>3, <1>4 DEF LocalInv, PlanInv

\* Where more is missed, less is promised.
LEMMA MissingMore ==
  ASSUME LocalInv, UNCHANGED <<tree, start, mode, options, dates, plan>>, TypeOK',
         NEW m \in [Side -> Unscanned \cup {{}}], missed' = [s \in Side |-> missed[s] \cup m[s]]
  PROVE  LocalInv'
<1>1. \A s \in Side : missed'[s] = missed[s] \cup m[s]
  OBVIOUS
<1>2. \A p : Clash(p)' <=> Clash(p)
  BY DEF Clash
<1>3. \A p : Clear(p)' => Clear(p)
  BY <1>1, <1>2 DEF Clear
<1>4. \A s, p : Wanted(s, p)' = Wanted(s, p)
  BY DEF Wanted
<1>5. MissedBelow'
  BY <1>1, WhatIsMissed DEF MissedBelow, LocalInv, PlanInv
<1>6. Kept'
  BY <1>3 DEF Kept, LocalInv, Unplanned
<1>7. ASSUME NEW o \in plan
      PROVE  Sound(o)' /\ Complete(o)'
  <2>1. From(o) \in Side /\ Sound(o) /\ Complete(o)
    BY Sides, TypeParts DEF LocalInv, PlanInv, PlanType, Operation, From
  <2>2. missed[From(o)] \subseteq missed'[From(o)]
    BY <1>1, <2>1
  <2>3. Sound(o)'
    <3>1. o.act = "delete" => start[From(o)][o.path] = Absent \/ o.path \in missed'[From(o)]
      BY <2>1, <2>2 DEF Sound
    <3>2. Clear(o.path)' => start[From(o)][o.path] = Wanted(From(o), o.path)'
      BY <1>3, <1>4, <2>1 DEF Sound
    <3>3. o.act = "copy" => start[From(o)][o.path] \in FileData \/ Clash(o.path)'
      BY <1>2, <2>1 DEF Sound
    <3> QED
      BY <2>1, <3>1, <3>2, <3>3 DEF Sound, From
  <2>4. Complete(o)'
    BY <1>3, <2>1 DEF Complete, From
  <2> QED
    BY <2>3, <2>4
<1> QED
  BY <1>5, <1>6, <1>7 DEF LocalInv, PlanInv

LEMMA NextLocal == LocalInv /\ [Next]_vars => LocalInv'
<1> SUFFICES ASSUME LocalInv, [Next]_vars PROVE LocalInv'
  OBVIOUS
<1>0. TypeOK /\ TypeOK'
  BY NextType DEF LocalInv
<1>1. ASSUME UNCHANGED <<start, mode, options, dates, missed, plan>>
      PROVE  /\ PlanInv'
             /\ \A p : Clear(p)' <=> Clear(p)
             /\ \A s, p : Unplanned(s, p)' <=> Unplanned(s, p)
  BY <1>1 DEF LocalInv, PlanInv, MissedBelow, Sound, Complete, Clear, Clash, Wanted, From, Unplanned
<1>2. ASSUME UNCHANGED <<tree, start, mode, options, dates, missed, plan>>
      PROVE  LocalInv'
  BY <1>0, <1>1, <1>2 DEF LocalInv, Kept
<1>3. CASE Compare
  BY <1>3, CompareLocal
<1>4. CASE Execute \/ Crash
  <2>1. UNCHANGED <<start, mode, options, dates, missed, plan>>
    BY <1>0, <1>4, OneOperation
  <2>2. ASSUME NEW o \in todo, Touches(o)
        PROVE  Kept'
    <3>1. PICK t \in Outcomes(o) : tree' = [tree EXCEPT ![o.to] = t]
      BY <2>2 DEF Touches
    <3>2. o.to \in Side /\ tree \in [Side -> Tree]
      BY <1>0, OutcomesType, TypeParts DEF TreesType
    <3>3. ASSUME NEW s \in Side, NEW p \in Path, Clear(p), Unplanned(s, p)
          PROVE  tree'[s][p] = start[s][p]
      <4>1. CASE s = o.to
        BY <3>1, <3>2, <3>3, <4>1, OperationKeeps
      <4>2. CASE s # o.to
        BY <3>1, <3>2, <3>3, <4>2 DEF LocalInv, Kept
      <4> QED
        BY <4>1, <4>2
    <3> QED
      BY <1>1, <2>1, <3>3 DEF Kept
  <2> QED
    BY <1>0, <1>1, <1>2, <1>4, <2>1, <2>2, OneOperation DEF LocalInv
<1>5. CASE Finish
  BY <1>2, <1>5 DEF Finish
<1>6. CASE Verify
  BY <1>0, <1>6, MissingMore DEF Verify
<1>7. CASE UNCHANGED vars
  BY <1>2, <1>7 DEF vars
<1> QED
  BY <1>3, <1>4, <1>5, <1>6, <1>7 DEF Next

\* What comes from a side is not overwritten there; what is planned nowhere stays.
LEMMA KeptIsWinnerKept == LocalInv => WinnerKept
<1> SUFFICES ASSUME LocalInv, NEW p \in Path, Clear(p), Wanted("a", p) = Wanted("b", p)
             PROVE  \E s \in Side : start[s][p] = Wanted(s, p) /\ tree[s][p] = Wanted(s, p)
  BY DEF WinnerKept
<1>1. CASE \E o \in plan : o.path = p
  <2>1. PICK o \in plan : o.path = p
    BY <1>1
  <2>2. From(o) \in Side /\ From(o) # o.to
    BY Sides, TypeParts DEF LocalInv, PlanType, Operation, From
  <2>3. Unplanned(From(o), p) /\ start[From(o)][p] = Wanted(From(o), p)
    BY <2>1, <2>2 DEF LocalInv, PlanInv, Sound, Complete, Unplanned
  <2> QED
    BY <2>2, <2>3 DEF LocalInv, Kept
<1>2. CASE \A o \in plan : o.path # p
  <2>1. \A s \in Side : tree[s][p] = start[s][p]
    BY <1>2 DEF LocalInv, Kept, Unplanned
  <2>2. \E s \in Side : start[s][p] = Wanted(s, p)
    <3>1. "a" \in Side /\ "b" \in Side
      BY DEF Side
    <3>2. start["a"][p] = Wanted("a", p) \/ start["b"][p] = Wanted("b", p)
      BY DEF Wanted
    <3> QED
      BY <3>1, <3>2
  <2> QED
    BY <2>1, <2>2
<1> QED
  BY <1>1, <1>2

(* Whatever fails, and wherever a run dies: the version that is to be on   *)
(* both sides is still on the one it comes from, though executeCopyFile    *)
(* removes the other before it copies.                                     *)
THEOREM SpecWinnerKept == Spec => []WinnerKept
  BY InitLocal, NextLocal, KeptIsWinnerKept, PTL DEF Spec
-----------------------------------------------------------------------------
(* Errors                                                                  *)

\* An operation for each path, and where something is deleted all go to one side.
PlanShape == \A o, x \in plan : /\ x.path = o.path => x = o
                                /\ x.act = "delete" => x.to = o.to

LEMMA PlansShape == TypeOK /\ Compare => PlanShape'
<1> SUFFICES ASSUME TypeOK, Compare PROVE PlanShape'
  OBVIOUS
<1> DEFINE S == [s \in Side |-> Snapshot(s, tree, missed')]
<1>1. mode \in Mode
  BY TypeParts DEF RunType
<1>2. Other("b") = "a" /\ Other("a") = "b"
  BY DEF Other
<1> HIDE DEF S
<1>3. CASE mode = "error"
  <2>1. plan' = {}
    BY <1>3 DEF Compare
  <2> QED
    BY <2>1 DEF PlanShape
<1>4. CASE mode = "oneWay"
  <2>1. plan' = OneWayPlan(S, dates')
    BY <1>4 DEF Compare, S
  <2>2. ASSUME NEW o \in plan'
        PROVE  /\ o.to = "b"
               /\ \/ /\ o.path \in OnlyIn("a", S)
                     /\ o = Op(IF S["a"][o.path] = Dir THEN "createDirectory" ELSE "copy", "b", o.path, 1)
                  \/ /\ o.path \in OnlyIn("b", S) /\ o = Op("delete", "b", o.path, 2)
                  \/ o.path \in Unlike(S, dates') /\ o = Op("copy", "b", o.path, 3)
    <3>1. CASE o \in Additions(S)
      BY <3>1 DEF Additions, Op
    <3>2. CASE o \in Deletions(S)
      BY <3>2 DEF Deletions, Op
    <3>3. CASE o \in Updates(S, dates')
      BY <3>3 DEF Updates, Op
    <3> QED
      BY <2>1, <2>2, <3>1, <3>2, <3>3 DEF OneWayPlan
  <2>3. \A p : /\ p \in OnlyIn("a", S) => p \notin OnlyIn("b", S) \cup Unlike(S, dates')
               /\ p \in OnlyIn("b", S) => p \notin Unlike(S, dates')
    BY <1>2, EntryAssumption DEF OnlyIn, Missing, Unlike, Modified, InBoth, BothFiles, IsFile
  <2> QED
    BY <2>2, <2>3 DEF PlanShape
<1>5. CASE mode \in {"newest", "sourceWins", "destinationWins"}
  <2>1. plan' = TwoWayPlan(S, dates') /\ mode' = mode
    BY <1>5 DEF Compare, S
  <2>2. ASSUME NEW o \in plan'
        PROVE  /\ o.path \in OnlyIn("a", S) \cup OnlyIn("b", S) \cup Diverged(S, dates')
               /\ o = Resolution(S, Winner(S, dates', o.path), o.path)
    <3>1. PICK p \in OnlyIn("a", S) \cup OnlyIn("b", S) \cup Diverged(S, dates') :
                  o = Resolution(S, Winner(S, dates', p), p)
      BY <2>1, <2>2 DEF TwoWayPlan
    <3>2. o.path = p
      BY <3>1 DEF Resolution, Op
    <3> QED
      BY <3>1, <3>2
  <2>3. ASSUME NEW o \in plan', NEW x \in plan', x.path = o.path
        PROVE  x = o
    BY <2>2, <2>3
  <2>4. ASSUME NEW o \in plan'
        PROVE  o.to = Other(Winner(S, dates', o.path))
    <3>1. \A w, p : Resolution(S, w, p).to = Other(w)
      BY DEF Resolution, Op
    <3> QED
      BY <2>2, <2>4, <3>1
  <2>5. ASSUME NEW x \in plan', x.act = "delete"
        PROVE  S[Winner(S, dates', x.path)][x.path] = Absent
    <3>1. \A w, p : Resolution(S, w, p).act = "delete" => S[w][p] = Absent
      BY DEF Resolution, Op
    <3> QED
      BY <2>2, <2>5, <3>1
  <2>6. ASSUME NEW x \in plan', x.act = "delete"
        PROVE  mode # "newest"
    <3>1. x.path \in OnlyIn("a", S) \cup OnlyIn("b", S) => mode # "newest"
      BY <1>2, <2>5, <2>6 DEF Winner, OnlyIn, Missing
    <3>2. x.path \in Diverged(S, dates') => S["a"][x.path] # Absent /\ S["b"][x.path] # Absent
      BY EntryAssumption DEF Diverged, Unlike, Modified, InBoth, BothFiles, IsFile
    <3>3. Winner(S, dates', x.path) \in {"a", "b"}
      BY DEF Winner
    <3> QED
      BY <2>2, <2>5, <2>6, <3>1, <3>2, <3>3
  <2>7. mode # "newest" => \A p, q : Winner(S, dates', p) = Winner(S, dates', q)
    BY DEF Winner
  <2> QED
    BY <2>3, <2>4, <2>6, <2>7 DEF PlanShape
<1> QED
  BY <1>1, <1>3, <1>4, <1>5 DEF Mode

Less == {mn \in Nat \X Nat : mn[1] < mn[2]}

\* The innermost directory over a path lies in all others.
LEMMA InnermostParent ==
  ASSUME NEW p \in Path, Above[p] # {}
  PROVE  \E q \in Above[p] : Above[p] \subseteq Above[q] \cup {q}
<1> DEFINE Depths == {p - q : q \in Above[p]}
<1>1. \A q \in Above[p] : q \in Nat /\ p - q \in Nat
  BY WhereThingsLie, PathAssumption DEF Path
<1>2. PICK d \in Depths : \A e \in Depths : <<e, d>> \notin Less
  <2>1. Depths \subseteq Nat /\ Depths # {}
    BY <1>1
  <2>2. IsWellFoundedOn(Less, Nat)
    BY NatLessThanWellFounded DEF Less, OpToRel
  <2> HIDE DEF Depths
  <2> QED
    BY <2>1, <2>2, WFMin
<1>3. \A e \in Depths : ~ (e < d)
  <2>1. \A m, n \in Nat : m < n => <<m, n>> \in Less
    BY DEF Less
  <2>2. Depths \subseteq Nat
    BY <1>1
  <2> HIDE DEF Depths
  <2> QED
    BY <1>2, <2>1, <2>2
<1>4. PICK q \in Above[p] : d = p - q
  OBVIOUS
<1>5. ASSUME NEW r \in Above[p]
      PROVE  r \in Above[q] \cup {q}
  <2>1. ~ (p - r < p - q) /\ r \in Nat /\ q \in Nat /\ p \in Nat
    BY <1>1, <1>3, <1>4, PathAssumption DEF Path
  <2>2. ~ (q < r)
    BY <2>1
  <2>3. q \in Above[r] => q < r
    BY WhereThingsLie
  <2> QED
    BY <2>2, <2>3, ChainAssumption
<1> QED
  BY <1>5

\* Files are where files were.
Kinds == \A s \in Side, p \in Path :
             tree[s][p] \in FileData => start["a"][p] \in FileData \/ start["b"][p] \in FileData

LEMMA KindsNext == LocalInv /\ Kinds /\ [Next]_vars => Kinds'
<1> SUFFICES ASSUME LocalInv, Kinds, [Next]_vars PROVE Kinds'
  OBVIOUS
<1>0. TypeOK /\ tree \in [Side -> Tree]
  BY TypeParts DEF LocalInv, TreesType
<1>1. CASE Compare
  BY <1>1 DEF Compare, Kinds, Side
<1>2. CASE Execute \/ Crash
  <2>0. start' = start /\ (tree' = tree \/ \E o \in todo : Touches(o))
    BY <1>0, <1>2, OneOperation
  <2>1. ASSUME NEW o \in todo, NEW t \in Outcomes(o), NEW q \in Path, t[q] \in FileData
        PROVE  tree[o.to][q] \in FileData \/ tree[Other(o.to)][q] \in FileData
    <3> DEFINE u == tree[o.to]
               w == tree[Other(o.to)]
    <3>1. CASE t = Removed(u, o.path) \/ t = Removed(Housed(u, o.path), o.path)
      BY <2>1, <3>1, EntryAssumption DEF Removed, Housed, WithParents
    <3>2. CASE \/ t = Copied(u, w, o.path)
               \/ \E k \in Subtree(o.path) : t = PartlyCopied(u, w, o.path, k)
      BY <2>1, <3>2 DEF Copied, PartlyCopied
    <3>3. CASE t = [WithParents(u, o.path) EXCEPT ![o.path] = Dir]
      BY <2>1, <3>3, EntryAssumption DEF WithParents
    <3>4. CASE t \in PartlyRemoved(Cleared(o), o.path)
      <4>1. Cleared(o)[q] \in FileData
        BY <2>1, <3>4, EntryAssumption DEF PartlyRemoved
      <4> QED
        BY <4>1, EntryAssumption DEF Cleared, Housed, WithParents
    <3> QED
      BY <2>1, <3>1, <3>2, <3>3, <3>4 DEF Outcomes
  <2>2. ASSUME NEW o \in todo, Touches(o)
        PROVE  Kinds'
    <3>1. PICK t \in Outcomes(o) : tree' = [tree EXCEPT ![o.to] = t]
      BY <2>2 DEF Touches
    <3>2. o.to \in Side /\ Other(o.to) \in Side
      BY <1>0, OutcomesType, Sides
    <3> QED
      BY <1>0, <2>0, <2>1, <3>1, <3>2 DEF Kinds
  <2> QED
    BY <2>0, <2>2 DEF Kinds
<1>3. CASE Finish \/ Verify \/ UNCHANGED vars
  BY <1>3 DEF Finish, Verify, vars, Kinds
<1> QED
  BY <1>1, <1>2, <1>3 DEF Next

\* No directory over the path has a file for it on the other side.
Free(p) == \A q \in Above[p] : ~ Clash(q)

\* What is to be copied is there until it has been.
SourcesStay == \A o \in todo : o.act = "copy" /\ Free(o.path) => tree[From(o)][o.path] # Absent

\* Room that has been made for a copy is there.
Room == \A o \in todo : o.path = ready /\ Free(o.path) =>
            tree[o.to][o.path] = Absent /\ ParentsExist(tree[o.to], o.path)

Clean == SourcesStay /\ Room /\ ErrorsOnlyWhereClash
CleanInv == PlanShape /\ Kinds /\ (faults = 0 => Clean)

LEMMA OperationParts ==
  ASSUME LocalInv, NEW o \in todo
  PROVE  /\ o \in plan /\ o.path \in Path /\ o.to \in Side /\ From(o) \in Side
         /\ From(o) # o.to /\ Side = {o.to, From(o)}
         /\ tree \in [Side -> Tree] /\ tree[o.to] \in Tree /\ tree[From(o)] \in Tree
         /\ WellFormed(tree[o.to]) /\ WellFormed(start[o.to]) /\ WellFormed(start[From(o)])
         /\ o.act \in {"copy", "createDirectory", "delete"} /\ Sound(o)
  BY Sides, TypeParts DEF LocalInv, PlanInv, PlanType, TreesType, Operation, From

\* Over what an operation brings there are no files.
LEMMA NoFileAbove ==
  ASSUME LocalInv, Kinds, NEW o \in todo, o.act # "delete", Free(o.path), NEW s \in Side
  PROVE  \A q \in Above[o.path] : tree[s][q] \notin FileData
<1> SUFFICES ASSUME NEW q \in Above[o.path], tree[s][q] \in FileData PROVE FALSE
  OBVIOUS
<1>1. q \in Path /\ ~ Clash(q)
  BY OperationParts, WhereThingsLie DEF Free
<1>2. start[From(o)][q] = Dir
  BY OperationParts DEF Sound, WellFormed
<1>3. start["a"][q] \in FileData \/ start["b"][q] \in FileData
  BY <1>1 DEF Kinds
<1>4. From(o) = "a" \/ From(o) = "b"
  BY OperationParts DEF Side
<1> QED
  BY <1>1, <1>2, <1>3, <1>4, EntryAssumption DEF Clash, InBoth

LEMMA ParentsCanBeMade ==
  ASSUME LocalInv, Kinds, NEW o \in todo, o.act # "delete", Free(o.path)
  PROVE  CanMakeParents(tree[o.to], o.path)
  BY NoFileAbove, OperationParts DEF CanMakeParents, IsFile

\* Room is made where it is needed.
LEMMA RoomIsMade ==
  ASSUME LocalInv, Kinds, NEW o \in todo, o.act = "copy", Free(o.path)
  PROVE  LET t == Removed(Housed(tree[o.to], o.path), o.path)
         IN  t[o.path] = Absent /\ ParentsExist(t, o.path)
<1> DEFINE p == o.path
           t == tree[o.to]
           h == Housed(t, p)
<1>1. p \in Path /\ t \in Tree /\ WellFormed(t)
  BY OperationParts
<1>2. \A q \in Above[p] : q \in Path /\ q # p /\ p \notin Above[q]
  BY <1>1, WhereThingsLie
<1>3. \A q \in Above[p] : t[q] \notin FileData
  BY OperationParts, NoFileAbove
<1>4. ParentsExist(h, p)
  <2>1. CASE ParentFound(t, p) /\ Above[p] # {}
    <3>1. PICK q \in Above[p] : Above[p] \subseteq Above[q] \cup {q}
      BY <1>1, <2>1, InnermostParent
    <3>2. t[q] # Absent /\ t[q] \in Entry
      BY <1>1, <1>2, <2>1, <3>1 DEF ParentFound, Tree
    <3>3. t[q] = Dir
      BY <1>3, <3>2 DEF Entry
    <3>4. \A r \in Above[q] : t[r] = Dir
      BY <1>1, <1>2, <3>2 DEF WellFormed
    <3> QED
      BY <2>1, <3>1, <3>3, <3>4 DEF Housed, ParentsExist
  <2>2. CASE ~ ParentFound(t, p)
    BY <1>2, <2>2 DEF Housed, WithParents, ParentsExist
  <2> QED
    BY <2>1, <2>2 DEF ParentsExist
<1> HIDE DEF h
<1>5. \A q \in Above[p] : Removed(h, p)[q] = Dir
  BY <1>2, <1>4 DEF Removed, ParentsExist
<1> QED
  BY <1>1, <1>5 DEF Removed, ParentsExist, h

\* No operation takes away what another is to copy.
LEMMA SourceSurvives ==
  ASSUME LocalInv, PlanShape, Clean, NEW y \in todo, NEW o \in todo, o # y,
         o.act = "copy", Free(o.path), y.to = From(o)
  PROVE  /\ y.act # "delete"
         /\ y.act = "copy" => o.path \notin Subtree(y.path)
<1>1. y.act # "delete" /\ y.path # o.path
  BY OperationParts DEF PlanShape
<1>2. ASSUME y.act = "copy", y.path \in Above[o.path]
      PROVE  FALSE
  <2>1. y.path \in Path /\ ~ Clash(y.path) /\ From(y) = o.to /\ From(y) # y.to
    BY <1>2, OperationParts DEF Free, Side
  <2>2. start[o.to][y.path] \in FileData
    BY <1>2, <2>1, OperationParts DEF Sound
  <2>3. start[From(o)][y.path] = Dir
    BY <1>2, <2>1, OperationParts DEF Sound, WellFormed
  <2>4. \/ o.to = "a" /\ From(o) = "b"
        \/ o.to = "b" /\ From(o) = "a"
    BY OperationParts DEF Side
  <2> QED
    BY <2>1, <2>2, <2>3, <2>4, EntryAssumption DEF Clash, InBoth
<1> QED
  BY <1>1, <1>2, OperationParts DEF Subtree, Below

\* What is done to one side leaves what other operations are to copy.
LEMMA EditsKeep ==
  ASSUME LocalInv, PlanShape, Clean, NEW o \in todo, NEW t,
         tree' = [tree EXCEPT ![o.to] = t], start' = start, todo' \subseteq todo,
         \/ o.act = "delete" /\ t = Removed(tree[o.to], o.path)
         \/ o.act = "copy" /\ t = Removed(Housed(tree[o.to], o.path), o.path)
         \/ o.act = "copy" /\ t = Copied(tree[o.to], tree[From(o)], o.path)
         \/ o.act = "createDirectory" /\ t = [WithParents(tree[o.to], o.path) EXCEPT ![o.path] = Dir]
  PROVE  SourcesStay'
<1> DEFINE u == tree[o.to]
<1>0. /\ o.path \in Path /\ o.to \in Side /\ From(o) \in Side /\ tree \in [Side -> Tree]
      /\ u \in Tree /\ tree'[o.to] = t /\ \A s \in Side \ {o.to} : tree'[s] = tree[s]
  BY OperationParts
<1> SUFFICES ASSUME NEW x \in todo, x.act = "copy", Free(x.path)
             PROVE  tree'[From(x)][x.path] # Absent
  BY DEF SourcesStay, Free, Clash, From
<1>1. tree[From(x)][x.path] # Absent /\ x.path \in Path /\ From(x) \in Side
  BY OperationParts DEF Clean, SourcesStay
<1>2. CASE From(x) # o.to
  BY <1>0, <1>1, <1>2
<1>3. CASE From(x) = o.to
  <2>1. x # o
    BY <1>3, OperationParts
  <2>2. o.act # "delete" /\ (o.act = "copy" => x.path \notin Subtree(o.path))
    BY <1>3, <2>1, SourceSurvives
  <2>3. u[x.path] # Absent /\ tree'[From(x)] = t
    BY <1>0, <1>1, <1>3
  <2>4. CASE o.act = "copy"
    BY <1>1, <2>2, <2>3, <2>4, EntryAssumption DEF Removed, Housed, WithParents, Copied, Subtree, Below
  <2>5. CASE o.act = "createDirectory"
    BY <1>1, <2>3, <2>5, EntryAssumption DEF WithParents
  <2> QED
    BY <2>2, <2>4, <2>5, OperationParts
<1> QED
  BY <1>2, <1>3

\* While room is made, the copy is the operation in hand.
LEMMA CopyInHand ==
  ASSUME LocalInv, PlanShape, ready # 0, NEW o \in todo, Current(o)
  PROVE  o.act = "copy" /\ o.path = ready
<1>1. PICK x \in todo : x.act = "copy" /\ x.path = ready
  BY TypeParts DEF LocalInv, PlanType, Current
<1> QED
  BY <1>1, OperationParts DEF Current, PlanShape

LEMMA StepRest ==
  ASSUME start' = start, ErrorsOnlyWhereClash, NEW o, errors' \subseteq errors \cup {o},
         o \in errors' \ errors => ~ Free(o.path), faults = 0
  PROVE  ErrorsOnlyWhereClash'
  BY DEF ErrorsOnlyWhereClash, Clash, Free

LEMMA ExecuteClean ==
  ASSUME LocalInv, LocalInv', PlanShape, Kinds, faults = 0, faults' = 0, Clean, Execute
  PROVE  Clean'
<1> PICK o \in todo : MakeRoom(o) \/ CopyItem(o) \/ CopyFails(o) \/ CreateDirectory(o) \/ DeleteItem(o)
  BY DEF Execute
<1>1. /\ o.path \in Path /\ o.to \in Side /\ tree \in [Side -> Tree] /\ o.path # 0
      /\ \A x \in todo : x.path \in Path /\ x.path # 0
      /\ SourcesStay /\ Room /\ ErrorsOnlyWhereClash /\ ~ Fault
  BY OperationParts DEF Path, Clean, Fault
<1>2. ASSUME start' = start, tree' = tree, todo' \subseteq todo, ready' = 0
      PROVE  SourcesStay' /\ Room'
  BY <1>1, <1>2 DEF SourcesStay, Room, Free, Clash, From
<1>3. ASSUME todo' \subseteq todo, ready' = 0
      PROVE  Room'
  BY <1>1, <1>3 DEF Room
<1>4. CASE MakeRoom(o)
  <2> DEFINE t == Removed(Housed(tree[o.to], o.path), o.path)
  <2>0. start' = start /\ o.act = "copy" /\ o \in todo
    BY <1>4 DEF MakeRoom
  <2>1. CASE tree' = [tree EXCEPT ![o.to] = t] /\ ready' = o.path /\ UNCHANGED <<todo, errors, faults>>
    <3>1. SourcesStay'
      BY <2>0, <2>1, EditsKeep
    <3>2. ASSUME NEW x \in todo, x.path = ready', Free(x.path)
          PROVE  tree'[x.to][x.path] = Absent /\ ParentsExist(tree'[x.to], x.path)
      <4>1. x = o
        BY <2>1, <3>2, OperationParts DEF PlanShape
      <4> QED
        BY <1>1, <2>0, <2>1, <3>2, <4>1, RoomIsMade
    <3>3. Room'
      BY <2>0, <2>1, <3>2 DEF Room, Free, Clash
    <3>4. ErrorsOnlyWhereClash'
      BY <1>1, <2>0, <2>1, StepRest
    <3> QED
      BY <3>1, <3>3, <3>4 DEF Clean
  <2>2. CASE ~ CanHouse(tree[o.to], o.path) /\ Reported(o) /\ UNCHANGED tree
    <3>1. ~ Free(o.path)
      BY <1>1, <2>0, <2>2, ParentsCanBeMade DEF CanHouse
    <3>2. ErrorsOnlyWhereClash'
      BY <1>1, <2>0, <2>2, <3>1, StepRest DEF Reported
    <3> QED
      BY <1>2, <2>0, <2>2, <3>2 DEF Clean, Reported, Applied
  <2> QED
    BY <1>1, <1>4, <2>0, <2>1, <2>2 DEF MakeRoom, RemovalStops, Cleared, On
<1>5. CASE CopyItem(o)
  <2>0. start' = start /\ Current(o) /\ ready # 0 /\ todo' \subseteq todo /\ ready' = 0
    BY <1>5 DEF CopyItem, Applied, Reported
  <2>1. o.act = "copy" /\ o.path = ready
    BY <2>0, CopyInHand
  <2>2. Free(o.path) => CanCopy(o)
    BY <1>1, <2>1 DEF SourcesStay, Room, CanCopy, From
  <2>3. CASE CanCopy(o)
    <3>1. tree' = [tree EXCEPT ![o.to] = Copied(tree[o.to], tree[From(o)], o.path)] /\ errors' = errors
      BY <1>5, <2>3 DEF CopyItem, On, From
    <3>2. SourcesStay'
      BY <2>0, <2>1, <3>1, EditsKeep
    <3>3. ErrorsOnlyWhereClash'
      BY <1>1, <2>0, <3>1, StepRest
    <3> QED
      BY <1>3, <2>0, <3>2, <3>3 DEF Clean
  <2>4. CASE ~ CanCopy(o)
    <3>1. tree' = tree /\ errors' = errors \cup {o}
      BY <1>5, <2>4 DEF CopyItem, Reported
    <3>2. ErrorsOnlyWhereClash'
      BY <1>1, <2>0, <2>2, <2>4, <3>1, StepRest
    <3> QED
      BY <1>2, <2>0, <3>1, <3>2 DEF Clean
  <2> QED
    BY <2>3, <2>4
<1>6. CASE CopyFails(o)
  BY <1>1, <1>6 DEF CopyFails, Interrupted
<1>7. CASE CreateDirectory(o)
  <2> DEFINE t == [WithParents(tree[o.to], o.path) EXCEPT ![o.path] = Dir]
  <2>0. start' = start /\ o.act = "createDirectory" /\ todo' \subseteq todo /\ ready' = 0
    BY <1>7 DEF CreateDirectory, Applied, Reported
  <2>1. CASE errors' = errors /\ (tree' = tree \/ tree' = [tree EXCEPT ![o.to] = t])
    <3>1. SourcesStay' /\ Room'
      BY <1>2, <1>3, <2>0, <2>1, EditsKeep
    <3>2. ErrorsOnlyWhereClash'
      BY <1>1, <2>0, <2>1, StepRest
    <3> QED
      BY <3>1, <3>2 DEF Clean
  <2>2. CASE ~ CanMakeParents(tree[o.to], o.path) /\ Reported(o) /\ tree' = tree
    <3>1. ~ Free(o.path)
      BY <1>1, <2>0, <2>2, ParentsCanBeMade
    <3>2. ErrorsOnlyWhereClash'
      BY <1>1, <2>0, <2>2, <3>1, StepRest DEF Reported
    <3> QED
      BY <1>2, <2>0, <2>2, <3>2 DEF Clean
  <2> QED
    BY <1>1, <1>7, <2>1, <2>2 DEF CreateDirectory, On
<1>8. CASE DeleteItem(o)
  <2>1. /\ tree' = [tree EXCEPT ![o.to] = Removed(tree[o.to], o.path)] /\ errors' = errors
        /\ start' = start /\ o.act = "delete" /\ todo' \subseteq todo /\ ready' = 0
    BY <1>1, <1>8 DEF DeleteItem, RemovalStops, On, Applied
  <2>2. SourcesStay'
    BY <2>1, EditsKeep
  <2>3. ErrorsOnlyWhereClash'
    BY <1>1, <2>1, StepRest
  <2> QED
    BY <1>3, <2>1, <2>2, <2>3 DEF Clean
<1> QED
  BY <1>4, <1>5, <1>6, <1>7, <1>8

LEMMA CleanInit == Init => CleanInv
<1> SUFFICES ASSUME Init PROVE CleanInv
  OBVIOUS
<1>1. TypeOK
  BY InitType
<1>2. Kinds
  BY DEF Init, Kinds, Side
<1> QED
  BY <1>2 DEF Init, CleanInv, Clean, PlanShape, SourcesStay, Room, ErrorsOnlyWhereClash

LEMMA CleanNext == LocalInv /\ LocalInv' /\ CleanInv /\ [Next]_vars => CleanInv'
<1> SUFFICES ASSUME LocalInv, LocalInv', CleanInv, [Next]_vars PROVE CleanInv'
  OBVIOUS
<1>0. TypeOK /\ faults \in Nat /\ Kinds'
  BY TypeParts, KindsNext DEF LocalInv, RunType, CleanInv
<1>1. CASE Compare
  <2>1. PlanShape'
    BY <1>0, <1>1, PlansShape
  <2>2. tree' = tree /\ start' = tree /\ errors' = {} /\ ready' = 0 /\ todo' \subseteq plan'
    BY <1>1 DEF Compare
  <2>3. \A o \in todo' : o.path \in Path /\ o.path # 0 /\ Sound(o)'
    <3>1. plan' \subseteq Operation /\ \A o \in plan' : Sound(o)'
      BY DEF LocalInv, TypeOK, PlanInv
    <3> QED
      BY <2>2, <3>1 DEF Operation, Path
  <2>4. SourcesStay' /\ Room' /\ ErrorsOnlyWhereClash'
    BY <2>2, <2>3 DEF SourcesStay, Room, ErrorsOnlyWhereClash, Sound, From
  <2> QED
    BY <1>0, <2>1, <2>4 DEF CleanInv, Clean
<1>2. CASE Execute
  <2>1. plan' = plan /\ faults' \in {faults, faults + 1}
    BY <1>2 DEF Execute, MakeRoom, CopyItem, CopyFails, CreateDirectory, DeleteItem,
                RemovalStops, Interrupted, Fault
  <2>2. PlanShape'
    BY <2>1 DEF CleanInv, PlanShape
  <2>3. faults' = 0 => faults = 0
    BY <1>0, <2>1
  <2> QED
    BY <1>0, <1>2, <2>2, <2>3, ExecuteClean DEF CleanInv
<1>3. CASE Finish \/ Verify \/ Crash \/ UNCHANGED vars
  <2>1. UNCHANGED <<start, plan, todo, errors>> /\ faults' \in {faults, faults + 1}
    BY <1>3 DEF Finish, Verify, Crash, Scan, RemovalStops, Interrupted, Fault, vars
  <2>2. faults' = 0 => faults = 0 /\ tree' = tree /\ ready' = ready
    BY <1>0, <1>3 DEF Finish, Verify, Crash, Scan, RemovalStops, Interrupted, Fault, vars
  <2>3. PlanShape'
    BY <2>1 DEF CleanInv, PlanShape
  <2>4. ASSUME faults' = 0, faults = 0, tree' = tree, ready' = ready, Clean
        PROVE  Clean'
    <3>1. ErrorsOnlyWhereClash'
      BY <2>1, <2>4 DEF Clean, ErrorsOnlyWhereClash, Clash
    <3>2. SourcesStay' /\ Room'
      BY <2>1, <2>4 DEF Clean, SourcesStay, Room, Free, Clash, From
    <3> QED
      BY <3>1, <3>2 DEF Clean
  <2> QED
    BY <1>0, <2>2, <2>3, <2>4 DEF CleanInv
<1> QED
  BY <1>1, <1>2, <1>3 DEF Next

(* Where nothing fails, an error means that a name is a file on one side   *)
(* and a directory on the other, though a two-way plan changes both sides  *)
(* and comes in any order: room for a copy is made, and what it needs is   *)
(* still there.                                                            *)
THEOREM SpecErrorsOnlyWhereClash == Spec => []ErrorsOnlyWhereClash
<1>1. CleanInv => ErrorsOnlyWhereClash
  BY DEF CleanInv, Clean, ErrorsOnlyWhereClash
<1> QED
  BY <1>1, InitLocal, NextLocal, CleanInit, CleanNext, PTL DEF Spec

-----------------------------------------------------------------------------
(* What a run has done when it is done                                     *)

\* What the operations are for.
Aims ==
    /\ mode = "error" => plan = {}
    /\ mode = "oneWay" => \A o \in plan : /\ o.to = "b"
                                          /\ o.act = "delete" => "deleteExtraFiles" \in options
    /\ \A o \in plan :
          /\ o.act = "createDirectory" => start[From(o)][o.path] = Dir
          /\ o.act = "copy" /\ mode # "oneWay" => start[From(o)][o.path] # Dir

\* Where there is no operation there is nothing to do.
Covers == \A p \in Path : Clear(p) /\ (\A o \in plan : o.path # p) =>
              \A s \in Side : start[s][p] = Wanted(s, p)

Blocked(p) == \E o \in errors : p \in Subtree(o.path)

\* An operation that has been carried out has made its path the other side's, and it
\* stays that while others are.
Synced == \A o \in plan \ todo : Clear(o.path) /\ ~ Blocked(o.path) =>
              tree[o.to][o.path] = start[From(o)][o.path]

SyncedInv ==
    /\ Aims
    /\ pc # "idle" => Covers
    /\ IF "dryRun" \in options THEN todo = {} /\ tree = start ELSE Synced
    /\ pc \in {"verify", "done"} => todo = {}

LEMMA PlansAim == TypeOK /\ Compare => Aims' /\ Covers'
<1> SUFFICES ASSUME TypeOK, Compare PROVE Aims' /\ Covers'
  OBVIOUS
<1> DEFINE S == [s \in Side |-> Snapshot(s, tree, missed')]
           T == start'
<1>0. /\ mode \in Mode /\ start' = tree /\ mode' = mode /\ options' = options
      /\ missed' \in [Side -> SUBSET Path]
      /\ plan' = IF mode = "oneWay" THEN OneWayPlan(S, dates')
                 ELSE IF mode = "error" THEN {} ELSE TwoWayPlan(S, dates')
  BY MissedType, TypeParts DEF Compare, RunType
<1>1. \A s \in Side, p \in Path :
        /\ S[s][p] # Absent => T[s][p] = S[s][p]
        /\ p \notin missed'[s] => S[s][p] = T[s][p]
  BY <1>0, SnapshotsShow
<1>2. Other("b") = "a" /\ Other("a") = "b" /\ "a" \in Side /\ "b" \in Side
  BY DEF Other, Side
<1> HIDE DEF S
<1>3. \A p \in Path : /\ S["a"][p] # Absent => T["a"][p] = S["a"][p]
                      /\ S["b"][p] # Absent => T["b"][p] = S["b"][p]
  BY <1>1, <1>2
<1>4. ASSUME NEW p \in Path, Clear(p)'
      PROVE  S["a"][p] = T["a"][p] /\ S["b"][p] = T["b"][p]
  BY <1>1, <1>2, <1>4 DEF Clear
<1>5. ASSUME NEW p \in Path, Clear(p)'
      PROVE  T["a"][p] # Absent /\ T["b"][p] # Absent /\ T["a"][p] # T["b"][p] =>
                T["a"][p] # Dir /\ T["b"][p] # Dir
  BY <1>5 DEF Clear, Clash, InBoth
<1> HIDE DEF T
<1>6. ASSUME NEW p \in Path
      PROVE  /\ p \in OnlyIn("a", S) <=> S["a"][p] # Absent /\ S["b"][p] = Absent
             /\ p \in OnlyIn("b", S) <=> S["b"][p] # Absent /\ S["a"][p] = Absent
             /\ S["a"][p] # Absent /\ S["b"][p] # Absent /\ S["a"][p] # S["b"][p] => p \in Unlike(S, dates')
  BY <1>2, <1>6 DEF OnlyIn, Missing, Unlike, Modified, InBoth
<1>7. CASE mode = "oneWay"
  <2>1. ASSUME NEW o \in plan'
        PROVE  /\ o.to = "b" /\ (o.act = "delete" => "deleteExtraFiles" \in options)
               /\ o.act = "createDirectory" => T["a"][o.path] = Dir
    <3>1. CASE o \in Additions(S)
      <4>1. PICK p \in OnlyIn("a", S) :
                    o = Op(IF S["a"][p] = Dir THEN "createDirectory" ELSE "copy", "b", p, 1)
        BY <3>1 DEF Additions
      <4>2. p \in Path
        BY DEF OnlyIn, Missing
      <4> QED
        BY <1>3, <1>6, <4>1, <4>2 DEF Op
    <3>2. CASE o \in Deletions(S)
      BY <3>2 DEF Deletions, Op
    <3>3. CASE o \in Updates(S, dates')
      BY <3>3 DEF Updates, Op
    <3> QED
      BY <1>0, <1>7, <2>1, <3>1, <3>2, <3>3 DEF OneWayPlan
  <2>2. Aims'
    BY <1>0, <1>2, <1>7, <2>1 DEF Aims, From, T
  <2>3. ASSUME NEW p \in Path, Clear(p)', \A o \in plan' : o.path # p
        PROVE  T["a"][p] = Wanted("a", p)' /\ T["b"][p] = Wanted("b", p)'
    <3>1. \A act, n : Op(act, "b", p, n).path = p
      BY DEF Op
    <3>2. p \notin OnlyIn("a", S)
      BY <1>0, <1>7, <2>3, <3>1 DEF OneWayPlan, Additions
    <3>3. p \in OnlyIn("b", S) => "deleteExtraFiles" \notin options
      BY <1>0, <1>7, <2>3, <3>1 DEF OneWayPlan, Deletions
    <3>4. p \in Unlike(S, dates') => S["b"][p] = Dir
      BY <1>0, <1>7, <2>3, <3>1 DEF OneWayPlan, Updates
    <3> QED
      BY <1>0, <1>4, <1>5, <1>6, <1>7, <2>3, <3>2, <3>3, <3>4 DEF Wanted, T
  <2> QED
    BY <2>2, <2>3 DEF Covers, Side, T
<1>8. CASE mode = "error"
  BY <1>0, <1>8 DEF Aims, Covers, Wanted
<1>9. CASE mode \notin {"oneWay", "error"}
  <2>1. ASSUME NEW o \in plan'
        PROVE  /\ o.act = "createDirectory" => T[From(o)][o.path] = Dir
               /\ o.act = "copy" => T[From(o)][o.path] # Dir
    <3>1. PICK p \in OnlyIn("a", S) \cup OnlyIn("b", S) \cup Diverged(S, dates') :
                  o = Resolution(S, Winner(S, dates', p), p)
      BY <1>0, <1>9, <2>1 DEF TwoWayPlan
    <3>2. p \in Path
      BY DEF OnlyIn, Missing, Diverged, Unlike, Modified, InBoth, BothFiles
    <3>3. Winner(S, dates', p) = "a" \/ Winner(S, dates', p) = "b"
      BY DEF Winner
    <3>4. \A w : /\ Resolution(S, w, p).path = p /\ Resolution(S, w, p).to = Other(w)
                 /\ Resolution(S, w, p).act = "createDirectory" => S[w][p] = Dir
                 /\ Resolution(S, w, p).act = "copy" => S[w][p] # Dir /\ S[w][p] # Absent
      BY DEF Resolution, Op
    <3>5. /\ o.path = p /\ From(o) = Winner(S, dates', p)
          /\ o.act = "createDirectory" => S[Winner(S, dates', p)][p] = Dir
          /\ o.act = "copy" => S[Winner(S, dates', p)][p] # Dir /\ S[Winner(S, dates', p)][p] # Absent
      BY <1>2, <3>1, <3>3, <3>4 DEF From
    <3> QED
      BY <1>3, <3>2, <3>3, <3>5, EntryAssumption
  <2>2. Aims'
    BY <1>0, <1>9, <2>1 DEF Aims, From, T
  <2>3. ASSUME NEW p \in Path, Clear(p)', \A o \in plan' : o.path # p
        PROVE  T["a"][p] = T["b"][p]
    <3>1. \A w : Resolution(S, w, p).path = p
      BY DEF Resolution, Op
    <3>2. p \notin OnlyIn("a", S) \cup OnlyIn("b", S) \cup Diverged(S, dates')
      BY <1>0, <1>9, <2>3, <3>1 DEF TwoWayPlan
    <3> QED
      BY <1>4, <1>6, <2>3, <3>2 DEF Diverged
  <2>4. \A p, s : T["a"][p] = T["b"][p] => Wanted(s, p)' = T["a"][p]
    BY <1>0, <1>9 DEF Wanted, T
  <2>5. \A p \in Path : Clear(p)' /\ (\A o \in plan' : o.path # p)
                        => \A s \in Side : T[s][p] = Wanted(s, p)'
    BY <2>3, <2>4 DEF Side
  <2> QED
    BY <2>2, <2>5 DEF Covers, T
<1> QED
  BY <1>7, <1>8, <1>9

\* The version an operation brings is the one wanted where it brings it.
LEMMA BroughtIsWanted ==
  ASSUME LocalInv, Aims, NEW o \in plan, Clear(o.path)
  PROVE  start[From(o)][o.path] = Wanted(o.to, o.path)
<1>1. /\ Sound(o) /\ o.to \in Side /\ From(o) \in Side /\ o.path \in Path
      /\ o.act \in {"copy", "createDirectory", "delete"}
  BY Sides, TypeParts DEF LocalInv, PlanInv, PlanType, Operation, From
<1>2. CASE mode = "oneWay"
  <2>1. o.to = "b" /\ From(o) = "a"
    BY <1>2 DEF Aims, From, Other
  <2>2. o.act # "delete" => start["a"][o.path] # Absent
    BY <1>1, <2>1 DEF Sound
  <2> QED
    BY <1>1, <1>2, <2>1, <2>2 DEF Aims, Wanted
<1>3. CASE mode # "oneWay"
  <2>1. mode # "error"
    BY DEF Aims
  <2> QED
    BY <1>1, <1>3, <2>1 DEF Sound, Wanted
<1> QED
  BY <1>2, <1>3

\* An operation leaves what another has brought to the same side: the parents it makes
\* are wanted there, and what it removes with a directory is not.
LEMMA BroughtStays ==
  ASSUME LocalInv, PlanShape, NEW y \in todo, NEW t \in Outcomes(y), NEW o \in plan, o # y,
         o.to = y.to, Clear(o.path), tree[o.to][o.path] = start[From(o)][o.path]
  PROVE  t[o.path] = start[From(o)][o.path]
<1> DEFINE p == o.path
           q == y.path
           u == tree[o.to]
           f == From(o)
           w == tree[f]
<1>0. /\ y \in plan /\ q \in Path /\ o.to \in Side /\ f \in Side /\ f # o.to /\ f = From(y)
      /\ u \in Tree /\ WellFormed(start[f]) /\ Sound(y) /\ p \in Path /\ p # q /\ MissedBelow
  BY OperationParts, TypeParts DEF LocalInv, PlanInv, PlanType, Operation, PlanShape, From
<1>1. w[p] = start[f][p]
  <2>1. Unplanned(f, p)
    BY <1>0 DEF PlanShape, Unplanned
  <2> QED
    BY <1>0, <2>1 DEF LocalInv, Kept
<1>2. u[p] = start[f][p]
  OBVIOUS
<1> HIDE DEF f
<1>3. y.act # "delete" /\ p \in Above[q] => start[f][p] = Dir
  BY <1>0 DEF Sound, WellFormed
<1>4. ASSUME y.act = "copy", q \in Above[p]
      PROVE  start[f][p] = Absent
  <2>1. ~ Clash(q)
    BY <1>4 DEF Clear
  <2> QED
    BY <1>0, <1>4, <2>1, EntryAssumption DEF Sound, WellFormed
<1>5. ASSUME y.act = "delete", q \in Above[p]
      PROVE  start[f][p] = Absent
  <2>1. p \notin missed[f] /\ p \in Below(q)
    BY <1>0, <1>5 DEF Clear, Below
  <2>2. start[f][q] = Absent
    BY <1>0, <1>5, <2>1 DEF Sound, MissedBelow
  <2> QED
    BY <1>0, <1>5, <2>2, EntryAssumption DEF WellFormed
<1>6. RoomMade(y) => y.act = "copy"
  BY <1>0 DEF RoomMade, PlanShape
<1>7. CASE t = u
  BY <1>2, <1>7
<1>8. CASE y.act = "delete" /\ t = Removed(u, q)
  BY <1>0, <1>2, <1>5, <1>8 DEF Removed
<1>9. CASE y.act = "copy" /\ t = Removed(Housed(u, q), q)
  BY <1>0, <1>2, <1>3, <1>4, <1>9 DEF Removed, Housed, WithParents
<1>10. CASE t = Copied(u, w, q)
  BY <1>0, <1>1, <1>2, <1>10 DEF Copied
<1>11. ASSUME NEW k \in Subtree(q), t = PartlyCopied(u, w, q, k), y.act = "copy"
       PROVE  t[p] = start[f][p]
  <2>1. p \in Subtree(q) => start[f][p] = Absent
    BY <1>0, <1>4, <1>11 DEF Subtree, Below
  <2> QED
    BY <1>0, <1>1, <1>2, <1>11, <2>1, EntryAssumption DEF PartlyCopied
<1>12. CASE y.act = "createDirectory" /\ t = [WithParents(u, q) EXCEPT ![q] = Dir]
  BY <1>0, <1>2, <1>3, <1>12 DEF WithParents
<1>13. CASE y.act \in {"copy", "delete"} /\ t \in PartlyRemoved(Cleared(y), q)
  <2>1. Cleared(y)[p] = start[f][p] /\ Cleared(y) \in Tree
    BY <1>0, <1>2, <1>3, <1>13, TreeOperations DEF Cleared, Housed, WithParents
  <2>2. p \in Below(q) => start[f][p] = Absent
    BY <1>4, <1>5, <1>13 DEF Below
  <2>3. t[p] = Cleared(y)[p] \/ (t[p] = Absent /\ p \in Below(q))
    BY <1>0, <1>13, <2>1, PartOfItRemoved
  <2> QED
    BY <2>1, <2>2, <2>3 DEF f
<1> QED
  BY <1>0, <1>6, <1>7, <1>8, <1>9, <1>10, <1>11, <1>12, <1>13 DEF Outcomes, f, From

\* What an operation that is carried out without an error makes of its path.
LEMMA Brings ==
  ASSUME LocalInv, PlanShape, Kinds, Aims, Execute, NEW o \in todo, o \notin todo',
         o \notin errors', Clear(o.path)
  PROVE  tree'[o.to][o.path] = start[From(o)][o.path]
<1>0. /\ o \in plan /\ o.path \in Path /\ o.to \in Side /\ From(o) \in Side /\ From(o) # o.to
      /\ tree \in [Side -> Tree] /\ tree[o.to] \in Tree /\ Sound(o)
  BY OperationParts
<1>1. tree[From(o)][o.path] = start[From(o)][o.path]
  <2>1. Unplanned(From(o), o.path)
    BY <1>0 DEF PlanShape, Unplanned
  <2> QED
    BY <1>0, <2>1 DEF LocalInv, Kept
<1>2. \A x \in todo : Applied(x) \/ Reported(x) => todo' = todo \ {x}
  BY DEF Applied, Reported
<1>3. ~ Reported(o)
  BY DEF Reported
<1>4. ASSUME NEW x \in todo, MakeRoom(x)
      PROVE  FALSE
  BY <1>3, <1>4 DEF MakeRoom, Reported, Applied
<1>5. ASSUME NEW x \in todo, CopyItem(x)
      PROVE  tree'[o.to][o.path] = start[From(o)][o.path]
  <2>1. x = o
    BY <1>2, <1>5 DEF CopyItem
  <2>2. tree' = [tree EXCEPT ![o.to] = Copied(tree[o.to], tree[From(o)], o.path)]
    BY <1>3, <1>5, <2>1 DEF CopyItem, On, From
  <2> QED
    BY <1>0, <1>1, <2>2 DEF Copied, Subtree
<1>6. ASSUME NEW x \in todo, CopyFails(x)
      PROVE  FALSE
  BY <1>3, <1>6 DEF CopyFails, Reported, Applied
<1>7. ASSUME NEW x \in todo, CreateDirectory(x)
      PROVE  tree'[o.to][o.path] = start[From(o)][o.path]
  <2>1. x = o
    BY <1>2, <1>7 DEF CreateDirectory
  <2>2. start[From(o)][o.path] = Dir
    BY <1>0, <1>7, <2>1 DEF CreateDirectory, Aims
  <2>3. CASE tree[o.to][o.path] = Absent
    <3>1. tree' = [tree EXCEPT ![o.to] = [WithParents(tree[o.to], o.path) EXCEPT ![o.path] = Dir]]
      BY <1>3, <1>7, <2>1, <2>3 DEF CreateDirectory, On
    <3> QED
      BY <1>0, <2>2, <3>1 DEF WithParents
  <2>4. CASE tree[o.to][o.path] # Absent
    <3>1. tree' = tree
      BY <1>7, <2>1, <2>4 DEF CreateDirectory
    <3>2. ~ Clash(o.path) /\ (From(o) = "a" \/ From(o) = "b")
      BY <1>0 DEF Clear, Side
    <3>3. start["a"][o.path] \notin FileData /\ start["b"][o.path] \notin FileData
      BY <1>0, <2>2, <3>2, EntryAssumption DEF Clash, InBoth
    <3>4. tree[o.to][o.path] \notin FileData
      BY <1>0, <3>3 DEF Kinds
    <3> QED
      BY <1>0, <2>2, <2>4, <3>1, <3>4 DEF Tree, Entry
  <2> QED
    BY <2>3, <2>4
<1>8. ASSUME NEW x \in todo, DeleteItem(x)
      PROVE  tree'[o.to][o.path] = start[From(o)][o.path]
  <2>1. x = o
    BY <1>2, <1>8 DEF DeleteItem
  <2>2. tree' = [tree EXCEPT ![o.to] = Removed(tree[o.to], o.path)]
    BY <1>3, <1>8, <2>1 DEF DeleteItem, On
  <2>3. start[From(o)][o.path] = Absent
    BY <1>0, <1>8, <2>1 DEF DeleteItem, Sound, Clear
  <2> QED
    BY <1>0, <2>2, <2>3 DEF Removed
<1> QED
  BY <1>4, <1>5, <1>6, <1>7, <1>8 DEF Execute

LEMMA ExecuteSynced ==
  ASSUME LocalInv, PlanShape, Kinds, Aims, Synced, Execute
  PROVE  Synced'
<1>1. /\ plan' = plan /\ start' = start /\ missed' = missed
      /\ tree' = tree \/ \E y \in todo : Touches(y)
  BY OneOperation DEF LocalInv
<1>2. errors \subseteq errors'
  BY DEF Execute, MakeRoom, CopyItem, CopyFails, CreateDirectory, DeleteItem, Reported
<1>3. \A p : Clear(p)' <=> Clear(p)
  BY <1>1 DEF Clear, Clash
<1> SUFFICES ASSUME NEW o \in plan, o \notin todo', Clear(o.path), ~ Blocked(o.path)'
             PROVE  tree'[o.to][o.path] = start[From(o)][o.path]
  BY <1>1, <1>3 DEF Synced, From
<1>4. o \notin errors' /\ ~ Blocked(o.path)
  BY <1>2 DEF Blocked, Subtree
<1>5. CASE o \in todo
  BY <1>4, <1>5, Brings
<1>6. CASE o \notin todo
  <2>1. tree[o.to][o.path] = start[From(o)][o.path]
    BY <1>4, <1>6 DEF Synced
  <2>2. ASSUME NEW y \in todo, NEW t \in Outcomes(y), tree' = [tree EXCEPT ![y.to] = t]
        PROVE  tree'[o.to][o.path] = start[From(o)][o.path]
    <3>1. y.to \in Side /\ tree \in [Side -> Tree]
      BY OperationParts
    <3>2. CASE o.to = y.to
      BY <1>6, <2>1, <2>2, <3>1, <3>2, BroughtStays
    <3>3. CASE o.to # y.to
      BY <2>1, <2>2, <3>1, <3>3
    <3> QED
      BY <3>2, <3>3
  <2> QED
    BY <1>1, <2>1, <2>2 DEF Touches
<1> QED
  BY <1>5, <1>6

LEMMA SyncedInit == Init => SyncedInv
<1> SUFFICES ASSUME Init PROVE SyncedInv
  OBVIOUS
<1>1. tree = start /\ plan = {} /\ todo = {} /\ pc = "idle"
  BY DEF Init
<1> QED
  BY <1>1 DEF SyncedInv, Aims, Synced

LEMMA SyncedNext == LocalInv /\ CleanInv /\ SyncedInv /\ [Next]_vars => SyncedInv'
<1> SUFFICES ASSUME LocalInv, CleanInv, SyncedInv, [Next]_vars PROVE SyncedInv'
  OBVIOUS
<1>0. TypeOK
  BY DEF LocalInv
<1>1. CASE Compare
  <2>1. Aims' /\ Covers'
    BY <1>0, <1>1, PlansAim
  <2>2. /\ tree' = tree /\ start' = tree /\ pc' \notin {"verify", "done"} /\ options' = options
        /\ todo' = IF "dryRun" \in options THEN {} ELSE plan'
    BY <1>1 DEF Compare
  <2> QED
    BY <2>1, <2>2 DEF SyncedInv, Synced
<1>2. ASSUME UNCHANGED <<mode, options, start, dates, plan>>, \A p : Clear(p)' => Clear(p), pc # "idle"
      PROVE  Aims' /\ Covers'
  <2>1. \A s, p : Wanted(s, p)' = Wanted(s, p)
    BY <1>2 DEF Wanted
  <2> QED
    BY <1>2, <2>1 DEF SyncedInv, Aims, Covers, From
<1>3. CASE Execute
  <2>1. UNCHANGED <<mode, options, start, dates, missed, plan>> /\ pc = "execute" /\ pc' = pc
    BY <1>3 DEF Execute, MakeRoom, CopyItem, CopyFails, CreateDirectory, DeleteItem, Current
  <2>2. Aims' /\ Covers'
    BY <1>2, <2>1 DEF Clear, Clash
  <2>3. "dryRun" \notin options
    BY <1>3 DEF Execute, SyncedInv
  <2>4. Synced'
    BY <1>3, <2>3, ExecuteSynced DEF SyncedInv, CleanInv
  <2> QED
    BY <2>1, <2>2, <2>3, <2>4 DEF SyncedInv
<1>4. CASE Crash
  <2>1. /\ UNCHANGED <<mode, options, start, dates, missed, plan, todo, errors>>
        /\ pc # "idle" /\ pc' = "crashed"
    BY <1>4 DEF Crash
  <2>2. Aims' /\ Covers'
    BY <1>2, <2>1 DEF Clear, Clash
  <2>3. tree' = tree \/ \E y \in todo : Touches(y)
    BY <1>0, <1>4, OneOperation
  <2>4. CASE "dryRun" \in options
    BY <2>1, <2>2, <2>3, <2>4 DEF SyncedInv
  <2>5. CASE "dryRun" \notin options
    <3> SUFFICES ASSUME NEW o \in plan, o \notin todo, Clear(o.path), ~ Blocked(o.path)
                 PROVE  tree'[o.to][o.path] = start[From(o)][o.path]
      BY <2>1, <2>2, <2>5 DEF SyncedInv, Synced, From, Clear, Clash, Blocked, Subtree
    <3>1. tree[o.to][o.path] = start[From(o)][o.path]
      BY <2>5 DEF SyncedInv, Synced
    <3>2. ASSUME NEW y \in todo, NEW t \in Outcomes(y), tree' = [tree EXCEPT ![y.to] = t]
          PROVE  tree'[o.to][o.path] = start[From(o)][o.path]
      <4>1. y.to \in Side /\ tree \in [Side -> Tree]
        BY OperationParts
      <4>2. CASE o.to = y.to
        BY <3>1, <3>2, <4>1, <4>2, BroughtStays DEF CleanInv
      <4>3. CASE o.to # y.to
        BY <3>1, <3>2, <4>1, <4>3
      <4> QED
        BY <4>2, <4>3
    <3> QED
      BY <2>3, <3>1, <3>2 DEF Touches
  <2> QED
    BY <2>4, <2>5
<1>5. CASE Finish \/ Verify \/ UNCHANGED vars
  <2>1. /\ UNCHANGED <<mode, options, start, dates, plan, tree, todo, errors>>
        /\ pc = "idle" => pc' = "idle"
        /\ pc' \in {"verify", "done"} => todo = {}
    BY <1>5 DEF Finish, Verify, vars, SyncedInv
  <2>2. \A p : Clear(p)' => Clear(p)
    <3>1. CASE Verify
      <4>1. \A s \in Side : missed[s] \subseteq missed'[s]
        BY <3>1 DEF Verify
      <4> QED
        BY <2>1, <4>1 DEF Clear, Clash
    <3>2. CASE Finish \/ UNCHANGED vars
      BY <3>2 DEF Finish, vars, Clear, Clash
    <3> QED
      BY <1>5, <3>1, <3>2
  <2>3. pc # "idle" => Aims' /\ Covers'
    BY <1>2, <2>1, <2>2
  <2>4. Aims'
    BY <2>1 DEF SyncedInv, Aims, From
  <2>5. Synced => Synced'
    BY <2>1, <2>2 DEF Synced, From, Blocked, Subtree
  <2>6. pc' # "idle" => Covers'
    BY <2>1, <2>3
  <2>7. IF "dryRun" \in options' THEN todo' = {} /\ tree' = start' ELSE Synced'
    BY <2>1, <2>5 DEF SyncedInv
  <2>8. pc' \in {"verify", "done"} => todo' = {}
    BY <2>1
  <2> QED
    BY <2>4, <2>6, <2>7, <2>8 DEF SyncedInv
<1> QED
  BY <1>1, <1>3, <1>4, <1>5 DEF Next

LEMMA SyncedIsSynced == LocalInv /\ SyncedInv => SyncedUnlessBlocked
<1> SUFFICES ASSUME LocalInv, SyncedInv, pc = "done", "dryRun" \notin options, NEW p \in Path, Clear(p),
                    \A o \in errors : p \notin Subtree(o.path), NEW s \in Side
             PROVE  tree[s][p] = Wanted(s, p)
  BY DEF SyncedInv, SyncedUnlessBlocked
<1>1. CASE Unplanned(s, p)
  <2>1. tree[s][p] = start[s][p]
    BY <1>1 DEF LocalInv, Kept
  <2>2. ASSUME NEW o \in plan, o.path = p
        PROVE  start[s][p] = Wanted(s, p)
    <3>1. From(o) = s
      BY <1>1, <2>2, Sides, TypeParts DEF Unplanned, From, LocalInv, PlanType, Operation
    <3> QED
      BY <2>2, <3>1 DEF LocalInv, PlanInv, Sound
  <2>3. (\A o \in plan : o.path # p) => start[s][p] = Wanted(s, p)
    BY DEF SyncedInv, Covers
  <2> QED
    BY <2>1, <2>2, <2>3
<1>2. CASE ~ Unplanned(s, p)
  <2>1. PICK o \in plan : o.path = p /\ o.to = s
    BY <1>2 DEF Unplanned
  <2>2. tree[s][p] = start[From(o)][p]
    BY <2>1 DEF SyncedInv, Synced, Blocked
  <2> QED
    BY <2>1, <2>2, BroughtIsWanted DEF SyncedInv
<1> QED
  BY <1>1, <1>2

(* After a run both sides are as the mode, the strategy and the options    *)
(* ask, but for what an error is reported for, what a scan has passed over *)
(* and names that are a file on one side and a directory on the other: in  *)
(* whatever order the operations came, and whatever failed.                *)
THEOREM SpecSyncedUnlessBlocked == Spec => []SyncedUnlessBlocked
  BY InitLocal, NextLocal, CleanInit, CleanNext, SyncedInit, SyncedNext, SyncedIsSynced, PTL DEF Spec

-----------------------------------------------------------------------------
(* What is lost                                                            *)

\* Directories lay over the path on the side an operation changes.
Rooted(o) == \A q \in Above[o.path] : start[o.to][q] = Dir

\* What is copied there is what there was: no operation the other way takes it away.
SourceTrue == \A o \in plan : o.act = "copy" /\ Rooted(o) =>
                  tree[From(o)][o.path] = start[From(o)][o.path]

\* The operation that has changed a path says so.
Accounts(o) ==
    \/ o.act = "delete" /\ o \notin todo
    \/ o \in errors
    \/ o.path = ready
    \/ o.act = "copy" /\ tree[o.to][o.path] = start[From(o)][o.path]

LossInv == SourceTrue /\ NothingLostSilently

LEMMA AccountsIs ==
  NothingLostSilently <=>
      \A s \in Side, p \in Path : pc # "idle" /\ start[s][p] # Absent /\ tree[s][p] # start[s][p] =>
          \E o \in plan : o.to = s /\ p \in Subtree(o.path) /\ Accounts(o)
  BY DEF NothingLostSilently, Accounts, From

LEMMA SourceTrueStays ==
  ASSUME LocalInv, PlanShape, Aims, SourceTrue, NEW y \in todo, Touches(y), UNCHANGED <<start, plan>>
  PROVE  SourceTrue'
<1> SUFFICES ASSUME NEW o \in plan, o.act = "copy", Rooted(o)
             PROVE  tree'[From(o)][o.path] = start[From(o)][o.path]
  BY DEF SourceTrue, Rooted, From
<1> DEFINE p == o.path
           q == y.path
           u == tree[y.to]
           w == tree[From(y)]
<1>0. /\ p \in Path /\ o.to \in Side /\ From(o) \in Side /\ Sound(o) /\ From(o) # o.to
      /\ y \in plan /\ q \in Path /\ y.to \in Side /\ From(y) \in Side /\ Sound(y)
      /\ y.act \in {"copy", "createDirectory", "delete"}
      /\ tree \in [Side -> Tree] /\ u \in Tree /\ Side = {y.to, From(y)}
      /\ WellFormed(start[o.to])
  BY OperationParts, Sides, TypeParts DEF LocalInv, PlanInv, PlanType, TreesType, Operation, From
<1>1. tree[From(o)][p] = start[From(o)][p] /\ start[From(o)][p] # Absent
  BY <1>0 DEF SourceTrue, Sound
<1>2. PICK t \in Outcomes(y) : tree' = [tree EXCEPT ![y.to] = t]
  BY DEF Touches
<1>3. CASE y.to # From(o)
  BY <1>0, <1>1, <1>2, <1>3
<1>4. CASE y.to = From(o)
  <2>1. y.act # "delete" /\ p # q /\ y # o /\ From(y) = o.to
    BY <1>0, <1>4 DEF PlanShape
  <2>2. y.act = "copy" => q \notin Above[p]
    <3>1. ASSUME y.act = "copy", q \in Above[p]
          PROVE  FALSE
      <4>1. start[From(y)][q] = Dir
        BY <2>1, <3>1 DEF Rooted
      <4>2. mode = "oneWay"
        BY <1>0, <3>1, <4>1 DEF Aims
      <4> QED
        BY <1>0, <1>4, <4>2 DEF Aims
    <3> QED
      BY <3>1
  <2>3. RoomMade(y) => y.act = "copy"
    BY <1>0 DEF RoomMade, PlanShape
  <2>4. y.act = "copy" => p \notin Subtree(q)
    BY <1>0, <2>1, <2>2 DEF Subtree, Below
  <2>5. p \in Above[q] => start[o.to][p] = Dir
    BY <1>0, <2>1 DEF Sound, WellFormed
  <2>6. u[p] = start[From(o)][p]
    BY <1>1, <1>4
  <2>7. ASSUME p \in Above[q], CanMakeParents(u, q)
        PROVE  u[p] = Dir
    BY <1>0, <1>1, <2>6, <2>7 DEF CanMakeParents, IsFile, Tree, Entry
  <2>8. t[p] = u[p]
    <3>1. CASE y.act = "copy" /\ CanHouse(u, q) /\ t = Removed(Housed(u, q), q)
      BY <1>0, <2>4, <2>7, <3>1 DEF Removed, Housed, CanHouse, WithParents, Subtree, Below
    <3>2. CASE /\ y.act = "copy"
               /\ t = Copied(u, w, q) \/ \E k \in Subtree(q) : t = PartlyCopied(u, w, q, k)
      BY <1>0, <2>4, <3>2 DEF Copied, PartlyCopied
    <3>3. CASE CanMakeParents(u, q) /\ t = [WithParents(u, q) EXCEPT ![q] = Dir]
      BY <1>0, <2>1, <2>7, <3>3 DEF WithParents
    <3>4. CASE y.act = "copy" /\ CanHouse(u, q) /\ t \in PartlyRemoved(Cleared(y), q)
      <4>1. Cleared(y)[p] = u[p] /\ Cleared(y) \in Tree
        BY <1>0, <2>7, <3>4, TreeOperations DEF Cleared, Housed, CanHouse, WithParents
      <4> QED
        BY <1>0, <2>4, <3>4, <4>1, PartOfItRemoved DEF Subtree
    <3> QED
      BY <1>2, <2>1, <2>3, <3>1, <3>2, <3>3, <3>4 DEF Outcomes, From
  <2> QED
    BY <1>0, <1>2, <1>4, <2>6, <2>8
<1> QED
  BY <1>3, <1>4

\* What is there stays unless it lies where an operation removes or copies.
LEMMA OthersStay ==
  ASSUME LocalInv, PlanShape, NEW y \in todo, NEW t \in Outcomes(y), NEW r \in Path,
         tree[y.to][r] # Absent, r \notin Subtree(y.path) \/ y.act = "createDirectory"
  PROVE  t[r] = tree[y.to][r]
<1> DEFINE q == y.path
           u == tree[y.to]
           w == tree[From(y)]
<1>0. q \in Path /\ u \in Tree /\ y \in plan /\ y.act \in {"copy", "createDirectory", "delete"}
  BY OperationParts
<1>1. r \in Above[q] /\ CanMakeParents(u, q) => u[r] = Dir
  BY <1>0 DEF CanMakeParents, IsFile, Tree, Entry
<1>2. RoomMade(y) => y.act = "copy"
  BY <1>0 DEF RoomMade, PlanShape
<1>3. CASE y.act = "delete" /\ t = Removed(u, q)
  BY <1>3 DEF Removed, Subtree, Below
<1>4. CASE y.act = "copy" /\ CanHouse(u, q) /\ t = Removed(Housed(u, q), q)
  BY <1>1, <1>4 DEF Removed, Housed, CanHouse, WithParents, Subtree, Below
<1>5. CASE y.act = "copy" /\ (t = Copied(u, w, q) \/ \E k \in Subtree(q) : t = PartlyCopied(u, w, q, k))
  BY <1>5 DEF Copied, PartlyCopied
<1>6. CASE u[q] = Absent /\ CanMakeParents(u, q) /\ t = [WithParents(u, q) EXCEPT ![q] = Dir]
  BY <1>0, <1>1, <1>6 DEF WithParents
<1>7. CASE /\ y.act = "delete" \/ (y.act = "copy" /\ CanHouse(u, q))
           /\ t \in PartlyRemoved(Cleared(y), q)
  <2>1. Cleared(y)[r] = u[r] /\ Cleared(y) \in Tree
    BY <1>0, <1>1, <1>7, TreeOperations DEF Cleared, Housed, CanHouse, WithParents
  <2> QED
    BY <1>0, <1>7, <2>1, PartOfItRemoved DEF Subtree
<1> QED
  BY <1>0, <1>2, <1>3, <1>4, <1>5, <1>6, <1>7 DEF Outcomes, From

LEMMA LossStep ==
  ASSUME LocalInv, PlanShape, NothingLostSilently, pc # "idle", NEW y \in todo,
         tree' = tree \/ Touches(y), UNCHANGED <<start, plan>>,
         todo' \subseteq todo, errors \subseteq errors',
         y.act # "createDirectory" /\ Rooted(y) => Accounts(y)',
         ready # 0 => y.act = "copy" /\ y.path = ready
  PROVE  NothingLostSilently'
<1> SUFFICES ASSUME NEW s \in Side, NEW p \in Path, start[s][p] # Absent, tree'[s][p] # start[s][p]
             PROVE  \E o \in plan : o.to = s /\ p \in Subtree(o.path) /\ Accounts(o)'
  BY DEF NothingLostSilently, Accounts, From, Subtree
<1>0. /\ y \in plan /\ y.path \in Path /\ y.to \in Side /\ tree \in [Side -> Tree]
      /\ start \in [Side -> Tree] /\ WellFormed(start[s])
      /\ \A o \in plan : o.path \in Path /\ Sound(o) /\ o.path # 0
  BY OperationParts, TypeParts DEF LocalInv, PlanInv, PlanType, TreesType, Operation, Path
<1>1. CASE y.act # "createDirectory" /\ y.to = s /\ p \in Subtree(y.path)
  <2>1. Rooted(y)
    BY <1>0, <1>1, WhereThingsLie DEF Rooted, WellFormed, Subtree, Below
  <2> QED
    BY <1>0, <1>1, <2>1
<1>2. CASE ~ (y.act # "createDirectory" /\ y.to = s /\ p \in Subtree(y.path))
  <2>1. ASSUME NEW r \in Path, tree[s][r] # Absent,
               ~ (y.act # "createDirectory" /\ y.to = s /\ r \in Subtree(y.path))
        PROVE  tree'[s][r] = tree[s][r]
    <3>1. ASSUME NEW t \in Outcomes(y), tree' = [tree EXCEPT ![y.to] = t]
          PROVE  tree'[s][r] = tree[s][r]
      <4>1. y.to = s => t[r] = tree[y.to][r]
        BY <2>1, OthersStay
      <4> QED
        BY <1>0, <3>1, <4>1
    <3> QED
      BY <3>1 DEF Touches
  <2>2. tree[s][p] # start[s][p]
    BY <1>2, <2>1
  <2>3. PICK o \in plan : o.to = s /\ p \in Subtree(o.path) /\ Accounts(o)
    BY <2>2, AccountsIs
  <2>4. CASE o.act = "delete" /\ o \notin todo
    BY <2>3, <2>4 DEF Accounts
  <2>5. CASE o \in errors
    BY <2>3, <2>5 DEF Accounts
  <2>6. o.path # ready
    <3>1. ASSUME o.path = ready
          PROVE  FALSE
      <4>1. y.act = "copy" /\ y.path = o.path
        BY <1>0, <3>1
      <4>2. y = o
        BY <1>0, <4>1 DEF PlanShape
      <4> QED
        BY <1>2, <2>3, <4>1, <4>2
    <3> QED
      BY <3>1
  <2>7. CASE o.act = "copy" /\ tree[o.to][o.path] = start[From(o)][o.path]
    <3>1. tree[s][o.path] # Absent
      BY <1>0, <2>3, <2>7 DEF Sound
    <3>2. o.path \in Subtree(y.path) => p \in Subtree(y.path)
      BY <1>0, <2>3, WhereThingsLie DEF Subtree, Below
    <3>3. tree'[s][o.path] = tree[s][o.path]
      BY <1>0, <1>2, <2>1, <3>1, <3>2
    <3> QED
      BY <2>3, <2>7, <3>3 DEF Accounts, From
  <2> QED
    BY <2>3, <2>4, <2>5, <2>6, <2>7 DEF Accounts
<1> QED
  BY <1>1, <1>2

LEMMA LossExecute ==
  ASSUME LocalInv, PlanShape, Aims, LossInv, Execute
  PROVE  LossInv'
<1>0. /\ UNCHANGED <<start, plan>> /\ pc # "idle"
      /\ SourceTrue /\ NothingLostSilently
  BY DEF LossInv, Execute, MakeRoom, CopyItem, CopyFails, CreateDirectory, DeleteItem, Current
<1> PICK y \in todo : MakeRoom(y) \/ CopyItem(y) \/ CopyFails(y) \/ CreateDirectory(y) \/ DeleteItem(y)
  BY DEF Execute
<1>1. /\ y \in plan /\ From(y) \in Side /\ From(y) # y.to /\ y.to \in Side /\ y.path \in Path
      /\ tree \in [Side -> Tree] /\ Current(y)
      /\ ready # 0 => y.act = "copy" /\ y.path = ready
  BY OperationParts, CopyInHand DEF MakeRoom, CopyItem, CopyFails, CreateDirectory, DeleteItem
<1>2. RoomMade(y) <=> y.act = "copy"
  BY <1>1 DEF RoomMade, PlanShape
<1>3. todo' \subseteq todo /\ errors \subseteq errors'
  BY DEF MakeRoom, CopyItem, CopyFails, CreateDirectory, DeleteItem, Applied, Reported
<1>4. ASSUME Reported(y)
      PROVE  Accounts(y)'
  BY <1>4 DEF Reported, Accounts
<1>5. CASE MakeRoom(y)
  <2>1. tree' = tree \/ Touches(y)
    BY <1>5, RemovalTouches DEF MakeRoom, Cleared, On, Touches, Outcomes
  <2>2. Accounts(y)'
    BY <1>4, <1>5 DEF MakeRoom, Accounts
  <2> QED
    BY <1>0, <1>1, <1>3, <2>1, <2>2, LossStep, SourceTrueStays DEF LossInv, SourceTrue, Rooted, From
<1>6. CASE CopyItem(y)
  <2>1. y.act = "copy"
    BY <1>1, <1>6 DEF CopyItem
  <2>2. tree' = tree \/ Touches(y)
    BY <1>2, <1>6, <2>1 DEF CopyItem, On, Touches, Outcomes
  <2>3. ASSUME Rooted(y)
        PROVE  Accounts(y)'
    <3>1. CASE ~ CanCopy(y)
      BY <1>4, <1>6, <3>1 DEF CopyItem
    <3>2. CASE CanCopy(y)
      <4>1. tree' = [tree EXCEPT ![y.to] = Copied(tree[y.to], tree[From(y)], y.path)]
        BY <1>6, <3>2 DEF CopyItem, On, From
      <4>2. tree'[y.to][y.path] = tree[From(y)][y.path]
        BY <1>1, <4>1 DEF Copied, Subtree
      <4> QED
        BY <1>0, <1>1, <2>1, <2>3, <4>2 DEF Accounts, SourceTrue, From
    <3> QED
      BY <3>1, <3>2
  <2> QED
    BY <1>0, <1>1, <1>3, <2>2, <2>3, LossStep, SourceTrueStays DEF LossInv, SourceTrue, Rooted, From
<1>7. CASE CopyFails(y)
  <2>1. y.act = "copy"
    BY <1>1, <1>7 DEF CopyFails
  <2>2. tree' = tree \/ Touches(y)
    BY <1>2, <1>7, <2>1 DEF CopyFails, Interrupted, On, Touches, Outcomes
  <2>3. Accounts(y)'
    BY <1>4, <1>7 DEF CopyFails
  <2> QED
    BY <1>0, <1>1, <1>3, <2>2, <2>3, LossStep, SourceTrueStays DEF LossInv, SourceTrue, Rooted, From
<1>8. CASE CreateDirectory(y)
  <2>1. tree' = tree \/ Touches(y)
    BY <1>8 DEF CreateDirectory, On, Touches, Outcomes
  <2>2. y.act = "createDirectory"
    BY <1>8 DEF CreateDirectory
  <2> QED
    BY <1>0, <1>1, <1>3, <2>1, <2>2, LossStep, SourceTrueStays DEF LossInv, SourceTrue, Rooted, From
<1>9. CASE DeleteItem(y)
  <2>1. tree' = tree \/ Touches(y)
    BY <1>9, RemovalTouches DEF DeleteItem, On, Touches, Outcomes
  <2>2. Accounts(y)'
    BY <1>4, <1>9 DEF DeleteItem, Applied, Accounts
  <2> QED
    BY <1>0, <1>1, <1>3, <2>1, <2>2, LossStep, SourceTrueStays DEF LossInv, SourceTrue, Rooted, From
<1> QED
  BY <1>5, <1>6, <1>7, <1>8, <1>9

LEMMA LossNext == LocalInv /\ LocalInv' /\ CleanInv /\ SyncedInv /\ LossInv /\ [Next]_vars => LossInv'
<1> SUFFICES ASSUME LocalInv, LocalInv', CleanInv, SyncedInv, LossInv, [Next]_vars PROVE LossInv'
  OBVIOUS
<1>1. ASSUME UNCHANGED <<tree, start, plan, todo, ready, errors>>, pc' = "idle" \/ pc # "idle"
      PROVE  LossInv'
  <2>1. SourceTrue'
    BY <1>1 DEF LossInv, SourceTrue, Rooted, From
  <2>2. NothingLostSilently'
    <3>1. CASE pc = "idle" /\ pc' = "idle"
      BY <3>1 DEF NothingLostSilently
    <3>2. CASE pc # "idle"
      BY <1>1, <3>2 DEF LossInv, NothingLostSilently, Subtree
    <3> QED
      BY <1>1, <3>1, <3>2 DEF NothingLostSilently
  <2> QED
    BY <2>1, <2>2 DEF LossInv
<1>2. CASE Compare
  <2>1. tree' = start'
    BY <1>2 DEF Compare
  <2> QED
    BY <2>1 DEF LossInv, SourceTrue, NothingLostSilently
<1>3. CASE Execute
  BY <1>3, LossExecute DEF CleanInv, SyncedInv
<1>4. CASE Crash
  <2>1. /\ UNCHANGED <<start, plan, todo, errors>> /\ pc # "idle"
        /\ \/ tree' = tree /\ ready' = ready
           \/ \E y \in todo : Current(y) /\ ready # 0 /\ Interrupted(y) /\ ready' = ready
           \/ \E y \in todo : /\ ready = 0 /\ y.act \in {"copy", "delete"}
                              /\ RemovalStops(y) /\ ready' = y.path
    BY <1>4 DEF Crash
  <2>2. CASE tree' = tree /\ ready' = ready
    BY <1>1, <2>1, <2>2
  <2>3. ASSUME NEW y \in todo, Current(y), ready # 0, Interrupted(y), ready' = ready
        PROVE  LossInv'
    <3>1. y.act = "copy" /\ y.path = ready /\ y \in plan
      BY <2>3, CopyInHand, OperationParts DEF CleanInv
    <3>2. tree' = tree \/ Touches(y)
      BY <2>3, <3>1 DEF Interrupted, On, Touches, Outcomes, RoomMade
    <3>3. Accounts(y)'
      BY <2>1, <2>3, <3>1 DEF Accounts
    <3> QED
      BY <2>2, <2>1, <2>3, <3>1, <3>2, <3>3, LossStep, SourceTrueStays DEF LossInv, CleanInv, SyncedInv,
         SourceTrue, Rooted, From
  <2>4. ASSUME NEW y \in todo, ready = 0, y.act \in {"copy", "delete"}, RemovalStops(y),
               ready' = y.path
        PROVE  LossInv'
    <3>1. Touches(y) /\ Accounts(y)'
      BY <2>4, RemovalTouches DEF Accounts
    <3> QED
      BY <2>1, <2>4, <3>1, LossStep, SourceTrueStays DEF LossInv, CleanInv, SyncedInv
  <2> QED
    BY <2>1, <2>2, <2>3, <2>4
<1>5. CASE Finish \/ Verify \/ UNCHANGED vars
  BY <1>1, <1>5 DEF Finish, Verify, vars
<1> QED
  BY <1>2, <1>3, <1>4, <1>5 DEF Next

(* What is no longer there or no longer the same has been deleted as       *)
(* planned, or is the other side's version now, or is the one in hand, or  *)
(* an error says so: whatever fails, and with names of two kinds as well.  *)
THEOREM SpecNothingLostSilently == Spec => []NothingLostSilently
<1>1. Init => LossInv
  BY DEF Init, LossInv, SourceTrue, NothingLostSilently
<1>2. LossInv => NothingLostSilently
  BY DEF LossInv
<1> QED
  BY <1>1, <1>2, InitLocal, NextLocal, CleanInit, CleanNext, SyncedInit, SyncedNext, LossNext, PTL DEF Spec
=============================================================================
