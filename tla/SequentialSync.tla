--------------------------- MODULE SequentialSync ---------------------------
(***************************************************************************)
(* What a push or a pull promises, with no network in it: somebody with    *)
(* the plan in hand carries it out on the target tree, operation by        *)
(* operation in the planned order, each at most once and none left out     *)
(* before another.  An operation can be refused, and the whole can be      *)
(* abandoned; it succeeds only when the last operation is over.            *)
(*                                                                         *)
(* NetSession, where the plan is on one machine and (in a push) the tree   *)
(* on another, implements this (NetRefinement).                            *)
(***************************************************************************)
EXTENDS NetPlan

VARIABLES pushing,  \* a push; else a pull
          tree,     \* the side that is changed
          tmp,      \* its temporary files
          goal,     \* the listing to reproduce, once there is something to do
          plan, applied, doing, refused, outcome

vars == <<pushing, tree, tmp, goal, plan, applied, doing, refused, outcome>>

Nothing == {}

Init ==
    /\ pushing \in BOOLEAN
    /\ tree \in Tree
    /\ tmp = [q \in TempPlace |-> Absent]
    /\ goal = [p \in Path |-> Absent]
    /\ plan = {} /\ applied = 0 /\ doing = Nothing
    /\ refused = FALSE /\ outcome = "planning"

\* The plan is made for the tree as it is, or as much of it as is seen.
MakePlan ==
    /\ outcome = "planning" /\ outcome' = "running"
    /\ \E src \in Listing, missed \in {{}} \cup Unreadable :
          /\ \E rank \in Orders(DestToSource(src, Listed(tree, missed))) :
                plan' = Plan(src, Listed(tree, missed), rank)
          /\ goal' = IF plan' = {} THEN goal ELSE src
    /\ UNCHANGED <<tree, tmp, applied, doing, refused>>

IsNext(o) == o \in plan /\ Cardinality({x \in plan : x.ord < o.ord}) = applied

Begin(o) == doing = Nothing /\ IsNext(o) /\ applied' = applied + 1

BeginTransfer(o) ==
    /\ o.act = "transfer" /\ Begin(o) /\ doing' = {o}
    /\ CanMakeParents(tree, o.to) /\ tree[o.to] # Dir
    /\ tree' = [WithParents(tree, o.to) EXCEPT ![o.to] = Torn]
    /\ UNCHANGED <<tmp, refused>>

BeginCopy(o) ==
    /\ o.act = "copy" /\ Begin(o) /\ doing' = {o}
    /\ o.to \in Path => CanMakeParents(tree, o.to)
    /\ tree' = IF o.to \in Path THEN Removed(WithParents(tree, o.to), o.to) ELSE tree
    /\ UNCHANGED <<tmp, refused>>

\* A pull leaves directories in place; deleting can go wrong unnoticed there.
DeleteNow(o) ==
    /\ o.act = "delete" /\ Begin(o) /\ doing' = Nothing
    /\ \/ /\ o.to \in Path /\ (pushing => tree[o.to] # Absent)
          /\ tree' = IF pushing THEN Pruned(Removed(tree, o.to), o.to) ELSE Removed(tree, o.to)
          /\ UNCHANGED tmp
       \/ o.to \in TempPlace /\ tmp' = [tmp EXCEPT ![o.to] = Absent] /\ UNCHANGED tree
       \/ (o.to \in TempPlace \/ ~ pushing) /\ UNCHANGED <<tree, tmp>>
    /\ UNCHANGED refused

\* Refused before it has done more than make directories.  A pull keeps no account
\* of that.
Skip(o) ==
    /\ Begin(o) /\ doing' = Nothing
    /\ \/ UNCHANGED tree
       \/ o.to \in Path /\ tree' = TryWithParents(tree, o.to)
    /\ refused' = pushing
    /\ UNCHANGED tmp

Finish(o) ==
    /\ doing = {o} /\ doing' = Nothing
    /\ IF o.act = "transfer"
       THEN tree' = [tree EXCEPT ![o.to] = goal[o.to]] /\ UNCHANGED tmp
       ELSE LET data == IF o.from \in Path THEN tree[o.from] ELSE tmp[o.from]
            IN  /\ data # Absent
                /\ IF o.to \in Path
                   THEN tree' \in ItemCopied(tree, o.from, data, o.to) /\ UNCHANGED tmp
                   ELSE tmp' = [tmp EXCEPT ![o.to] = data] /\ UNCHANGED tree
    /\ UNCHANGED <<applied, refused>>

\* Refused half way, or cut off there.
BreakOff(o) ==
    /\ doing = {o} /\ doing' = Nothing
    /\ refused' \in {refused, pushing}
    /\ UNCHANGED <<tree, tmp, applied>>

Operate ==
    \E o \in plan :
        /\ \/ BeginTransfer(o) \/ BeginCopy(o) \/ DeleteNow(o) \/ Skip(o) \/ Finish(o)
           \/ BreakOff(o)
        /\ UNCHANGED <<goal, plan>>
        /\ \/ UNCHANGED outcome
           \/ ~ pushing /\ outcome' = "failed"   \* the one who operates gives up

\* In a pull the one who notices that a file cannot be had goes on all the same.
Succeed ==
    /\ outcome = "running" /\ outcome' = "ok"
    /\ applied = Cardinality(plan) /\ doing = Nothing
    /\ pushing => ~ refused
    /\ UNCHANGED <<tree, tmp, goal, plan, applied, doing, refused>>

\* Whoever gave the command is gone; operations under way may still take effect.
Abandon ==
    /\ outcome \in {"planning", "running"} /\ outcome' = "failed"
    /\ doing' \in IF pushing THEN {doing} ELSE {Nothing}
    /\ UNCHANGED <<tree, tmp, goal, plan, applied, refused>>

Next ==
    /\ MakePlan \/ Operate \/ Succeed \/ Abandon
    /\ UNCHANGED pushing

Spec == Init /\ [][Next]_vars
=============================================================================
