------------------------------- MODULE PlanRun -------------------------------
(***************************************************************************)
(* NetPlan's algorithm on its own: a plan is carried out on the            *)
(* destination, one whole operation at a time, nothing failing, no         *)
(* directories; what comes out is compared with the source.                *)
(***************************************************************************)
EXTENDS NetPlan

VARIABLES source, target,  \* the two listings
          ops,     \* what computeOperations made of them
          left,    \* what is still to do
          store    \* the destination and its temporary files

runVars == <<source, target, ops, left, store>>

RunFiles == [Path -> Content \cup {Absent}]

RunInit ==
    /\ source \in RunFiles /\ target \in RunFiles
    /\ \E rank \in Orders(DestToSource(source, target)) : ops = Plan(source, target, rank)
    /\ left = ops
    /\ store = [q \in Place |-> IF q \in Path THEN target[q] ELSE Absent]

Execute ==
    \E o \in left :
        /\ \A x \in left : o.ord <= x.ord
        /\ left' = left \ {o}
        /\ store' = [store EXCEPT ![o.to] = CASE o.act = "copy" -> store[o.from]
                                            [] o.act = "transfer" -> source[o.to]
                                            [] o.act = "delete" -> Absent]
        /\ UNCHANGED <<source, target, ops>>

RunNext == Execute

RunSpec == RunInit /\ [][RunNext]_runVars

-----------------------------------------------------------------------------
Mirrored == \A p \in Path : store[p] = source[p]

\* The destination is what the source is, unless an operation of the plan reads a
\* file after another has overwritten it.
MirroredUnlessOvertaken == left = {} /\ Overtaken(source, ops) = {} => Mirrored

\* Copies that form cycles and nothing else come out right, in whatever order the
\* dictionary yields the paths (docs/network-copy-optimization.md, "Copy Cycle
\* Resolution").
CyclesResolved ==
    LET d2s == DestToSource(source, target)
    IN  left = {} /\ (\A p \in DOMAIN d2s : OnCycle(d2s, p)) => Mirrored

\* "If a file needs transfer and the desired content hash already exists on the
\* destination, copy locally": what is sent is content the destination has
\* nowhere, each such content once.
TransfersOnlyNewContent ==
    \A o \in ops : o.act = "transfer" =>
        /\ \A q \in Path : target[q] # source[o.to]
        /\ \A x \in ops : x.act = "transfer" /\ source[x.to] = source[o.to] => x = o

\* A file both sides have with the same content is not touched, not even for a
\* while: no cycle passes through it.
SharedFilesStay == \A p \in Path : source[p] = target[p] => store[p] = source[p]

\* No temporary file is left over when the plan is done.
TempsGone == left = {} => \A q \in TempPlace : store[q] = Absent
=============================================================================
