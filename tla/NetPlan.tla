------------------------------ MODULE NetPlan ------------------------------
(***************************************************************************)
(* What SyncClient plans: computeOperations and resolveCopyCycles.  src is *)
(* the listing of the side that is mirrored, dst that of the side changed. *)
(*                                                                         *)
(* The plan is a set of operations, each with the place it has in the      *)
(* client's array (ord), so that no sequence has to be built.  A "place"   *)
(* is a path or, above NPaths, one of the temporary files .diffa_temp_*    *)
(* that live outside the synchronised tree.                                *)
(***************************************************************************)
EXTENDS FileTree, FiniteSetsExt

TempPlace == (NPaths + 1)..(2 * NPaths)
Place == Path \cup TempPlace

\* download / upload, copyLocal / copyRemote and delete, whichever the mode is
Op == [ord: Nat, act: {"transfer"}, from: {0}, to: Path]
      \cup [ord: Nat, act: {"delete"}, from: {0}, to: Place]
      \cup [ord: Nat, act: {"copy"}, from: Place, to: Place]

-----------------------------------------------------------------------------
(* computeOperations                                                       *)

\* (mutants) only what is missing is transferred; every file is
MissingOnly(src, dst) == {p \in Path : src[p] # Absent /\ dst[p] = Absent}
EveryFile(src, dst) == {p \in Path : src[p] # Absent}

NeedsTransfer(src, dst) == {p \in Path : src[p] # Absent /\ dst[p] # src[p]}

\* (mutant) what is to arrive is not indexed
FirstHolder(src, dst, p) ==
    LET holders == {q \in Path : dst[q] = src[p]}
    IN  IF holders # {} THEN Min(holders) ELSE p

\* The path the destination's hash index gives for what src has at p, when p's
\* turn comes: the first to hold it, else the first to be given it (p itself
\* when p is that one).
IndexedPath(src, dst, p) ==
    LET holders == {q \in Path : dst[q] = src[p]}
    IN  IF holders # {} THEN Min(holders)
        ELSE Min({q \in NeedsTransfer(src, dst) : src[q] = src[p]})

Copies(src, dst) == {p \in NeedsTransfer(src, dst) : IndexedPath(src, dst, p) # p}

DestToSource(src, dst) == [p \in Copies(src, dst) |-> IndexedPath(src, dst, p)]

-----------------------------------------------------------------------------
(* resolveCopyCycles                                                       *)

\* The chain walked from the copy destination p: 0 once a source is not itself
\* a copy destination.
Chain(d2s, p) ==
    LET walk[i \in 0..NPaths] ==
          IF i = 0 THEN p
          ELSE LET q == walk[i - 1]
               IN  IF q # 0 /\ d2s[q] \in DOMAIN d2s THEN d2s[q] ELSE 0
    IN  walk

OnCycle(d2s, p) == \E i \in 1..NPaths : Chain(d2s, p)[i] = p
CycleLength(d2s, p) == Min({i \in 1..NPaths : Chain(d2s, p)[i] = p})
Reached(d2s, p) == {q \in DOMAIN d2s : \E i \in 0..NPaths : Chain(d2s, p)[i] = q}
LeadsToCycle(d2s, p) == \E q \in Reached(d2s, p) : OnCycle(d2s, q)

\* chain.firstIndex(of: node): where a walk from p enters its cycle
CycleStart(d2s, p) ==
    Chain(d2s, p)[Min({i \in 0..NPaths : /\ Chain(d2s, p)[i] \in DOMAIN d2s
                                         /\ OnCycle(d2s, Chain(d2s, p)[i])})]

\* The order in which a Dictionary yields its keys is arbitrary.
Orders(d2s) == {r \in [DOMAIN d2s -> 1..Cardinality(DOMAIN d2s)] :
                    \A p, q \in DOMAIN d2s : r[p] = r[q] => p = q}

\* "visited" is consulted for the key a walk starts from, and for nothing else:
\* a walk from outside a cycle already found appends that cycle again.
WalksThatFind(d2s, rank) ==
    {p \in DOMAIN d2s :
        /\ \A q \in DOMAIN d2s : rank[q] < rank[p] => p \notin Reached(d2s, q)
        /\ LeadsToCycle(d2s, p)}

\* How far along its chain p first meets q.
Distance(d2s, p, q) == Min({i \in 0..NPaths : Chain(d2s, p)[i] = q})

\* (mutants) a cycle is copied along without a file saved; the saved file is left
CycleOpsUnsaved(d2s, rank, p) ==
    LET first == CycleStart(d2s, p)
    IN  {[ord |-> rank[p] * (NPaths + 2) + Distance(d2s, first, q), act |-> "copy",
          from |-> d2s[q], to |-> q] : q \in Reached(d2s, first)}

CycleOpsUncleaned(d2s, rank, p) ==
    LET first == CycleStart(d2s, p)
        n     == CycleLength(d2s, first)
        at(i) == rank[p] * (NPaths + 2) + i
    IN  {[ord |-> at(0), act |-> "copy", from |-> d2s[first], to |-> NPaths + p],
         [ord |-> at(n), act |-> "copy", from |-> NPaths + p, to |-> first]}
        \cup {[ord |-> at(Distance(d2s, first, q)), act |-> "copy", from |-> d2s[q], to |-> q] :
                  q \in Reached(d2s, first) \ {first}}

\* The operations emitted for the cycle found by the walk from p: the first
\* source is saved, the others are copied in the order of the chain (none has been
\* overwritten yet), the saved one is put in place.
CycleOps(d2s, rank, p) ==
    LET first == CycleStart(d2s, p)
        n     == CycleLength(d2s, first)
        tmp   == NPaths + p
        at(i) == rank[p] * (NPaths + 2) + i
    IN  {[ord |-> at(0), act |-> "copy", from |-> d2s[first], to |-> tmp],
         [ord |-> at(n), act |-> "copy", from |-> tmp, to |-> first],
         [ord |-> at(n + 1), act |-> "delete", from |-> 0, to |-> tmp]}
        \cup {[ord |-> at(Distance(d2s, first, q)), act |-> "copy", from |-> d2s[q], to |-> q] :
                  q \in Reached(d2s, first) \ {first}}

-----------------------------------------------------------------------------
AfterCycles == (NPaths + 1) * (NPaths + 2)

Plan(src, dst, rank) ==
    LET d2s == DestToSource(src, dst)
        walks == WalksThatFind(d2s, rank)
        inCycles == {q \in DOMAIN d2s : OnCycle(d2s, q)}
    IN  (UNION {CycleOps(d2s, rank, p) : p \in walks})
        \cup {[ord |-> AfterCycles + p, act |-> "copy", from |-> d2s[p], to |-> p] :
                  p \in DOMAIN d2s \ inCycles}
        \cup {[ord |-> AfterCycles + p, act |-> "transfer", from |-> 0, to |-> p] :
                  p \in NeedsTransfer(src, dst) \ DOMAIN d2s}
        \cup {[ord |-> AfterCycles + NPaths + p, act |-> "delete", from |-> 0, to |-> p] :
                  p \in {q \in Path : dst[q] # Absent /\ src[q] = Absent}}

\* Operations that read a place after an earlier one has put something there
\* that is not what they are to deliver.
WantedAt(src, plan, o) ==
    IF o.to \in Path THEN src[o.to]
    ELSE LET users == {u \in plan : u.act = "copy" /\ u.from = o.to}
         IN  src[(CHOOSE u \in users : TRUE).to]

Overtaken(src, plan) ==
    {o \in plan : /\ o.act = "copy" /\ o.from \in Path
                  /\ \E w \in plan : /\ w.ord < o.ord /\ w.to = o.from
                                     /\ src[w.to] # WantedAt(src, plan, o)}
=============================================================================
