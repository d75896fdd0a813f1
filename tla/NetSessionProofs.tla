-------------------------- MODULE NetSessionProofs --------------------------
(***************************************************************************)
(* Of the plan, for any number of paths: only paths on which the two sides *)
(* differ are written, all of them are, only content the destination does  *)
(* not have is sent, each cycle of copies is found and its temporary file  *)
(* deleted; what carrying a plan out (PlanRun) leaves behind; and what is  *)
(* at the places it is about meanwhile.                                    *)
(*                                                                         *)
(* Of sessions, for any number of them, of clients and paths, any window   *)
(* and any number of faults: the type invariant of NetSession; that the    *)
(* two ends of a connection stay in step, and therefore a push that        *)
(* reports success had nothing refused.  Of a session by itself, that it   *)
(* leaves the files alone that match, and damages at most one of the       *)
(* others.                                                                 *)
(***************************************************************************)
EXTENDS PlanRun, NetProperties, FileTreeProofs, SequenceTheorems, FiniteSetTheorems,
        WellFoundedInduction, TLAPS

Less == {ss \in Nat \X Nat : ss[1] < ss[2]}

LEMMA LessWellFounded == IsWellFoundedOn(Less, Nat)
  BY NatLessThanWellFounded DEF Less, OpToRel

\* Min chooses what its name says from every non-empty set of natural numbers.
LEMMA MinIsLeast ==
  ASSUME NEW S \in SUBSET Nat, S # {}
  PROVE  Min(S) \in S /\ \A y \in S : Min(S) <= y
<1>1. PICK x \in S : \A y \in S : <<y, x>> \notin Less
  <2>1. S \subseteq Nat
    OBVIOUS
  <2> QED
    BY LessWellFounded, WFMin, <2>1
<1>2. \A m, n \in Nat : n < m => <<n, m>> \in Less
  BY DEF Less
<1>3. \A y \in S : ~ (y < x)
  BY <1>1, <1>2
<1>4. \A y \in S : x <= y
  BY <1>3
<1> QED
  BY <1>4 DEF Min

LEMMA PathsAreNumbers == Path \subseteq Nat /\ TempPlace \subseteq Nat /\ Path \cap TempPlace = {}
  BY PathAssumption DEF Path, TempPlace

\* The hash index answers with a path, and the content found there is the content
\* wanted: already on the destination, or sent there by this very plan.
LEMMA IndexedPathHasContent ==
  ASSUME NEW src \in Listing, NEW dst \in Listing, NEW p \in NeedsTransfer(src, dst)
  PROVE  LET q == IndexedPath(src, dst, p)
         IN  /\ q \in Path
             /\ \/ dst[q] = src[p]
                \/ /\ q \in NeedsTransfer(src, dst) /\ src[q] = src[p]
                   /\ \A r \in Path : dst[r] # src[p]
<1> DEFINE holders == {q \in Path : dst[q] = src[p]}
           wanting == {q \in NeedsTransfer(src, dst) : src[q] = src[p]}
<1>1. holders \in SUBSET Nat /\ wanting \in SUBSET Nat /\ p \in wanting
  BY PathsAreNumbers DEF NeedsTransfer
<1>2. CASE holders # {}
  <2>1. Min(holders) \in holders
    BY <1>1, <1>2, MinIsLeast
  <2> QED
    BY <2>1, <1>2 DEF IndexedPath
<1>3. CASE holders = {}
  <2>1. Min(wanting) \in wanting
    BY <1>1, MinIsLeast
  <2>2. IndexedPath(src, dst, p) = Min(wanting)
    BY <1>3 DEF IndexedPath
  <2> QED
    BY <2>1, <2>2, <1>3 DEF NeedsTransfer
<1> QED
  BY <1>2, <1>3

LEMMA CopiesNeedTransfer ==
  ASSUME NEW src \in Listing, NEW dst \in Listing
  PROVE  /\ DOMAIN DestToSource(src, dst) = Copies(src, dst)
         /\ Copies(src, dst) \subseteq NeedsTransfer(src, dst)
         /\ NeedsTransfer(src, dst) \subseteq Path
         /\ DestToSource(src, dst) \in [Copies(src, dst) -> Path]
<1>1. \A p \in Copies(src, dst) : IndexedPath(src, dst, p) \in Path
  BY IndexedPathHasContent DEF Copies
<1> QED
  BY <1>1 DEF DestToSource, Copies, NeedsTransfer

\* Numbers the dictionary order gives to the paths.
LEMMA RankIsNat ==
  ASSUME NEW src \in Listing, NEW dst \in Listing,
         NEW rank \in Orders(DestToSource(src, dst)), NEW p \in Copies(src, dst)
  PROVE  rank[p] \in Nat
<1>1. IsFiniteSet(Path)
  BY PathAssumption, FS_Interval DEF Path
<1>2. IsFiniteSet(Copies(src, dst))
  BY <1>1, FS_Subset, CopiesNeedTransfer
<1>3. Cardinality(Copies(src, dst)) \in Nat
  BY <1>2, FS_CardinalityType
<1>4. rank \in [Copies(src, dst) -> 1..Cardinality(Copies(src, dst))]
  BY CopiesNeedTransfer DEF Orders
<1> QED
  BY <1>3, <1>4

\* Where the walk from p enters a cycle there is a copy destination that lies on
\* the cycle, at a finite distance from itself and from the rest of it.
LEMMA CycleStartOnCycle ==
  ASSUME NEW d2s, NEW p \in DOMAIN d2s, LeadsToCycle(d2s, p)
  PROVE  LET first == CycleStart(d2s, p)
         IN  /\ first \in DOMAIN d2s
             /\ CycleLength(d2s, first) \in Nat
             /\ \A q \in Reached(d2s, first) : Distance(d2s, first, q) \in Nat
<1> DEFINE entries == {i \in 0..NPaths : /\ Chain(d2s, p)[i] \in DOMAIN d2s
                                         /\ OnCycle(d2s, Chain(d2s, p)[i])}
           first == CycleStart(d2s, p)
<1>1. entries \in SUBSET Nat /\ entries # {}
  BY PathAssumption DEF LeadsToCycle, Reached
<1>2. Min(entries) \in entries
  BY <1>1, MinIsLeast
<1>3. first = Chain(d2s, p)[Min(entries)]
  BY DEF CycleStart
<1>4. first \in DOMAIN d2s /\ OnCycle(d2s, first)
  BY <1>2, <1>3
<1> HIDE DEF entries, first
<1>5. CycleLength(d2s, first) \in Nat
  <2> DEFINE lengths == {i \in 1..NPaths : Chain(d2s, first)[i] = first}
  <2>1. lengths \in SUBSET Nat /\ lengths # {}
    BY <1>4, PathAssumption DEF OnCycle
  <2> QED
    BY <2>1, MinIsLeast DEF CycleLength
<1>6. ASSUME NEW q \in Reached(d2s, first) PROVE Distance(d2s, first, q) \in Nat
  <2> DEFINE steps == {i \in 0..NPaths : Chain(d2s, first)[i] = q}
  <2>1. steps \in SUBSET Nat /\ steps # {}
    BY PathAssumption DEF Reached
  <2> QED
    BY <2>1, MinIsLeast DEF Distance
<1> QED
  BY <1>4, <1>5, <1>6 DEF first

\* What a cycle adds to the plan: operations, on its own temporary file and on
\* copy destinations.
LEMMA CycleOpsAreOps ==
  ASSUME NEW src \in Listing, NEW dst \in Listing,
         NEW rank \in Orders(DestToSource(src, dst)),
         NEW p \in WalksThatFind(DestToSource(src, dst), rank),
         NEW o \in CycleOps(DestToSource(src, dst), rank, p)
  PROVE  o \in Op /\ (o.to \in TempPlace \/ o.to \in Copies(src, dst)) /\ o.act # "transfer"
<1> DEFINE d2s == DestToSource(src, dst)
           first == CycleStart(d2s, p)
           at(i) == rank[p] * (NPaths + 2) + i
<1>1. p \in Copies(src, dst) /\ LeadsToCycle(d2s, p) /\ p \in DOMAIN d2s
  BY CopiesNeedTransfer DEF WalksThatFind
<1>2. /\ first \in Copies(src, dst)
      /\ CycleLength(d2s, first) \in Nat
      /\ \A q \in Reached(d2s, first) : Distance(d2s, first, q) \in Nat
  BY <1>1, CycleStartOnCycle, CopiesNeedTransfer
<1>3. rank[p] \in Nat
  BY <1>1, RankIsNat
<1>4. p \in 1..NPaths
  BY <1>1, CopiesNeedTransfer DEF Path
<1>5. NPaths + p \in TempPlace
  BY <1>4, PathAssumption DEF TempPlace
<1>6. \A i \in Nat : at(i) \in Nat
  BY <1>3, PathAssumption
<1>7. \A q \in Copies(src, dst) : q \in Path /\ d2s[q] \in Path
  BY CopiesNeedTransfer
<1>8. Reached(d2s, first) \subseteq Copies(src, dst)
  BY CopiesNeedTransfer DEF Reached
<1> HIDE DEF d2s, first
<1>9. CASE o = [ord |-> at(0), act |-> "copy", from |-> d2s[first], to |-> NPaths + p]
  BY <1>9, <1>2, <1>5, <1>6, <1>7 DEF Op, Place
<1>10. CASE o = [ord |-> at(CycleLength(d2s, first)), act |-> "copy",
                 from |-> NPaths + p, to |-> first]
  BY <1>10, <1>2, <1>5, <1>6, <1>7 DEF Op, Place
<1>11. CASE o = [ord |-> at(CycleLength(d2s, first) + 1), act |-> "delete",
                 from |-> 0, to |-> NPaths + p]
  <2>1. CycleLength(d2s, first) + 1 \in Nat
    BY <1>2
  <2> QED
    BY <1>11, <2>1, <1>5, <1>6 DEF Op, Place
<1>12. CASE \E q \in Reached(d2s, first) \ {first} :
              o = [ord |-> at(Distance(d2s, first, q)), act |-> "copy",
                   from |-> d2s[q], to |-> q]
  BY <1>12, <1>2, <1>6, <1>7, <1>8 DEF Op, Place
<1> QED
  BY <1>9, <1>10, <1>11, <1>12 DEF CycleOps, d2s, first

\* The operations outside the cycles.
LEMMA PlanCases ==
  ASSUME NEW src \in Listing, NEW dst \in Listing,
         NEW rank \in Orders(DestToSource(src, dst)), NEW o \in Plan(src, dst, rank)
  PROVE  \/ \E p \in WalksThatFind(DestToSource(src, dst), rank) :
               o \in CycleOps(DestToSource(src, dst), rank, p)
         \/ \E p \in Copies(src, dst) :
               o = [ord |-> AfterCycles + p, act |-> "copy",
                    from |-> DestToSource(src, dst)[p], to |-> p]
         \/ \E p \in NeedsTransfer(src, dst) \ Copies(src, dst) :
               o = [ord |-> AfterCycles + p, act |-> "transfer", from |-> 0, to |-> p]
         \/ \E p \in Path : /\ dst[p] # Absent /\ src[p] = Absent
                            /\ o = [ord |-> AfterCycles + NPaths + p, act |-> "delete",
                                    from |-> 0, to |-> p]
<1>1. DOMAIN DestToSource(src, dst) = Copies(src, dst)
  BY CopiesNeedTransfer
<1> QED
  BY <1>1 DEF Plan

\* Every operation of a plan is well formed, and a path is only written or deleted
\* if the two sides differ there (computeOperations, needsTransfer): for any
\* number of paths, whatever cycles the copies form.
THEOREM PlanWritesOnlyDifferences ==
  ASSUME NEW src \in Listing, NEW dst \in Listing,
         NEW rank \in Orders(DestToSource(src, dst)), NEW o \in Plan(src, dst, rank)
  PROVE  o \in Op /\ (o.to \in Path => src[o.to] # dst[o.to])
<1> DEFINE base == AfterCycles
<1>1. base \in Nat
  BY PathAssumption DEF AfterCycles
<1>2. \A p \in Path : p \in Nat /\ base + p \in Nat /\ base + NPaths + p \in Nat
  BY <1>1, PathAssumption DEF Path
<1> HIDE DEF base
<1>3. \A p \in NeedsTransfer(src, dst) : p \in Path /\ src[p] # dst[p]
  BY DEF NeedsTransfer
<1>4. ASSUME NEW p \in WalksThatFind(DestToSource(src, dst), rank),
             o \in CycleOps(DestToSource(src, dst), rank, p)
      PROVE  o \in Op /\ (o.to \in Path => src[o.to] # dst[o.to])
  <2>1. o \in Op /\ (o.to \in TempPlace \/ o.to \in Copies(src, dst))
    BY <1>4, CycleOpsAreOps
  <2> QED
    BY <2>1, <1>3, CopiesNeedTransfer, PathsAreNumbers
<1>5. ASSUME NEW p \in Copies(src, dst),
             o = [ord |-> base + p, act |-> "copy",
                  from |-> DestToSource(src, dst)[p], to |-> p]
      PROVE  o \in Op /\ (o.to \in Path => src[o.to] # dst[o.to])
  <2>1. p \in Path /\ src[p] # dst[p] /\ DestToSource(src, dst)[p] \in Path
    BY <1>3, CopiesNeedTransfer
  <2> QED
    BY <2>1, <1>5, <1>2 DEF Op, Place
<1>6. ASSUME NEW p \in NeedsTransfer(src, dst),
             o = [ord |-> base + p, act |-> "transfer", from |-> 0, to |-> p]
      PROVE  o \in Op /\ (o.to \in Path => src[o.to] # dst[o.to])
  BY <1>6, <1>3, <1>2 DEF Op, Place
<1>7. ASSUME NEW p \in Path, dst[p] # Absent, src[p] = Absent,
             o = [ord |-> base + NPaths + p, act |-> "delete", from |-> 0, to |-> p]
      PROVE  o \in Op /\ (o.to \in Path => src[o.to] # dst[o.to])
  BY <1>7, <1>2 DEF Op, Place
<1> QED
  BY <1>4, <1>5, <1>6, <1>7, PlanCases DEF base

\* Only what the source does not list is deleted, but for temporary files.
LEMMA PlanDeletesOnlyExtra ==
  ASSUME NEW src \in Listing, NEW dst \in Listing,
         NEW rank \in Orders(DestToSource(src, dst)), NEW o \in Plan(src, dst, rank),
         o.act = "delete", o.to \in Path
  PROVE  src[o.to] = Absent
<1>1. ASSUME NEW p \in WalksThatFind(DestToSource(src, dst), rank),
             o \in CycleOps(DestToSource(src, dst), rank, p)
      PROVE  FALSE
  <2>1. p \in Path
    BY CopiesNeedTransfer DEF WalksThatFind
  <2>2. o.to = NPaths + p
    BY <1>1 DEF CycleOps
  <2> QED
    BY <2>1, <2>2, PathAssumption DEF Path
<1> QED
  BY <1>1, PlanCases

COROLLARY PlanIsOps ==
  ASSUME NEW src \in Listing, NEW dst \in Listing,
         NEW rank \in Orders(DestToSource(src, dst))
  PROVE  Plan(src, dst, rank) \subseteq Op
  BY PlanWritesOnlyDifferences

\* Content crosses the network only if the destination has it nowhere, and then
\* once ("If a file needs transfer and the desired content hash already exists on
\* the destination, copy locally", docs/network-copy-optimization.md).
THEOREM PlanTransfersOnlyNewContent ==
  ASSUME NEW src \in Listing, NEW dst \in Listing,
         NEW rank \in Orders(DestToSource(src, dst)),
         NEW o \in Plan(src, dst, rank), o.act = "transfer"
  PROVE  /\ \A q \in Path : dst[q] # src[o.to]
         /\ \A x \in Plan(src, dst, rank) :
               x.act = "transfer" /\ src[x.to] = src[o.to] => x = o
<1>1. ASSUME NEW x \in Plan(src, dst, rank), x.act = "transfer"
      PROVE  /\ x.to \in NeedsTransfer(src, dst) /\ IndexedPath(src, dst, x.to) = x.to
             /\ x = [ord |-> AfterCycles + x.to, act |-> "transfer", from |-> 0, to |-> x.to]
  <2>1. \A p \in WalksThatFind(DestToSource(src, dst), rank) :
           x \notin CycleOps(DestToSource(src, dst), rank, p)
    BY <1>1, CycleOpsAreOps
  <2>2. PICK p \in NeedsTransfer(src, dst) \ Copies(src, dst) :
           x = [ord |-> AfterCycles + p, act |-> "transfer", from |-> 0, to |-> p]
    BY <1>1, <2>1, PlanCases
  <2> QED
    BY <2>2 DEF Copies
<1>2. ASSUME NEW p \in NeedsTransfer(src, dst), IndexedPath(src, dst, p) = p
      PROVE  /\ \A q \in Path : dst[q] # src[p]
             /\ p = Min({q \in NeedsTransfer(src, dst) : src[q] = src[p]})
  <2>1. dst[p] # src[p]
    BY DEF NeedsTransfer
  <2>2. \A q \in Path : dst[q] # src[p]
    BY <1>2, <2>1, IndexedPathHasContent
  <2>3. {q \in Path : dst[q] = src[p]} = {}
    BY <2>2
  <2> QED
    BY <1>2, <2>2, <2>3 DEF IndexedPath
<1>3. ASSUME NEW x \in Plan(src, dst, rank), x.act = "transfer", src[x.to] = src[o.to]
      PROVE  x = o
  <2> DEFINE sharing == {q \in NeedsTransfer(src, dst) : src[q] = src[o.to]}
  <2>1. x.to = Min(sharing)
    BY <1>1, <1>2, <1>3
  <2>2. o.to = Min(sharing)
    BY <1>1, <1>2
  <2> HIDE DEF sharing
  <2> QED
    BY <1>1, <1>3, <2>1, <2>2
<1> QED
  BY <1>1, <1>2, <1>3


\* Whatever fills a temporary file, the same plan deletes that file later
\* (resolveCopyCycles ends every cycle it emits with the delete of its .diffa_temp_*).
THEOREM PlanCleansTemps ==
  ASSUME NEW src \in Listing, NEW dst \in Listing,
         NEW rank \in Orders(DestToSource(src, dst)),
         NEW o \in Plan(src, dst, rank), o.to \in TempPlace, o.act # "delete"
  PROVE  \E d \in Plan(src, dst, rank) : d.act = "delete" /\ d.to = o.to /\ o.ord < d.ord
<1> DEFINE d2s == DestToSource(src, dst)
<1>1. Copies(src, dst) \subseteq Path /\ NeedsTransfer(src, dst) \subseteq Path
  BY CopiesNeedTransfer
<1>2. PICK p \in WalksThatFind(d2s, rank) : o \in CycleOps(d2s, rank, p)
  <2>1. o.to \notin Path
    BY PathsAreNumbers
  <2>2. ASSUME NEW q \in Path,
               \/ \E m, f : o = [ord |-> m, act |-> "copy", from |-> f, to |-> q]
               \/ \E m : o = [ord |-> m, act |-> "transfer", from |-> 0, to |-> q]
               \/ \E m : o = [ord |-> m, act |-> "delete", from |-> 0, to |-> q]
        PROVE  FALSE
    BY <2>1, <2>2
  <2> QED
    BY <1>1, <2>2, PlanCases
<1> DEFINE first == CycleStart(d2s, p)
           n == CycleLength(d2s, first)
           at(i) == rank[p] * (NPaths + 2) + i
           last == [ord |-> at(n + 1), act |-> "delete", from |-> 0, to |-> NPaths + p]
<1>3. p \in Copies(src, dst) /\ LeadsToCycle(d2s, p) /\ p \in DOMAIN d2s
  BY CopiesNeedTransfer DEF WalksThatFind
<1>4. first \in Copies(src, dst) /\ n \in Nat
  BY <1>3, CycleStartOnCycle, CopiesNeedTransfer
<1>5. Reached(d2s, first) \subseteq Copies(src, dst)
  BY CopiesNeedTransfer DEF Reached
<1>6. last \in CycleOps(d2s, rank, p)
  BY DEF CycleOps
<1>7. CycleOps(d2s, rank, p) \subseteq Plan(src, dst, rank)
  BY <1>2 DEF Plan
<1>8. rank[p] * (NPaths + 2) \in Nat
  <2>1. rank[p] \in Nat
    BY <1>3, RankIsNat
  <2> QED
    BY <2>1, PathAssumption
<1>9. o = [ord |-> at(0), act |-> "copy", from |-> d2s[first], to |-> NPaths + p]
  <2>1. o.to # first /\ o.to \notin Reached(d2s, first)
    BY <1>1, <1>4, <1>5, PathsAreNumbers
  <2>2. \/ o = [ord |-> at(0), act |-> "copy", from |-> d2s[first], to |-> NPaths + p]
        \/ o = [ord |-> at(n), act |-> "copy", from |-> NPaths + p, to |-> first]
        \/ o = last
        \/ \E q \in Reached(d2s, first) \ {first} :
              o = [ord |-> at(Distance(d2s, first, q)), act |-> "copy", from |-> d2s[q], to |-> q]
    BY <1>2 DEF CycleOps
  <2> HIDE DEF d2s, first, n, at
  <2> QED
    BY <2>1, <2>2
<1> HIDE DEF d2s, first, n
<1>10. at(0) < at(n + 1)
  BY <1>4, <1>8
<1> QED
  BY <1>6, <1>7, <1>9, <1>10 DEF d2s

-----------------------------------------------------------------------------
(* Chains of copies                                                        *)

LEMMA CountingUp ==
  ASSUME NEW S \in SUBSET Nat, 0 \in S, \A n \in S : n + 1 \in S
  PROVE  S = Nat
<1> SUFFICES ASSUME Nat \ S # {} PROVE FALSE
  OBVIOUS
<1> DEFINE m == Min(Nat \ S)
<1>1. m \in Nat \ S /\ \A y \in Nat \ S : m <= y
  BY MinIsLeast
<1> HIDE DEF m
<1>2. m - 1 \in Nat
  BY <1>1
<1>3. m - 1 \in S
  BY <1>1, <1>2
<1>4. m = (m - 1) + 1
  BY <1>1
<1> QED
  BY <1>1, <1>3, <1>4

ChainStep(d2s, q) == IF q # 0 /\ d2s[q] \in DOMAIN d2s THEN d2s[q] ELSE 0

\* The chain from p is what its definition says.
LEMMA ChainUnfolds ==
  ASSUME NEW d2s, NEW p
  PROVE  Chain(d2s, p) =
           [i \in 0..NPaths |-> IF i = 0 THEN p ELSE ChainStep(d2s, Chain(d2s, p)[i - 1])]
<1> DEFINE Walk(f, n) == f = [i \in 0..n |-> IF i = 0 THEN p ELSE ChainStep(d2s, f[i - 1])]
           S == {n \in Nat : \E f : Walk(f, n)}
<1>1. 0 \in S
  <2> DEFINE f == [i \in 0..0 |-> p]
  <2>1. Walk(f, 0)
    OBVIOUS
  <2> QED
    BY <2>1
<1>2. ASSUME NEW n \in S PROVE n + 1 \in S
  <2>1. PICK f : Walk(f, n)
    OBVIOUS
  <2> DEFINE g == [i \in 0..(n + 1) |-> IF i \in 0..n THEN f[i] ELSE ChainStep(d2s, f[n])]
  <2>2. n \in Nat
    OBVIOUS
  <2>3. \A i \in 0..n : f[i] = IF i = 0 THEN p ELSE ChainStep(d2s, f[i - 1])
    BY <2>1
  <2>4. \A i \in 0..n : g[i] = f[i] /\ g[n + 1] = ChainStep(d2s, f[n])
    BY <2>2
  <2>5. \A i \in 0..(n + 1) : g[i] = IF i = 0 THEN p ELSE ChainStep(d2s, g[i - 1])
    <3> SUFFICES ASSUME NEW i \in 0..(n + 1)
                 PROVE  g[i] = IF i = 0 THEN p ELSE ChainStep(d2s, g[i - 1])
      OBVIOUS
    <3> HIDE DEF g
    <3>1. CASE i = 0
      BY <2>2, <2>3, <2>4, <3>1
    <3>2. CASE i \in 1..n
      <4>1. i - 1 \in 0..n /\ i \in 0..n /\ i # 0
        BY <2>2, <3>2
      <4> QED
        BY <4>1, <2>3, <2>4
    <3>3. CASE i = n + 1
      <4>1. i - 1 = n /\ n \in 0..n /\ i # 0
        BY <2>2, <3>3
      <4> QED
        BY <4>1, <2>4, <3>3
    <3> QED
      BY <2>2, <3>1, <3>2, <3>3
  <2>6. Walk(g, n + 1)
    <3> DEFINE h == [i \in 0..(n + 1) |-> IF i = 0 THEN p ELSE ChainStep(d2s, g[i - 1])]
    <3>1. DOMAIN g = DOMAIN h /\ \A i \in DOMAIN h : g[i] = h[i]
      BY <2>5
    <3>2. g = [i \in 0..(n + 1) |-> g[i]]
      OBVIOUS
    <3>3. h = [i \in 0..(n + 1) |-> h[i]]
      OBVIOUS
    <3>4. g = h
      <4> HIDE DEF g, h
      <4> QED
        BY <2>5, <3>1, <3>2, <3>3
    <3> QED
      BY <3>4
  <2> HIDE DEF g, Walk
  <2> QED
    BY <2>2, <2>6
<1>3. S = Nat
  <2> HIDE DEF S
  <2>1. S \in SUBSET Nat
    BY DEF S
  <2> QED
    BY <1>1, <1>2, <2>1, CountingUp
<1>4. \E f : Walk(f, NPaths)
  BY <1>3, PathAssumption
<1>5. Chain(d2s, p) = CHOOSE f : Walk(f, NPaths)
  BY Zenon DEF Chain, ChainStep
<1>6. Walk(CHOOSE f : Walk(f, NPaths), NPaths)
  <2> HIDE DEF Walk
  <2> QED
    BY <1>4
<1> QED
  BY <1>5, <1>6

\* A dictionary of copies: to what, from where.
Dictionary == UNION {[D -> Path] : D \in SUBSET Path}

LEMMA DictionaryParts ==
  ASSUME NEW d2s \in Dictionary
  PROVE  /\ DOMAIN d2s \subseteq Path /\ DOMAIN d2s \subseteq Nat \ {0} /\ 0 \notin DOMAIN d2s
         /\ \A q \in DOMAIN d2s : d2s[q] \in Path /\ d2s[q] # 0
<1>1. PICK D \in SUBSET Path : d2s \in [D -> Path]
  BY DEF Dictionary
<1>2. Path \subseteq Nat \ {0}
  BY PathAssumption DEF Path
<1> QED
  BY <1>1, <1>2

LEMMA ChainSteps ==
  ASSUME NEW d2s \in Dictionary, NEW p \in DOMAIN d2s
  PROVE  /\ Chain(d2s, p)[0] = p
         /\ \A i \in 0..(NPaths - 1) : Chain(d2s, p)[i + 1] = ChainStep(d2s, Chain(d2s, p)[i])
         /\ \A i \in 0..NPaths : Chain(d2s, p)[i] \in DOMAIN d2s \cup {0}
<1> DEFINE w == Chain(d2s, p)
<1>1. w = [i \in 0..NPaths |-> IF i = 0 THEN p ELSE ChainStep(d2s, w[i - 1])]
  BY ChainUnfolds
<1> HIDE DEF w
<1>2. \A i \in 0..NPaths : w[i] = IF i = 0 THEN p ELSE ChainStep(d2s, w[i - 1])
  BY <1>1
<1>3. w[0] = p
  BY <1>2, PathAssumption
<1>4. ASSUME NEW i \in 0..(NPaths - 1) PROVE w[i + 1] = ChainStep(d2s, w[i])
  <2>1. i + 1 \in 0..NPaths /\ i + 1 # 0 /\ (i + 1) - 1 = i
    BY PathAssumption
  <2> QED
    BY <1>2, <2>1
<1>5. \A i \in 0..NPaths : w[i] \in DOMAIN d2s \cup {0}
  BY <1>2 DEF ChainStep
<1> QED
  BY <1>3, <1>4, <1>5 DEF w

\* Walking on from a place on the chain is walking on along the chain.
LEMMA ChainShifts ==
  ASSUME NEW d2s \in Dictionary, NEW p \in DOMAIN d2s,
         NEW a \in 0..NPaths, Chain(d2s, p)[a] \in DOMAIN d2s,
         NEW k \in Nat, a + k <= NPaths
  PROVE  Chain(d2s, Chain(d2s, p)[a])[k] = Chain(d2s, p)[a + k]
<1> DEFINE w == Chain(d2s, p)
           v == Chain(d2s, w[a])
           S == {j \in Nat : a + j <= NPaths => v[j] = w[a + j]}
<1>1. 0 \in S
  <2>1. v[0] = w[a]
    BY ChainSteps
  <2> HIDE DEF v, w
  <2> QED
    BY <2>1
<1>2. ASSUME NEW j \in S PROVE j + 1 \in S
  <2>1. j \in Nat
    OBVIOUS
  <2> SUFFICES ASSUME a + (j + 1) <= NPaths PROVE v[j + 1] = w[a + (j + 1)]
    BY <2>1
  <2>2. j \in 0..(NPaths - 1) /\ a + j \in 0..(NPaths - 1) /\ a + j <= NPaths
        /\ (a + j) + 1 = a + (j + 1)
    BY <2>1, PathAssumption
  <2>3. v[j] = w[a + j]
    BY <2>2
  <2>4. v[j + 1] = ChainStep(d2s, v[j])
    BY <2>2, ChainSteps
  <2>5. w[(a + j) + 1] = ChainStep(d2s, w[a + j])
    BY <2>2, ChainSteps
  <2> HIDE DEF v, w
  <2> QED
    BY <2>2, <2>3, <2>4, <2>5
<1>3. S = Nat
  <2> HIDE DEF S
  <2>1. S \in SUBSET Nat
    BY DEF S
  <2> QED
    BY <1>1, <1>2, <2>1, CountingUp
<1> HIDE DEF v, w
<1>4. v[k] = w[a + k]
  BY <1>3
<1> QED
  BY <1>4 DEF v, w

\* Once a chain has left the dictionary it does not come back.
LEMMA ChainStays ==
  ASSUME NEW d2s \in Dictionary, NEW p \in DOMAIN d2s,
         NEW i \in 0..NPaths, Chain(d2s, p)[i] # 0, NEW j \in 0..i
  PROVE  Chain(d2s, p)[j] # 0
<1> DEFINE w == Chain(d2s, p)
           S == {k \in Nat : k <= i => w[i - k] # 0}
<1>1. \A m \in 0..(NPaths - 1) : w[m + 1] = ChainStep(d2s, w[m])
  BY ChainSteps
<1>2. w[i] # 0
  OBVIOUS
<1> HIDE DEF w
<1>3. 0 \in S
  BY <1>2
<1>4. ASSUME NEW k \in S PROVE k + 1 \in S
  <2>1. k \in Nat /\ (k <= i => w[i - k] # 0)
    OBVIOUS
  <2> SUFFICES ASSUME k + 1 <= i, w[i - (k + 1)] = 0 PROVE FALSE
    BY <2>1
  <2>2. i - (k + 1) \in 0..(NPaths - 1) /\ (i - (k + 1)) + 1 = i - k /\ k <= i
    BY <2>1, PathAssumption
  <2>3. w[i - k] = ChainStep(d2s, w[i - (k + 1)])
    BY <1>1, <2>2
  <2> QED
    BY <2>1, <2>2, <2>3 DEF ChainStep
<1>5. S = Nat
  <2> HIDE DEF S
  <2>1. S \in SUBSET Nat
    BY DEF S
  <2> QED
    BY <1>3, <1>4, <2>1, CountingUp
<1>6. i - j \in Nat /\ i - j <= i /\ i - (i - j) = j
  OBVIOUS
<1>7. w[j] # 0
  BY <1>5, <1>6
<1> QED
  BY <1>7 DEF w

\* Fewer than NPaths steps lead wherever a chain leads.
LEMMA ReachedEarly ==
  ASSUME NEW d2s \in Dictionary, NEW p \in DOMAIN d2s, NEW q \in Reached(d2s, p)
  PROVE  /\ q \in DOMAIN d2s
         /\ \E i \in 0..(NPaths - 1) : Chain(d2s, p)[i] = q
<1> DEFINE w == Chain(d2s, p)
           steps == {i \in 0..NPaths : w[i] = q}
           m == Min(steps)
<1>1. q \in DOMAIN d2s /\ steps \in SUBSET Nat /\ steps # {}
  BY PathAssumption DEF Reached
<1>2. m \in steps /\ \A i \in steps : m <= i
  BY <1>1, MinIsLeast
<1>3. m \in 0..NPaths /\ w[m] = q
  BY <1>2
<1> SUFFICES ASSUME m = NPaths PROVE FALSE
  <2> HIDE DEF m
  <2> QED
    BY <1>1, <1>3, PathAssumption
<1>4. w[m] # 0
  BY <1>1, <1>3, DictionaryParts
<1>5. \A i \in 0..NPaths : w[i] \in Path
  <2>1. \A i \in 0..NPaths : w[i] # 0
    BY <1>4, ChainStays, PathAssumption
  <2> QED
    BY <2>1, ChainSteps, DictionaryParts
<1>6. PICK a \in 0..NPaths, b \in 0..NPaths : a < b /\ w[a] = w[b]
  <2> DEFINE f == [i \in 0..NPaths |-> w[i]]
  <2>1. f \in [0..NPaths -> Path]
    BY <1>5
  <2>2. IsFiniteSet(0..NPaths) /\ Cardinality(0..NPaths) = NPaths + 1
    BY FS_Interval, PathAssumption
  <2>3. IsFiniteSet(Path) /\ Cardinality(Path) = NPaths
    BY FS_Interval, PathAssumption DEF Path
  <2>4. Cardinality(Path) < Cardinality(0..NPaths)
    BY <2>2, <2>3, PathAssumption
  <2> HIDE DEF f
  <2>5. \E x, y \in 0..NPaths : x # y /\ f[x] = f[y]
    BY <2>1, <2>2, <2>3, <2>4, FS_PigeonHole
  <2>6. PICK x \in 0..NPaths, y \in 0..NPaths : x # y /\ w[x] = w[y]
    BY <2>5 DEF f
  <2>7. x < y \/ y < x
    BY <2>6, PathAssumption
  <2> QED
    BY <2>6, <2>7
<1>7. w[a + (NPaths - b)] = q
  <2>1. NPaths - b \in Nat /\ a + (NPaths - b) <= NPaths /\ b + (NPaths - b) = NPaths
    BY <1>6, PathAssumption
  <2>2. w[a] \in DOMAIN d2s /\ w[b] \in DOMAIN d2s
    <3>1. w[a] # 0 /\ w[b] # 0
      BY <1>5, PathAssumption DEF Path
    <3> QED
      BY <3>1, ChainSteps
  <2>3. Chain(d2s, w[a])[NPaths - b] = w[a + (NPaths - b)]
    BY <2>1, <2>2, ChainShifts
  <2>4. Chain(d2s, w[b])[NPaths - b] = w[b + (NPaths - b)]
    BY <2>1, <2>2, ChainShifts
  <2> HIDE DEF w, m
  <2> QED
    BY <1>3, <1>6, <2>1, <2>3, <2>4
<1>8. a + (NPaths - b) \in 0..NPaths /\ a + (NPaths - b) < NPaths
  BY <1>6, PathAssumption
<1> HIDE DEF w, m
<1>9. a + (NPaths - b) \in steps
  BY <1>7, <1>8
<1> QED
  BY <1>2, <1>8, <1>9, PathAssumption

\* What is reached from what is reached is reached.
LEMMA ReachedOnward ==
  ASSUME NEW d2s \in Dictionary, NEW p \in DOMAIN d2s, NEW q \in Reached(d2s, p)
  PROVE  /\ d2s[q] \in DOMAIN d2s => d2s[q] \in Reached(d2s, p)
         /\ Reached(d2s, q) \subseteq Reached(d2s, p)
<1> DEFINE R == Reached(d2s, p)
<1>1. \A r \in R : d2s[r] \in DOMAIN d2s => d2s[r] \in R
  <2> SUFFICES ASSUME NEW r \in R, d2s[r] \in DOMAIN d2s PROVE d2s[r] \in R
    OBVIOUS
  <2>1. PICK i \in 0..(NPaths - 1) : Chain(d2s, p)[i] = r
    BY ReachedEarly
  <2>2. r # 0
    BY ReachedEarly, DictionaryParts
  <2>3. Chain(d2s, p)[i + 1] = d2s[r]
    BY <2>1, <2>2, ChainSteps DEF ChainStep
  <2>4. i + 1 \in 0..NPaths
    BY PathAssumption
  <2> QED
    BY <2>3, <2>4 DEF Reached
<1>2. q \in DOMAIN d2s
  BY ReachedEarly
<1> DEFINE v == Chain(d2s, q)
           S == {k \in Nat : k <= NPaths => v[k] \in R \cup {0}}
<1> HIDE DEF R
<1>3. 0 \in S
  BY <1>2, ChainSteps DEF R
<1>4. ASSUME NEW k \in S PROVE k + 1 \in S
  <2>1. k \in Nat
    OBVIOUS
  <2> SUFFICES ASSUME k + 1 <= NPaths PROVE v[k + 1] \in R \cup {0}
    BY <2>1
  <2>2. k \in 0..(NPaths - 1) /\ k <= NPaths
    BY <2>1, PathAssumption
  <2>3. v[k + 1] = ChainStep(d2s, v[k])
    BY <1>2, <2>2, ChainSteps
  <2>4. v[k] \in R \cup {0}
    BY <2>2
  <2> HIDE DEF v
  <2> QED
    BY <1>1, <2>3, <2>4 DEF ChainStep
<1>5. S = Nat
  <2> HIDE DEF S
  <2>1. S \in SUBSET Nat
    BY DEF S
  <2> QED
    BY <1>3, <1>4, <2>1, CountingUp
<1>6. ASSUME NEW r \in Reached(d2s, q) PROVE r \in R
  <2>1. PICK k \in 0..NPaths : v[k] = r
    BY <1>6 DEF Reached
  <2>2. r # 0
    BY <1>6, DictionaryParts DEF Reached
  <2> HIDE DEF v
  <2> QED
    BY <1>5, <2>1, <2>2, PathAssumption
<1> QED
  BY <1>1, <1>6 DEF R

\* Every copy destination is reached from itself.
LEMMA ReachedFromItself ==
  ASSUME NEW d2s \in Dictionary, NEW p \in DOMAIN d2s
  PROVE  p \in Reached(d2s, p)
  BY ChainSteps, PathAssumption DEF Reached

LEMMA DestToSourceIsDictionary ==
  ASSUME NEW src \in Listing, NEW dst \in Listing
  PROVE  DestToSource(src, dst) \in Dictionary
<1>1. Copies(src, dst) \in SUBSET Path
  BY CopiesNeedTransfer
<1> QED
  BY <1>1, CopiesNeedTransfer DEF Dictionary

-----------------------------------------------------------------------------
(* Cycles of copies                                                        *)

\* The distance to what is reached is the first place where the chain has it.
LEMMA DistanceIsFirst ==
  ASSUME NEW d2s \in Dictionary, NEW p \in DOMAIN d2s, NEW q \in Reached(d2s, p)
  PROVE  /\ Distance(d2s, p, q) \in 0..NPaths
         /\ Chain(d2s, p)[Distance(d2s, p, q)] = q
         /\ \A i \in 0..NPaths : Chain(d2s, p)[i] = q => Distance(d2s, p, q) <= i
<1> DEFINE steps == {i \in 0..NPaths : Chain(d2s, p)[i] = q}
<1>1. steps \in SUBSET Nat /\ steps # {}
  BY PathAssumption DEF Reached
<1>2. Min(steps) \in steps /\ \A i \in steps : Min(steps) <= i
  BY <1>1, MinIsLeast
<1>3. Distance(d2s, p, q) = Min(steps)
  BY DEF Distance
<1> QED
  BY <1>2, <1>3

LEMMA LengthIsFirst ==
  ASSUME NEW d2s, NEW p, OnCycle(d2s, p)
  PROVE  /\ CycleLength(d2s, p) \in 1..NPaths
         /\ Chain(d2s, p)[CycleLength(d2s, p)] = p
         /\ \A i \in 1..NPaths : Chain(d2s, p)[i] = p => CycleLength(d2s, p) <= i
<1> DEFINE steps == {i \in 1..NPaths : Chain(d2s, p)[i] = p}
<1>1. steps \in SUBSET Nat /\ steps # {}
  BY PathAssumption DEF OnCycle
<1>2. Min(steps) \in steps /\ \A i \in steps : Min(steps) <= i
  BY <1>1, MinIsLeast
<1>3. CycleLength(d2s, p) = Min(steps)
  BY DEF CycleLength
<1> QED
  BY <1>2, <1>3

\* All of a cycle is met on the first way round it.
LEMMA FirstRound ==
  ASSUME NEW d2s \in Dictionary, NEW p \in DOMAIN d2s, OnCycle(d2s, p), NEW q \in Reached(d2s, p)
  PROVE  /\ Distance(d2s, p, q) \in 0..(CycleLength(d2s, p) - 1)
         /\ Distance(d2s, p, q) = 0 <=> q = p
<1> DEFINE w == Chain(d2s, p)
           m == Distance(d2s, p, q)
           n == CycleLength(d2s, p)
<1>1. m \in 0..NPaths /\ w[m] = q /\ \A i \in 0..NPaths : w[i] = q => m <= i
  BY DistanceIsFirst
<1>2. n \in 1..NPaths /\ w[n] = p
  BY LengthIsFirst
<1>3. w[0] = p
  BY ChainSteps
<1> HIDE DEF m, n
<1>4. ASSUME n <= m PROVE FALSE
  <2>1. n \in 0..NPaths /\ m - n \in Nat /\ n + (m - n) = m /\ n + (m - n) <= NPaths
        /\ m - n \in 0..NPaths /\ m - n < m
    BY <1>1, <1>2, <1>4, PathAssumption
  <2>2. Chain(d2s, w[n])[m - n] = w[n + (m - n)]
    BY <1>2, <2>1, ChainShifts
  <2> HIDE DEF w
  <2>3. Chain(d2s, p)[m - n] = q
    BY <1>1, <1>2, <2>1, <2>2
  <2> QED
    BY <1>1, <2>1, <2>3 DEF w
<1> HIDE DEF w
<1>5. 0 \in 0..NPaths
  BY PathAssumption
<1> QED
  BY <1>1, <1>2, <1>3, <1>4, <1>5 DEF m, n

\* On a cycle, what is reached reaches back.
LEMMA CycleReachesBack ==
  ASSUME NEW d2s \in Dictionary, NEW p \in DOMAIN d2s, OnCycle(d2s, p), NEW q \in Reached(d2s, p)
  PROVE  p \in Reached(d2s, q) /\ OnCycle(d2s, q) /\ q \in DOMAIN d2s
<1> DEFINE w == Chain(d2s, p)
           v == Chain(d2s, q)
           m == Distance(d2s, p, q)
           n == CycleLength(d2s, p)
<1>1. m \in 0..NPaths /\ w[m] = q /\ m \in 0..(n - 1)
  BY DistanceIsFirst, FirstRound
<1>2. n \in 1..NPaths /\ w[n] = p
  BY LengthIsFirst
<1>3. q \in DOMAIN d2s
  BY DEF Reached
<1> HIDE DEF m, n
<1>4. /\ n - m \in Nat /\ m + (n - m) = n /\ (n - m) + m = n
      /\ n - m \in 0..NPaths /\ m \in Nat /\ n <= NPaths
  BY <1>1, <1>2, PathAssumption
<1>5. v[n - m] = p
  <2>1. Chain(d2s, w[m])[n - m] = w[m + (n - m)]
    BY <1>1, <1>3, <1>4, ChainShifts
  <2> HIDE DEF w
  <2> QED
    BY <1>1, <1>2, <1>4, <2>1
<1>6. v[n] = q
  <2>1. Chain(d2s, v[n - m])[m] = v[(n - m) + m]
    BY <1>3, <1>4, <1>5, ChainShifts
  <2>2. Chain(d2s, p)[m] = v[n]
    <3> HIDE DEF v
    <3> QED
      BY <1>4, <1>5, <2>1
  <2> QED
    BY <1>1, <2>2
<1>7. p \in Reached(d2s, q)
  BY <1>4, <1>5 DEF Reached
<1>8. OnCycle(d2s, q)
  BY <1>2, <1>6 DEF OnCycle
<1> QED
  BY <1>3, <1>7, <1>8

\* Where a walk enters the first cycle it meets: it reaches all of that cycle.
LEMMA CycleStartReaches ==
  ASSUME NEW d2s \in Dictionary, NEW p \in DOMAIN d2s, LeadsToCycle(d2s, p)
  PROVE  LET first == CycleStart(d2s, p)
         IN  /\ first \in DOMAIN d2s /\ OnCycle(d2s, first)
             /\ first \in Reached(d2s, p)
             /\ \A q \in Reached(d2s, p) : OnCycle(d2s, q) => q \in Reached(d2s, first)
             /\ OnCycle(d2s, p) => first = p
<1> DEFINE w == Chain(d2s, p)
           entries == {i \in 0..NPaths : w[i] \in DOMAIN d2s /\ OnCycle(d2s, w[i])}
           m == Min(entries)
           first == CycleStart(d2s, p)
<1>1. entries \in SUBSET Nat /\ entries # {}
  BY PathAssumption DEF LeadsToCycle, Reached
<1>2. m \in entries /\ \A i \in entries : m <= i
  BY <1>1, MinIsLeast
<1>3. first = w[m]
  BY DEF CycleStart
<1> HIDE DEF m
<1>4. m \in 0..NPaths /\ first \in DOMAIN d2s /\ OnCycle(d2s, first)
  BY <1>2, <1>3
<1>5. first \in Reached(d2s, p)
  BY <1>3, <1>4 DEF Reached
<1>6. ASSUME NEW q \in Reached(d2s, p), OnCycle(d2s, q) PROVE q \in Reached(d2s, first)
  <2>1. PICK j \in 0..NPaths : w[j] = q
    BY DEF Reached
  <2>2. q \in DOMAIN d2s
    BY DEF Reached
  <2>3. m <= j
    BY <1>2, <1>6, <2>1, <2>2
  <2>4. j - m \in Nat /\ m + (j - m) = j /\ j - m \in 0..NPaths /\ j <= NPaths
    BY <1>4, <2>1, <2>3, PathAssumption
  <2>5. Chain(d2s, w[m])[j - m] = w[m + (j - m)]
    BY <1>3, <1>4, <2>4, ChainShifts
  <2>6. Chain(d2s, first)[j - m] = q
    <3> HIDE DEF w, first
    <3> QED
      BY <1>3, <2>1, <2>4, <2>5
  <2> HIDE DEF first
  <2> QED
    BY <2>2, <2>4, <2>6 DEF Reached
<1>7. ASSUME OnCycle(d2s, p) PROVE first = p
  <2>1. w[0] = p
    BY ChainSteps
  <2>2. 0 \in entries
    BY <1>7, <2>1, PathAssumption
  <2>3. m = 0
    BY <1>2, <1>4, <2>2
  <2> QED
    BY <1>3, <2>1, <2>3
<1> QED
  BY <1>4, <1>5, <1>6, <1>7

\* The places the operations of a cycle take in the client's array.
LEMMA CycleSlots ==
  ASSUME NEW d2s \in Dictionary, NEW p \in DOMAIN d2s, LeadsToCycle(d2s, p)
  PROVE  LET first == CycleStart(d2s, p)
             n == CycleLength(d2s, first)
         IN  /\ n \in 1..NPaths
             /\ \A q \in Reached(d2s, first) \ {first} : Distance(d2s, first, q) \in 1..(n - 1)
             /\ \A q, r \in Reached(d2s, first) :
                   Distance(d2s, first, q) = Distance(d2s, first, r) => q = r
<1> DEFINE first == CycleStart(d2s, p)
           n == CycleLength(d2s, first)
<1>1. first \in DOMAIN d2s /\ OnCycle(d2s, first)
  BY CycleStartReaches
<1> HIDE DEF first
<1>2. n \in 1..NPaths
  BY <1>1, LengthIsFirst
<1>3. ASSUME NEW q \in Reached(d2s, first) \ {first} PROVE Distance(d2s, first, q) \in 1..(n - 1)
  <2>1. Distance(d2s, first, q) \in 0..(n - 1) /\ Distance(d2s, first, q) # 0
    BY <1>1, FirstRound
  <2> QED
    BY <1>2, <2>1, PathAssumption
<1>4. \A q \in Reached(d2s, first) : Chain(d2s, first)[Distance(d2s, first, q)] = q
  BY <1>1, DistanceIsFirst
<1> QED
  BY <1>2, <1>3, <1>4 DEF first

LEMMA Blocks ==
  ASSUME NEW a \in Nat, NEW b \in Nat, a < b, NEW m \in Nat, NEW i \in 0..(m - 1)
  PROVE  a * m \in Nat /\ b * m \in Nat /\ a * m + i < b * m
<1>1. (b - a - 1) * m \in Nat
  <2>1. b - a - 1 \in Nat
    OBVIOUS
  <2> QED
    BY <2>1
<1>2. b * m = a * m + m + (b - a - 1) * m
  OBVIOUS
<1>3. a * m \in Nat
  OBVIOUS
<1> QED
  BY <1>1, <1>2, <1>3

LEMMA RankBounds ==
  ASSUME NEW src \in Listing, NEW dst \in Listing,
         NEW rank \in Orders(DestToSource(src, dst))
  PROVE  /\ \A p \in Copies(src, dst) : rank[p] \in 1..NPaths
         /\ \A p, q \in Copies(src, dst) : rank[p] = rank[q] => p = q
<1>1. IsFiniteSet(Path) /\ Cardinality(Path) = NPaths
  BY PathAssumption, FS_Interval DEF Path
<1>2. IsFiniteSet(Copies(src, dst)) /\ Cardinality(Copies(src, dst)) <= NPaths
  BY <1>1, FS_Subset, CopiesNeedTransfer
<1>3. Cardinality(Copies(src, dst)) \in Nat
  BY <1>2, FS_CardinalityType
<1>4. rank \in [Copies(src, dst) -> 1..Cardinality(Copies(src, dst))]
  BY CopiesNeedTransfer DEF Orders
<1>5. \A p, q \in Copies(src, dst) : rank[p] = rank[q] => p = q
  BY CopiesNeedTransfer DEF Orders
<1>6. \A p \in Copies(src, dst) : rank[p] \in 1..NPaths
  BY <1>2, <1>3, <1>4, PathAssumption
<1> QED
  BY <1>5, <1>6

\* Within a cycle each operation has a place of its own.
LEMMA OneOpPerSlot ==
  ASSUME NEW d2s \in Dictionary, NEW rank, NEW p \in DOMAIN d2s, LeadsToCycle(d2s, p),
         rank[p] \in Nat, NEW o \in CycleOps(d2s, rank, p), NEW x \in CycleOps(d2s, rank, p)
  PROVE  /\ \E i \in 0..(NPaths + 1) : o.ord = rank[p] * (NPaths + 2) + i
         /\ o.ord = x.ord => o = x
<1> DEFINE first == CycleStart(d2s, p)
           n == CycleLength(d2s, first)
           base == rank[p] * (NPaths + 2)
           far(q) == Distance(d2s, first, q)
           R == Reached(d2s, first) \ {first}
           Is(y) == \/ y = [ord |-> base + 0, act |-> "copy", from |-> d2s[first], to |-> NPaths + p]
                    \/ y = [ord |-> base + n, act |-> "copy", from |-> NPaths + p, to |-> first]
                    \/ y = [ord |-> base + (n + 1), act |-> "delete", from |-> 0, to |-> NPaths + p]
                    \/ \E q \in R : y = [ord |-> base + far(q), act |-> "copy",
                                         from |-> d2s[q], to |-> q]
<1>1. Is(o) /\ Is(x)
  BY DEF CycleOps
<1>2. /\ n \in 1..NPaths
      /\ \A q \in R : far(q) \in 1..(n - 1)
      /\ \A q, r \in R : far(q) = far(r) => q = r
  BY CycleSlots
<1>3. base \in Nat
  <2>1. NPaths + 2 \in Nat
    BY PathAssumption
  <2> QED
    BY <2>1
<1> HIDE DEF first, n, base, far, R
<1>4. \E i \in 0..(NPaths + 1) : o.ord = base + i
  <2>1. 0 \in 0..(NPaths + 1) /\ n \in 0..(NPaths + 1) /\ n + 1 \in 0..(NPaths + 1)
    BY <1>2, PathAssumption
  <2>2. \A q \in R : far(q) \in 0..(NPaths + 1)
    BY <1>2, PathAssumption
  <2> QED
    BY <1>1, <2>1, <2>2
<1>5. ASSUME o.ord = x.ord PROVE o = x
  <2>1. \A q \in R : far(q) \in Nat /\ far(q) # 0 /\ far(q) # n /\ far(q) # n + 1
    BY <1>2, PathAssumption
  <2>2. n \in Nat /\ n # 0
    BY <1>2, PathAssumption
  <2>3. \A q, r \in R : base + far(q) = base + far(r) => q = r
    BY <1>2, <1>3, <2>1
  <2> QED
    BY <1>1, <1>3, <1>5, <2>1, <2>2, <2>3
<1> QED
  BY <1>4, <1>5 DEF base

\* No two operations of a plan have the same place.
LEMMA OneOpPerPlace ==
  ASSUME NEW src \in Listing, NEW dst \in Listing,
         NEW rank \in Orders(DestToSource(src, dst)),
         NEW o \in Plan(src, dst, rank), NEW x \in Plan(src, dst, rank), o.ord = x.ord
  PROVE  o = x
<1> DEFINE d2s == DestToSource(src, dst)
           M == NPaths + 2
           walks == WalksThatFind(d2s, rank)
           base == AfterCycles
           Free(y) == \/ \E p \in Copies(src, dst) :
                           y = [ord |-> base + p, act |-> "copy", from |-> d2s[p], to |-> p]
                      \/ \E p \in NeedsTransfer(src, dst) \ Copies(src, dst) :
                           y = [ord |-> base + p, act |-> "transfer", from |-> 0, to |-> p]
                      \/ \E p \in Path : y = [ord |-> base + NPaths + p, act |-> "delete",
                                              from |-> 0, to |-> p]
           Bound(y) == \E p \in walks : y \in CycleOps(d2s, rank, p)
<1>1. (Free(o) \/ Bound(o)) /\ (Free(x) \/ Bound(x))
  BY PlanCases
<1>2. d2s \in Dictionary /\ DOMAIN d2s = Copies(src, dst)
  BY DestToSourceIsDictionary, CopiesNeedTransfer
<1>3. /\ M \in Nat /\ M - 1 = NPaths + 1 /\ NPaths + 1 \in Nat /\ base \in Nat
      /\ \A p \in Path : p \in 1..NPaths /\ base + p \in Nat /\ base + NPaths + p \in Nat
  BY PathAssumption DEF AfterCycles, Path
<1>4. /\ \A p \in Copies(src, dst) : rank[p] \in 1..NPaths
      /\ \A p, q \in Copies(src, dst) : rank[p] = rank[q] => p = q
  BY RankBounds
<1>5. walks \subseteq Copies(src, dst) /\ \A p \in walks : LeadsToCycle(d2s, p)
  BY <1>2 DEF WalksThatFind
<1> HIDE DEF d2s, walks
<1>6. ASSUME NEW y, NEW p \in walks, y \in CycleOps(d2s, rank, p)
      PROVE  \E i \in 0..(M - 1) : y.ord = rank[p] * M + i
  BY <1>2, <1>3, <1>4, <1>5, <1>6, OneOpPerSlot
<1>7. \A p \in NeedsTransfer(src, dst) : p \in Path
  BY CopiesNeedTransfer
<1>8. \A p \in Copies(src, dst) : p \in Path
  BY CopiesNeedTransfer
<1>9. ASSUME NEW y, Free(y) PROVE y.ord \in Nat /\ y.ord >= base
  <2>1. \A p \in Path : base + p >= base /\ base + NPaths + p >= base
    BY <1>3, PathAssumption
  <2> HIDE DEF base
  <2> QED
    BY <1>3, <1>7, <1>8, <1>9, <2>1
<1>10. ASSUME NEW y, Bound(y) PROVE y.ord < base
  <2>1. PICK p \in walks : y \in CycleOps(d2s, rank, p)
    BY <1>10
  <2>2. PICK i \in 0..(M - 1) : y.ord = rank[p] * M + i
    BY <1>6, <2>1
  <2>3. rank[p] \in Nat /\ rank[p] < NPaths + 1
    BY <1>4, <1>5, PathAssumption
  <2>4. rank[p] * M + i < (NPaths + 1) * M
    BY <1>3, <2>3, Blocks
  <2> QED
    BY <2>2, <2>4 DEF AfterCycles
<1>11. CASE Bound(o) /\ Bound(x)
  <2>1. PICK p \in walks : o \in CycleOps(d2s, rank, p)
    BY <1>11
  <2>2. PICK q \in walks : x \in CycleOps(d2s, rank, q)
    BY <1>11
  <2> DEFINE atP == rank[p] * M
             atQ == rank[q] * M
  <2>3. PICK i \in 0..(M - 1) : o.ord = atP + i
    BY <1>6, <2>1
  <2>4. PICK j \in 0..(M - 1) : x.ord = atQ + j
    BY <1>6, <2>2
  <2>5. rank[p] \in Nat /\ rank[q] \in Nat
    BY <1>4, <1>5, PathAssumption
  <2>10. atP + i = atQ + j /\ i \in Nat /\ j \in Nat
    <3>1. atP + i = atQ + j
      BY <2>3, <2>4
    <3>2. i \in Nat /\ j \in Nat
      BY <1>3
    <3> QED
      BY <3>1, <3>2
  <2>6. ASSUME rank[p] < rank[q] PROVE FALSE
    <3>1. atP + i < atQ /\ atQ \in Nat /\ atP \in Nat
      BY <1>3, <2>5, <2>6, Blocks
    <3> HIDE DEF atP, atQ
    <3> QED
      BY <2>10, <3>1
  <2>7. ASSUME rank[q] < rank[p] PROVE FALSE
    <3>1. atQ + j < atP /\ atP \in Nat /\ atQ \in Nat
      BY <1>3, <2>5, <2>7, Blocks
    <3> HIDE DEF atP, atQ
    <3> QED
      BY <2>10, <3>1
  <2>8. p = q
    BY <1>4, <1>5, <2>5, <2>6, <2>7
  <2> QED
    BY <1>2, <1>5, <2>1, <2>2, <2>5, <2>8, OneOpPerSlot
<1> HIDE DEF base
<1>12. CASE Free(o) /\ Free(x)
  <2>1. \A p, q \in Path : /\ base + p = base + q => p = q
                           /\ base + NPaths + p = base + NPaths + q => p = q
                           /\ base + p # base + NPaths + q
    BY <1>3, PathAssumption
  <2> QED
    BY <1>7, <1>8, <1>12, <2>1
<1> QED
  BY <1>1, <1>3, <1>9, <1>10, <1>11, <1>12

LEMMA OnCycleGoesOn ==
  ASSUME NEW d2s \in Dictionary, NEW q \in DOMAIN d2s, OnCycle(d2s, q)
  PROVE  d2s[q] \in DOMAIN d2s /\ d2s[q] \in Reached(d2s, q)
<1>1. PICK n \in 1..NPaths : Chain(d2s, q)[n] = q
  BY DEF OnCycle
<1>2. q # 0
  BY DictionaryParts
<1>3. n \in 0..NPaths /\ 1 \in 0..n /\ 0 \in 0..(NPaths - 1) /\ 0 + 1 = 1
  BY <1>1, PathAssumption
<1>4. Chain(d2s, q)[1] # 0
  BY <1>1, <1>2, <1>3, ChainStays
<1>5. Chain(d2s, q)[0 + 1] = ChainStep(d2s, q)
  BY <1>3, ChainSteps
<1>6. d2s[q] \in DOMAIN d2s
  BY <1>3, <1>4, <1>5 DEF ChainStep
<1> QED
  BY <1>6, ReachedOnward, ReachedFromItself

\* Every cycle is found: by the first walk, in the order of the dictionary, of those
\* that come to it.
LEMMA CyclesAreFound ==
  ASSUME NEW d2s \in Dictionary, NEW rank, \A p \in DOMAIN d2s : rank[p] \in Nat,
         NEW q \in DOMAIN d2s, OnCycle(d2s, q)
  PROVE  \E r \in WalksThatFind(d2s, rank) : q \in Reached(d2s, CycleStart(d2s, r))
<1> DEFINE comers == {r \in DOMAIN d2s : q \in Reached(d2s, r)}
           ranks == {rank[r] : r \in comers}
<1>1. ranks \in SUBSET Nat /\ ranks # {}
  BY ReachedFromItself
<1>2. Min(ranks) \in ranks /\ \A m \in ranks : Min(ranks) <= m
  BY <1>1, MinIsLeast
<1>3. PICK r \in comers : \A s \in comers : rank[r] <= rank[s]
  BY <1>2
<1>4. LeadsToCycle(d2s, r)
  BY <1>3 DEF LeadsToCycle
<1>5. ASSUME NEW s \in DOMAIN d2s, rank[s] < rank[r] PROVE r \notin Reached(d2s, s)
  <2> SUFFICES ASSUME r \in Reached(d2s, s) PROVE FALSE
    OBVIOUS
  <2>1. Reached(d2s, r) \subseteq Reached(d2s, s)
    BY ReachedOnward
  <2>2. s \in comers
    BY <1>3, <2>1
  <2> QED
    BY <1>3, <1>5, <2>2
<1>6. r \in WalksThatFind(d2s, rank)
  BY <1>3, <1>4, <1>5 DEF WalksThatFind
<1>7. q \in Reached(d2s, CycleStart(d2s, r))
  BY <1>3, <1>4, CycleStartReaches
<1> QED
  BY <1>6, <1>7

\* Where the two sides differ the plan writes or deletes: nothing that a dictionary
\* order or a tangle of cycles could make it forget (computeOperations,
\* resolveCopyCycles).
THEOREM PlanCoversDifferences ==
  ASSUME NEW src \in Listing, NEW dst \in Listing,
         NEW rank \in Orders(DestToSource(src, dst)), NEW p \in Path, src[p] # dst[p]
  PROVE  \E o \in Plan(src, dst, rank) : o.to = p
<1> DEFINE d2s == DestToSource(src, dst)
<1>1. d2s \in Dictionary /\ DOMAIN d2s = Copies(src, dst)
  BY DestToSourceIsDictionary, CopiesNeedTransfer
<1>2. CASE src[p] = Absent
  <2> DEFINE o == [ord |-> AfterCycles + NPaths + p, act |-> "delete", from |-> 0, to |-> p]
  <2>1. o \in Plan(src, dst, rank)
    BY <1>2 DEF Plan
  <2> QED
    BY <2>1
<1>3. CASE p \in NeedsTransfer(src, dst) \ Copies(src, dst)
  <2> DEFINE o == [ord |-> AfterCycles + p, act |-> "transfer", from |-> 0, to |-> p]
  <2>1. o \in Plan(src, dst, rank)
    BY <1>1, <1>3 DEF Plan
  <2> QED
    BY <2>1
<1>4. CASE p \in Copies(src, dst) /\ ~ OnCycle(d2s, p)
  <2> DEFINE o == [ord |-> AfterCycles + p, act |-> "copy", from |-> d2s[p], to |-> p]
  <2>1. o \in Plan(src, dst, rank)
    BY <1>1, <1>4 DEF Plan
  <2> QED
    BY <2>1
<1>5. CASE p \in Copies(src, dst) /\ OnCycle(d2s, p)
  <2>1. \A q \in DOMAIN d2s : rank[q] \in Nat
    BY <1>1, RankIsNat
  <2> HIDE DEF d2s
  <2>2. PICK r \in WalksThatFind(d2s, rank) : p \in Reached(d2s, CycleStart(d2s, r))
    BY <1>1, <1>5, <2>1, CyclesAreFound
  <2> DEFINE first == CycleStart(d2s, r)
             at(i) == rank[r] * (NPaths + 2) + i
             o == IF p = first
                  THEN [ord |-> at(CycleLength(d2s, first)), act |-> "copy",
                        from |-> NPaths + r, to |-> first]
                  ELSE [ord |-> at(Distance(d2s, first, p)), act |-> "copy",
                        from |-> d2s[p], to |-> p]
  <2>3. o \in CycleOps(d2s, rank, r)
    BY <2>2 DEF CycleOps
  <2>4. o \in Plan(src, dst, rank)
    BY <2>2, <2>3 DEF Plan, d2s
  <2>5. o.to = p
    OBVIOUS
  <2> QED
    BY <2>4, <2>5
<1> QED
  BY <1>2, <1>3, <1>4, <1>5 DEF NeedsTransfer

\* What kinds of operations the cycle found by a walk adds, with the temporary file's.
LEMMA CycleKinds ==
  ASSUME NEW src \in Listing, NEW dst \in Listing,
         NEW rank \in Orders(DestToSource(src, dst)),
         NEW r \in WalksThatFind(DestToSource(src, dst), rank),
         NEW o \in CycleOps(DestToSource(src, dst), rank, r)
  PROVE  LET d2s == DestToSource(src, dst)
             first == CycleStart(d2s, r)
             n == CycleLength(d2s, first)
             at(i) == rank[r] * (NPaths + 2) + i
         IN  /\ r \in Copies(src, dst) /\ NPaths + r \in TempPlace
             /\ first \in Copies(src, dst) /\ OnCycle(d2s, first) /\ first \in Reached(d2s, r)
             /\ n \in 1..NPaths /\ at(0) \in Nat
             /\ \/ o = [ord |-> at(0), act |-> "copy", from |-> d2s[first], to |-> NPaths + r]
                \/ o = [ord |-> at(n), act |-> "copy", from |-> NPaths + r, to |-> first]
                \/ o = [ord |-> at(n + 1), act |-> "delete", from |-> 0, to |-> NPaths + r]
                \/ \E q \in Copies(src, dst) :
                     /\ q \in Reached(d2s, first) \ {first} /\ OnCycle(d2s, q)
                     /\ Distance(d2s, first, q) \in 1..(n - 1)
                     /\ o = [ord |-> at(Distance(d2s, first, q)), act |-> "copy",
                             from |-> d2s[q], to |-> q]
<1> DEFINE d2s == DestToSource(src, dst)
           first == CycleStart(d2s, r)
           n == CycleLength(d2s, first)
           at(i) == rank[r] * (NPaths + 2) + i
<1>1. d2s \in Dictionary /\ DOMAIN d2s = Copies(src, dst)
  BY DestToSourceIsDictionary, CopiesNeedTransfer
<1>2. r \in Copies(src, dst) /\ LeadsToCycle(d2s, r)
  BY <1>1 DEF WalksThatFind
<1>3. NPaths + r \in TempPlace
  <2>1. r \in Path
    BY <1>2, CopiesNeedTransfer
  <2> QED
    BY <2>1, PathAssumption DEF TempPlace, Path
<1>4. at(0) \in Nat
  <2>1. rank[r] \in Nat /\ NPaths + 2 \in Nat
    BY <1>2, RankIsNat, PathAssumption
  <2> QED
    BY <2>1
<1>5. \/ o = [ord |-> at(0), act |-> "copy", from |-> d2s[first], to |-> NPaths + r]
      \/ o = [ord |-> at(n), act |-> "copy", from |-> NPaths + r, to |-> first]
      \/ o = [ord |-> at(n + 1), act |-> "delete", from |-> 0, to |-> NPaths + r]
      \/ \E q \in Reached(d2s, first) \ {first} :
            o = [ord |-> at(Distance(d2s, first, q)), act |-> "copy",
                 from |-> d2s[q], to |-> q]
  BY DEF CycleOps
<1> HIDE DEF d2s
<1>6. first \in Copies(src, dst) /\ OnCycle(d2s, first) /\ first \in Reached(d2s, r)
  BY <1>1, <1>2, CycleStartReaches
<1>7. n \in 1..NPaths /\ \A q \in Reached(d2s, first) \ {first} : Distance(d2s, first, q) \in 1..(n - 1)
  BY <1>1, <1>2, CycleSlots
<1> HIDE DEF first
<1>8. \A q \in Reached(d2s, first) : q \in Copies(src, dst) /\ OnCycle(d2s, q)
  BY <1>1, <1>6, CycleReachesBack
<1> QED
  BY <1>2, <1>3, <1>4, <1>5, <1>6, <1>7, <1>8 DEF first, d2s

\* The operations that use a temporary file are of the cycle it was made for.
LEMMA TempOwner ==
  ASSUME NEW src \in Listing, NEW dst \in Listing,
         NEW rank \in Orders(DestToSource(src, dst)),
         NEW r \in Path, NEW o \in Plan(src, dst, rank), o.to = NPaths + r \/ o.from = NPaths + r
  PROVE  /\ r \in WalksThatFind(DestToSource(src, dst), rank)
         /\ o \in CycleOps(DestToSource(src, dst), rank, r)
<1> DEFINE d2s == DestToSource(src, dst)
<1>1. NPaths + r \notin Path /\ NPaths + r # 0
  BY PathAssumption DEF Path
<1>2. \A q \in Copies(src, dst) : q \in Path /\ d2s[q] \in Path
  BY CopiesNeedTransfer
<1>3. \A q \in NeedsTransfer(src, dst) : q \in Path
  BY CopiesNeedTransfer
<1> HIDE DEF d2s
<1>4. PICK p \in WalksThatFind(d2s, rank) : o \in CycleOps(d2s, rank, p)
  BY <1>1, <1>2, <1>3, PlanCases DEF d2s
<1> DEFINE first == CycleStart(d2s, p)
<1>5. first \in Copies(src, dst) /\ p \in Copies(src, dst)
  BY <1>4, CycleKinds DEF d2s
<1>6. o.to \in Path \cup {NPaths + p} /\ o.from \in Path \cup {0, NPaths + p}
  BY <1>2, <1>4, CycleKinds DEF d2s
<1>7. NPaths + p = NPaths + r
  BY <1>1, <1>6
<1>8. p = r
  BY <1>2, <1>5, <1>7, PathAssumption DEF Path
<1> QED
  BY <1>4, <1>8 DEF d2s

LEMMA TempWanted ==
  ASSUME NEW src \in Listing, NEW dst \in Listing,
         NEW rank \in Orders(DestToSource(src, dst)),
         NEW r \in WalksThatFind(DestToSource(src, dst), rank), NEW o, o.to = NPaths + r
  PROVE  WantedAt(src, Plan(src, dst, rank), o) = src[CycleStart(DestToSource(src, dst), r)]
<1> DEFINE d2s == DestToSource(src, dst)
           array == Plan(src, dst, rank)
           first == CycleStart(d2s, r)
           users == {u \in array : u.act = "copy" /\ u.from = o.to}
           back == [ord |-> rank[r] * (NPaths + 2) + CycleLength(d2s, first), act |-> "copy",
                    from |-> NPaths + r, to |-> first]
<1>1. back \in CycleOps(d2s, rank, r) /\ CycleOps(d2s, rank, r) \subseteq array
  BY DEF CycleOps, Plan
<1>2. back \in users
  BY <1>1
<1>3. r \in Path /\ o.to \notin Path /\ o.to # 0
  <2>1. r \in Path
    BY CopiesNeedTransfer DEF WalksThatFind
  <2> QED
    BY <2>1, PathAssumption DEF Path
<1>4. ASSUME NEW u \in users PROVE u.to = first
  <2>1. u \in CycleOps(d2s, rank, r)
    BY <1>3, TempOwner
  <2>2. \A q \in Copies(src, dst) : d2s[q] \in Path
    BY CopiesNeedTransfer
  <2>3. first \in Copies(src, dst)
    BY <2>1, CycleKinds
  <2> HIDE DEF d2s, first
  <2> QED
    BY <1>3, <2>1, <2>2, <2>3, CycleKinds DEF d2s, first
<1>5. (CHOOSE u \in users : TRUE) \in users
  <2> HIDE DEF users
  <2> QED
    BY <1>2
<1>6. WantedAt(src, array, o) = src[(CHOOSE u \in users : TRUE).to]
  BY <1>3 DEF WantedAt
<1> HIDE DEF users
<1> QED
  BY <1>4, <1>5, <1>6

\* What an operation copies from a path: what one of the copy destinations is to have.
LEMMA CopyReads ==
  ASSUME NEW src \in Listing, NEW dst \in Listing,
         NEW rank \in Orders(DestToSource(src, dst)),
         NEW o \in Plan(src, dst, rank), o.act = "copy", o.from \in Path
  PROVE  LET d2s == DestToSource(src, dst)
         IN  \E q \in Copies(src, dst) :
               /\ o.from = d2s[q] /\ WantedAt(src, Plan(src, dst, rank), o) = src[q]
               /\ \/ OnCycle(d2s, q)
                  \/ o = [ord |-> AfterCycles + q, act |-> "copy", from |-> d2s[q], to |-> q]
<1> DEFINE d2s == DestToSource(src, dst)
           array == Plan(src, dst, rank)
<1>1. \A q \in Copies(src, dst) : q \in Path
  BY CopiesNeedTransfer
<1>2. \A q \in Path : o.to = q => WantedAt(src, array, o) = src[q]
  BY DEF WantedAt
<1>3. CASE \E q \in Copies(src, dst) :
              o = [ord |-> AfterCycles + q, act |-> "copy", from |-> d2s[q], to |-> q]
  BY <1>1, <1>2, <1>3
<1>4. CASE \E r \in WalksThatFind(d2s, rank) : o \in CycleOps(d2s, rank, r)
  <2>1. PICK r \in WalksThatFind(d2s, rank) : o \in CycleOps(d2s, rank, r)
    BY <1>4
  <2> DEFINE first == CycleStart(d2s, r)
  <2>2. NPaths + r \notin Path /\ first \in Copies(src, dst) /\ OnCycle(d2s, first)
    BY <2>1, CycleKinds, PathsAreNumbers
  <2>3. CASE o.to = NPaths + r /\ o.from = d2s[first]
    <3>1. WantedAt(src, array, o) = src[first]
      BY <2>3, TempWanted
    <3> HIDE DEF d2s, array, first
    <3> QED
      BY <2>2, <2>3, <3>1 DEF d2s, array
  <2>4. CASE \E q \in Copies(src, dst) : OnCycle(d2s, q) /\ o.to = q /\ o.from = d2s[q]
    BY <1>1, <1>2, <2>4
  <2>5. o.from # NPaths + r
    BY <2>2
  <2> HIDE DEF d2s, array, first
  <2> QED
    BY <2>1, <2>3, <2>4, <2>5, CycleKinds DEF d2s, first
<1> QED
  BY <1>3, <1>4, PlanCases

\* A copy reads a file that has, before the plan starts, what the copy is to deliver;
\* or one the plan sends before (the hash index computeOperations fills as it goes).
LEMMA CopySourceHolds ==
  ASSUME NEW src \in Listing, NEW dst \in Listing,
         NEW rank \in Orders(DestToSource(src, dst)),
         NEW o \in Plan(src, dst, rank), o.act = "copy", o.from \in Path
  PROVE  \/ dst[o.from] = WantedAt(src, Plan(src, dst, rank), o)
         \/ \E t \in Plan(src, dst, rank) : t.act = "transfer" /\ t.to = o.from /\ t.ord < o.ord
<1> DEFINE d2s == DestToSource(src, dst)
           array == Plan(src, dst, rank)
<1>1. PICK q \in Copies(src, dst) :
        /\ o.from = d2s[q] /\ WantedAt(src, array, o) = src[q]
        /\ \/ OnCycle(d2s, q)
           \/ o = [ord |-> AfterCycles + q, act |-> "copy", from |-> d2s[q], to |-> q]
  BY CopyReads
<1> DEFINE f == IndexedPath(src, dst, q)
           holders == {x \in Path : dst[x] = src[q]}
           wanting == {x \in NeedsTransfer(src, dst) : src[x] = src[q]}
<1>2. d2s[q] = f /\ q \in NeedsTransfer(src, dst) /\ f # q /\ q \in Path
  BY CopiesNeedTransfer DEF DestToSource, Copies
<1> SUFFICES ASSUME dst[f] # src[q]
             PROVE  \E t \in array : t.act = "transfer" /\ t.to = o.from /\ t.ord < o.ord
  BY <1>1, <1>2
<1>3. f \in NeedsTransfer(src, dst) /\ src[f] = src[q] /\ holders = {} /\ f \in Path
  BY <1>2, IndexedPathHasContent
<1>4. f = Min(wanting)
  BY <1>3 DEF IndexedPath
<1>5. wanting \in SUBSET Nat /\ q \in wanting
  BY <1>2, PathsAreNumbers, CopiesNeedTransfer
<1>6. f < q
  <2>1. f <= q
    BY <1>4, <1>5, MinIsLeast
  <2> HIDE DEF f
  <2> QED
    BY <1>2, <1>3, <2>1, PathsAreNumbers
<1>7. f \notin Copies(src, dst)
  <2>1. IndexedPath(src, dst, f) = Min(wanting)
    BY <1>3 DEF IndexedPath
  <2> QED
    BY <1>4, <2>1 DEF Copies
<1>8. d2s \in Dictionary /\ DOMAIN d2s = Copies(src, dst)
  BY DestToSourceIsDictionary, CopiesNeedTransfer
<1> DEFINE t == [ord |-> AfterCycles + f, act |-> "transfer", from |-> 0, to |-> f]
<1>9. t \in array
  BY <1>3, <1>7, <1>8 DEF Plan
<1> HIDE DEF d2s, f, array
<1>10. ~ OnCycle(d2s, q)
  BY <1>2, <1>7, <1>8, OnCycleGoesOn
<1>11. AfterCycles + f < AfterCycles + q
  <2>1. AfterCycles \in Nat
    BY PathAssumption DEF AfterCycles
  <2> QED
    BY <1>2, <1>3, <1>6, <2>1, PathsAreNumbers
<1> QED
  BY <1>1, <1>2, <1>9, <1>10, <1>11

\* A cycle's first file is put in place from the temporary file while that has what was
\* saved for it: after the save, before the delete.
LEMMA TempsHold ==
  ASSUME NEW src \in Listing, NEW dst \in Listing,
         NEW rank \in Orders(DestToSource(src, dst)),
         NEW o \in Plan(src, dst, rank), o.act = "copy", o.from \in TempPlace
  PROVE  /\ o.to \in Path
         /\ \E s \in Plan(src, dst, rank) :
              /\ s.act = "copy" /\ s.to = o.from /\ s.ord < o.ord
              /\ WantedAt(src, Plan(src, dst, rank), s) = src[o.to]
         /\ \A d \in Plan(src, dst, rank) : d.act = "delete" /\ d.to = o.from => o.ord < d.ord
<1> DEFINE d2s == DestToSource(src, dst)
           array == Plan(src, dst, rank)
           r == o.from - NPaths
           first == CycleStart(d2s, r)
           n == CycleLength(d2s, first)
           base == rank[r] * (NPaths + 2)
           at(i) == base + i
           s == [ord |-> at(0), act |-> "copy", from |-> d2s[first], to |-> NPaths + r]
<1>1. r \in Path /\ o.from = NPaths + r /\ o.from \notin Path
  BY PathAssumption DEF Path, TempPlace
<1> HIDE DEF r
<1>2. r \in WalksThatFind(d2s, rank) /\ o \in CycleOps(d2s, rank, r)
  BY <1>1, TempOwner
<1>3. CycleOps(d2s, rank, r) \subseteq array /\ s \in CycleOps(d2s, rank, r)
  BY <1>2 DEF CycleOps, Plan
<1>4. \A q \in Copies(src, dst) : q \in Path /\ d2s[q] \in Path
  BY CopiesNeedTransfer
<1>5. first \in Copies(src, dst) /\ n \in 1..NPaths /\ at(0) \in Nat
  BY <1>2, CycleKinds
<1>6. WantedAt(src, array, s) = src[first]
  BY <1>2, TempWanted
<1>7. ASSUME NEW x \in CycleOps(d2s, rank, r)
      PROVE  \/ x = s
             \/ x = [ord |-> at(n), act |-> "copy", from |-> NPaths + r, to |-> first]
             \/ x = [ord |-> at(n + 1), act |-> "delete", from |-> 0, to |-> NPaths + r]
             \/ x.from \in Path /\ x.act = "copy" /\ x.to \in Path
  BY <1>2, <1>4, CycleKinds
<1> HIDE DEF d2s, array, first, n
<1>8. o = [ord |-> at(n), act |-> "copy", from |-> NPaths + r, to |-> first]
  <2>1. s.from \in Path
    BY <1>4, <1>5
  <2> QED
    BY <1>1, <1>2, <1>7, <2>1
<1>9. at(0) < at(n) /\ at(n) < at(n + 1)
  <2>1. rank[r] \in Nat /\ NPaths + 2 \in Nat
    <3>1. r \in Copies(src, dst)
      BY <1>2, CycleKinds DEF d2s
    <3> QED
      BY <3>1, RankIsNat, PathAssumption
  <2>2. base \in Nat
    BY <2>1
  <2> HIDE DEF base
  <2> QED
    BY <1>5, <2>2, PathAssumption
<1>10. ASSUME NEW d \in array, d.act = "delete", d.to = o.from PROVE o.ord < d.ord
  <2>1. d \in CycleOps(d2s, rank, r)
    BY <1>1, <1>10, TempOwner DEF d2s, array
  <2>2. d.ord = at(n + 1)
    BY <1>1, <1>7, <1>10, <2>1
  <2> QED
    BY <1>8, <1>9, <2>2
<1>11. s \in array /\ s.act = "copy" /\ s.to = o.from /\ s.ord < o.ord
  BY <1>1, <1>3, <1>8, <1>9
<1> QED
  BY <1>4, <1>5, <1>6, <1>8, <1>10, <1>11 DEF array

\* If no copy of a plan is overtaken, each reads what it is to deliver: a path nothing
\* before it writes, which had that content to begin with; or one that whatever writes it
\* before, a temporary file as well as a path, fills with just that (SyncClient's hash
\* index, resolveCopyCycles).
THEOREM PlanReadsWhatIsThere ==
  ASSUME NEW src \in Listing, NEW dst \in Listing,
         NEW rank \in Orders(DestToSource(src, dst)),
         Overtaken(src, Plan(src, dst, rank)) = {},
         NEW o \in Plan(src, dst, rank), o.act = "copy"
  PROVE  LET array == Plan(src, dst, rank)
             before == {w \in array : w.to = o.from /\ w.ord < o.ord}
         IN  /\ before = {} => o.from \in Path /\ dst[o.from] = WantedAt(src, array, o)
             /\ \A w \in before :
                    w.act # "delete" /\ WantedAt(src, array, w) = WantedAt(src, array, o)
<1> DEFINE array == Plan(src, dst, rank)
           before == {w \in array : w.to = o.from /\ w.ord < o.ord}
<1>1. array \subseteq Op
  BY PlanIsOps
<1>2. o.from \in Path \cup TempPlace /\ Path \cap TempPlace = {}
  BY <1>1, PathsAreNumbers DEF Op, Place
<1>3. ASSUME o.from \in TempPlace
      PROVE  /\ before # {}
             /\ \A w \in before :
                    w.act # "delete" /\ WantedAt(src, array, w) = WantedAt(src, array, o)
  <2>1. o.to \in Path /\ \A d \in array : d.act = "delete" /\ d.to = o.from => o.ord < d.ord
    BY <1>3, TempsHold
  <2>2. PICK s \in array : /\ s.act = "copy" /\ s.to = o.from /\ s.ord < o.ord
                          /\ WantedAt(src, array, s) = src[o.to]
    BY <1>3, TempsHold
  <2>3. WantedAt(src, array, o) = src[o.to]
    BY <2>1 DEF WantedAt
  <2>4. ASSUME NEW w \in before
        PROVE  WantedAt(src, array, w) = WantedAt(src, array, s)
    BY <2>2, <2>4 DEF WantedAt
  <2>5. \A w \in before : ~ (o.ord < w.ord)
    BY <1>1 DEF Op
  <2> HIDE DEF array
  <2> QED
    BY <2>1, <2>2, <2>3, <2>4, <2>5
<1>4. ASSUME o.from \in Path
      PROVE  /\ before = {} => dst[o.from] = WantedAt(src, array, o)
             /\ \A w \in before :
                    w.act # "delete" /\ WantedAt(src, array, w) = WantedAt(src, array, o)
  <2>1. WantedAt(src, array, o) # Absent
    <3>1. PICK q \in Copies(src, dst) : WantedAt(src, array, o) = src[q]
      BY <1>4, CopyReads
    <3> QED
      BY <3>1 DEF Copies, NeedsTransfer
  <2>2. ASSUME NEW w \in before
        PROVE  w.act # "delete" /\ WantedAt(src, array, w) = WantedAt(src, array, o)
    <3>1. src[w.to] = WantedAt(src, array, o)
      BY <1>4, <2>2 DEF Overtaken
    <3>2. WantedAt(src, array, w) = src[w.to]
      BY <1>4, <2>2 DEF WantedAt
    <3>3. w.act = "delete" => src[w.to] = Absent
      BY <1>4, <2>2, PlanDeletesOnlyExtra
    <3> QED
      BY <2>1, <3>1, <3>2, <3>3
  <2>3. before = {} => dst[o.from] = WantedAt(src, array, o)
    BY <1>4, CopySourceHolds
  <2> QED
    BY <2>2, <2>3
<1> QED
  BY <1>2, <1>3, <1>4

-----------------------------------------------------------------------------
(* A plan that is carried out: PlanRun.                                    *)

RunTypeInv ==
    /\ source \in Listing /\ target \in Listing
    /\ \E rank \in Orders(DestToSource(source, target)) : ops = Plan(source, target, rank)
    /\ left \subseteq ops
    /\ DOMAIN store = Place

LEMMA RunTypeInvHolds == RunSpec => []RunTypeInv
<1>1. RunInit => RunTypeInv
  BY DEF RunInit, RunTypeInv, RunFiles, Listing, FileData
<1>2. RunTypeInv /\ [RunNext]_runVars => RunTypeInv'
  BY DEF RunTypeInv, RunNext, Execute, runVars
<1> QED
  BY <1>1, <1>2, PTL DEF RunSpec

\* What a plan sends over the network is content the destination has nowhere, each
\* such content once (computeOperations), whatever the trees.
THEOREM SpecTransfersOnlyNewContent == RunSpec => []TransfersOnlyNewContent
<1>1. RunTypeInv => TransfersOnlyNewContent
  BY PlanTransfersOnlyNewContent DEF RunTypeInv, TransfersOnlyNewContent
<1> QED
  BY <1>1, RunTypeInvHolds, PTL

\* Whatever the plan does, a file the two sides share keeps its content through
\* every step: no operation is directed at it, those of the cycles included.
THEOREM SpecSharedFilesStay == RunSpec => []SharedFilesStay
<1>1. RunInit => SharedFilesStay
  BY PathsAreNumbers DEF RunInit, SharedFilesStay, Place
<1>2. ASSUME RunTypeInv, SharedFilesStay, [RunNext]_runVars
      PROVE  SharedFilesStay'
  <2>1. CASE UNCHANGED runVars
    BY <1>2, <2>1 DEF SharedFilesStay, runVars
  <2>2. CASE Execute
    <3>1. PICK o \in left : DOMAIN store' = DOMAIN store
                            /\ \A q \in Place : q # o.to => store'[q] = store[q]
      BY <1>2, <2>2 DEF Execute, RunTypeInv
    <3>2. o.to \in Path => source[o.to] # target[o.to]
      BY <1>2, PlanWritesOnlyDifferences DEF RunTypeInv
    <3>3. UNCHANGED <<source, target>>
      BY <2>2 DEF Execute
    <3> QED
      BY <1>2, <3>1, <3>2, <3>3 DEF SharedFilesStay, Place
  <2> QED
    BY <1>2, <2>1, <2>2 DEF RunNext
<1> QED
  BY <1>1, <1>2, RunTypeInvHolds, PTL DEF RunSpec

-----------------------------------------------------------------------------
(* Temporary files.                                                        *)

\* What is done comes no later in the array than what is left.
DoneFirst == \A x \in ops \ left, y \in left : x.ord <= y.ord

\* A temporary file that is there will be deleted.
DeleteToCome == \A q \in TempPlace :
    store[q] # Absent => \E d \in left : d.act = "delete" /\ d.to = q

CleanInv == RunTypeInv /\ DoneFirst /\ DeleteToCome

LEMMA CleanInvHolds == RunSpec => []CleanInv
<1>1. RunInit => DoneFirst /\ DeleteToCome
  BY PathsAreNumbers DEF RunInit, DoneFirst, DeleteToCome, Place
<1>2. ASSUME CleanInv, [RunNext]_runVars
      PROVE  DoneFirst' /\ DeleteToCome'
  <2>1. CASE UNCHANGED runVars
    BY <1>2, <2>1 DEF CleanInv, DoneFirst, DeleteToCome, runVars
  <2>2. CASE Execute
    <3>1. PICK o \in left :
            /\ \A x \in left : o.ord <= x.ord
            /\ left' = left \ {o}
            /\ store' = [store EXCEPT ![o.to] = CASE o.act = "copy" -> store[o.from]
                                                  [] o.act = "transfer" -> source[o.to]
                                                  [] o.act = "delete" -> Absent]
      BY <2>2 DEF Execute
    <3>2. ops' = ops /\ DOMAIN store = Place /\ o \in ops
      BY <1>2, <2>2 DEF Execute, CleanInv, RunTypeInv
    <3>3. DoneFirst'
      BY <1>2, <3>1, <3>2 DEF CleanInv, DoneFirst
    <3>4. ASSUME NEW q \in TempPlace, store'[q] # Absent
          PROVE  \E d \in left' : d.act = "delete" /\ d.to = q
      <4>1. q \in Place
        BY DEF Place
      <4>2. CASE o.to # q
        <5>1. store'[q] = store[q]
          BY <3>1, <3>2, <4>1, <4>2
        <5> QED
          BY <5>1, <1>2, <3>1, <3>4, <4>2 DEF CleanInv, DeleteToCome
      <4>3. CASE o.to = q
        <5>1. o.act # "delete"
          BY <3>1, <3>2, <3>4, <4>1, <4>3
        <5>2. ops \subseteq Op
          BY <1>2, PlanIsOps DEF CleanInv, RunTypeInv
        <5>3. PICK d \in ops : d.act = "delete" /\ d.to = q /\ o.ord < d.ord
          BY <1>2, <3>2, <4>3, <5>1, PlanCleansTemps DEF CleanInv, RunTypeInv
        <5>4. o.ord \in Nat /\ d.ord \in Nat
          BY <3>2, <5>2, <5>3 DEF Op
        <5>5. d \in left
          BY <1>2, <5>3, <5>4 DEF CleanInv, DoneFirst
        <5> QED
          BY <3>1, <5>1, <5>3, <5>5
      <4> QED
        BY <4>2, <4>3
    <3> QED
      BY <3>3, <3>4 DEF DeleteToCome
  <2> QED
    BY <1>2, <2>1, <2>2 DEF RunNext
<1> QED
  BY <1>1, <1>2, RunTypeInvHolds, PTL DEF RunSpec, CleanInv

\* When a plan is done none of its temporary files is left, however many cycles
\* the copies form and in whatever order the dictionary yields them
\* (resolveCopyCycles, the delete at the end of each cycle).
THEOREM SpecTempsGone == RunSpec => []TempsGone
<1>1. CleanInv => TempsGone
  BY DEF CleanInv, DeleteToCome, TempsGone
<1> QED
  BY <1>1, CleanInvHolds, PTL

-----------------------------------------------------------------------------
(* What the operations done so far have put in place, unless one reads what *)
(* another has overwritten.                                                *)

Delivered == \A p \in Path :
    store[p] = IF \E o \in ops \ left : o.to = p THEN source[p] ELSE target[p]

\* A saved file is there until the plan deletes it.
Saved == \A s \in ops \ left :
    s.act = "copy" /\ s.to \in TempPlace
        /\ (\A d \in ops \ left : d.to = s.to => d.act # "delete")
    => store[s.to] = WantedAt(source, ops, s)

OnTrack == Overtaken(source, ops) = {} => Delivered /\ Saved

\* The content a copy finds is the content it is to deliver.
LEMMA CopyFindsWanted ==
  ASSUME CleanInv, OnTrack, Overtaken(source, ops) = {}, NEW o \in left,
         \A x \in left : o.ord <= x.ord, o.act = "copy"
  PROVE  store[o.from] = WantedAt(source, ops, o)
<1>1. PICK rank \in Orders(DestToSource(source, target)) : ops = Plan(source, target, rank)
  BY DEF CleanInv, RunTypeInv
<1>2. source \in Listing /\ target \in Listing /\ o \in ops /\ left \subseteq ops
  BY DEF CleanInv, RunTypeInv
<1>3. ops \subseteq Op
  BY <1>1, <1>2, PlanIsOps
<1>4. \A x \in ops : x.ord \in Nat
  BY <1>3 DEF Op
<1>5. ASSUME NEW x \in ops, x.ord < o.ord PROVE x \in ops \ left
  BY <1>2, <1>4, <1>5
<1>6. o.from \in Path \cup TempPlace /\ o.to \in Path \cup TempPlace
  BY <1>2, <1>3 DEF Op, Place
<1>7. CASE o.from \in TempPlace
  <2>1. PICK s \in ops : /\ s.act = "copy" /\ s.to = o.from /\ s.ord < o.ord
                         /\ WantedAt(source, ops, s) = source[o.to]
    BY <1>1, <1>2, <1>7, TempsHold
  <2>2. o.to \in Path /\ \A d \in ops : d.act = "delete" /\ d.to = o.from => o.ord < d.ord
    BY <1>1, <1>2, <1>7, TempsHold
  <2>3. ASSUME NEW d \in ops \ left, d.to = s.to PROVE d.act # "delete"
    <3> SUFFICES ASSUME d.act = "delete" PROVE FALSE
      OBVIOUS
    <3>1. o.ord < d.ord
      BY <2>1, <2>2, <2>3
    <3>2. d.ord <= o.ord
      BY DEF CleanInv, DoneFirst
    <3> QED
      BY <1>2, <1>4, <3>1, <3>2
  <2>4. s \in ops \ left
    BY <1>5, <2>1
  <2>5. store[s.to] = WantedAt(source, ops, s)
    BY <1>7, <2>1, <2>3, <2>4 DEF OnTrack, Saved
  <2>6. WantedAt(source, ops, o) = source[o.to]
    BY <2>2 DEF WantedAt
  <2> QED
    BY <2>1, <2>5, <2>6
<1>8. CASE o.from \in Path
  <2>1. ASSUME NEW w \in ops, w.ord < o.ord, w.to = o.from
        PROVE  source[o.from] = WantedAt(source, ops, o)
    BY <1>2, <1>8, <2>1 DEF Overtaken
  <2>2. CASE \E w \in ops \ left : w.to = o.from
    <3>1. PICK w \in ops \ left : w.to = o.from
      BY <2>2
    <3>2. w.ord <= o.ord
      BY DEF CleanInv, DoneFirst
    <3>3. w.ord # o.ord
      BY <1>1, <1>2, OneOpPerPlace
    <3>4. source[o.from] = WantedAt(source, ops, o)
      BY <1>2, <1>4, <2>1, <3>1, <3>2, <3>3
    <3>5. store[o.from] = source[o.from]
      BY <1>8, <2>2 DEF OnTrack, Delivered
    <3> QED
      BY <3>4, <3>5
  <2>3. CASE ~ \E w \in ops \ left : w.to = o.from
    <3>1. store[o.from] = target[o.from]
      BY <1>8, <2>3 DEF OnTrack, Delivered
    <3>2. ~ \E t \in ops : t.to = o.from /\ t.ord < o.ord
      BY <1>5, <2>3
    <3>3. target[o.from] = WantedAt(source, ops, o)
      BY <1>1, <1>2, <1>8, <3>2, CopySourceHolds
    <3> QED
      BY <3>1, <3>3
  <2> QED
    BY <2>2, <2>3
<1> QED
  BY <1>6, <1>7, <1>8

LEMMA OnTrackHolds == RunSpec => []OnTrack
<1>1. RunInit => OnTrack
  BY PathsAreNumbers DEF RunInit, OnTrack, Delivered, Saved, Place
<1>2. ASSUME CleanInv, OnTrack, [RunNext]_runVars
      PROVE  OnTrack'
  <2>1. CASE UNCHANGED runVars
    BY <1>2, <2>1 DEF OnTrack, Delivered, Saved, WantedAt, Overtaken, runVars
  <2>2. CASE Execute
    <3>1. PICK o \in left :
            /\ \A x \in left : o.ord <= x.ord
            /\ left' = left \ {o}
            /\ store' = [store EXCEPT ![o.to] = CASE o.act = "copy" -> store[o.from]
                                                  [] o.act = "transfer" -> source[o.to]
                                                  [] o.act = "delete" -> Absent]
      BY <2>2 DEF Execute
    <3>2. UNCHANGED <<source, target, ops>>
      BY <2>2 DEF Execute
    <3>3. PICK rank \in Orders(DestToSource(source, target)) : ops = Plan(source, target, rank)
      BY <1>2 DEF CleanInv, RunTypeInv
    <3>4. /\ source \in Listing /\ target \in Listing /\ o \in ops /\ left \subseteq ops
          /\ DOMAIN store = Place
      BY <1>2 DEF CleanInv, RunTypeInv
    <3>5. ops \subseteq Op
      BY <3>3, <3>4, PlanIsOps
    <3>6. o.to \in Place /\ o.act \in {"copy", "transfer", "delete"}
      BY <3>4, <3>5 DEF Op, Place
    <3>7. ops' \ left' = (ops \ left) \cup {o}
      BY <3>1, <3>2, <3>4
    <3>8. \A q \in Place : q # o.to => store'[q] = store[q]
      BY <3>1, <3>4
    <3> SUFFICES ASSUME Overtaken(source, ops) = {} PROVE Delivered' /\ Saved'
      BY <3>2 DEF OnTrack, Overtaken, WantedAt
    <3>9. Delivered /\ Saved
      BY <1>2 DEF OnTrack
    <3>10. /\ o.act = "copy" => store'[o.to] = WantedAt(source, ops, o)
           /\ o.act = "transfer" => store'[o.to] = source[o.to]
           /\ o.act = "delete" => store'[o.to] = Absent
      <4>1. o.act = "copy" => store[o.from] = WantedAt(source, ops, o)
        BY <1>2, <3>1, CopyFindsWanted
      <4> QED
        BY <3>1, <3>4, <3>6, <4>1
    <3>11. o.to \in Path => store'[o.to] = source[o.to]
      <4>1. o.to \in Path => WantedAt(source, ops, o) = source[o.to]
        BY DEF WantedAt
      <4>2. o.act = "delete" /\ o.to \in Path => source[o.to] = Absent
        BY <3>3, <3>4, PlanDeletesOnlyExtra
      <4> QED
        BY <3>6, <3>10, <4>1, <4>2
    <3>12. Delivered'
      <4> SUFFICES ASSUME NEW p \in Path
                   PROVE  store'[p] = IF \E x \in (ops \ left) \cup {o} : x.to = p
                                      THEN source[p] ELSE target[p]
        BY <3>2, <3>7 DEF Delivered
      <4>1. p \in Place
        BY DEF Place
      <4>2. CASE p = o.to
        BY <3>11, <4>2
      <4>3. CASE p # o.to
        <5>1. store'[p] = store[p]
          BY <3>8, <4>1, <4>3
        <5> QED
          BY <3>9, <4>3, <5>1 DEF Delivered
      <4> QED
        BY <4>2, <4>3
    <3>13. Saved'
      <4> SUFFICES ASSUME NEW s \in (ops \ left) \cup {o}, s.act = "copy", s.to \in TempPlace,
                          \A d \in (ops \ left) \cup {o} : d.to = s.to => d.act # "delete"
                   PROVE  store'[s.to] = WantedAt(source, ops, s)
        BY <3>2, <3>7 DEF Saved, WantedAt
      <4>1. CASE s = o
        BY <3>10, <4>1
      <4>2. CASE s # o /\ o.to # s.to
        <5>1. store'[s.to] = store[s.to]
          BY <3>8, <4>2 DEF Place
        <5> QED
          BY <3>9, <4>2, <5>1 DEF Saved
      <4>3. CASE s # o /\ o.to = s.to
        <5>1. o.to \notin Path
          BY <4>3, PathsAreNumbers
        <5>2. o.act = "copy"
          BY <3>3, <3>4, <3>5, <4>3, <5>1 DEF Op
        <5>3. WantedAt(source, ops, s) = WantedAt(source, ops, o)
          BY <4>3 DEF WantedAt
        <5> QED
          BY <3>10, <4>3, <5>2, <5>3
      <4> QED
        BY <4>1, <4>2, <4>3
    <3> QED
      BY <3>12, <3>13
  <2> QED
    BY <1>2, <2>1, <2>2 DEF RunNext
<1> QED
  BY <1>1, <1>2, CleanInvHolds, PTL DEF RunSpec

LEMMA DoneMeansMirrored ==
  ASSUME CleanInv, OnTrack, left = {}, Overtaken(source, ops) = {}
  PROVE  Mirrored
<1>1. PICK rank \in Orders(DestToSource(source, target)) : ops = Plan(source, target, rank)
  BY DEF CleanInv, RunTypeInv
<1>2. \A p \in Path : source[p] # target[p] => \E o \in ops : o.to = p
  BY <1>1, PlanCoversDifferences DEF CleanInv, RunTypeInv
<1> QED
  BY <1>2 DEF OnTrack, Delivered, Mirrored

\* A plan carried out to its end makes the destination what the source is, unless one
\* of its copies reads a file after another operation has overwritten it: for any
\* number of paths, any contents and any order of the dictionary.
THEOREM SpecMirroredUnlessOvertaken == RunSpec => []MirroredUnlessOvertaken
<1>1. CleanInv /\ OnTrack => MirroredUnlessOvertaken
  BY DoneMeansMirrored DEF MirroredUnlessOvertaken
<1> QED
  BY <1>1, CleanInvHolds, OnTrackHolds, PTL

-----------------------------------------------------------------------------
(* Cycles and nothing else.                                                *)

\* On its way round a cycle the chain meets what q is copied from after it has met q.
LEMMA NextIsFarther ==
  ASSUME NEW d2s \in Dictionary, NEW p \in DOMAIN d2s, OnCycle(d2s, p),
         NEW q \in Reached(d2s, p), d2s[q] # p
  PROVE  d2s[q] \in Reached(d2s, p) /\ Distance(d2s, p, q) < Distance(d2s, p, d2s[q])
<1> DEFINE w == Chain(d2s, p)
           n == CycleLength(d2s, p)
           j == Distance(d2s, p, q)
           f == d2s[q]
           k == Distance(d2s, p, f)
<1>1. q \in DOMAIN d2s /\ OnCycle(d2s, q)
  BY CycleReachesBack
<1>2. f \in DOMAIN d2s /\ f \in Reached(d2s, p)
  BY <1>1, OnCycleGoesOn, ReachedOnward
<1>3. j \in 0..(n - 1) /\ w[j] = q /\ j \in 0..NPaths
  BY FirstRound, DistanceIsFirst
<1>4. n \in 1..NPaths /\ w[n] = p /\ \A i \in 1..NPaths : w[i] = p => n <= i
  BY LengthIsFirst
<1>5. k \in 0..(n - 1) /\ w[k] = f /\ k # 0 /\ k \in 0..NPaths
  BY <1>2, FirstRound, DistanceIsFirst
<1>6. \A i \in 0..(NPaths - 1) : w[i + 1] = ChainStep(d2s, w[i])
  BY ChainSteps
<1>7. q # 0
  BY <1>1, DictionaryParts
<1> HIDE DEF n, j, k
<1>8. j \in 0..(NPaths - 1) /\ j + 1 <= n /\ j + 1 \in 0..NPaths
  BY <1>3, <1>4, PathAssumption
<1>9. w[j + 1] = f
  <2>1. w[j + 1] = ChainStep(d2s, w[j])
    BY <1>6, <1>8
  <2> HIDE DEF w
  <2> QED
    BY <1>2, <1>3, <1>7, <2>1 DEF ChainStep
<1> SUFFICES ASSUME k <= j PROVE FALSE
  BY <1>2, <1>3, <1>5, PathAssumption DEF j, k
<1> DEFINE rest == n - (j + 1)
<1>10. /\ rest \in Nat /\ k + rest <= NPaths /\ (j + 1) + rest <= NPaths
       /\ k + rest \in 1..NPaths /\ k + rest < n /\ (j + 1) + rest = n
  BY <1>3, <1>4, <1>5, <1>8, PathAssumption
<1>11. Chain(d2s, w[k])[rest] = w[k + rest]
  BY <1>2, <1>5, <1>10, ChainShifts
<1>12. Chain(d2s, w[j + 1])[rest] = w[(j + 1) + rest]
  BY <1>2, <1>8, <1>9, <1>10, ChainShifts
<1> HIDE DEF w, rest, f
<1>13. w[k + rest] = p
  BY <1>4, <1>5, <1>9, <1>10, <1>11, <1>12
<1>14. n <= k + rest
  BY <1>4, <1>10, <1>13
<1> QED
  BY <1>4, <1>10, <1>14, PathAssumption

\* Where every copy destination lies on a cycle, two walks that find a cycle find
\* different ones.
LEMMA OneWalkPerCycle ==
  ASSUME NEW src \in Listing, NEW dst \in Listing,
         NEW rank \in Orders(DestToSource(src, dst)),
         \A p \in Copies(src, dst) : OnCycle(DestToSource(src, dst), p),
         NEW r \in WalksThatFind(DestToSource(src, dst), rank),
         NEW s \in WalksThatFind(DestToSource(src, dst), rank),
         NEW f \in Reached(DestToSource(src, dst), r), f \in Reached(DestToSource(src, dst), s)
  PROVE  r = s
<1> DEFINE d2s == DestToSource(src, dst)
<1>1. d2s \in Dictionary /\ DOMAIN d2s = Copies(src, dst)
  BY DestToSourceIsDictionary, CopiesNeedTransfer
<1>2. r \in Copies(src, dst) /\ s \in Copies(src, dst) /\ f \in Copies(src, dst)
  BY <1>1 DEF WalksThatFind, Reached
<1>3. /\ \A q \in DOMAIN d2s : rank[q] < rank[r] => r \notin Reached(d2s, q)
      /\ \A q \in DOMAIN d2s : rank[q] < rank[s] => s \notin Reached(d2s, q)
  BY DEF WalksThatFind
<1>4. rank[r] \in 1..NPaths /\ rank[s] \in 1..NPaths /\ (rank[r] = rank[s] => r = s)
  BY <1>2, RankBounds
<1>5. OnCycle(d2s, r) /\ OnCycle(d2s, s)
  BY <1>2
<1>6. f \in Reached(d2s, r) /\ f \in Reached(d2s, s)
  OBVIOUS
<1> HIDE DEF d2s
<1>7. s \in Reached(d2s, f) /\ r \in Reached(d2s, f)
  BY <1>1, <1>2, <1>5, <1>6, CycleReachesBack
<1>8. s \in Reached(d2s, r) /\ r \in Reached(d2s, s)
  BY <1>1, <1>2, <1>6, <1>7, ReachedOnward
<1> QED
  BY <1>1, <1>2, <1>3, <1>4, <1>8, PathAssumption

\* Copies that form cycles and nothing else read no file that has been overwritten.
THEOREM PureCyclesNotOvertaken ==
  ASSUME NEW src \in Listing, NEW dst \in Listing,
         NEW rank \in Orders(DestToSource(src, dst)),
         \A p \in Copies(src, dst) : OnCycle(DestToSource(src, dst), p)
  PROVE  Overtaken(src, Plan(src, dst, rank)) = {}
<1> DEFINE d2s == DestToSource(src, dst)
           array == Plan(src, dst, rank)
           walks == WalksThatFind(d2s, rank)
<1> SUFFICES ASSUME NEW o \in array, NEW w \in array, o.act = "copy", o.from \in Path,
                    w.ord < o.ord, w.to = o.from, src[w.to] # WantedAt(src, array, o)
             PROVE  FALSE
  BY DEF Overtaken
<1>1. d2s \in Dictionary /\ DOMAIN d2s = Copies(src, dst)
  BY DestToSourceIsDictionary, CopiesNeedTransfer
<1>2. /\ Copies(src, dst) \subseteq NeedsTransfer(src, dst)
      /\ \A q \in Copies(src, dst) : q \in Path /\ d2s[q] \in Path /\ src[q] # Absent
  BY CopiesNeedTransfer DEF NeedsTransfer
<1>3. \A q \in Copies(src, dst) : OnCycle(d2s, q) /\ d2s[q] \in Copies(src, dst)
  BY <1>1, OnCycleGoesOn
<1>4. ASSUME NEW x \in array, x.to \in Copies(src, dst) \/ x.act = "copy"
      PROVE  \E r \in walks : x \in CycleOps(d2s, rank, r)
  <2>1. \A q \in DOMAIN d2s : OnCycle(d2s, q)
    BY <1>1, <1>3
  <2>2. \/ \E r \in walks : x \in CycleOps(d2s, rank, r)
        \/ \E p \in NeedsTransfer(src, dst) \ Copies(src, dst) :
               x = [ord |-> AfterCycles + p, act |-> "transfer", from |-> 0, to |-> p]
        \/ \E p \in {q \in Path : dst[q] # Absent /\ src[q] = Absent} :
               x = [ord |-> AfterCycles + NPaths + p, act |-> "delete", from |-> 0, to |-> p]
    BY <1>1, <2>1 DEF Plan
  <2> HIDE DEF d2s, walks
  <2> QED
    BY <1>2, <1>4, <2>2
<1>5. o.from \in Copies(src, dst)
  BY <1>1, <1>3, CopyReads
<1>6. PICK r \in walks : o \in CycleOps(d2s, rank, r)
  BY <1>4
<1>7. PICK s \in walks : w \in CycleOps(d2s, rank, s)
  BY <1>4, <1>5
<1>8. \A x \in walks : /\ x \in Copies(src, dst) /\ LeadsToCycle(d2s, x)
                       /\ CycleStart(d2s, x) = x
  <2>1. \A x \in walks : x \in Copies(src, dst) /\ LeadsToCycle(d2s, x)
    BY <1>1 DEF WalksThatFind
  <2> HIDE DEF d2s, walks
  <2> QED
    BY <1>1, <1>3, <2>1, CycleStartReaches
<1>9. \A x \in walks : NPaths + x \notin Copies(src, dst) /\ NPaths + x \notin Path
  BY <1>2, <1>8, PathAssumption DEF Path
<1> DEFINE f == o.from
           n(x) == CycleLength(d2s, x)
           base(x) == rank[x] * (NPaths + 2)
           far(x, q) == Distance(d2s, x, q)
<1>10. f \in Reached(d2s, s) /\ w.ord = base(s) + (IF f = s THEN n(s) ELSE far(s, f))
  <2>1. \/ w = [ord |-> base(s) + n(s), act |-> "copy", from |-> NPaths + s, to |-> s]
        \/ w.to = NPaths + s
        \/ \E q \in Reached(d2s, s) \ {s} :
              w = [ord |-> base(s) + far(s, q), act |-> "copy", from |-> d2s[q], to |-> q]
    BY <1>7, <1>8, CycleKinds
  <2>2. s \in Reached(d2s, s)
    BY <1>1, <1>8, ReachedFromItself
  <2> HIDE DEF d2s, walks, n, base, far
  <2> QED
    BY <1>5, <1>9, <2>1, <2>2
<1>11. \/ o.ord = base(r) + 0
       \/ \E q \in Reached(d2s, r) \ {r} : o.ord = base(r) + far(r, q) /\ f = d2s[q]
  <2>1. \/ o.ord = base(r) + 0
        \/ o.from = NPaths + r
        \/ o.act = "delete"
        \/ \E q \in Reached(d2s, r) \ {r} :
              o = [ord |-> base(r) + far(r, q), act |-> "copy", from |-> d2s[q], to |-> q]
    BY <1>6, <1>8, CycleKinds
  <2> HIDE DEF d2s, walks, n, base, far
  <2> QED
    BY <1>6, <1>9, <2>1
<1>12. f \in Reached(d2s, r)
  <2>1. PICK q \in Copies(src, dst) : q \in Reached(d2s, r) /\ f = d2s[q]
    <3>1. \/ o.from = d2s[r]
          \/ o.from = NPaths + r
          \/ o.act = "delete"
          \/ \E q \in Reached(d2s, r) \cap Copies(src, dst) : o.from = d2s[q]
      BY <1>6, <1>8, CycleKinds
    <3>2. r \in Reached(d2s, r)
      BY <1>1, <1>8, ReachedFromItself
    <3> HIDE DEF d2s, walks
    <3> QED
      BY <1>6, <1>8, <1>9, <3>1, <3>2
  <2> HIDE DEF d2s, walks
  <2> QED
    BY <1>1, <1>3, <1>6, <1>8, <2>1, ReachedOnward
<1>13. r = s
  BY <1>6, <1>7, <1>10, <1>12, OneWalkPerCycle
<1>14. base(r) \in Nat /\ n(r) \in 1..NPaths
  <2>1. rank[r] \in Nat /\ NPaths + 2 \in Nat
    BY <1>6, <1>8, RankIsNat, PathAssumption
  <2>2. n(r) \in 1..NPaths
    BY <1>3, <1>6, <1>8, LengthIsFirst
  <2> QED
    BY <2>1, <2>2
<1>15. OnCycle(d2s, r) /\ r \in DOMAIN d2s
  BY <1>1, <1>3, <1>6, <1>8
<1> HIDE DEF d2s, walks
<1>16. \A q \in Reached(d2s, r) : far(r, q) \in 0..(n(r) - 1)
  BY <1>1, <1>15, FirstRound
<1>17. \A q \in Reached(d2s, r) : d2s[q] # r => far(r, q) < far(r, d2s[q])
  BY <1>1, <1>15, NextIsFarther
<1> HIDE DEF n, base, far
<1>18. CASE o.ord = base(r) + 0
  BY <1>10, <1>12, <1>13, <1>14, <1>16, <1>18, PathAssumption
<1>19. CASE \E q \in Reached(d2s, r) \ {r} : o.ord = base(r) + far(r, q) /\ f = d2s[q]
  <2>1. PICK q \in Reached(d2s, r) \ {r} : o.ord = base(r) + far(r, q) /\ f = d2s[q]
    BY <1>19
  <2>2. far(r, q) \in Nat /\ far(r, f) \in Nat /\ far(r, q) < n(r) /\ n(r) \in Nat
    BY <1>12, <1>14, <1>16, <2>1, PathAssumption
  <2>3. f # r => far(r, q) < far(r, f)
    BY <1>17, <2>1
  <2> QED
    BY <1>10, <1>13, <1>14, <2>1, <2>2, <2>3
<1> QED
  BY <1>11, <1>18, <1>19

\* Copies that form cycles and nothing else come out right, however many the cycles and
\* however long, in whatever order the dictionary yields the paths (resolveCopyCycles).
THEOREM SpecCyclesResolved == RunSpec => []CyclesResolved
<1>1. ASSUME CleanInv, OnTrack PROVE CyclesResolved
  <2> SUFFICES ASSUME left = {},
                      \A p \in DOMAIN DestToSource(source, target) :
                          OnCycle(DestToSource(source, target), p)
               PROVE  Mirrored
    BY DEF CyclesResolved
  <2>1. Overtaken(source, ops) = {}
    BY <1>1, PureCyclesNotOvertaken, CopiesNeedTransfer DEF CleanInv, RunTypeInv
  <2> QED
    BY <1>1, <2>1, DoneMeansMirrored
<1> QED
  BY <1>1, CleanInvHolds, OnTrackHolds, PTL

-----------------------------------------------------------------------------
(* A plan that is carried out on a tree, operation by operation, each of   *)
(* them in two halves.  D are the operations that are over, B those begun  *)
(* (with the one half done, if there is one).                              *)

\* No listed file lies under another.
Flat(l) == \A p \in Path : l[p] # Absent => \A q \in Above[p] : l[q] = Absent

PlanFor(src, dst, P) ==
    /\ src \in Listing /\ dst \in Listing /\ Flat(src)
    /\ \E rank \in Orders(DestToSource(src, dst)) : P = Plan(src, dst, rank)

\* What is over has its effect, but where the next operation has removed it again.
InPlace(t, src, D, H) ==
    \A o \in D : o.to \in Path /\ (\A h \in H : h.to # o.to) =>
        IF o.act = "delete" THEN ~ IsFile(t, o.to) ELSE t[o.to] = src[o.to]

\* Where nothing was to be written the tree is as it was, except under a directory
\* that had to give way to a file.
AsFound(t, dst, B) ==
    \A p \in Path : dst[p] # Absent /\ (\A o \in B : o.to # p) =>
        \/ t[p] = dst[p]
        \/ t[p] = Absent /\ \E o \in B : o.act = "copy" /\ o.to \in Above[p]

NothingElse(t, src, dst) ==
    \A p \in Path : src[p] = Absent /\ dst[p] = Absent => ~ IsFile(t, p)

\* A saved file is there until it is deleted.
StillSaved(m, src, P, D, B) ==
    \A c \in D : /\ c.act = "copy" /\ c.to \in TempPlace
                 /\ \A d \in B : d.to = c.to => d.act # "delete"
                 => m[c.to] = WantedAt(src, P, c)

\* z: nothing is on the tree but what is listed.
Course(t, m, src, dst, P, B, H, z) ==
    /\ WellFormed(t)
    /\ InPlace(t, src, B \ H, H)
    /\ AsFound(t, dst, B)
    /\ z => NothingElse(t, src, dst)
    /\ StillSaved(m, src, P, B \ H, B)

\* What an operation of a plan is for.
LEMMA PlanPurpose ==
  ASSUME NEW src, NEW dst, NEW P, PlanFor(src, dst, P), NEW o \in P
  PROVE  /\ o \in Op
         /\ o.to \in Path /\ o.act # "delete" => src[o.to] \in FileData
         /\ o.to \in Path /\ o.act = "delete" =>
               /\ src[o.to] = Absent /\ dst[o.to] # Absent
               /\ \A w \in P : w.to = o.to => w = o
<1>1. PICK rank \in Orders(DestToSource(src, dst)) : P = Plan(src, dst, rank)
  BY DEF PlanFor
<1>2. src \in Listing /\ dst \in Listing
  BY DEF PlanFor
<1>3. o \in Op
  BY <1>1, <1>2, PlanIsOps
<1>4. NeedsTransfer(src, dst) = {p \in Path : src[p] # Absent /\ dst[p] # src[p]}
  BY DEF NeedsTransfer
<1>5. Copies(src, dst) \subseteq NeedsTransfer(src, dst)
  BY <1>2, CopiesNeedTransfer
<1>6. ASSUME NEW w \in P, w.to \in Path
      PROVE  \/ w.act # "delete" /\ w.to \in NeedsTransfer(src, dst)
             \/ /\ dst[w.to] # Absent /\ src[w.to] = Absent
                /\ w = [ord |-> AfterCycles + NPaths + w.to, act |-> "delete",
                        from |-> 0, to |-> w.to]
  <2>1. CASE \E p \in WalksThatFind(DestToSource(src, dst), rank) :
               w \in CycleOps(DestToSource(src, dst), rank, p)
    <3>1. PICK r \in WalksThatFind(DestToSource(src, dst), rank) :
            w \in CycleOps(DestToSource(src, dst), rank, r)
      BY <2>1
    <3>2. w.to \notin TempPlace
      BY <1>6, PathsAreNumbers
    <3>3. w.to \in Copies(src, dst)
      BY <1>2, <3>1, <3>2, CycleOpsAreOps
    <3>4. NPaths + r \notin Path
      <4>1. r \in Path
        BY <1>2, CopiesNeedTransfer DEF WalksThatFind
      <4> QED
        BY <4>1, PathAssumption DEF Path
    <3>5. w.act # "delete"
      BY <1>6, <3>1, <3>4 DEF CycleOps
    <3> QED
      BY <1>5, <3>3, <3>5
  <2>2. CASE \E p \in Copies(src, dst) :
               w = [ord |-> AfterCycles + p, act |-> "copy",
                    from |-> DestToSource(src, dst)[p], to |-> p]
    BY <1>5, <2>2
  <2>3. CASE \E p \in NeedsTransfer(src, dst) \ Copies(src, dst) :
               w = [ord |-> AfterCycles + p, act |-> "transfer", from |-> 0, to |-> p]
    BY <2>3
  <2>4. CASE \E p \in Path : /\ dst[p] # Absent /\ src[p] = Absent
                             /\ w = [ord |-> AfterCycles + NPaths + p, act |-> "delete",
                                     from |-> 0, to |-> p]
    BY <2>4
  <2> QED
    BY <1>1, <1>2, <2>1, <2>2, <2>3, <2>4, PlanCases
<1>7. \A p \in Path : src[p] # Absent => src[p] \in FileData
  BY <1>2 DEF Listing
<1>8. o.to \in Path /\ o.act # "delete" => src[o.to] \in FileData
  BY <1>4, <1>6, <1>7
<1>9. ASSUME o.to \in Path, o.act = "delete"
      PROVE  /\ src[o.to] = Absent /\ dst[o.to] # Absent
             /\ \A w \in P : w.to = o.to => w = o
  <2>1. /\ dst[o.to] # Absent /\ src[o.to] = Absent
        /\ o = [ord |-> AfterCycles + NPaths + o.to, act |-> "delete", from |-> 0, to |-> o.to]
    BY <1>6, <1>9
  <2>2. ASSUME NEW w \in P, w.to = o.to PROVE w = o
    <3>1. w.to \notin NeedsTransfer(src, dst)
      BY <1>4, <2>1, <2>2
    <3> QED
      BY <1>6, <1>9, <2>1, <2>2, <3>1
  <2> QED
    BY <2>1, <2>2
<1> QED
  BY <1>3, <1>8, <1>9

LEMMA CourseBegins ==
  ASSUME NEW t, NEW m, NEW src, NEW dst, NEW P, NEW z, WellFormed(t),
         \A p \in Path : dst[p] # Absent => t[p] = dst[p],
         z => \A p \in Path : IsFile(t, p) => dst[p] # Absent
  PROVE  Course(t, m, src, dst, P, {}, {}, z)
  BY DEF Course, InPlace, AsFound, NothingElse, StillSaved

\* Making the parents of a file to be written replaces no file, and none that is listed
\* is below one that is.
LEMMA WaysClear ==
  ASSUME NEW src, NEW dst, NEW P, PlanFor(src, dst, P), NEW t \in Tree,
         NEW o \in P, o.to \in Path, o.act # "delete", CanMakeParents(t, o.to)
  PROVE  /\ \A w \in P : w.to \in Path /\ w.act # "delete"
                         => w.to \notin Above[o.to] /\ o.to \notin Above[w.to]
         /\ \A p \in Path : \/ WithParents(t, o.to)[p] = t[p]
                            \/ /\ p \in Above[o.to] /\ ~ IsFile(t, p)
                               /\ WithParents(t, o.to)[p] = Dir
<1>1. ASSUME NEW w \in P, w.to \in Path, w.act # "delete"
      PROVE  w.to \notin Above[o.to] /\ o.to \notin Above[w.to]
  <2>1. src[w.to] # Absent /\ src[o.to] # Absent
    BY <1>1, PlanPurpose, EntryAssumption
  <2> QED
    BY <1>1, <2>1 DEF PlanFor, Flat
<1>2. \A p \in Path : \/ WithParents(t, o.to)[p] = t[p]
                      \/ /\ p \in Above[o.to] /\ ~ IsFile(t, p)
                         /\ WithParents(t, o.to)[p] = Dir
  BY DEF CanMakeParents, WithParents
<1> QED
  BY <1>1, <1>2

LEMMA TransferStarts ==
  ASSUME NEW src, NEW dst, NEW P, PlanFor(src, dst, P), NEW t \in Tree, NEW m, NEW z,
         NEW B \in SUBSET P, NEW o \in P, o.act = "transfer",
         CanMakeParents(t, o.to), t[o.to] # Dir, Course(t, m, src, dst, P, B, {}, z)
  PROVE  Course([WithParents(t, o.to) EXCEPT ![o.to] = Torn], m, src, dst, P, B \cup {o}, {o}, z)
<1> DEFINE v == WithParents(t, o.to)
           u == [v EXCEPT ![o.to] = Torn]
           C == B \cup {o}
<1>1. o \in Op /\ o.to \in Path /\ src[o.to] \in FileData
  BY PlanPurpose DEF Op
<1>2. v \in Tree /\ WellFormed(v) /\ o.to \notin Above[o.to] /\ Torn \in Entry
  BY <1>1, TreeOperations, WithParentsWellFormed, WhereThingsLie DEF Course, Entry, FileData
<1>3. ParentsExist(v, o.to) /\ v[o.to] # Dir
  BY <1>1, <1>2, WhereThingsLie DEF ParentsExist, WithParents
<1>4. WellFormed(u)
  BY <1>1, <1>2, <1>3, ExtendedWellFormed
<1>5. /\ \A w \in P : w.to \in Path /\ w.act # "delete"
                      => w.to \notin Above[o.to] /\ o.to \notin Above[w.to]
      /\ \A p \in Path : v[p] = t[p] \/ (p \in Above[o.to] /\ ~ IsFile(t, p) /\ v[p] = Dir)
  BY <1>1, WaysClear
<1> HIDE DEF v
<1>6. \A p \in Path : p # o.to => u[p] = v[p]
  BY <1>2 DEF Tree
<1> HIDE DEF u
<1>7. /\ InPlace(t, src, B, {}) /\ AsFound(t, dst, B) /\ (z => NothingElse(t, src, dst))
      /\ StillSaved(m, src, P, B, B)
  BY DEF Course
<1>8. InPlace(u, src, C \ {o}, {o})
  <2> SUFFICES ASSUME NEW x \in B, x.to \in Path, x.to # o.to
               PROVE  IF x.act = "delete" THEN ~ IsFile(u, x.to) ELSE u[x.to] = src[x.to]
    BY DEF InPlace
  <2>1. IF x.act = "delete" THEN ~ IsFile(t, x.to) ELSE t[x.to] = src[x.to]
    BY <1>7 DEF InPlace
  <2> QED
    BY <1>5, <1>6, <2>1, EntryAssumption DEF IsFile
<1>9. AsFound(u, dst, C)
  <2> SUFFICES ASSUME NEW p \in Path, dst[p] # Absent, \A x \in C : x.to # p
               PROVE  u[p] = dst[p] \/ (u[p] = Absent /\ \E x \in C : x.act = "copy" /\ x.to \in Above[p])
    BY DEF AsFound
  <2>1. p # o.to /\ u[p] = v[p]
    BY <1>6
  <2>2. t[p] = dst[p] \/ (t[p] = Absent /\ \E x \in B : x.act = "copy" /\ x.to \in Above[p])
    BY <1>7 DEF AsFound
  <2>3. CASE v[p] = t[p]
    BY <2>1, <2>2, <2>3
  <2>4. CASE p \in Above[o.to] /\ ~ IsFile(t, p)
    <3>1. t[p] # dst[p]
      BY <2>4 DEF IsFile, PlanFor, Listing
    <3>2. PICK x \in B : x.act = "copy" /\ x.to \in Above[p]
      BY <2>2, <3>1
    <3>3. x.to \in Above[o.to] /\ x.to \in Path
      BY <1>1, <2>4, <3>2, WhereThingsLie
    <3> QED
      BY <1>5, <3>2, <3>3
  <2> QED
    BY <1>5, <2>3, <2>4
<1>10. z => NothingElse(u, src, dst)
  <2> SUFFICES ASSUME z, NEW p \in Path, src[p] = Absent, dst[p] = Absent PROVE ~ IsFile(u, p)
    BY DEF NothingElse
  <2>1. p # o.to /\ ~ IsFile(t, p)
    BY <1>1, <1>7, EntryAssumption DEF NothingElse
  <2> QED
    BY <1>5, <1>6, <2>1, EntryAssumption DEF IsFile
<1>11. StillSaved(m, src, P, C \ {o}, C)
  BY <1>7 DEF StillSaved
<1> QED
  BY <1>4, <1>8, <1>9, <1>10, <1>11 DEF Course, u, v

LEMMA CopyStarts ==
  ASSUME NEW src, NEW dst, NEW P, PlanFor(src, dst, P), NEW t \in Tree, NEW m, NEW z,
         NEW B \in SUBSET P, NEW o \in P, o.act = "copy", o.to \in Path,
         CanMakeParents(t, o.to), Course(t, m, src, dst, P, B, {}, z)
  PROVE  Course(Removed(WithParents(t, o.to), o.to), m, src, dst, P, B \cup {o}, {o}, z)
<1> DEFINE v == WithParents(t, o.to)
           u == Removed(v, o.to)
           C == B \cup {o}
<1>1. src[o.to] \in FileData
  BY PlanPurpose
<1>2. v \in Tree /\ WellFormed(v)
  BY TreeOperations, WithParentsWellFormed DEF Course
<1>3. WellFormed(u)
  BY <1>2, RemovedWellFormed
<1>4. /\ \A w \in P : w.to \in Path /\ w.act # "delete"
                      => w.to \notin Above[o.to] /\ o.to \notin Above[w.to]
      /\ \A p \in Path : v[p] = t[p] \/ (p \in Above[o.to] /\ ~ IsFile(t, p) /\ v[p] = Dir)
  BY WaysClear
<1> HIDE DEF v
<1>5. \A p \in Path : u[p] = IF p = o.to \/ o.to \in Above[p] THEN Absent ELSE v[p]
  BY DEF Removed
<1> HIDE DEF u
<1>6. /\ InPlace(t, src, B, {}) /\ AsFound(t, dst, B) /\ (z => NothingElse(t, src, dst))
      /\ StillSaved(m, src, P, B, B)
  BY DEF Course
<1>7. InPlace(u, src, C \ {o}, {o})
  <2> SUFFICES ASSUME NEW x \in B, x.to \in Path, x.to # o.to
               PROVE  IF x.act = "delete" THEN ~ IsFile(u, x.to) ELSE u[x.to] = src[x.to]
    BY DEF InPlace
  <2>1. IF x.act = "delete" THEN ~ IsFile(t, x.to) ELSE t[x.to] = src[x.to]
    BY <1>6 DEF InPlace
  <2> QED
    BY <1>4, <1>5, <2>1, EntryAssumption DEF IsFile
<1>8. AsFound(u, dst, C)
  <2> SUFFICES ASSUME NEW p \in Path, dst[p] # Absent, \A x \in C : x.to # p
               PROVE  u[p] = dst[p] \/ (u[p] = Absent /\ \E x \in C : x.act = "copy" /\ x.to \in Above[p])
    BY DEF AsFound
  <2>1. t[p] = dst[p] \/ (t[p] = Absent /\ \E x \in B : x.act = "copy" /\ x.to \in Above[p])
    BY <1>6 DEF AsFound
  <2>2. CASE o.to \in Above[p]
    BY <1>5, <2>2
  <2>3. CASE o.to \notin Above[p] /\ v[p] = t[p]
    BY <1>5, <2>1, <2>3
  <2>4. CASE p \in Above[o.to] /\ ~ IsFile(t, p)
    <3>1. t[p] # dst[p]
      BY <2>4 DEF IsFile, PlanFor, Listing
    <3>2. PICK x \in B : x.act = "copy" /\ x.to \in Above[p]
      BY <2>1, <3>1
    <3>3. x.to \in Above[o.to] /\ x.to \in Path
      BY <2>4, <3>2, WhereThingsLie
    <3> QED
      BY <1>4, <3>2, <3>3
  <2> QED
    BY <1>4, <2>2, <2>3, <2>4
<1>9. z => NothingElse(u, src, dst)
  <2> SUFFICES ASSUME z, NEW p \in Path, src[p] = Absent, dst[p] = Absent PROVE ~ IsFile(u, p)
    BY DEF NothingElse
  <2>1. ~ IsFile(t, p)
    BY <1>6 DEF NothingElse
  <2> QED
    BY <1>4, <1>5, <2>1, EntryAssumption DEF IsFile
<1>10. StillSaved(m, src, P, C \ {o}, C)
  BY <1>6 DEF StillSaved
<1> QED
  BY <1>3, <1>7, <1>8, <1>9, <1>10 DEF Course, u, v

LEMMA FileDeleted ==
  ASSUME NEW src, NEW dst, NEW P, PlanFor(src, dst, P), NEW t \in Tree, NEW m, NEW z,
         NEW B \in SUBSET P, NEW o \in P, o \notin B, o.act = "delete", o.to \in Path,
         Course(t, m, src, dst, P, B, {}, z),
         NEW u, u = Removed(t, o.to) \/ (t[o.to] # Absent /\ u = Pruned(Removed(t, o.to), o.to))
  PROVE  Course(u, m, src, dst, P, B \cup {o}, {}, z)
<1> DEFINE C == B \cup {o}
<1>1. src[o.to] = Absent /\ dst[o.to] # Absent /\ \A w \in P : w.to = o.to => w = o
  BY PlanPurpose
<1>2. /\ InPlace(t, src, B, {}) /\ AsFound(t, dst, B) /\ (z => NothingElse(t, src, dst))
      /\ StillSaved(m, src, P, B, B) /\ WellFormed(t)
  BY DEF Course
<1>3. t[o.to] # Dir
  <2>1. \A x \in B : x.to # o.to
    BY <1>1
  <2>2. t[o.to] = dst[o.to] \/ t[o.to] = Absent
    BY <1>1, <1>2, <2>1 DEF AsFound
  <2> QED
    BY <2>2, EntryAssumption DEF PlanFor, Listing
<1>4. /\ WellFormed(u) /\ u[o.to] = Absent
      /\ \A q \in Path \ {o.to} : u[q] = t[q] \/ (t[q] = Dir /\ u[q] = Absent)
  BY <1>2, <1>3, DeletedAlone
<1>5. InPlace(u, src, C, {})
  <2> SUFFICES ASSUME NEW x \in C, x.to \in Path
               PROVE  IF x.act = "delete" THEN ~ IsFile(u, x.to) ELSE u[x.to] = src[x.to]
    BY DEF InPlace
  <2>1. CASE x.to = o.to
    <3>1. x = o
      BY <1>1, <2>1
    <3> QED
      BY <1>4, <3>1, EntryAssumption DEF IsFile
  <2>2. CASE x.to # o.to
    <3>1. x \in B /\ x \in P
      BY <2>2
    <3>2. IF x.act = "delete" THEN ~ IsFile(t, x.to) ELSE t[x.to] = src[x.to]
      BY <1>2, <3>1 DEF InPlace
    <3>3. x.act # "delete" => src[x.to] \in FileData
      BY <3>1, PlanPurpose
    <3> QED
      BY <1>4, <2>2, <3>2, <3>3, EntryAssumption DEF IsFile
  <2> QED
    BY <2>1, <2>2
<1>6. AsFound(u, dst, C)
  <2> SUFFICES ASSUME NEW p \in Path, dst[p] # Absent, \A x \in C : x.to # p
               PROVE  u[p] = dst[p] \/ (u[p] = Absent /\ \E x \in C : x.act = "copy" /\ x.to \in Above[p])
    BY DEF AsFound
  <2>1. t[p] = dst[p] \/ (t[p] = Absent /\ \E x \in B : x.act = "copy" /\ x.to \in Above[p])
    BY <1>2 DEF AsFound
  <2>2. t[p] # Dir
    BY <2>1, EntryAssumption DEF PlanFor, Listing
  <2>3. u[p] = t[p]
    BY <1>4, <2>2
  <2> QED
    BY <2>1, <2>3
<1>7. z => NothingElse(u, src, dst)
  <2> SUFFICES ASSUME z, NEW p \in Path, src[p] = Absent, dst[p] = Absent PROVE ~ IsFile(u, p)
    BY DEF NothingElse
  <2>1. ~ IsFile(t, p)
    BY <1>2 DEF NothingElse
  <2> QED
    BY <1>4, <2>1, EntryAssumption DEF IsFile
<1>8. StillSaved(m, src, P, C, C)
  BY <1>2 DEF StillSaved
<1>9. C \ {} = C
  OBVIOUS
<1> QED
  BY <1>4, <1>5, <1>6, <1>7, <1>8, <1>9 DEF Course

\* Temporary files lie outside the tree.
LEMMA TempDeleted ==
  ASSUME NEW src, NEW dst, NEW P, PlanFor(src, dst, P), NEW t \in Tree,
         NEW m \in [TempPlace -> Entry], NEW z,
         NEW B \in SUBSET P, NEW o \in P, o.act = "delete", o.to \in TempPlace,
         Course(t, m, src, dst, P, B, {}, z),
         NEW n, n = m \/ n = [m EXCEPT ![o.to] = Absent]
  PROVE  Course(t, n, src, dst, P, B \cup {o}, {}, z)
<1> DEFINE C == B \cup {o}
<1>1. /\ InPlace(t, src, B, {}) /\ AsFound(t, dst, B) /\ (z => NothingElse(t, src, dst))
      /\ StillSaved(m, src, P, B, B) /\ WellFormed(t)
  BY DEF Course
<1>2. o.to \notin Path
  BY PathsAreNumbers
<1>3. InPlace(t, src, C, {}) /\ AsFound(t, dst, C)
  BY <1>1, <1>2 DEF InPlace, AsFound
<1>4. StillSaved(n, src, P, C, C)
  <2> SUFFICES ASSUME NEW c \in C, c.act = "copy", c.to \in TempPlace,
                      \A d \in C : d.to = c.to => d.act # "delete"
               PROVE  n[c.to] = WantedAt(src, P, c)
    BY DEF StillSaved
  <2>1. c \in B /\ c.to # o.to
    OBVIOUS
  <2>2. n[c.to] = m[c.to]
    BY <2>1
  <2> QED
    BY <1>1, <2>1, <2>2 DEF StillSaved
<1>5. C \ {} = C
  OBVIOUS
<1> QED
  BY <1>1, <1>3, <1>4, <1>5 DEF Course

LEMMA TempCopyStarts ==
  ASSUME NEW t, NEW m, NEW src, NEW dst, NEW P, NEW B, NEW z, NEW o, o.to \in TempPlace,
         Course(t, m, src, dst, P, B, {}, z)
  PROVE  Course(t, m, src, dst, P, B \cup {o}, {o}, z)
<1>1. o.to \notin Path
  BY PathsAreNumbers
<1>2. (B \cup {o}) \ {o} \subseteq B /\ B \ {} = B
  OBVIOUS
<1> QED
  BY <1>1, <1>2 DEF Course, InPlace, AsFound, StillSaved

\* The second half: the file is there, with the content it is to have.
LEMMA FileInPlace ==
  ASSUME NEW src, NEW dst, NEW P, PlanFor(src, dst, P), NEW t \in Tree, NEW m, NEW z,
         NEW B \in SUBSET P, NEW o \in B, o.act # "delete", o.to \in Path,
         Course(t, m, src, dst, P, B, {o}, z), ParentsExist(t, o.to), t[o.to] # Dir
  PROVE  Course([t EXCEPT ![o.to] = src[o.to]], m, src, dst, P, B, {}, z)
<1> DEFINE u == [t EXCEPT ![o.to] = src[o.to]]
<1>1. o \in P /\ src[o.to] \in FileData /\ src[o.to] \in Entry
  BY PlanPurpose DEF Entry
<1>2. /\ InPlace(t, src, B \ {o}, {o}) /\ AsFound(t, dst, B) /\ (z => NothingElse(t, src, dst))
      /\ StillSaved(m, src, P, B \ {o}, B) /\ WellFormed(t)
  BY DEF Course
<1>3. WellFormed(u)
  BY <1>1, <1>2, ExtendedWellFormed
<1>4. u[o.to] = src[o.to] /\ \A p \in Path : p # o.to => u[p] = t[p]
  BY DEF Tree
<1> HIDE DEF u
<1>5. InPlace(u, src, B, {})
  <2> SUFFICES ASSUME NEW x \in B, x.to \in Path
               PROVE  IF x.act = "delete" THEN ~ IsFile(u, x.to) ELSE u[x.to] = src[x.to]
    BY DEF InPlace
  <2>1. CASE x.to = o.to
    <3>1. x.act # "delete"
      BY <1>1, <2>1, PlanPurpose, EntryAssumption
    <3> QED
      BY <1>4, <2>1, <3>1
  <2>2. CASE x.to # o.to
    <3>1. IF x.act = "delete" THEN ~ IsFile(t, x.to) ELSE t[x.to] = src[x.to]
      BY <1>2, <2>2 DEF InPlace
    <3> QED
      BY <1>4, <2>2, <3>1 DEF IsFile
  <2> QED
    BY <2>1, <2>2
<1>6. AsFound(u, dst, B)
  BY <1>2, <1>4 DEF AsFound
<1>7. z => NothingElse(u, src, dst)
  BY <1>1, <1>2, <1>4, EntryAssumption DEF NothingElse, IsFile
<1>8. StillSaved(m, src, P, B, B)
  <2>1. o.to \notin TempPlace
    BY PathsAreNumbers
  <2> QED
    BY <1>2, <2>1 DEF StillSaved
<1>9. B \ {} = B
  OBVIOUS
<1> QED
  BY <1>3, <1>5, <1>6, <1>7, <1>8, <1>9 DEF Course, u

LEMMA FileSaved ==
  ASSUME NEW src, NEW dst, NEW P, PlanFor(src, dst, P), NEW t \in Tree,
         NEW m \in [TempPlace -> Entry], NEW z,
         NEW B \in SUBSET P, NEW o \in B, o.act = "copy", o.to \in TempPlace,
         Course(t, m, src, dst, P, B, {o}, z)
  PROVE  Course(t, [m EXCEPT ![o.to] = WantedAt(src, P, o)], src, dst, P, B, {}, z)
<1> DEFINE n == [m EXCEPT ![o.to] = WantedAt(src, P, o)]
<1>1. o.to \notin Path
  BY PathsAreNumbers
<1>2. InPlace(t, src, B, {})
  BY <1>1 DEF Course, InPlace
<1>3. n[o.to] = WantedAt(src, P, o) /\ \A q \in TempPlace : q # o.to => n[q] = m[q]
  OBVIOUS
<1> HIDE DEF n
<1>4. StillSaved(n, src, P, B, B)
  <2> SUFFICES ASSUME NEW c \in B, c.act = "copy", c.to \in TempPlace,
                      \A d \in B : d.to = c.to => d.act # "delete"
               PROVE  n[c.to] = WantedAt(src, P, c)
    BY DEF StillSaved
  <2>1. CASE c.to = o.to
    <3>1. WantedAt(src, P, c) = WantedAt(src, P, o)
      BY <2>1 DEF WantedAt
    <3> QED
      BY <1>3, <2>1, <3>1
  <2>2. CASE c.to # o.to
    BY <1>3, <2>2 DEF Course, StillSaved
  <2> QED
    BY <2>1, <2>2
<1>5. B \ {} = B
  OBVIOUS
<1> QED
  BY <1>2, <1>4, <1>5 DEF Course, n

\* What a copy finds, when its turn has come and unless it has been overtaken, is what
\* it is to deliver.
LEMMA FindsWanted ==
  ASSUME NEW src, NEW dst, NEW P, PlanFor(src, dst, P), Overtaken(src, P) = {},
         NEW t \in Tree, NEW m, NEW z, NEW o \in P, o.act = "copy",
         LET B == {x \in P : x.ord <= o.ord} IN Course(t, m, src, dst, P, B, {o}, z),
         NEW data, data = IF o.from \in Path THEN t[o.from] ELSE m[o.from],
         o.from \in Path => t[o.from] # Absent /\ o.from # o.to
  PROVE  data = WantedAt(src, P, o)
<1> DEFINE B == {x \in P : x.ord <= o.ord}
<1>1. PICK rank \in Orders(DestToSource(src, dst)) : P = Plan(src, dst, rank)
  BY DEF PlanFor
<1>2. src \in Listing /\ dst \in Listing
  BY DEF PlanFor
<1>3. /\ \A x \in P : x \in Op /\ x.ord \in Nat
      /\ \A x \in P : x.ord = o.ord => x = o
  <2>1. \A x \in P : x \in Op
    BY PlanPurpose
  <2> QED
    BY <1>1, <1>2, <2>1, OneOpPerPlace DEF Op
<1>4. /\ InPlace(t, src, B \ {o}, {o}) /\ AsFound(t, dst, B)
      /\ StillSaved(m, src, P, B \ {o}, B)
  BY DEF Course
<1>5. \A x \in P : x \in B \ {o} <=> x.ord < o.ord
  BY <1>3
<1>6. o.from \in Path \cup TempPlace
  BY <1>3 DEF Op, Place
<1>7. CASE o.from \in TempPlace
  <2>1. PICK c \in P : /\ c.act = "copy" /\ c.to = o.from /\ c.ord < o.ord
                       /\ WantedAt(src, P, c) = src[o.to]
    BY <1>1, <1>2, <1>7, TempsHold
  <2>2. o.to \in Path /\ \A d \in P : d.act = "delete" /\ d.to = o.from => o.ord < d.ord
    BY <1>1, <1>2, <1>7, TempsHold
  <2>3. ASSUME NEW d \in B, d.to = c.to PROVE d.act # "delete"
    BY <1>3, <2>1, <2>2, <2>3
  <2>4. c \in B \ {o}
    BY <1>5, <2>1
  <2>5. m[c.to] = WantedAt(src, P, c)
    BY <1>4, <1>7, <2>1, <2>3, <2>4 DEF StillSaved
  <2>6. WantedAt(src, P, o) = src[o.to]
    BY <2>2 DEF WantedAt
  <2>7. o.from \notin Path
    BY <1>7, PathsAreNumbers
  <2> QED
    BY <2>1, <2>5, <2>6, <2>7
<1>8. CASE o.from \in Path
  <2>1. ASSUME NEW w \in P, w.ord < o.ord, w.to = o.from
        PROVE  src[o.from] = WantedAt(src, P, o)
    BY <1>8, <2>1 DEF Overtaken
  <2>2. WantedAt(src, P, o) # Absent
    <3>1. PICK q \in Copies(src, dst) : WantedAt(src, P, o) = src[q]
      BY <1>1, <1>2, <1>8, CopyReads
    <3> QED
      BY <1>2, <3>1, CopiesNeedTransfer DEF NeedsTransfer
  <2>3. CASE \E w \in B \ {o} : w.to = o.from
    <3>1. PICK w \in B \ {o} : w.to = o.from
      BY <2>3
    <3>2. w \in P /\ src[o.from] = WantedAt(src, P, o)
      BY <1>5, <2>1, <3>1
    <3>3. w.act # "delete"
      BY <1>8, <2>2, <3>1, <3>2, PlanPurpose
    <3>4. t[w.to] = src[w.to]
      BY <1>4, <1>8, <3>1, <3>3 DEF InPlace
    <3> QED
      BY <1>8, <3>1, <3>2, <3>4
  <2>4. CASE ~ \E w \in B \ {o} : w.to = o.from
    <3>1. dst[o.from] = WantedAt(src, P, o)
      BY <1>1, <1>2, <1>5, <1>8, <2>4, CopySourceHolds
    <3>2. \A x \in B : x.to # o.from
      BY <1>8, <2>4
    <3>3. t[o.from] = dst[o.from]
      BY <1>4, <1>8, <2>2, <3>1, <3>2 DEF AsFound
    <3> QED
      BY <1>8, <3>1, <3>3
  <2> QED
    BY <2>3, <2>4
<1> QED
  BY <1>6, <1>7, <1>8

LEMMA CourseFewer ==
  ASSUME NEW t, NEW m, NEW src, NEW dst, NEW P, NEW B, NEW H, NEW y, NEW z, z => y,
         Course(t, m, src, dst, P, B, H, y)
  PROVE  Course(t, m, src, dst, P, B, H, z)
  BY DEF Course

\* At the end every listed file is in place, and no other that was listed, or that is
\* there at all if the listing had all there is.
LEMMA CourseEnds ==
  ASSUME NEW src, NEW dst, NEW P, PlanFor(src, dst, P), NEW t, NEW m, NEW z,
         Course(t, m, src, dst, P, P, {}, z), NEW p \in Path
  PROVE  IF src[p] # Absent THEN t[p] = src[p]
         ELSE dst[p] # Absent \/ z => ~ IsFile(t, p)
<1>1. PICK rank \in Orders(DestToSource(src, dst)) : P = Plan(src, dst, rank)
  BY DEF PlanFor
<1>2. src \in Listing /\ dst \in Listing /\ P \ {} = P
  BY DEF PlanFor
<1>3. InPlace(t, src, P, {}) /\ AsFound(t, dst, P) /\ (z => NothingElse(t, src, dst))
  BY <1>2 DEF Course
<1>4. CASE src[p] # dst[p]
  <2>1. PICK o \in P : o.to = p
    BY <1>1, <1>2, <1>4, PlanCoversDifferences
  <2>2. IF o.act = "delete" THEN ~ IsFile(t, p) /\ src[p] = Absent
        ELSE t[p] = src[p] /\ src[p] # Absent
    BY <1>3, <2>1, PlanPurpose, EntryAssumption DEF InPlace
  <2> QED
    BY <2>2
<1>5. CASE src[p] = dst[p] /\ src[p] # Absent
  <2>1. \A o \in P : o.to # p
    BY <1>1, <1>2, <1>5, PlanWritesOnlyDifferences
  <2>2. ASSUME NEW o \in P, o.act = "copy", o.to \in Above[p] PROVE FALSE
    <3>1. o.to \in Path
      BY <2>2, WhereThingsLie
    <3>2. src[o.to] # Absent
      BY <2>2, <3>1, PlanPurpose, EntryAssumption
    <3> QED
      BY <1>5, <2>2, <3>2 DEF PlanFor, Flat
  <2> QED
    BY <1>3, <1>5, <2>1, <2>2 DEF AsFound
<1>6. CASE src[p] = dst[p] /\ src[p] = Absent
  BY <1>3, <1>6 DEF NothingElse
<1> QED
  BY <1>4, <1>5, <1>6

-----------------------------------------------------------------------------
(* The same where no path lies under another: what is on the tree at the   *)
(* places a plan is about, whether or not it overtakes its own copies.     *)

About(P) == {p \in Path : \E o \in P : p \in {o.from, o.to}}

\* A file, and the one wanted if no copy of the plan is overtaken.
Serves(v, x, src, P) == v \in FileData /\ (Overtaken(src, P) = {} => v = x)

\* What no operation has been begun on is as listed; what one is half through with is torn
\* or gone; what one is through with is a file, or gone if it was to be.
PlacesHeld(t, src, dst, P, B, H) ==
    /\ \A p \in About(P) : (\A o \in B : o.to # p) => t[p] = dst[p]
    /\ \A o \in H : o.to \in Path => t[o.to] = IF o.act = "transfer" THEN Torn ELSE Absent
    /\ \A o \in B \ H : o.to \in Path /\ (\A h \in H : h.to # o.to) =>
          IF o.act = "delete" THEN t[o.to] = Absent ELSE Serves(t[o.to], src[o.to], src, P)

\* A temporary file is there from the copy that makes it to its deletion.
TempsHeld(m, src, P, B, H) ==
    /\ \A q \in TempPlace : (\A c \in B \ H : c.to = q => c.act # "copy") => m[q] = Absent
    /\ \A c \in B \ H : /\ c.act = "copy" /\ c.to \in TempPlace
                        /\ \A d \in B : d.to = c.to => d.act # "delete"
                        => Serves(m[c.to], WantedAt(src, P, c), src, P)

Held(t, m, src, dst, P, B, H) ==
    PlacesHeld(t, src, dst, P, B, H) /\ TempsHeld(m, src, P, B, H)

LEMMA AboutPlaces ==
  ASSUME NEW P, NEW o \in P
  PROVE  /\ o.to \in Path => o.to \in About(P)
         /\ o.from \in Path => o.from \in About(P)
  BY DEF About

\* Whatever happens elsewhere is nothing to the plan.
LEMMA HeldElsewhere ==
  ASSUME NEW t, NEW u, NEW m, NEW src, NEW dst, NEW P, NEW B \in SUBSET P, NEW H \in SUBSET P,
         Held(t, m, src, dst, P, B, H), \A p \in About(P) : u[p] = t[p]
  PROVE  Held(u, m, src, dst, P, B, H)
<1>1. \A o \in P : o.to \in Path => u[o.to] = t[o.to]
  BY AboutPlaces
<1> QED
  BY <1>1 DEF Held, PlacesHeld

LEMMA HeldBegins ==
  ASSUME NEW t, NEW m, NEW src, NEW dst, NEW P,
         \A p \in About(P) : t[p] = dst[p], \A q \in TempPlace : m[q] = Absent
  PROVE  Held(t, m, src, dst, P, {}, {})
  BY DEF Held, PlacesHeld, TempsHeld

\* The first half of a transfer or copy.
LEMMA PlaceOpened ==
  ASSUME NEW src, NEW dst, NEW P, PlanFor(src, dst, P), NEW t, NEW u, NEW m,
         NEW B \in SUBSET P, NEW o \in P, o \notin B, o.act # "delete", o.to \in Path,
         Held(t, m, src, dst, P, B, {}),
         u[o.to] = IF o.act = "transfer" THEN Torn ELSE Absent,
         \A p \in About(P) : p # o.to => u[p] = t[p]
  PROVE  Held(u, m, src, dst, P, B \cup {o}, {o})
<1> DEFINE C == B \cup {o}
<1>1. C \ {o} = B /\ B \ {} = B
  OBVIOUS
<1>2. \A x \in P : x.to \in Path => x.to \in About(P)
  BY AboutPlaces
<1>3. PlacesHeld(u, src, dst, P, C, {o})
  <2>1. \A p \in About(P) : (\A x \in C : x.to # p) => u[p] = dst[p]
    BY DEF Held, PlacesHeld
  <2>2. \A x \in B : x.to \in Path /\ o.to # x.to =>
           IF x.act = "delete" THEN u[x.to] = Absent ELSE Serves(u[x.to], src[x.to], src, P)
    BY <1>1, <1>2 DEF Held, PlacesHeld
  <2> QED
    BY <1>1, <2>1, <2>2 DEF PlacesHeld
<1>4. TempsHeld(m, src, P, C, {o})
  BY <1>1 DEF Held, TempsHeld
<1> QED
  BY <1>3, <1>4 DEF Held

LEMMA TempOpened ==
  ASSUME NEW t, NEW m, NEW src, NEW dst, NEW P, NEW B \in SUBSET P, NEW o \in P, o \notin B,
         o.to \in TempPlace, o.act = "copy", Held(t, m, src, dst, P, B, {})
  PROVE  Held(t, m, src, dst, P, B \cup {o}, {o})
<1> DEFINE C == B \cup {o}
<1>1. C \ {o} = B /\ B \ {} = B /\ o.to \notin Path
  BY PathsAreNumbers
<1>2. PlacesHeld(t, src, dst, P, C, {o})
  BY <1>1 DEF Held, PlacesHeld
<1>3. TempsHeld(m, src, P, C, {o})
  BY <1>1 DEF Held, TempsHeld
<1> QED
  BY <1>2, <1>3 DEF Held

\* Nothing but a file's own deletion comes to its place.
LEMMA DeletedIsThere ==
  ASSUME NEW src, NEW dst, NEW P, PlanFor(src, dst, P), NEW t, NEW m,
         NEW B \in SUBSET P, NEW o \in P, o \notin B, o.act = "delete", o.to \in Path,
         Held(t, m, src, dst, P, B, {})
  PROVE  t[o.to] = dst[o.to] /\ dst[o.to] # Absent
<1>1. dst[o.to] # Absent /\ \A w \in P : w.to = o.to => w = o
  BY PlanPurpose
<1>2. o.to \in About(P) /\ \A w \in B : w.to # o.to
  BY <1>1, AboutPlaces
<1> QED
  BY <1>1, <1>2 DEF Held, PlacesHeld

LEMMA PlaceDeleted ==
  ASSUME NEW src, NEW dst, NEW P, PlanFor(src, dst, P), NEW t, NEW u, NEW m,
         NEW B \in SUBSET P, NEW o \in P, o \notin B, o.act = "delete", o.to \in Path,
         Held(t, m, src, dst, P, B, {}), u[o.to] = Absent,
         \A p \in About(P) : p # o.to => u[p] = t[p]
  PROVE  Held(u, m, src, dst, P, B \cup {o}, {})
<1> DEFINE C == B \cup {o}
<1>1. \A w \in P : w.to = o.to => w = o
  BY PlanPurpose
<1>2. \A x \in P : x.to \in Path => x.to \in About(P)
  BY AboutPlaces
<1>3. C \ {} = C /\ B \ {} = B
  OBVIOUS
<1>4. PlacesHeld(u, src, dst, P, C, {})
  <2>1. \A p \in About(P) : (\A x \in C : x.to # p) => u[p] = dst[p]
    BY DEF Held, PlacesHeld
  <2>2. \A x \in B : x.to \in Path =>
           IF x.act = "delete" THEN u[x.to] = Absent ELSE Serves(u[x.to], src[x.to], src, P)
    BY <1>1, <1>2, <1>3 DEF Held, PlacesHeld
  <2> QED
    BY <1>3, <2>1, <2>2 DEF PlacesHeld
<1>5. TempsHeld(m, src, P, C, {})
  BY <1>3 DEF Held, TempsHeld
<1> QED
  BY <1>4, <1>5 DEF Held

LEMMA TempCleared ==
  ASSUME NEW t, NEW src, NEW dst, NEW P, NEW m \in [TempPlace -> Entry], NEW B \in SUBSET P,
         NEW o \in P, o.act = "delete", o.to \in TempPlace, Held(t, m, src, dst, P, B, {})
  PROVE  Held(t, [m EXCEPT ![o.to] = Absent], src, dst, P, B \cup {o}, {})
<1> DEFINE C == B \cup {o}
           n == [m EXCEPT ![o.to] = Absent]
<1>1. o.to \notin Path /\ C \ {} = C /\ B \ {} = B
  BY PathsAreNumbers
<1>2. n[o.to] = Absent /\ \A q \in TempPlace : q # o.to => n[q] = m[q]
  OBVIOUS
<1> HIDE DEF n
<1>3. PlacesHeld(t, src, dst, P, C, {})
  BY <1>1 DEF Held, PlacesHeld
<1>4. TempsHeld(n, src, P, C, {})
  <2>1. ASSUME NEW q \in TempPlace, \A c \in C : c.to = q => c.act # "copy"
        PROVE  n[q] = Absent
    <3>1. m[q] = Absent
      BY <1>1, <2>1 DEF Held, TempsHeld
    <3> QED
      BY <1>2, <3>1
  <2>2. ASSUME NEW c \in C, c.act = "copy", c.to \in TempPlace,
               \A d \in C : d.to = c.to => d.act # "delete"
        PROVE  Serves(n[c.to], WantedAt(src, P, c), src, P)
    <3>1. c \in B /\ c.to # o.to /\ \A d \in B : d.to = c.to => d.act # "delete"
      BY <2>2
    <3>2. Serves(m[c.to], WantedAt(src, P, c), src, P)
      BY <1>1, <2>2, <3>1 DEF Held, TempsHeld
    <3> QED
      BY <1>2, <2>2, <3>1, <3>2
  <2> QED
    BY <1>1, <2>1, <2>2 DEF TempsHeld
<1> QED
  BY <1>3, <1>4 DEF Held, n

\* A temporary file that is to go may as well stay.
LEMMA TempLeft ==
  ASSUME NEW t, NEW src, NEW dst, NEW P, NEW m, NEW B \in SUBSET P,
         NEW o \in P, o.act = "delete", o.to \in TempPlace, Held(t, m, src, dst, P, B, {})
  PROVE  Held(t, m, src, dst, P, B \cup {o}, {})
<1>1. o.to \notin Path /\ (B \cup {o}) \ {} = B \cup {o} /\ B \ {} = B
  BY PathsAreNumbers
<1> QED
  BY <1>1 DEF Held, PlacesHeld, TempsHeld

\* The second half.
LEMMA PlaceFilled ==
  ASSUME NEW src, NEW dst, NEW P, PlanFor(src, dst, P), NEW t, NEW u, NEW m,
         NEW B \in SUBSET P, NEW o \in B, o.act # "delete", o.to \in Path,
         Held(t, m, src, dst, P, B, {o}), Serves(u[o.to], src[o.to], src, P),
         \A p \in About(P) : p # o.to => u[p] = t[p]
  PROVE  Held(u, m, src, dst, P, B, {})
<1>1. \A x \in P : x.to \in Path => x.to \in About(P)
  BY AboutPlaces
<1>2. \A x \in P : x.to = o.to => x.act # "delete"
  <2>1. src[o.to] \in FileData
    BY PlanPurpose
  <2>2. \A x \in P : x.to = o.to /\ x.act = "delete" => src[o.to] = Absent
    BY PlanPurpose
  <2> QED
    BY <2>1, <2>2, EntryAssumption
<1>3. B \ {} = B /\ o.to \notin TempPlace
  BY PathsAreNumbers
<1>4. PlacesHeld(u, src, dst, P, B, {})
  <2>1. \A p \in About(P) : (\A x \in B : x.to # p) => u[p] = dst[p]
    BY DEF Held, PlacesHeld
  <2>2. ASSUME NEW x \in B, x.to \in Path
        PROVE  IF x.act = "delete" THEN u[x.to] = Absent ELSE Serves(u[x.to], src[x.to], src, P)
    <3>1. CASE x.to = o.to
      BY <1>2, <3>1
    <3>2. CASE x.to # o.to
      BY <1>1, <2>2, <3>2 DEF Held, PlacesHeld
    <3> QED
      BY <3>1, <3>2
  <2> QED
    BY <1>3, <2>1, <2>2 DEF PlacesHeld
<1>5. TempsHeld(m, src, P, B, {})
  <2>1. \A c \in B : c.to \in TempPlace => c \in B \ {o}
    BY <1>3
  <2> QED
    BY <1>3, <2>1 DEF Held, TempsHeld
<1> QED
  BY <1>4, <1>5 DEF Held

LEMMA TempFilled ==
  ASSUME NEW src, NEW dst, NEW P, NEW t, NEW m \in [TempPlace -> Entry], NEW x,
         NEW B \in SUBSET P, NEW o \in B, o.act = "copy", o.to \in TempPlace,
         Held(t, m, src, dst, P, B, {o}), Serves(x, WantedAt(src, P, o), src, P)
  PROVE  Held(t, [m EXCEPT ![o.to] = x], src, dst, P, B, {})
<1> DEFINE n == [m EXCEPT ![o.to] = x]
<1>1. o.to \notin Path /\ B \ {} = B
  BY PathsAreNumbers
<1>2. n[o.to] = x /\ \A q \in TempPlace : q # o.to => n[q] = m[q]
  OBVIOUS
<1> HIDE DEF n
<1>3. PlacesHeld(t, src, dst, P, B, {})
  BY <1>1 DEF Held, PlacesHeld
<1>4. TempsHeld(n, src, P, B, {})
  <2>1. ASSUME NEW q \in TempPlace, \A c \in B : c.to = q => c.act # "copy"
        PROVE  n[q] = Absent
    <3>1. m[q] = Absent /\ q # o.to
      BY <2>1 DEF Held, TempsHeld
    <3> QED
      BY <1>2, <3>1
  <2>2. ASSUME NEW c \in B, c.act = "copy", c.to \in TempPlace,
               \A d \in B : d.to = c.to => d.act # "delete"
        PROVE  Serves(n[c.to], WantedAt(src, P, c), src, P)
    <3>1. CASE c.to = o.to
      <4>1. WantedAt(src, P, c) = WantedAt(src, P, o)
        BY <3>1 DEF WantedAt
      <4> QED
        BY <1>2, <3>1, <4>1
    <3>2. CASE c.to # o.to
      BY <1>2, <2>2, <3>2 DEF Held, TempsHeld
    <3> QED
      BY <3>1, <3>2
  <2> QED
    BY <1>1, <2>1, <2>2 DEF TempsHeld
<1> QED
  BY <1>3, <1>4 DEF Held, n

\* What is copied or sent comes before what is deleted.
LEMMA DeletionsComeLast ==
  ASSUME NEW src \in Listing, NEW dst \in Listing,
         NEW rank \in Orders(DestToSource(src, dst)),
         NEW o \in Plan(src, dst, rank), o.act = "copy",
         NEW d \in Plan(src, dst, rank), d.act = "delete", d.to \in Path
  PROVE  o.ord < d.ord
<1> DEFINE d2s == DestToSource(src, dst)
           M == NPaths + 2
           base == AfterCycles
<1>1. M \in Nat /\ M - 1 = NPaths + 1 /\ base \in Nat /\ NPaths \in Nat
  BY PathAssumption DEF AfterCycles
<1>2. PICK e \in Path : d.ord = base + NPaths + e
  <2>1. ASSUME NEW p \in WalksThatFind(d2s, rank), d \in CycleOps(d2s, rank, p)
        PROVE  FALSE
    <3>1. d.to = NPaths + p /\ NPaths + p \in TempPlace
      BY <2>1, CycleKinds
    <3> QED
      BY <3>1, PathsAreNumbers
  <2>2. \A p \in Path : d # [ord |-> AfterCycles + p, act |-> "copy", from |-> d2s[p], to |-> p]
                        /\ d # [ord |-> AfterCycles + p, act |-> "transfer", from |-> 0, to |-> p]
    OBVIOUS
  <2>3. Copies(src, dst) \subseteq Path /\ NeedsTransfer(src, dst) \subseteq Path
    BY CopiesNeedTransfer DEF NeedsTransfer
  <2>4. PICK p \in Path : d = [ord |-> AfterCycles + NPaths + p, act |-> "delete",
                               from |-> 0, to |-> p]
    BY <2>1, <2>2, <2>3, PlanCases
  <2> QED
    BY <2>4
<1>3. CASE \E p \in WalksThatFind(d2s, rank) : o \in CycleOps(d2s, rank, p)
  <2>1. PICK p \in WalksThatFind(d2s, rank) : o \in CycleOps(d2s, rank, p)
    BY <1>3
  <2>2. p \in Copies(src, dst) /\ LeadsToCycle(d2s, p) /\ d2s \in Dictionary /\ p \in DOMAIN d2s
    BY <2>1, DestToSourceIsDictionary, CopiesNeedTransfer DEF WalksThatFind
  <2>3. rank[p] \in Nat /\ rank[p] < NPaths + 1
    BY <2>2, RankBounds, PathAssumption
  <2> HIDE DEF d2s
  <2>4. PICK i \in 0..(NPaths + 1) : o.ord = rank[p] * M + i
    BY <2>1, <2>2, <2>3, OneOpPerSlot
  <2>5. rank[p] * M \in Nat /\ rank[p] * M + i < (NPaths + 1) * M /\ i \in Nat
    BY <1>1, <2>3, Blocks, PathAssumption
  <2> DEFINE r == rank[p] * M
  <2>6. r \in Nat /\ r + i < base /\ o.ord = r + i
    BY <2>4, <2>5 DEF AfterCycles
  <2> HIDE DEF r, base
  <2> QED
    BY <1>1, <1>2, <2>5, <2>6, PathsAreNumbers
<1>4. CASE ~ \E p \in WalksThatFind(d2s, rank) : o \in CycleOps(d2s, rank, p)
  <2>1. PICK p \in Path : o.ord = base + p
    BY <1>4, PlanCases, CopiesNeedTransfer
  <2>2. p \in Nat /\ p <= NPaths /\ e \in Nat /\ e > 0
    BY PathAssumption DEF Path
  <2> HIDE DEF base
  <2> QED
    BY <1>1, <1>2, <2>1, <2>2
<1> QED
  BY <1>3, <1>4

\* No copy is from a place to itself.
LEMMA CopiesElsewhere ==
  ASSUME NEW src \in Listing, NEW dst \in Listing,
         NEW rank \in Orders(DestToSource(src, dst)),
         NEW o \in Plan(src, dst, rank), o.act = "copy"
  PROVE  o.from # o.to
<1> DEFINE d2s == DestToSource(src, dst)
<1>1. /\ \A q \in Copies(src, dst) : d2s[q] \in Path /\ d2s[q] # q
      /\ Copies(src, dst) \subseteq Path
  BY CopiesNeedTransfer DEF DestToSource, Copies
<1>2. ASSUME NEW r \in WalksThatFind(d2s, rank), o \in CycleOps(d2s, rank, r)
      PROVE  o.from # o.to
  <2>1. /\ CycleStart(d2s, r) \in Copies(src, dst) /\ NPaths + r \in TempPlace
        /\ NPaths + r \notin Path
    BY <1>2, CycleKinds, PathsAreNumbers
  <2>2. \/ o.from = d2s[CycleStart(d2s, r)] /\ o.to = NPaths + r
        \/ o.from = NPaths + r /\ o.to = CycleStart(d2s, r)
        \/ \E q \in Copies(src, dst) : o.from = d2s[q] /\ o.to = q
    BY <1>2, CycleKinds
  <2> HIDE DEF d2s
  <2> QED
    BY <1>1, <2>1, <2>2
<1> HIDE DEF d2s
<1>3. CASE \E p \in Copies(src, dst) :
             o = [ord |-> AfterCycles + p, act |-> "copy", from |-> d2s[p], to |-> p]
  BY <1>1, <1>3
<1> QED
  BY <1>2, <1>3, PlanCases DEF d2s

\* Each temporary file is made once.
LEMMA SavedOnce ==
  ASSUME NEW src \in Listing, NEW dst \in Listing,
         NEW rank \in Orders(DestToSource(src, dst)),
         NEW o \in Plan(src, dst, rank), NEW c \in Plan(src, dst, rank),
         o.act = "copy", c.act = "copy", o.to \in TempPlace, c.to = o.to
  PROVE  c = o
<1> DEFINE d2s == DestToSource(src, dst)
<1>1. PICK r \in Path : o.to = NPaths + r
  <2>1. o.to \in (NPaths + 1)..(2 * NPaths)
    BY DEF TempPlace
  <2>2. o.to - NPaths \in 1..NPaths /\ o.to = NPaths + (o.to - NPaths)
    BY <2>1, PathAssumption
  <2> QED
    BY <2>2 DEF Path
<1>2. r \in WalksThatFind(d2s, rank) /\ o \in CycleOps(d2s, rank, r) /\ c \in CycleOps(d2s, rank, r)
  BY <1>1, TempOwner
<1>3. /\ CycleStart(d2s, r) \in Copies(src, dst) /\ Copies(src, dst) \subseteq Path
      /\ o.to \notin Path
  BY <1>2, CycleKinds, CopiesNeedTransfer, PathsAreNumbers
<1>4. ASSUME NEW x \in CycleOps(d2s, rank, r), x.act = "copy", x.to \notin Path
      PROVE  x = [ord |-> rank[r] * (NPaths + 2) + 0, act |-> "copy",
                  from |-> d2s[CycleStart(d2s, r)], to |-> NPaths + r]
  BY <1>2, <1>3, <1>4, CycleKinds
<1> QED
  BY <1>2, <1>3, <1>4

\* When the turn of a copy has come, what it reads is there, and what it makes is not.
LEMMA FindsFile ==
  ASSUME NEW src, NEW dst, NEW P, PlanFor(src, dst, P), NEW t, NEW m,
         NEW o \in P, o.act = "copy",
         LET B == {x \in P : x.ord <= o.ord} IN Held(t, m, src, dst, P, B, {o})
  PROVE  /\ o.from # o.to
         /\ Serves(IF o.from \in Path THEN t[o.from] ELSE m[o.from], WantedAt(src, P, o), src, P)
         /\ o.to \in Path => t[o.to] = Absent
         /\ o.to \in TempPlace => m[o.to] = Absent
<1> DEFINE B == {x \in P : x.ord <= o.ord}
<1>1. PICK rank \in Orders(DestToSource(src, dst)) : P = Plan(src, dst, rank)
  BY DEF PlanFor
<1>2. src \in Listing /\ dst \in Listing
  BY DEF PlanFor
<1>3. /\ \A x \in P : x \in Op /\ x.ord \in Nat
      /\ \A x \in P : x.ord = o.ord => x = o
  <2>1. \A x \in P : x \in Op
    BY PlanPurpose
  <2> QED
    BY <1>1, <1>2, <2>1, OneOpPerPlace DEF Op
<1>4. PlacesHeld(t, src, dst, P, B, {o}) /\ TempsHeld(m, src, P, B, {o})
  BY DEF Held
<1>5. (\A x \in P : x \in B \ {o} <=> x.ord < o.ord) /\ o \in B
  BY <1>3
<1>6. o.from \in Path \cup TempPlace /\ o.to \in Path \cup TempPlace
  BY <1>3 DEF Op, Place
<1>7. o.to \in Path => t[o.to] = Absent
  BY <1>4 DEF PlacesHeld
<1>8. o.to \in TempPlace => m[o.to] = Absent
  <2>1. \A c \in B \ {o} : o.to \in TempPlace /\ c.to = o.to => c.act # "copy"
    BY <1>1, <1>2, SavedOnce
  <2> QED
    BY <1>4, <2>1 DEF TempsHeld
<1>9. o.from # o.to
  BY <1>1, <1>2, CopiesElsewhere
<1>10. CASE o.from \in TempPlace
  <2>1. PICK c \in P : /\ c.act = "copy" /\ c.to = o.from /\ c.ord < o.ord
                       /\ WantedAt(src, P, c) = src[o.to]
    BY <1>1, <1>2, <1>10, TempsHold
  <2>2. o.to \in Path /\ \A d \in P : d.act = "delete" /\ d.to = o.from => o.ord < d.ord
    BY <1>1, <1>2, <1>10, TempsHold
  <2>3. ASSUME NEW d \in B, d.to = c.to PROVE d.act # "delete"
    BY <1>3, <2>1, <2>2, <2>3
  <2>4. c \in B \ {o}
    BY <1>5, <2>1
  <2>5. Serves(m[c.to], WantedAt(src, P, c), src, P)
    BY <1>4, <1>10, <2>1, <2>3, <2>4 DEF TempsHeld
  <2>6. WantedAt(src, P, o) = src[o.to]
    BY <2>2 DEF WantedAt
  <2>7. o.from \notin Path
    BY <1>10, PathsAreNumbers
  <2> QED
    BY <1>7, <1>8, <1>9, <2>1, <2>2, <2>5, <2>6, <2>7
<1>11. CASE o.from \in Path
  <2>1. PICK q \in Copies(src, dst) :
           /\ o.from = DestToSource(src, dst)[q] /\ WantedAt(src, P, o) = src[q]
    BY <1>1, <1>2, <1>11, CopyReads
  <2>2. src[q] # Absent /\ src[q] \in FileData
    BY <1>2, <2>1, CopiesNeedTransfer DEF NeedsTransfer, Listing
  <2>3. CASE \E w \in B \ {o} : w.to = o.from
    <3>1. PICK w \in B \ {o} : w.to = o.from
      BY <2>3
    <3>2. w \in P /\ w.ord < o.ord
      BY <1>5, <3>1
    <3>3. w.act # "delete"
      <4>1. w.act = "delete" => o.ord < w.ord
        BY <1>1, <1>2, <1>11, <3>1, <3>2, DeletionsComeLast
      <4> QED
        BY <1>3, <3>2, <4>1
    <3>4. Serves(t[w.to], src[w.to], src, P)
      BY <1>4, <1>11, <1>9, <3>1, <3>3 DEF PlacesHeld
    <3>5. Overtaken(src, P) = {} => src[w.to] = WantedAt(src, P, o)
      BY <1>11, <3>1, <3>2 DEF Overtaken
    <3> QED
      BY <1>7, <1>8, <1>11, <1>9, <3>1, <3>4, <3>5 DEF Serves
  <2>4. CASE ~ \E w \in B \ {o} : w.to = o.from
    <3>1. dst[o.from] = WantedAt(src, P, o)
      BY <1>1, <1>2, <1>5, <1>11, <2>4, CopySourceHolds
    <3>2. \A x \in B : x.to # o.from
      BY <1>9, <2>4
    <3>3. t[o.from] = dst[o.from]
      BY <1>4, <1>11, <3>2, AboutPlaces DEF PlacesHeld
    <3> QED
      BY <1>7, <1>8, <1>11, <1>9, <2>1, <2>2, <3>1, <3>3 DEF Serves
  <2> QED
    BY <2>3, <2>4
<1> QED
  BY <1>6, <1>10, <1>11

\* In the end what a plan is about is as it was to be.
LEMMA HeldEnds ==
  ASSUME NEW src, NEW dst, NEW P, PlanFor(src, dst, P), Overtaken(src, P) = {}, NEW t, NEW m,
         Held(t, m, src, dst, P, P, {}), NEW p \in About(P)
  PROVE  t[p] = src[p]
<1>1. PICK rank \in Orders(DestToSource(src, dst)) : P = Plan(src, dst, rank)
  BY DEF PlanFor
<1>2. src \in Listing /\ dst \in Listing /\ P \ {} = P /\ p \in Path
  BY DEF PlanFor, About
<1>3. PlacesHeld(t, src, dst, P, P, {})
  BY DEF Held
<1>4. CASE \E o \in P : o.to = p
  <2>1. PICK o \in P : o.to = p
    BY <1>4
  <2>2. o.act = "delete" => src[p] = Absent
    BY <1>2, <2>1, PlanPurpose
  <2> QED
    BY <1>2, <1>3, <2>1, <2>2 DEF PlacesHeld, Serves
<1>5. CASE ~ \E o \in P : o.to = p
  <2>1. src[p] = dst[p]
    BY <1>1, <1>2, <1>5, PlanCoversDifferences
  <2> QED
    BY <1>3, <1>5, <2>1 DEF PlacesHeld
<1> QED
  BY <1>4, <1>5

-----------------------------------------------------------------------------
(* Messages and channels                                                   *)

LEMMA UpMessages ==
  /\ \A m \in {"push", "pull"}, v \in Nat : Hello(m, v) \in UpMessage
  /\ Simple("DONE") \in UpMessage
  /\ \A l \in Listing : Metadata(l) \in UpMessage
  /\ \A p \in Path : Request(p) \in UpMessage
  /\ \A q \in Place : Delete(q) \in UpMessage
  /\ \A a, b \in Place : Copy(a, b) \in UpMessage
  /\ \A p \in Path, d \in FileData : File(p, d) \in UpMessage
  BY DEF Hello, Simple, Metadata, Request, Delete, Copy, File, UpMessage, FileMessage

LEMMA DownMessages ==
  /\ \A t \in {"OK", "ERROR", "DONE", "FRAGMENT"} : Simple(t) \in DownMessage
  /\ \A l \in Listing : Metadata(l) \in DownMessage
  /\ \A p \in Path, d \in FileData : File(p, d) \in DownMessage
  BY DEF Simple, Metadata, File, DownMessage, FileMessage

LEMMA UpParts ==
  ASSUME NEW m \in UpMessage
  PROVE  /\ m.type = "METADATA" => m.listing \in Listing
         /\ m.type = "REQUEST" => m.path \in Path
         /\ m.type = "FILE" => m \in FileMessage
         /\ m.type = "DELETE" => m.path \in Place
         /\ m.type = "COPY" => m.from \in Place /\ m.to \in Place
  BY DEF UpMessage, FileMessage

LEMMA DownParts ==
  ASSUME NEW m \in DownMessage
  PROVE  /\ m.type = "METADATA" => m.listing \in Listing
         /\ m.type = "FILE" => m \in FileMessage
  BY DEF DownMessage, FileMessage

LEMMA OpParts ==
  ASSUME NEW o \in Op
  PROVE  /\ o.to \in Place
         /\ o.act = "copy" => o.from \in Place
         /\ o.act = "transfer" => o.to \in Path
         /\ o.act \in {"transfer", "copy", "delete"}
  BY DEF Op, Place

LEMMA PlaceCases ==
  ASSUME NEW q \in Place PROVE q \in Path \/ q \in TempPlace
  BY DEF Place

\* What the one who waits finds at the head of a channel.
LEMMA ArrivedHead ==
  ASSUME TypeOK, NEW s \in Session, Arrived(s) # "nothing"
  PROVE  /\ down[s] # <<>> /\ Head(down[s]) \in DownMessage
         /\ Arrived(s) = Head(down[s]).type
  BY HeadTailProperties DEF TypeOK, DownTyped, Arrived

LEMMA OfferedHead ==
  ASSUME TypeOK, NEW s \in Session, Offered(s) # "nothing"
  PROVE  /\ up[s] # <<>> /\ Head(up[s]) \in UpMessage
         /\ Offered(s) = Head(up[s]).type
  BY HeadTailProperties DEF TypeOK, UpTyped, Offered

LEMMA SentTyped ==
  ASSUME TypeOK, NEW s \in Session, NEW m \in UpMessage, CanSend(s), Sent(s, m)
  PROVE  UpTyped'
<1>1. Append(up[s], m) \in Seq(UpMessage) /\ Len(Append(up[s], m)) = Len(up[s]) + 1
  BY AppendProperties DEF TypeOK, UpTyped
<1>2. Len(up[s]) + 1 <= Window
  BY BoundAssumption, LenProperties DEF CanSend, TypeOK, UpTyped
<1> QED
  BY <1>1, <1>2 DEF Sent, TypeOK, UpTyped

LEMMA TakenTyped ==
  ASSUME TypeOK, NEW s \in Session, Offered(s) # "nothing", Taken(s)
  PROVE  UpTyped'
<1>1. up[s] # <<>> /\ up[s] \in Seq(UpMessage)
  BY OfferedHead DEF TypeOK, UpTyped
<1>2. Tail(up[s]) \in Seq(UpMessage) /\ Len(Tail(up[s])) = Len(up[s]) - 1 /\ Len(up[s]) \in Nat
  BY <1>1, HeadTailProperties, LenProperties
<1>3. Len(up[s]) <= Window
  BY DEF TypeOK, UpTyped
<1>4. Len(Tail(up[s])) <= Window
  BY <1>2, <1>3, BoundAssumption
<1> QED
  BY <1>2, <1>4 DEF Taken, TypeOK, UpTyped

\* A receiver leaves the cut-off end of its channel where it is.
LEMMA ReceivedTyped ==
  ASSUME TypeOK, NEW s \in Session, Arrived(s) # "nothing", Received(s), UNCHANGED spc
  PROVE  DownTyped'
<1> DEFINE q == down[s]
<1>1. q # <<>> /\ q \in Seq(DownMessage)
  BY ArrivedHead DEF TypeOK, DownTyped
<1>2. Tail(q) \in Seq(DownMessage) /\ Len(Tail(q)) = Len(q) - 1 /\ Len(q) \in Nat
  BY <1>1, HeadTailProperties, LenProperties
<1>3. Len(Tail(q)) <= Window
  BY <1>2, BoundAssumption DEF TypeOK, DownTyped
<1>4. down' = [down EXCEPT ![s] = Tail(q)]
  BY DEF Received
<1> HIDE DEF q
<1> QED
  BY <1>2, <1>3, <1>4 DEF TypeOK, DownTyped, Broken

LEMMA ClientFailsTyped ==
  ASSUME TypeOK, NEW s \in Session, ClientFails(s)
  PROVE  ClientTyped' /\ ServerTyped' /\ UpTyped' /\ DownTyped' /\ JobsTyped'
<1>1. UpTyped'
  <2>1. PICK q \in Prefixes(up[s]) : up' = [up EXCEPT ![s] = q]
    BY DEF ClientFails
  <2>2. PICK k \in 0..Len(up[s]) : q = SubSeq(up[s], 1, k)
    BY DEF Prefixes
  <2>3. up[s] \in Seq(UpMessage) /\ Len(up[s]) \in Nat /\ Len(up[s]) <= Window
    BY LenProperties DEF TypeOK, UpTyped
  <2>4. k \in Nat /\ k <= Window
    BY <2>3, BoundAssumption
  <2>5. q \in Seq(UpMessage) /\ Len(q) <= Window
    BY <2>2, <2>3, <2>4, SubSeqProperties, BoundAssumption
  <2> QED
    BY <2>1, <2>5 DEF TypeOK, UpTyped
<1>2. DownTyped'
  <2>1. <<>> \in Seq(DownMessage) /\ Len(<<>>) <= Window
    BY BoundAssumption
  <2>2. down' = [down EXCEPT ![s] = <<>>] /\ UNCHANGED spc
    BY DEF ClientFails, server
  <2> QED
    BY <2>1, <2>2 DEF TypeOK, DownTyped, Broken
<1>3. ClientTyped'
  BY DEF ClientFails, CGoto, TypeOK, ClientTyped, ClientPC
<1>4. ServerTyped'
  BY DEF ClientFails, server, TypeOK, ServerTyped
<1>5. JobsTyped'
  BY DEF ClientFails, CGoto, server, TypeOK, ClientTyped, JobsTyped
<1> QED
  BY <1>1, <1>2, <1>3, <1>4, <1>5

\* What a reply may change, and that the handler is not at work afterwards.
LEMMA ReplyTyped ==
  ASSUME TypeOK, NEW s \in Session, NEW m \in DownMessage,
         NEW next \in {"scan", "loop", "closing"}, Reply(s, m, next)
  PROVE  /\ DownTyped'
         /\ spc' \in [Session -> HandlerPC] /\ spc'[s] \in {next, "sending"}
         /\ \A t \in Session \ {s} : spc'[t] = spc[t]
         /\ out' \in [Session -> [message: DownMessage, next: {"scan", "loop", "closing"}]]
<1>1. CASE Ended(s) \/ Broken(s)
  BY <1>1 DEF Reply, SGoto, TypeOK, ServerTyped, DownTyped, Broken, HandlerPC
<1>2. CASE ~ (Ended(s) \/ Broken(s)) /\ HasRoom(s)
  <2>1. down' = [down EXCEPT ![s] = Append(@, m)] /\ SGoto(s, next) /\ UNCHANGED out
    BY <1>2 DEF Reply
  <2> DEFINE q == down[s]
             r == Append(q, m)
  <2>2. q \in Seq(DownMessage) /\ Len(q) \in Nat /\ Len(q) < Window
    BY <1>2, LenProperties DEF TypeOK, DownTyped, HasRoom
  <2>3. r \in Seq(DownMessage) /\ Len(r) <= Window
    BY <2>2, AppendProperties, BoundAssumption
  <2>4. down' = [down EXCEPT ![s] = r]
    BY <2>1
  <2> HIDE DEF q, r
  <2>5. spc' \in [Session -> HandlerPC] /\ spc'[s] = next
        /\ \A t \in Session \ {s} : spc'[t] = spc[t]
    BY <2>1 DEF SGoto, TypeOK, ServerTyped, HandlerPC
  <2>6. DownTyped'
    BY <2>3, <2>4, <2>5 DEF TypeOK, DownTyped, Broken
  <2> QED
    BY <2>1, <2>5, <2>6 DEF TypeOK, ServerTyped
<1>3. CASE ~ (Ended(s) \/ Broken(s)) /\ ~ HasRoom(s)
  <2>1. /\ out' = [out EXCEPT ![s] = [message |-> m, next |-> next]]
        /\ SGoto(s, "sending") /\ UNCHANGED down
    BY <1>3 DEF Reply
  <2>2. DownTyped'
    BY <1>3, <2>1 DEF SGoto, TypeOK, ServerTyped, DownTyped, Broken
  <2> QED
    BY <2>1, <2>2 DEF SGoto, TypeOK, ServerTyped, HandlerPC
<1> QED
  BY <1>1, <1>2, <1>3

-----------------------------------------------------------------------------
(* The client's steps                                                      *)

\* The parts of TypeOK that steps leave alone.
LEMMA Untouched ==
  ASSUME TypeOK
  PROVE  /\ UNCHANGED trees => TreesTyped'
         /\ UNCHANGED <<client, mode>> => ClientTyped'
         /\ UNCHANGED server => ServerTyped'
         /\ UNCHANGED up => UpTyped'
         /\ UNCHANGED <<down, spc>> => DownTyped'
         /\ UNCHANGED faults => (faults \in 0..MaxFaults)'
         /\ Fault => (faults \in 0..MaxFaults)'
<1>1. Fault => (faults \in 0..MaxFaults)'
  BY BoundAssumption DEF TypeOK, Fault
<1> QED
  BY <1>1 DEF TypeOK, trees, client, server, TreesTyped, ClientTyped, ServerTyped, UpTyped,
              DownTyped, Broken

LEMMA ConnectTyped ==
  ASSUME TypeOK, NEW s \in Session, Connect(s)
  PROVE  TypeOK'
<1>1. UpTyped'
  <2>1. PICK v \in Majors : up' = [up EXCEPT ![s] = <<Hello(mode[s], v)>>]
    BY DEF Connect
  <2> DEFINE m == Hello(mode[s], v)
  <2>2. m \in UpMessage
    BY UpMessages, ModeAssumption DEF TypeOK, ClientTyped
  <2> HIDE DEF m
  <2>3. <<m>> \in Seq(UpMessage) /\ Len(<<m>>) <= Window
    BY <2>2, BoundAssumption
  <2>4. up' = [up EXCEPT ![s] = <<m>>]
    BY <2>1 DEF m
  <2> QED
    BY <2>3, <2>4 DEF TypeOK, UpTyped
<1>2. TreesTyped' /\ (faults \in 0..MaxFaults)'
  BY Untouched DEF Connect
<1>3. ClientTyped'
  BY DEF Connect, CGoto, TypeOK, ClientTyped, ClientPC
<1>4. ServerTyped'
  BY DEF Connect, TypeOK, ServerTyped, HandlerPC
<1>5. DownTyped'
  BY DEF Connect, TypeOK, ServerTyped, DownTyped, Broken
<1>6. JobsTyped'
  BY DEF Connect, CGoto, TypeOK, ClientTyped, ServerTyped, JobsTyped
<1> QED
  BY <1>1, <1>2, <1>3, <1>4, <1>5, <1>6 DEF TypeOK

LEMMA ReceiveOKTyped ==
  ASSUME TypeOK, NEW s \in Session, ReceiveOK(s)
  PROVE  TypeOK'
<1>1. TreesTyped' /\ ServerTyped' /\ UpTyped' /\ (faults \in 0..MaxFaults)'
  BY Untouched DEF ReceiveOK
<1>2. DownTyped'
  BY ReceivedTyped DEF ReceiveOK, server
<1>3. ClientTyped' /\ JobsTyped'
  BY DEF ReceiveOK, CGoto, server, TypeOK, ClientTyped, ClientPC, JobsTyped
<1> QED
  BY <1>1, <1>2, <1>3 DEF TypeOK

LEMMA ListsTyped ==
  ASSUME TypeOK, NEW l \in Listing, NEW t, Lists(l, t)
  PROVE  (faults \in 0..MaxFaults)'
  BY Untouched DEF Lists

LEMMA ScanLocalTyped ==
  ASSUME TypeOK, NEW s \in Session, ScanLocal(s)
  PROVE  TypeOK'
<1>1. ASSUME NEW l \in Listing, Lists(l, local[Owner[s]]), CanSend(s), Sent(s, Metadata(l)),
             csnap' = [csnap EXCEPT ![s] = l], CGoto(s, "awaitMetadata"),
             UNCHANGED <<trees, mode, rsnap, todo, cjob, serverErrors, server, down>>
      PROVE  TypeOK'
  <2>1. UpTyped'
    BY <1>1, UpMessages, SentTyped
  <2>2. TreesTyped' /\ ServerTyped' /\ DownTyped' /\ (faults \in 0..MaxFaults)'
    BY <1>1, Untouched, ListsTyped DEF server
  <2>3. ClientTyped' /\ JobsTyped'
    BY <1>1 DEF CGoto, server, TypeOK, ClientTyped, ClientPC, JobsTyped
  <2> QED
    BY <2>1, <2>2, <2>3 DEF TypeOK
<1>2. CASE Fault /\ ClientFails(s) /\ UNCHANGED trees
  BY <1>2, Untouched, ClientFailsTyped DEF TypeOK
<1> QED
  BY <1>1, <1>2 DEF ScanLocal

LEMMA ReceiveMetadataTyped ==
  ASSUME TypeOK, NEW s \in Session, ReceiveMetadata(s)
  PROVE  TypeOK'
<1> DEFINE remote == Head(down[s]).listing
           src == IF mode[s] = "push" THEN csnap[s] ELSE remote
           dst == IF mode[s] = "push" THEN remote ELSE csnap[s]
<1>1. remote \in Listing
  BY ArrivedHead, DownParts DEF ReceiveMetadata
<1>2. src \in Listing /\ dst \in Listing
  BY <1>1 DEF TypeOK, ClientTyped
<1>3. PICK rank \in Orders(DestToSource(src, dst)) :
         plan' = [plan EXCEPT ![s] = Plan(src, dst, rank)]
  BY DEF ReceiveMetadata
<1>4. Plan(src, dst, rank) \subseteq Op
  BY <1>2, PlanIsOps
<1>5. rsnap' = [rsnap EXCEPT ![s] = remote]
  BY DEF ReceiveMetadata
<1> HIDE DEF remote, src, dst
<1>6. TreesTyped'
  BY <1>3, <1>4 DEF ReceiveMetadata, TypeOK, TreesTyped
<1>7. ClientTyped'
  BY <1>1, <1>5, <1>6 DEF ReceiveMetadata, CGoto, TypeOK, TreesTyped, ClientTyped, ClientPC
<1>8. DownTyped'
  BY ReceivedTyped DEF ReceiveMetadata, server
<1>9. ServerTyped' /\ UpTyped' /\ (faults \in 0..MaxFaults)'
  BY Untouched DEF ReceiveMetadata
<1>10. JobsTyped'
  BY DEF ReceiveMetadata, CGoto, server, TypeOK, ClientTyped, JobsTyped
<1> QED
  BY <1>6, <1>7, <1>8, <1>9, <1>10 DEF TypeOK

\* The steps that end the command and touch nothing else.
LEMMA FailureTyped ==
  ASSUME TypeOK, NEW s \in Session,
         ReceiveUnexpected(s) \/ ConnectionLost(s) \/ ClientDies(s)
  PROVE  TypeOK'
<1>1. ClientFails(s) /\ UNCHANGED trees /\ (UNCHANGED faults \/ Fault)
  BY DEF ReceiveUnexpected, ConnectionLost, ClientDies
<1> QED
  BY <1>1, Untouched, ClientFailsTyped DEF TypeOK

\* The tree of the client of s, replaced by another tree.
LEMMA LocalTyped ==
  ASSUME TypeOK, NEW s \in Session
  PROVE  /\ local[Owner[s]] \in Tree
         /\ \A t \in Tree : [local EXCEPT ![Owner[s]] = t] \in [Client -> Tree]
  BY SessionAssumption DEF TypeOK, TreesTyped

LEMMA BegunTyped ==
  ASSUME TypeOK, NEW s \in Session, Begun(s)
  PROVE  /\ applied' \in [Session -> Nat]
         /\ plan' \in [Session -> SUBSET Op]
  BY DEF Begun, TypeOK, TreesTyped

LEMMA FailsOrNot ==
  ASSUME TypeOK
  PROVE  /\ \A b \in BOOLEAN : Fails(b) => (faults \in 0..MaxFaults)'
         /\ \A b \in BOOLEAN : Succeeds(b) => b /\ UNCHANGED faults
  BY Untouched DEF Fails, Succeeds

LEMMA StoredTyped ==
  ASSUME TypeOK, NEW s \in Session, NEW t \in Tree, NEW q \in Place
  PROVE  StoredAt(t, s, q) \in Entry
  BY PlaceCases DEF StoredAt, TypeOK, TreesTyped, Tree

LEMMA ReadyForCopyTyped ==
  ASSUME NEW t \in Tree, NEW to \in Place
  PROVE  ReadyForCopy(t, to) \in Tree
  BY TreeOperations DEF ReadyForCopy

LEMMA FilledTyped ==
  ASSUME NEW t \in Tree, NEW p \in Path, NEW d \in FileData
  PROVE  Filled(t, p, d) \subseteq Tree
  BY TreeUpdate DEF Filled, Entry, FileData

LEMMA UploadTyped ==
  ASSUME TypeOK, NEW s \in Session, NEW o \in Op, Upload(s, o)
  PROVE  TypeOK'
<1> DEFINE t == local[Owner[s]]
<1>1. t \in Tree
  BY LocalTyped
<1>2. CASE /\ Succeeds(IsFile(t, o.to))
           /\ CanSend(s) /\ Sent(s, File(o.to, t[o.to])) /\ Advance(s, o)
           /\ UNCHANGED <<trees, mode, cpc, csnap, rsnap, cjob, serverErrors, server, down>>
  <2>1. File(o.to, t[o.to]) \in UpMessage
    <3>1. IsFile(t, o.to)
      BY <1>2 DEF Succeeds
    <3>2. o.to \in Path
      BY OpParts DEF Upload
    <3> QED
      BY <3>1, <3>2, UpMessages DEF IsFile
  <2>2. UpTyped'
    BY <1>2, <2>1, SentTyped
  <2>3. ClientTyped' /\ JobsTyped'
    BY <1>2 DEF Advance, server, TypeOK, ClientTyped, JobsTyped
  <2>4. TreesTyped' /\ ServerTyped' /\ DownTyped' /\ (faults \in 0..MaxFaults)'
    BY <1>2, Untouched DEF server, Succeeds
  <2> QED
    BY <2>2, <2>3, <2>4 DEF TypeOK
<1>3. CASE Fails(~ IsFile(t, o.to)) /\ ClientFails(s) /\ UNCHANGED trees
  BY <1>3, Untouched, ClientFailsTyped, FailsOrNot DEF TypeOK, IsFile
<1> QED
  BY <1>2, <1>3 DEF Upload

LEMMA SendRemoteTyped ==
  ASSUME TypeOK, NEW s \in Session, NEW o \in Op, SendRemote(s, o)
  PROVE  TypeOK'
<1>1. UpTyped'
  BY UpMessages, OpParts, SentTyped DEF SendRemote
<1>2. ClientTyped' /\ JobsTyped'
  BY DEF SendRemote, Advance, server, TypeOK, ClientTyped, JobsTyped
<1>3. TreesTyped' /\ ServerTyped' /\ DownTyped' /\ (faults \in 0..MaxFaults)'
  BY Untouched DEF SendRemote, server
<1> QED
  BY <1>1, <1>2, <1>3 DEF TypeOK

LEMMA RequestFileTyped ==
  ASSUME TypeOK, NEW s \in Session, NEW o \in Op, RequestFile(s, o)
  PROVE  TypeOK'
<1>1. o.to \in Path
  BY OpParts DEF RequestFile
<1>2. UpTyped'
  BY <1>1, UpMessages, SentTyped DEF RequestFile
<1>3. ClientTyped' /\ JobsTyped'
  BY DEF RequestFile, Advance, CGoto, server, TypeOK, ClientTyped, ClientPC, JobsTyped
<1>4. TreesTyped' /\ ServerTyped' /\ DownTyped' /\ (faults \in 0..MaxFaults)'
  BY Untouched DEF RequestFile, server
<1> QED
  BY <1>2, <1>3, <1>4 DEF TypeOK

LEMMA SkipFileTyped ==
  ASSUME TypeOK, NEW s \in Session, SkipFile(s)
  PROVE  TypeOK'
<1>1. TreesTyped'
  BY BegunTyped DEF SkipFile, TypeOK, TreesTyped
<1>2. ClientTyped' /\ JobsTyped'
  BY DEF SkipFile, CGoto, server, TypeOK, ClientTyped, ClientPC, JobsTyped
<1>3. DownTyped'
  BY ReceivedTyped DEF SkipFile, server
<1>4. ServerTyped' /\ UpTyped' /\ (faults \in 0..MaxFaults)'
  BY Untouched DEF SkipFile
<1> QED
  BY <1>1, <1>2, <1>3, <1>4 DEF TypeOK

LEMMA WriteReceivedFileTyped ==
  ASSUME TypeOK, NEW s \in Session, WriteReceivedFile(s)
  PROVE  TypeOK'
<1> DEFINE p == Head(down[s]).path
           t == TryWithParents(local[Owner[s]], p)
           u == [t EXCEPT ![p] = Torn]
<1>1. Head(down[s]) \in FileMessage
  BY ArrivedHead, DownParts DEF WriteReceivedFile
<1>2. p \in Path
  BY <1>1 DEF FileMessage
<1>3. t \in Tree
  BY <1>2, LocalTyped, TreeOperations
<1>4. u \in Tree
  BY <1>2, <1>3, TreeUpdate DEF Entry, FileData
<1>5. applied' \in [Session -> Nat] /\ plan' \in [Session -> SUBSET Op]
  BY BegunTyped DEF WriteReceivedFile
<1>6. CASE /\ Succeeds(Writable(t, p))
           /\ local' = [local EXCEPT ![Owner[s]] = u]
           /\ cjob' = [cjob EXCEPT ![s] = Head(down[s])]
           /\ Received(s) /\ CGoto(s, "writing")
           /\ UNCHANGED <<served, temp, mode, csnap, rsnap, todo, serverErrors, server, up>>
  <2> HIDE DEF p, t, u
  <2>1. TreesTyped'
    BY <1>4, <1>5, <1>6, LocalTyped DEF TypeOK, TreesTyped
  <2>2. ClientTyped' /\ JobsTyped'
    BY <1>1, <1>6 DEF CGoto, server, TypeOK, ClientTyped, ClientPC, JobsTyped
  <2>3. DownTyped'
    BY <1>6, ReceivedTyped DEF WriteReceivedFile, server
  <2>4. ServerTyped' /\ UpTyped' /\ (faults \in 0..MaxFaults)'
    BY <1>6, Untouched DEF Succeeds
  <2> QED
    BY <2>1, <2>2, <2>3, <2>4 DEF TypeOK
<1>7. CASE /\ Fails(~ Writable(t, p))
           /\ local' = [local EXCEPT ![Owner[s]] = t]
           /\ ClientFails(s) /\ UNCHANGED <<served, temp>>
  <2>1. (faults \in 0..MaxFaults)'
    BY <1>7, FailsOrNot DEF Writable
  <2> HIDE DEF p, t, u
  <2>2. TreesTyped'
    BY <1>3, <1>5, <1>7, LocalTyped DEF TypeOK, TreesTyped
  <2> QED
    BY <1>7, <2>1, <2>2, ClientFailsTyped DEF TypeOK
<1> QED
  BY <1>6, <1>7 DEF WriteReceivedFile

LEMMA FinishReceivedFileTyped ==
  ASSUME TypeOK, NEW s \in Session, FinishReceivedFile(s)
  PROVE  TypeOK'
<1>1. CASE /\ \E t \in Filled(local[Owner[s]], cjob[s].path, cjob[s].data) :
                 local' = [local EXCEPT ![Owner[s]] = t]
           /\ CGoto(s, "operations")
           /\ UNCHANGED <<served, temp, plan, applied, mode, csnap, rsnap, todo, cjob,
                          serverErrors, server, up, down, faults>>
  <2>1. cjob[s] \in FileMessage
    BY DEF FinishReceivedFile, TypeOK, JobsTyped
  <2>2. PICK t \in Filled(local[Owner[s]], cjob[s].path, cjob[s].data) :
           local' = [local EXCEPT ![Owner[s]] = t]
    BY <1>1
  <2>3. t \in Tree
    BY <2>1, LocalTyped, FilledTyped DEF FileMessage
  <2>4. TreesTyped'
    BY <1>1, <2>2, <2>3, LocalTyped DEF TypeOK, TreesTyped
  <2>5. ClientTyped' /\ JobsTyped'
    BY <1>1 DEF CGoto, server, TypeOK, ClientTyped, ClientPC, JobsTyped
  <2>6. ServerTyped' /\ UpTyped' /\ DownTyped' /\ (faults \in 0..MaxFaults)'
    BY <1>1, Untouched DEF server
  <2> QED
    BY <2>4, <2>5, <2>6 DEF TypeOK
<1>2. CASE Fault /\ ClientFails(s) /\ UNCHANGED trees
  BY <1>2, Untouched, ClientFailsTyped DEF TypeOK
<1> QED
  BY <1>1, <1>2 DEF FinishReceivedFile

LEMMA PrepareCopyTyped ==
  ASSUME TypeOK, NEW s \in Session, NEW o \in Op, PrepareCopy(s, o)
  PROVE  TypeOK'
<1> DEFINE t == local[Owner[s]]
           u == ReadyForCopy(t, o.to)
<1>1. u \in Tree
  BY LocalTyped, OpParts, ReadyForCopyTyped
<1>2. applied' \in [Session -> Nat] /\ plan' \in [Session -> SUBSET Op]
  BY BegunTyped DEF PrepareCopy
<1>3. CASE /\ Succeeds(CanPrepareCopy(t, o.to))
           /\ local' = [local EXCEPT ![Owner[s]] = u]
           /\ cjob' = [cjob EXCEPT ![s] = o]
           /\ Advance(s, o) /\ CGoto(s, "copying")
           /\ UNCHANGED <<served, temp, mode, csnap, rsnap, serverErrors, server, up, down>>
  <2> HIDE DEF u
  <2>1. TreesTyped'
    BY <1>1, <1>2, <1>3, LocalTyped DEF TypeOK, TreesTyped
  <2>2. ClientTyped' /\ JobsTyped'
    BY <1>3 DEF PrepareCopy, Advance, CGoto, server, TypeOK, ClientTyped, ClientPC, JobsTyped
  <2>3. ServerTyped' /\ UpTyped' /\ DownTyped' /\ (faults \in 0..MaxFaults)'
    BY <1>3, Untouched DEF Succeeds, server
  <2> QED
    BY <2>1, <2>2, <2>3 DEF TypeOK
<1>4. CASE /\ Fails(~ CanPrepareCopy(t, o.to)) /\ ClientFails(s)
           /\ UNCHANGED <<local, served, temp>>
  <2>1. TreesTyped'
    BY <1>2, <1>4 DEF TypeOK, TreesTyped
  <2>2. (faults \in 0..MaxFaults)'
    BY <1>4, FailsOrNot DEF CanPrepareCopy
  <2> QED
    BY <1>4, <2>1, <2>2, ClientFailsTyped DEF TypeOK
<1> QED
  BY <1>3, <1>4 DEF PrepareCopy

LEMMA CopyItemTyped ==
  ASSUME TypeOK, NEW s \in Session, CopyItem(s)
  PROVE  TypeOK'
<1> DEFINE t == local[Owner[s]]
           o == cjob[s]
           e == StoredAt(t, s, o.from)
<1>1. o.from \in Place /\ o.to \in Place
  BY OpParts DEF CopyItem, TypeOK, JobsTyped
<1>2. e \in Entry /\ t \in Tree
  BY <1>1, LocalTyped, StoredTyped
<1>3. CASE /\ Succeeds(CanCopy(t, s, o.from, o.to))
           /\ IF o.to \in Path
              THEN /\ \E u \in ItemCopied(t, o.from, e, o.to) :
                         local' = [local EXCEPT ![Owner[s]] = u]
                   /\ UNCHANGED temp
              ELSE /\ temp' = [temp EXCEPT ![s][o.to] = e]
                   /\ UNCHANGED local
           /\ CGoto(s, "operations")
           /\ UNCHANGED <<served, plan, applied, mode, csnap, rsnap, todo, cjob,
                          serverErrors, server, up, down>>
  <2> HIDE DEF e
  <2>1. local' \in [Client -> Tree]
    <3>1. o.to \in Path => ItemCopied(t, o.from, e, o.to) \subseteq Tree
      BY <1>2, CopyOfItem
    <3> QED
      BY <1>3, <3>1, LocalTyped DEF TypeOK, TreesTyped
  <2>2. temp' \in [Session -> [TempPlace -> Entry]]
    <3>1. [temp[s] EXCEPT ![o.to] = e] \in [TempPlace -> Entry]
      BY <1>2 DEF TypeOK, TreesTyped
    <3>2. CASE o.to \in Path
      BY <1>3, <3>2 DEF TypeOK, TreesTyped
    <3>3. CASE o.to \notin Path
      BY <1>3, <3>1, <3>3 DEF TypeOK, TreesTyped
    <3> QED
      BY <3>2, <3>3
  <2>3. TreesTyped'
    BY <1>3, <2>1, <2>2 DEF TypeOK, TreesTyped
  <2>4. ClientTyped' /\ JobsTyped'
    BY <1>3 DEF CGoto, server, TypeOK, ClientTyped, ClientPC, JobsTyped
  <2>5. ServerTyped' /\ UpTyped' /\ DownTyped' /\ (faults \in 0..MaxFaults)'
    BY <1>3, Untouched DEF Succeeds, server
  <2> QED
    BY <2>3, <2>4, <2>5 DEF TypeOK
<1>4. CASE Fails(~ CanCopy(t, s, o.from, o.to)) /\ ClientFails(s) /\ UNCHANGED trees
  BY <1>4, Untouched, ClientFailsTyped, FailsOrNot DEF TypeOK, CanCopy
<1> QED
  BY <1>3, <1>4 DEF CopyItem

LEMMA DeleteLocalTyped ==
  ASSUME TypeOK, NEW s \in Session, NEW o \in Op, DeleteLocal(s, o)
  PROVE  TypeOK'
<1>1. applied' \in [Session -> Nat] /\ plan' \in [Session -> SUBSET Op]
  BY BegunTyped DEF DeleteLocal
<1>2. local' \in [Client -> Tree]
  <2>1. o.to \in Path => Removed(local[Owner[s]], o.to) \in Tree
    BY LocalTyped, TreeOperations
  <2>2. \/ UNCHANGED local
        \/ o.to \in Path /\ local' = [local EXCEPT ![Owner[s]] = Removed(@, o.to)]
    BY DEF DeleteLocal
  <2> QED
    BY <2>1, <2>2, LocalTyped DEF TypeOK, TreesTyped
<1>3. temp' \in [Session -> [TempPlace -> Entry]]
  <2>1. Absent \in Entry
    BY DEF Entry
  <2>2. UNCHANGED temp \/ temp' = [temp EXCEPT ![s][o.to] = Absent]
    BY DEF DeleteLocal
  <2>3. [temp[s] EXCEPT ![o.to] = Absent] \in [TempPlace -> Entry]
    BY <2>1 DEF TypeOK, TreesTyped
  <2> QED
    BY <2>2, <2>3 DEF TypeOK, TreesTyped
<1>4. TreesTyped'
  BY <1>1, <1>2, <1>3 DEF DeleteLocal, TypeOK, TreesTyped
<1>5. ClientTyped' /\ JobsTyped'
  BY DEF DeleteLocal, Advance, server, TypeOK, ClientTyped, JobsTyped
<1>6. ServerTyped' /\ UpTyped' /\ DownTyped' /\ (faults \in 0..MaxFaults)'
  BY Untouched DEF DeleteLocal, server
<1> QED
  BY <1>4, <1>5, <1>6 DEF TypeOK

LEMMA SendDoneTyped ==
  ASSUME TypeOK, NEW s \in Session, SendDone(s)
  PROVE  TypeOK'
<1>1. UpTyped'
  BY UpMessages, SentTyped DEF SendDone
<1>2. ClientTyped' /\ JobsTyped'
  BY DEF SendDone, CGoto, server, TypeOK, ClientTyped, ClientPC, JobsTyped
<1>3. TreesTyped' /\ ServerTyped' /\ DownTyped' /\ (faults \in 0..MaxFaults)'
  BY Untouched DEF SendDone, server
<1> QED
  BY <1>1, <1>2, <1>3 DEF TypeOK

LEMMA DrainReplyTyped ==
  ASSUME TypeOK, NEW s \in Session, DrainReply(s)
  PROVE  TypeOK'
<1>1. DownTyped'
  BY ReceivedTyped DEF DrainReply, server
<1>2. ClientTyped' /\ JobsTyped'
  BY DEF DrainReply, server, TypeOK, ClientTyped, JobsTyped
<1>3. TreesTyped' /\ ServerTyped' /\ UpTyped' /\ (faults \in 0..MaxFaults)'
  BY Untouched DEF DrainReply
<1> QED
  BY <1>1, <1>2, <1>3 DEF TypeOK

LEMMA ReceiveDoneTyped ==
  ASSUME TypeOK, NEW s \in Session, ReceiveDone(s)
  PROVE  TypeOK'
<1>1. TreesTyped' /\ (faults \in 0..MaxFaults)'
  BY Untouched DEF ReceiveDone
<1>2. CASE ClientFails(s)
  BY <1>1, <1>2, ClientFailsTyped DEF TypeOK
<1>3. CASE /\ CGoto(s, "ok") /\ Received(s)
           /\ UNCHANGED <<mode, csnap, rsnap, todo, cjob, serverErrors, server, up>>
  <2>1. DownTyped'
    BY <1>3, ReceivedTyped DEF ReceiveDone, server
  <2>2. ClientTyped' /\ JobsTyped'
    BY <1>3 DEF CGoto, server, TypeOK, ClientTyped, ClientPC, JobsTyped
  <2>3. ServerTyped' /\ UpTyped'
    BY <1>3, Untouched
  <2> QED
    BY <1>1, <2>1, <2>2, <2>3 DEF TypeOK
<1> QED
  BY <1>2, <1>3 DEF ReceiveDone

-----------------------------------------------------------------------------
(* The handler's steps                                                     *)

\* A step of the handler that answers, or that goes on without an answer.
LEMMA HandlerTyped ==
  ASSUME TypeOK, NEW s \in Session,
         /\ spc' \in [Session -> HandlerPC] /\ spc'[s] \notin {"writing", "copying"}
         /\ \A t \in Session \ {s} : spc'[t] = spc[t]
         /\ out' \in [Session -> [message: DownMessage, next: {"scan", "loop", "closing"}]],
         ssnap' \in [Session -> Listing], UNCHANGED <<client, sjob>>,
         refused' \in [Session -> BOOLEAN]
  PROVE  ServerTyped' /\ JobsTyped'
<1>1. ServerTyped'
  BY DEF TypeOK, ServerTyped
<1>2. JobsTyped'
  BY DEF client, TypeOK, ServerTyped, JobsTyped
<1> QED
  BY <1>1, <1>2

LEMMA GoesOnTyped ==
  ASSUME TypeOK, NEW s \in Session, NEW l \in HandlerPC \ {"writing", "copying", "sending"},
         SGoto(s, l), UNCHANGED <<down, out>>
  PROVE  /\ DownTyped'
         /\ spc' \in [Session -> HandlerPC] /\ spc'[s] = l
         /\ \A t \in Session \ {s} : spc'[t] = spc[t]
         /\ out' \in [Session -> [message: DownMessage, next: {"scan", "loop", "closing"}]]
<1>1. DownTyped'
  BY DEF SGoto, TypeOK, ServerTyped, DownTyped, Broken
<1> QED
  BY <1>1 DEF SGoto, TypeOK, ServerTyped

\* "DELETE" and the like: a handler that stays in its loop.
LEMMA RefuseTyped ==
  ASSUME TypeOK, NEW s \in Session, Refuse(s), UNCHANGED <<client, ssnap, sjob>>
  PROVE  ServerTyped' /\ JobsTyped' /\ DownTyped'
<1>1. Reply(s, Simple("ERROR"), "loop")
  BY DEF Refuse
<1>2. refused' \in [Session -> BOOLEAN] /\ ssnap' \in [Session -> Listing]
  BY DEF Refuse, TypeOK, ServerTyped
<1> QED
  BY <1>1, <1>2, DownMessages, ReplyTyped, HandlerTyped

LEMMA ReplySentTyped ==
  ASSUME TypeOK, NEW s \in Session, ReplySent(s)
  PROVE  TypeOK'
<1>1. out[s].message \in DownMessage /\ out[s].next \in {"scan", "loop", "closing"}
  BY DEF TypeOK, ServerTyped
<1>2. Reply(s, out[s].message, out[s].next)
  BY DEF ReplySent
<1>3. refused' \in [Session -> BOOLEAN] /\ ssnap' \in [Session -> Listing]
  BY DEF ReplySent, TypeOK, ServerTyped
<1>4. ServerTyped' /\ JobsTyped' /\ DownTyped'
  BY <1>1, <1>2, <1>3, ReplyTyped, HandlerTyped DEF ReplySent
<1>5. TreesTyped' /\ ClientTyped' /\ UpTyped' /\ (faults \in 0..MaxFaults)'
  BY Untouched DEF ReplySent, client
<1> QED
  BY <1>4, <1>5 DEF TypeOK

LEMMA ReplyAbandonedTyped ==
  ASSUME TypeOK, NEW s \in Session, ReplyAbandoned(s)
  PROVE  TypeOK'
<1> DEFINE q == down[s]
           r == Append(q, Simple("FRAGMENT"))
<1>1. out[s].next \in {"scan", "loop", "closing"}
  BY DEF TypeOK, ServerTyped
<1>2. spc' = [spc EXCEPT ![s] = out[s].next]
  BY DEF ReplyAbandoned, SGoto
<1>3. DownTyped'
  <2>1. CASE UNCHANGED down
    BY <1>1, <1>2, <2>1 DEF TypeOK, ServerTyped, DownTyped, Broken
  <2>2. CASE down' = [down EXCEPT ![s] = r]
    <3>1. q \in Seq(DownMessage) /\ Len(q) \in Nat /\ Len(q) <= Window
      BY LenProperties DEF ReplyAbandoned, TypeOK, DownTyped
    <3>2. ~ (Len(q) < Window)
      BY DEF ReplyAbandoned, HasRoom
    <3>3. Len(q) = Window
      BY <3>1, <3>2, BoundAssumption
    <3>4. /\ r \in Seq(DownMessage) /\ Len(r) = Window + 1 /\ r # <<>>
          /\ r[Len(r)].type = "FRAGMENT"
      BY <3>1, <3>3, AppendProperties, DownMessages, BoundAssumption DEF Simple
    <3> HIDE DEF q, r
    <3>5. spc'[s] # "sending" /\ \A t \in Session \ {s} : spc'[t] = spc[t]
      BY <1>1, <1>2 DEF TypeOK, ServerTyped
    <3>6. /\ down' \in [Session -> Seq(DownMessage)] /\ down'[s] = r
          /\ \A t \in Session \ {s} : down'[t] = down[t]
      BY <2>2, <3>4 DEF TypeOK, DownTyped
    <3> QED
      BY <3>4, <3>5, <3>6 DEF TypeOK, DownTyped, Broken
  <2> QED
    BY <2>1, <2>2 DEF ReplyAbandoned
<1>4. ServerTyped' /\ JobsTyped'
  BY <1>1, <1>2 DEF ReplyAbandoned, client, TypeOK, ServerTyped, JobsTyped, HandlerPC
<1>5. TreesTyped' /\ ClientTyped' /\ UpTyped' /\ (faults \in 0..MaxFaults)'
  BY Untouched DEF ReplyAbandoned, client
<1> QED
  BY <1>3, <1>4, <1>5 DEF TypeOK

LEMMA ReceiveHelloTyped ==
  ASSUME TypeOK, NEW s \in Session, ReceiveHello(s)
  PROVE  TypeOK'
<1>1. UpTyped'
  BY TakenTyped DEF ReceiveHello
<1>2. ServerTyped' /\ JobsTyped' /\ DownTyped'
  <2>1. PICK m \in DownMessage, next \in {"scan", "closing"} : Reply(s, m, next)
    BY DownMessages DEF ReceiveHello
  <2>2. refused' \in [Session -> BOOLEAN] /\ ssnap' \in [Session -> Listing]
    BY DEF ReceiveHello, TypeOK, ServerTyped
  <2> QED
    BY <2>1, <2>2, ReplyTyped, HandlerTyped DEF ReceiveHello
<1>3. TreesTyped' /\ ClientTyped' /\ (faults \in 0..MaxFaults)'
  BY Untouched DEF ReceiveHello, client
<1> QED
  BY <1>1, <1>2, <1>3 DEF TypeOK

LEMMA ScanServedTyped ==
  ASSUME TypeOK, NEW s \in Session, ScanServed(s)
  PROVE  TypeOK'
<1>1. ssnap' \in [Session -> Listing]
  BY DEF ScanServed, TypeOK, ServerTyped
<1>2. refused' \in [Session -> BOOLEAN]
  BY DEF ScanServed, TypeOK, ServerTyped
<1>3. ASSUME NEW l \in Listing, Lists(l, served), SGoto(s, "metadata"), UNCHANGED <<down, out>>
      PROVE  TypeOK'
  <2>1. "metadata" \in HandlerPC \ {"writing", "copying", "sending"}
    BY DEF HandlerPC
  <2>2. (faults \in 0..MaxFaults)'
    BY <1>3, ListsTyped
  <2> QED
    BY <1>1, <1>2, <1>3, <2>1, <2>2, GoesOnTyped, HandlerTyped, Untouched
       DEF ScanServed, client, TypeOK
<1>4. CASE Fault /\ Reply(s, Simple("ERROR"), "closing")
  BY <1>1, <1>2, <1>4, DownMessages, ReplyTyped, HandlerTyped, Untouched
     DEF ScanServed, client, TypeOK
<1> QED
  BY <1>3, <1>4 DEF ScanServed

LEMMA ExchangeMetadataTyped ==
  ASSUME TypeOK, NEW s \in Session, ExchangeMetadata(s)
  PROVE  TypeOK'
<1>1. UpTyped'
  BY TakenTyped DEF ExchangeMetadata
<1>2. ServerTyped' /\ JobsTyped' /\ DownTyped'
  <2>1. PICK m \in DownMessage, next \in {"loop", "closing"} : Reply(s, m, next)
    BY DownMessages DEF ExchangeMetadata, TypeOK, ServerTyped
  <2>2. refused' \in [Session -> BOOLEAN] /\ ssnap' \in [Session -> Listing]
    BY DEF ExchangeMetadata, TypeOK, ServerTyped
  <2> QED
    BY <2>1, <2>2, ReplyTyped, HandlerTyped DEF ExchangeMetadata
<1>3. TreesTyped' /\ ClientTyped' /\ (faults \in 0..MaxFaults)'
  BY Untouched DEF ExchangeMetadata, client
<1> QED
  BY <1>1, <1>2, <1>3 DEF TypeOK

LEMMA ReceiveFailsTyped ==
  ASSUME TypeOK, NEW s \in Session, ReceiveFails(s)
  PROVE  TypeOK'
<1>1. refused' \in [Session -> BOOLEAN] /\ ssnap' \in [Session -> Listing]
  BY DEF ReceiveFails, TypeOK, ServerTyped
<1>2. TreesTyped' /\ ClientTyped' /\ UpTyped' /\ (faults \in 0..MaxFaults)'
  BY Untouched DEF ReceiveFails, client
<1>3. CASE SGoto(s, "closing") /\ UNCHANGED <<down, out>>
  <2> "closing" \in HandlerPC \ {"writing", "copying", "sending"}
    BY DEF HandlerPC
  <2> QED
    BY <1>1, <1>2, <1>3, GoesOnTyped, HandlerTyped DEF ReceiveFails, TypeOK
<1>4. CASE Reply(s, Simple("ERROR"), "closing")
  BY <1>1, <1>2, <1>4, DownMessages, ReplyTyped, HandlerTyped DEF ReceiveFails, TypeOK
<1> QED
  BY <1>3, <1>4 DEF ReceiveFails

\* The handler starts on a file or a copy: parents made, something in its hands.
LEMMA StartsTyped ==
  ASSUME TypeOK, NEW s \in Session, NEW l \in {"writing", "copying"}, SGoto(s, l),
         /\ Head(up[s]) \in UpMessage
         /\ l = "writing" => Head(up[s]) \in FileMessage
         /\ l = "copying" => Head(up[s]).type = "COPY",
         sjob' = [sjob EXCEPT ![s] = Head(up[s])],
         UNCHANGED <<client, ssnap, down, out, refused>>
  PROVE  ServerTyped' /\ JobsTyped' /\ DownTyped'
<1> DEFINE m == Head(up[s])
<1> HIDE DEF m
<1>1. ServerTyped'
  BY DEF SGoto, TypeOK, ServerTyped, HandlerPC, m
<1>2. JobsTyped'
  BY DEF SGoto, client, TypeOK, ServerTyped, JobsTyped, m
<1>3. DownTyped'
  BY DEF SGoto, TypeOK, ServerTyped, DownTyped, Broken
<1> QED
  BY <1>1, <1>2, <1>3

LEMMA LoopTyped ==
  ASSUME TypeOK, NEW s \in Session, spc[s] \in {"loop", "writing", "copying"},
         SGoto(s, "loop") \/ (UNCHANGED spc /\ spc[s] = "loop"),
         UNCHANGED <<client, ssnap, sjob, down, out, refused>>
  PROVE  ServerTyped' /\ JobsTyped' /\ DownTyped'
<1>1. ServerTyped'
  BY DEF SGoto, TypeOK, ServerTyped, HandlerPC
<1>2. JobsTyped'
  BY DEF SGoto, client, TypeOK, ServerTyped, JobsTyped
<1>3. DownTyped'
  BY DEF SGoto, TypeOK, ServerTyped, DownTyped, Broken
<1> QED
  BY <1>1, <1>2, <1>3

LEMMA TakesTyped ==
  ASSUME TypeOK, NEW s \in Session, NEW t, t # "nothing", Takes(s, t)
  PROVE  UpTyped' /\ Head(up[s]) \in UpMessage /\ Head(up[s]).type = t
<1>1. Offered(s) = t
  BY DEF Takes
<1> QED
  BY <1>1, OfferedHead, TakenTyped DEF Takes

LEMMA SendFileTyped ==
  ASSUME TypeOK, NEW s \in Session, SendFile(s)
  PROVE  TypeOK'
<1> DEFINE p == Head(up[s]).path
<1>1. UpTyped' /\ Head(up[s]) \in UpMessage /\ Head(up[s]).type = "REQUEST"
  BY TakesTyped DEF SendFile
<1>2. p \in Path
  BY <1>1, UpParts
<1>3. TreesTyped' /\ ClientTyped'
  BY Untouched DEF SendFile, client
<1>4. CASE /\ Succeeds(IsFile(served, p))
           /\ Reply(s, File(p, served[p]), "loop")
           /\ UNCHANGED refused
  <2>1. IsFile(served, p)
    BY <1>4 DEF Succeeds
  <2>2. File(p, served[p]) \in DownMessage
    BY <1>2, <2>1, DownMessages DEF IsFile
  <2>3. refused' \in [Session -> BOOLEAN] /\ ssnap' \in [Session -> Listing]
    BY <1>4 DEF SendFile, TypeOK, ServerTyped
  <2>4. (faults \in 0..MaxFaults)'
    BY <1>4, Untouched DEF Succeeds
  <2> QED
    BY <1>1, <1>3, <1>4, <2>2, <2>3, <2>4, ReplyTyped, HandlerTyped DEF SendFile, TypeOK
<1>5. CASE Fails(~ IsFile(served, p)) /\ Refuse(s)
  BY <1>1, <1>3, <1>5, RefuseTyped, FailsOrNot DEF SendFile, TypeOK, IsFile
<1> QED
  BY <1>4, <1>5 DEF SendFile

LEMMA ReceiveFileTyped ==
  ASSUME TypeOK, NEW s \in Session, ReceiveFile(s)
  PROVE  TypeOK'
<1> DEFINE p == Head(up[s]).path
           t == TryWithParents(served, p)
           u == [t EXCEPT ![p] = Torn]
<1>1. UpTyped' /\ Head(up[s]) \in UpMessage /\ Head(up[s]).type = "FILE"
  BY TakesTyped DEF ReceiveFile
<1>2. Head(up[s]) \in FileMessage /\ p \in Path
  BY <1>1, UpParts DEF FileMessage
<1>3. t \in Tree /\ u \in Tree
  <2>1. t \in Tree
    BY <1>2, TreeOperations DEF TypeOK, TreesTyped
  <2> QED
    BY <1>2, <2>1, TreeUpdate DEF Entry, FileData
<1>4. applied' \in [Session -> Nat] /\ plan' \in [Session -> SUBSET Op]
  BY BegunTyped DEF ReceiveFile
<1>5. ClientTyped'
  BY Untouched DEF ReceiveFile, client
<1>6. CASE /\ Succeeds(Writable(t, p))
           /\ served' = u
           /\ sjob' = [sjob EXCEPT ![s] = Head(up[s])]
           /\ SGoto(s, "writing")
           /\ UNCHANGED <<down, out, refused>>
  <2> HIDE DEF t, u
  <2>1. TreesTyped'
    BY <1>3, <1>4, <1>6 DEF ReceiveFile, TypeOK, TreesTyped
  <2>2. ServerTyped' /\ JobsTyped' /\ DownTyped'
    BY <1>1, <1>2, <1>6, StartsTyped DEF ReceiveFile
  <2> QED
    BY <1>1, <1>5, <1>6, <2>1, <2>2, Untouched DEF TypeOK, Succeeds
<1>7. CASE /\ Fails(~ Writable(t, p)) /\ Refuse(s)
           /\ served' = t /\ UNCHANGED sjob
  <2>1. (faults \in 0..MaxFaults)'
    BY <1>7, FailsOrNot DEF Writable
  <2> HIDE DEF t
  <2>2. TreesTyped'
    BY <1>3, <1>4, <1>7 DEF ReceiveFile, TypeOK, TreesTyped
  <2>3. ServerTyped' /\ JobsTyped' /\ DownTyped'
    BY <1>7, RefuseTyped DEF ReceiveFile
  <2> QED
    BY <1>1, <1>5, <2>1, <2>2, <2>3 DEF TypeOK
<1> QED
  BY <1>6, <1>7 DEF ReceiveFile

LEMMA FinishFileTyped ==
  ASSUME TypeOK, NEW s \in Session, FinishFile(s)
  PROVE  TypeOK'
<1>1. ClientTyped' /\ UpTyped'
  BY Untouched DEF FinishFile, client
<1>2. CASE /\ served' \in Filled(served, sjob[s].path, sjob[s].data)
           /\ SGoto(s, "loop")
           /\ UNCHANGED <<down, out, refused, faults>>
  <2>1. sjob[s] \in FileMessage
    BY DEF FinishFile, TypeOK, JobsTyped
  <2>2. served' \in Tree
    BY <1>2, <2>1, FilledTyped DEF FileMessage, TypeOK, TreesTyped
  <2>3. TreesTyped'
    BY <2>2 DEF FinishFile, TypeOK, TreesTyped
  <2>4. ServerTyped' /\ JobsTyped' /\ DownTyped'
    BY <1>2, LoopTyped DEF FinishFile
  <2> QED
    BY <1>1, <1>2, <2>3, <2>4, Untouched DEF TypeOK
<1>3. CASE Fault /\ Refuse(s) /\ UNCHANGED served
  <2>1. TreesTyped'
    BY <1>3 DEF FinishFile, TypeOK, TreesTyped
  <2>2. ServerTyped' /\ JobsTyped' /\ DownTyped'
    BY <1>3, RefuseTyped DEF FinishFile
  <2> QED
    BY <1>1, <1>3, <2>1, <2>2, Untouched DEF TypeOK
<1> QED
  BY <1>2, <1>3 DEF FinishFile

LEMMA DeleteFileTyped ==
  ASSUME TypeOK, NEW s \in Session, DeleteFile(s)
  PROVE  TypeOK'
<1> DEFINE q == Head(up[s]).path
<1>1. UpTyped' /\ Head(up[s]) \in UpMessage /\ Head(up[s]).type = "DELETE"
  BY TakesTyped DEF DeleteFile
<1>2. q \in Path \/ q \in TempPlace
  BY <1>1, UpParts, PlaceCases
<1>3. applied' \in [Session -> Nat] /\ plan' \in [Session -> SUBSET Op]
  BY BegunTyped DEF DeleteFile
<1>4. ClientTyped' /\ spc[s] = "loop"
  BY Untouched DEF DeleteFile, client, Takes
<1>5. CASE q \in TempPlace
  <2>1. /\ \/ temp' = [temp EXCEPT ![s][q] = Absent] /\ UNCHANGED faults
           \/ Fault /\ UNCHANGED temp
        /\ UNCHANGED <<served, spc, down, out, refused>>
    BY <1>5 DEF DeleteFile
  <2>2. temp' \in [Session -> [TempPlace -> Entry]]
    <3>1. [temp[s] EXCEPT ![q] = Absent] \in [TempPlace -> Entry]
      BY DEF Entry, TypeOK, TreesTyped
    <3> QED
      BY <2>1, <3>1 DEF TypeOK, TreesTyped
  <2>3. TreesTyped'
    BY <1>3, <2>1, <2>2 DEF DeleteFile, TypeOK, TreesTyped
  <2>4. ServerTyped' /\ JobsTyped' /\ DownTyped'
    BY <1>4, <2>1, LoopTyped DEF DeleteFile
  <2> QED
    BY <1>1, <1>4, <2>1, <2>3, <2>4, Untouched DEF TypeOK
<1>6. CASE q \notin TempPlace
  <2>1. q \in Path
    BY <1>2, <1>6
  <2>2. CASE /\ Succeeds(served[q] # Absent)
             /\ served' = Pruned(Removed(served, q), q)
             /\ UNCHANGED <<spc, down, out, refused, temp>>
    <3>1. served' \in Tree
      BY <2>1, <2>2, TreeOperations DEF TypeOK, TreesTyped
    <3>2. TreesTyped'
      BY <1>3, <2>2, <3>1 DEF DeleteFile, TypeOK, TreesTyped
    <3>3. ServerTyped' /\ JobsTyped' /\ DownTyped'
      BY <1>4, <2>2, LoopTyped DEF DeleteFile
    <3> QED
      BY <1>1, <1>4, <2>2, <3>2, <3>3, Untouched DEF Succeeds, TypeOK
  <2>3. CASE /\ Fails(served[q] = Absent) /\ Refuse(s)
             /\ UNCHANGED <<served, temp>>
    <3>1. TreesTyped'
      BY <1>3, <2>3 DEF DeleteFile, TypeOK, TreesTyped
    <3>2. ServerTyped' /\ JobsTyped' /\ DownTyped'
      BY <2>3, RefuseTyped DEF DeleteFile
    <3> QED
      BY <1>1, <1>4, <2>3, <3>1, <3>2, FailsOrNot DEF TypeOK
  <2> QED
    BY <1>6, <2>2, <2>3 DEF DeleteFile
<1> QED
  BY <1>5, <1>6

LEMMA ReceiveCopyTyped ==
  ASSUME TypeOK, NEW s \in Session, ReceiveCopy(s)
  PROVE  TypeOK'
<1> DEFINE to == Head(up[s]).to
           u == ReadyForCopy(served, to)
<1>1. UpTyped' /\ Head(up[s]) \in UpMessage /\ Head(up[s]).type = "COPY"
  BY TakesTyped DEF ReceiveCopy
<1>2. u \in Tree
  BY <1>1, UpParts, ReadyForCopyTyped DEF TypeOK, TreesTyped
<1>3. applied' \in [Session -> Nat] /\ plan' \in [Session -> SUBSET Op]
  BY BegunTyped DEF ReceiveCopy
<1>4. ClientTyped'
  BY Untouched DEF ReceiveCopy, client
<1>5. CASE /\ Succeeds(CanPrepareCopy(served, to))
           /\ served' = u
           /\ sjob' = [sjob EXCEPT ![s] = Head(up[s])]
           /\ SGoto(s, "copying")
           /\ UNCHANGED <<down, out, refused>>
  <2> HIDE DEF u
  <2>1. TreesTyped'
    BY <1>2, <1>3, <1>5 DEF ReceiveCopy, TypeOK, TreesTyped
  <2>2. ServerTyped' /\ JobsTyped' /\ DownTyped'
    BY <1>1, <1>5, StartsTyped DEF ReceiveCopy
  <2> QED
    BY <1>1, <1>4, <1>5, <2>1, <2>2, Untouched DEF TypeOK, Succeeds
<1>6. CASE /\ Fails(~ CanPrepareCopy(served, to)) /\ Refuse(s)
           /\ UNCHANGED <<served, sjob>>
  <2>1. TreesTyped'
    BY <1>3, <1>6 DEF ReceiveCopy, TypeOK, TreesTyped
  <2>2. ServerTyped' /\ JobsTyped' /\ DownTyped'
    BY <1>6, RefuseTyped DEF ReceiveCopy
  <2> QED
    BY <1>1, <1>4, <1>6, <2>1, <2>2, FailsOrNot DEF TypeOK, CanPrepareCopy
<1> QED
  BY <1>5, <1>6 DEF ReceiveCopy

LEMMA FinishCopyTyped ==
  ASSUME TypeOK, NEW s \in Session, FinishCopy(s)
  PROVE  TypeOK'
<1> DEFINE from == sjob[s].from
           to == sjob[s].to
           e == StoredAt(served, s, from)
<1>1. from \in Place /\ to \in Place
  BY UpParts DEF FinishCopy, TypeOK, ServerTyped, JobsTyped
<1>2. e \in Entry
  BY <1>1, StoredTyped DEF TypeOK, TreesTyped
<1>3. ClientTyped' /\ UpTyped'
  BY Untouched DEF FinishCopy, client
<1>4. CASE /\ Succeeds(CanCopy(served, s, from, to))
           /\ IF to \in Path
              THEN served' \in ItemCopied(served, from, e, to) /\ UNCHANGED temp
              ELSE temp' = [temp EXCEPT ![s][to] = e] /\ UNCHANGED served
           /\ SGoto(s, "loop")
           /\ UNCHANGED <<down, out, refused>>
  <2>1. ServerTyped' /\ JobsTyped' /\ DownTyped'
    BY <1>4, LoopTyped DEF FinishCopy
  <2> HIDE DEF to, e
  <2>2. served' \in Tree
    BY <1>2, <1>4, CopyOfItem DEF TypeOK, TreesTyped
  <2>3. temp' \in [Session -> [TempPlace -> Entry]]
    <3>1. [temp[s] EXCEPT ![to] = e] \in [TempPlace -> Entry]
      BY <1>2 DEF TypeOK, TreesTyped
    <3>2. CASE to \in Path
      BY <1>4, <3>2 DEF TypeOK, TreesTyped
    <3>3. CASE to \notin Path
      BY <1>4, <3>1, <3>3 DEF TypeOK, TreesTyped
    <3> QED
      BY <3>2, <3>3
  <2>4. TreesTyped'
    BY <2>2, <2>3 DEF FinishCopy, TypeOK, TreesTyped
  <2> QED
    BY <1>3, <1>4, <2>1, <2>4, Untouched DEF TypeOK, Succeeds
<1>5. CASE /\ Fails(~ CanCopy(served, s, from, to)) /\ Refuse(s)
           /\ UNCHANGED <<served, temp>>
  <2>1. TreesTyped'
    BY <1>5 DEF FinishCopy, TypeOK, TreesTyped
  <2>2. ServerTyped' /\ JobsTyped' /\ DownTyped'
    BY <1>5, RefuseTyped DEF FinishCopy
  <2> QED
    BY <1>3, <1>5, <2>1, <2>2, FailsOrNot DEF TypeOK, CanCopy
<1> QED
  BY <1>4, <1>5 DEF FinishCopy

LEMMA ReceiveLastTyped ==
  ASSUME TypeOK, NEW s \in Session, ReceiveLast(s)
  PROVE  TypeOK'
<1>1. UpTyped'
  BY TakenTyped DEF ReceiveLast
<1>2. PICK m \in DownMessage : Reply(s, m, "closing")
  BY DownMessages DEF ReceiveLast
<1>3. refused' \in [Session -> BOOLEAN] /\ ssnap' \in [Session -> Listing]
  BY DEF ReceiveLast, TypeOK, ServerTyped
<1>4. ServerTyped' /\ JobsTyped' /\ DownTyped'
  BY <1>2, <1>3, ReplyTyped, HandlerTyped DEF ReceiveLast
<1>5. TreesTyped' /\ ClientTyped' /\ (faults \in 0..MaxFaults)'
  BY Untouched DEF ReceiveLast, client
<1> QED
  BY <1>1, <1>4, <1>5 DEF TypeOK

LEMMA EmptyChannels ==
  /\ <<>> \in Seq(UpMessage) /\ <<>> \in Seq(DownMessage)
  /\ Len(<<>>) <= Window
  BY BoundAssumption

LEMMA CloseConnectionTyped ==
  ASSUME TypeOK, NEW s \in Session, CloseConnection(s)
  PROVE  TypeOK'
<1>1. UpTyped'
  BY EmptyChannels DEF CloseConnection, TypeOK, UpTyped
<1>2. DownTyped'
  <2>1. CASE UNCHANGED down
    BY <2>1 DEF CloseConnection, SGoto, TypeOK, ServerTyped, DownTyped, Broken
  <2>2. CASE down' = [down EXCEPT ![s] = <<>>]
    BY <2>2, EmptyChannels DEF CloseConnection, SGoto, TypeOK, ServerTyped, DownTyped, Broken
  <2> QED
    BY <2>1, <2>2 DEF CloseConnection
<1>3. ServerTyped' /\ JobsTyped'
  BY DEF CloseConnection, SGoto, client, TypeOK, ServerTyped, JobsTyped, HandlerPC
<1>4. TreesTyped' /\ ClientTyped' /\ (faults \in 0..MaxFaults)'
  BY Untouched DEF CloseConnection, client
<1> QED
  BY <1>1, <1>2, <1>3, <1>4 DEF TypeOK

LEMMA ServerCrashTyped ==
  ASSUME TypeOK, ServerCrash
  PROVE  TypeOK'
<1>1. \A s \in Session : spc'[s] = spc[s] \/ spc'[s] = "closed"
  BY DEF ServerCrash
<1>2. DownTyped'
  <2>1. \A s \in Session : down'[s] = down[s] \/ down'[s] = <<>>
    BY DEF ServerCrash
  <2>2. down' \in [Session -> Seq(DownMessage)]
    BY EmptyChannels DEF ServerCrash, TypeOK, DownTyped
  <2> QED
    BY <1>1, <2>1, <2>2, EmptyChannels DEF TypeOK, DownTyped, Broken
<1>3. ServerTyped' /\ JobsTyped'
  BY <1>1 DEF ServerCrash, client, TypeOK, ServerTyped, JobsTyped, HandlerPC
<1>4. TreesTyped' /\ ClientTyped' /\ UpTyped' /\ (faults \in 0..MaxFaults)'
  BY Untouched DEF ServerCrash, client
<1> QED
  BY <1>2, <1>3, <1>4 DEF TypeOK

-----------------------------------------------------------------------------
LEMMA InitTyped == Init => TypeOK
<1> SUFFICES ASSUME Init PROVE TypeOK
  OBVIOUS
<1>1. TreesTyped
  BY ScenarioAssumption DEF Init, TreesTyped, Entry
<1>2. NoListing \in Listing /\ NoOp \in Op /\ NoJob \in UpMessage
      /\ NoReply \in [message: DownMessage, next: {"scan", "loop", "closing"}]
  <2>1. NoOp \in Op
    BY PathAssumption DEF NoOp, Op, Place, Path
  <2>2. NoListing \in Listing
    BY DEF NoListing, Listing
  <2> QED
    BY <2>1, <2>2, UpMessages, DownMessages DEF NoJob, NoReply
<1> HIDE DEF NoListing, NoOp, NoJob, NoReply
<1>3. ClientTyped
  BY <1>2, ModeAssumption DEF Init, ClientTyped, ClientPC
<1>4. ServerTyped /\ JobsTyped
  BY <1>2 DEF Init, ServerTyped, JobsTyped, HandlerPC
<1>5. UpTyped /\ DownTyped /\ faults \in 0..MaxFaults
  BY EmptyChannels, BoundAssumption DEF Init, UpTyped, DownTyped
<1> QED
  BY <1>1, <1>3, <1>4, <1>5 DEF TypeOK

LEMMA NextTyped == TypeOK /\ [Next]_vars => TypeOK'
<1> SUFFICES ASSUME TypeOK, [Next]_vars PROVE TypeOK'
  OBVIOUS
<1>1. CASE UNCHANGED vars
  BY <1>1, Untouched DEF vars, client, server, TypeOK, JobsTyped
<1>2. CASE Quiet
  BY <1>1, <1>2 DEF Quiet
<1>3. CASE ServerCrash
  BY <1>3, ServerCrashTyped
<1>4. ASSUME NEW s \in Session, Connect(s) \/ ClientStep(s) \/ ClientDies(s)
      PROVE  TypeOK'
  <2>1. ASSUME ExecuteOperation(s) PROVE TypeOK'
    <3>1. PICK o \in Op : \/ Upload(s, o) \/ SendRemote(s, o) \/ RequestFile(s, o)
                          \/ PrepareCopy(s, o) \/ DeleteLocal(s, o)
      BY <2>1 DEF ExecuteOperation, TypeOK, ClientTyped
    <3> QED
      BY <3>1, UploadTyped, SendRemoteTyped, RequestFileTyped, PrepareCopyTyped,
         DeleteLocalTyped
  <2> QED
    BY <1>4, <2>1, ConnectTyped, ReceiveOKTyped, ScanLocalTyped, ReceiveMetadataTyped,
       FailureTyped, SkipFileTyped, WriteReceivedFileTyped, FinishReceivedFileTyped,
       CopyItemTyped, SendDoneTyped, DrainReplyTyped, ReceiveDoneTyped
       DEF ClientStep
<1>5. ASSUME NEW s \in Session, HandlerStep(s)
      PROVE  TypeOK'
  BY <1>5, ReceiveHelloTyped, ScanServedTyped, ExchangeMetadataTyped, ReceiveFailsTyped,
     SendFileTyped, ReceiveFileTyped, FinishFileTyped, DeleteFileTyped, ReceiveCopyTyped,
     FinishCopyTyped, ReceiveLastTyped, ReplySentTyped, ReplyAbandonedTyped,
     CloseConnectionTyped DEF HandlerStep
<1> QED
  BY <1>1, <1>2, <1>3, <1>4, <1>5 DEF Next

\* Every reachable state is typed, however many sessions share the server, whatever
\* the window, and whatever breaks: no handler takes a message for one of another
\* kind, and no channel outgrows the window by more than a cut-off message.
THEOREM SpecTypeOK == Spec => []TypeOK
  BY InitTyped, NextTyped, PTL DEF Spec

-----------------------------------------------------------------------------
(* What a channel holds                                                    *)

LEMMA EmptyTypes == Types(<<>>) = {} /\ DoneIsLast(<<>>)
  BY DEF Types, DoneIsLast

LEMMA AppendTypes ==
  ASSUME NEW M, NEW q \in Seq(M), NEW m \in M
  PROVE  /\ Types(Append(q, m)) = Types(q) \cup {m.type}
         /\ Len(Append(q, m)) = Len(q) + 1
         /\ DoneIsLast(q) /\ "DONE" \notin Types(q) => DoneIsLast(Append(q, m))
<1> DEFINE r == Append(q, m)
<1>1. /\ Len(q) \in Nat /\ Len(r) = Len(q) + 1 /\ r[Len(q) + 1] = m
      /\ \A i \in 1..Len(q) : r[i] = q[i]
  BY AppendProperties, LenProperties
<1> HIDE DEF r
<1>2. Types(r) = Types(q) \cup {m.type}
  <2>1. \A i \in 1..Len(r) : i \in 1..Len(q) \/ i = Len(q) + 1
    BY <1>1
  <2>2. 1..Len(q) \subseteq 1..Len(r) /\ Len(q) + 1 \in 1..Len(r)
    BY <1>1
  <2>3. Types(r) \subseteq Types(q) \cup {m.type}
    BY <1>1, <2>1 DEF Types
  <2>4. Types(q) \cup {m.type} \subseteq Types(r)
    BY <1>1, <2>2 DEF Types
  <2> QED
    BY <2>3, <2>4
<1>3. ASSUME "DONE" \notin Types(q) PROVE DoneIsLast(r)
  <2>1. \A i \in 1..Len(q) : q[i].type # "DONE"
    BY <1>3 DEF Types
  <2> QED
    BY <1>1, <2>1 DEF DoneIsLast
<1> QED
  BY <1>1, <1>2, <1>3 DEF r

LEMMA TailTypes ==
  ASSUME NEW M, NEW q \in Seq(M), q # <<>>
  PROVE  /\ Types(q) = Types(Tail(q)) \cup {Head(q).type}
         /\ Len(q) = 1 => Tail(q) = <<>>
         /\ DoneIsLast(q) => DoneIsLast(Tail(q))
         /\ DoneIsLast(q) /\ Head(q).type = "DONE" => Tail(q) = <<>>
<1> DEFINE r == Tail(q)
<1>1. /\ Len(q) \in Nat /\ Len(q) >= 1 /\ Len(r) = Len(q) - 1 /\ r \in Seq(M)
      /\ Head(q) = q[1] /\ \A i \in 1..Len(r) : r[i] = q[i + 1]
  BY HeadTailProperties, LenProperties, EmptySeq
<1>2. Len(r) = 0 => r = <<>>
  BY <1>1, EmptySeq
<1> HIDE DEF r
<1>3. Types(q) = Types(r) \cup {q[1].type}
  <2>1. \A i \in 1..Len(q) : i = 1 \/ (i - 1 \in 1..Len(r) /\ r[i - 1] = q[i])
    BY <1>1
  <2>2. \A i \in 1..Len(r) : i + 1 \in 1..Len(q)
    BY <1>1
  <2>3. Types(q) \subseteq Types(r) \cup {q[1].type}
    BY <2>1 DEF Types
  <2>4. Types(r) \cup {q[1].type} \subseteq Types(q)
    BY <1>1, <2>2 DEF Types
  <2> QED
    BY <2>3, <2>4
<1>4. DoneIsLast(q) => DoneIsLast(r)
  BY <1>1 DEF DoneIsLast
<1>5. DoneIsLast(q) /\ q[1].type = "DONE" => Len(q) = 1
  BY <1>1 DEF DoneIsLast
<1> QED
  BY <1>1, <1>2, <1>3, <1>4, <1>5 DEF r

LEMMA BrokenTypes ==
  ASSUME TypeOK, NEW s \in Session, Broken(s)
  PROVE  "FRAGMENT" \in Types(down[s])
<1>1. Len(down[s]) \in 1..Len(down[s])
  BY LenProperties, EmptySeq DEF TypeOK, DownTyped, Broken
<1> QED
  BY <1>1 DEF Broken, Types

-----------------------------------------------------------------------------
(* One step moves one session                                              *)

Part(s) == <<mode[s], cpc[s], serverErrors[s], spc[s], out[s], up[s], down[s], refused[s]>>

LEMMA OneSessionMoves ==
  ASSUME InStep, NEW s \in Session, \A t \in Session \ {s} : UNCHANGED Part(t),
         cpc'[s] = "failed" \/ SessionInStep(s)'
  PROVE  InStep'
<1>1. ASSUME NEW t \in Session \ {s}, cpc'[t] # "failed"
      PROVE  SessionInStep(t)'
  <2>1. /\ mode'[t] = mode[t] /\ cpc'[t] = cpc[t] /\ serverErrors'[t] = serverErrors[t]
        /\ spc'[t] = spc[t] /\ out'[t] = out[t] /\ up'[t] = up[t] /\ down'[t] = down[t]
        /\ refused'[t] = refused[t]
    BY DEF Part
  <2>2. SessionInStep(t)
    BY <1>1, <2>1 DEF InStep
  <2> QED
    BY <2>1, <2>2 DEF SessionInStep, LastWord, Opening, HandshakeInStep, PushInStep, Evidence
<1> QED
  BY <1>1 DEF InStep

LEMMA ClientFailsInStep ==
  ASSUME TypeOK, InStep, NEW s \in Session, ClientFails(s)
  PROVE  InStep'
<1>1. cpc'[s] = "failed"
  BY DEF ClientFails, CGoto, TypeOK, ClientTyped
<1>2. \A t \in Session \ {s} : UNCHANGED Part(t)
  BY DEF ClientFails, CGoto, server, Part, TypeOK, ClientTyped, UpTyped, DownTyped
<1> QED
  BY <1>1, <1>2, OneSessionMoves

LEMMA ConnectInStep ==
  ASSUME TypeOK, InStep, NEW s \in Session, Connect(s)
  PROVE  InStep'
<1> DEFINE m == Hello(mode[s], 0)
<1>1. \A t \in Session \ {s} : UNCHANGED Part(t)
  BY DEF Connect, CGoto, Part, TypeOK, ClientTyped, ServerTyped, UpTyped, DownTyped
<1>2. PICK v \in Majors : up'[s] = <<Hello(mode[s], v)>>
  BY DEF Connect, TypeOK, UpTyped
<1>3. Types(up'[s]) = {"HELLO"} /\ Len(up'[s]) = 1
  BY <1>2 DEF Types, Hello
<1>4. /\ cpc[s] = "idle" /\ cpc'[s] = "awaitOK" /\ spc'[s] = "hello"
      /\ UNCHANGED <<mode, serverErrors, out, down, refused>>
  BY DEF Connect, CGoto, TypeOK, ClientTyped, ServerTyped
<1>5. HandshakeInStep(s) /\ SessionInStep(s)
  BY <1>4 DEF InStep, SessionInStep, Opening
<1>6. SessionInStep(s)'
  BY <1>3, <1>4, <1>5, EmptyTypes
     DEF SessionInStep, LastWord, Opening, HandshakeInStep
<1> QED
  BY <1>1, <1>6, OneSessionMoves

LEMMA ReceiveOKInStep ==
  ASSUME TypeOK, InStep, NEW s \in Session, ReceiveOK(s)
  PROVE  InStep'
<1>1. \A t \in Session \ {s} : UNCHANGED Part(t)
  BY DEF ReceiveOK, Received, CGoto, server, Part, TypeOK, ClientTyped, DownTyped
<1>2. /\ cpc[s] = "awaitOK" /\ cpc'[s] = "scan" /\ down'[s] = Tail(down[s])
      /\ UNCHANGED <<mode, serverErrors, spc, out, up, refused>>
  BY DEF ReceiveOK, Received, CGoto, server, TypeOK, ClientTyped, DownTyped
<1>3. down[s] # <<>> /\ Head(down[s]).type = "OK" /\ down[s] \in Seq(DownMessage)
  BY ArrivedHead DEF ReceiveOK, TypeOK, DownTyped
<1>4. HandshakeInStep(s) /\ SessionInStep(s)
  BY <1>2 DEF InStep, SessionInStep, Opening
<1>5. SessionInStep(s)'
  <2>1. /\ Types(down[s]) = Types(down'[s]) \cup {"OK"}
        /\ Len(down[s]) = 1 => down'[s] = <<>>
        /\ DoneIsLast(down[s]) => DoneIsLast(down'[s])
    BY <1>2, <1>3, TailTypes
  <2>2. LastWord(s)'
    BY <1>2, <1>4, <2>1 DEF SessionInStep, LastWord
  <2>3. HandshakeInStep(s)'
    BY <1>2, <1>3, <1>4, <2>1 DEF HandshakeInStep
  <2> QED
    BY <1>2, <1>4, <2>2, <2>3 DEF SessionInStep, Opening, HandshakeInStep
<1> QED
  BY <1>1, <1>5, OneSessionMoves

\* What the client's sends do to its channel.
LEMMA SentTypes ==
  ASSUME TypeOK, NEW s \in Session, NEW m \in UpMessage, Sent(s, m)
  PROVE  /\ Types(up'[s]) = Types(up[s]) \cup {m.type}
         /\ Len(up'[s]) = Len(up[s]) + 1
         /\ \A t \in Session \ {s} : up'[t] = up[t]
<1>1. up'[s] = Append(up[s], m) /\ \A t \in Session \ {s} : up'[t] = up[t]
  BY DEF Sent, TypeOK, UpTyped
<1> QED
  BY <1>1, AppendTypes DEF TypeOK, UpTyped

\* ... and its receives.
LEMMA ReceivedTypes ==
  ASSUME TypeOK, NEW s \in Session, Arrived(s) # "nothing", Received(s)
  PROVE  /\ Types(down[s]) = Types(down'[s]) \cup {Arrived(s)}
         /\ Len(down[s]) = 1 => down'[s] = <<>>
         /\ DoneIsLast(down[s]) => DoneIsLast(down'[s])
         /\ DoneIsLast(down[s]) /\ Arrived(s) = "DONE" => down'[s] = <<>>
         /\ down[s] # <<>>
         /\ \A t \in Session \ {s} : down'[t] = down[t]
<1>1. down'[s] = Tail(down[s]) /\ \A t \in Session \ {s} : down'[t] = down[t]
  BY DEF Received, TypeOK, DownTyped
<1>2. down[s] # <<>> /\ Head(down[s]).type = Arrived(s) /\ down[s] \in Seq(DownMessage)
  BY ArrivedHead DEF TypeOK, DownTyped
<1> QED
  BY <1>1, <1>2, TailTypes

LEMMA ScanLocalInStep ==
  ASSUME TypeOK, InStep, NEW s \in Session, ScanLocal(s)
  PROVE  InStep'
<1>1. CASE ClientFails(s)
  BY <1>1, ClientFailsInStep
<1>2. ASSUME NEW l \in Listing, Sent(s, Metadata(l)), CGoto(s, "awaitMetadata"),
             UNCHANGED <<trees, mode, rsnap, todo, cjob, serverErrors, server, down>>
      PROVE  InStep'
  <2>1. Metadata(l) \in UpMessage
    BY UpMessages
  <2>2. /\ Types(up'[s]) = Types(up[s]) \cup {"METADATA"}
        /\ Len(up'[s]) = Len(up[s]) + 1
        /\ \A t \in Session \ {s} : up'[t] = up[t]
    BY <1>2, <2>1, SentTypes DEF Metadata
  <2>3. \A t \in Session \ {s} : UNCHANGED Part(t)
    BY <1>2, <2>2 DEF CGoto, server, Part, TypeOK, ClientTyped
  <2>4. /\ cpc[s] = "scan" /\ cpc'[s] = "awaitMetadata"
        /\ UNCHANGED <<mode, serverErrors, spc, out, down, refused>>
    BY <1>2 DEF ScanLocal, CGoto, server, TypeOK, ClientTyped
  <2>5. HandshakeInStep(s) /\ SessionInStep(s)
    BY <2>4 DEF InStep, SessionInStep, Opening
  <2>6. SessionInStep(s)'
    <3>1. LastWord(s)'
      BY <2>4, <2>5 DEF SessionInStep, LastWord
    <3>2. up[s] = <<>> => Len(up'[s]) = 1
      BY <2>2
    <3>3. HandshakeInStep(s)'
      BY <2>4, <2>5, <3>2 DEF HandshakeInStep
    <3> QED
      BY <2>2, <2>4, <2>5, <3>1, <3>3 DEF SessionInStep, Opening, HandshakeInStep
  <2> QED
    BY <2>3, <2>6, OneSessionMoves
<1> QED
  BY <1>1, <1>2 DEF ScanLocal

LEMMA ReceiveMetadataInStep ==
  ASSUME TypeOK, InStep, NEW s \in Session, ReceiveMetadata(s)
  PROVE  InStep'
<1>1. /\ cpc[s] = "awaitMetadata" /\ cpc'[s] = "operations"
      /\ \A t \in Session \ {s} : cpc'[t] = cpc[t]
      /\ UNCHANGED <<mode, serverErrors, spc, out, up, refused>>
  BY DEF ReceiveMetadata, CGoto, server, TypeOK, ClientTyped
<1>2. Arrived(s) = "METADATA" /\ Received(s)
  BY DEF ReceiveMetadata
<1>3. HandshakeInStep(s) /\ SessionInStep(s)
  BY <1>1 DEF InStep, SessionInStep, Opening
<1>4. down'[s] = <<>> /\ spc[s] \in {"loop", "closing", "closed"}
      /\ \A t \in Session \ {s} : down'[t] = down[t]
  BY <1>2, <1>3, ReceivedTypes DEF HandshakeInStep
<1>5. \A t \in Session \ {s} : UNCHANGED Part(t)
  BY <1>1, <1>4 DEF Part
<1>6. SessionInStep(s)'
  BY <1>1, <1>3, <1>4, EmptyTypes
     DEF SessionInStep, LastWord, Opening, HandshakeInStep, PushInStep
<1> QED
  BY <1>5, <1>6, OneSessionMoves

\* A client that sends an operation, or DONE, after the handshake.
LEMMA SendsInStep ==
  ASSUME TypeOK, InStep, NEW s \in Session, NEW m \in UpMessage, Sent(s, m),
         cpc[s] = "operations", cpc'[s] \in {"operations", "awaitFile", "awaitDone"},
         cpc'[s] = "awaitFile" \/ m.type = "REQUEST" => mode[s] = "pull",
         \A t \in Session \ {s} : cpc'[t] = cpc[t],
         UNCHANGED <<mode, serverErrors, spc, out, down, refused>>
  PROVE  InStep'
<1>1. /\ Types(up'[s]) = Types(up[s]) \cup {m.type}
      /\ \A t \in Session \ {s} : up'[t] = up[t]
  BY SentTypes
<1>2. \A t \in Session \ {s} : UNCHANGED Part(t)
  BY <1>1 DEF Part
<1>3. SessionInStep(s)
  BY DEF InStep
<1>4. SessionInStep(s)'
  BY <1>1, <1>3 DEF SessionInStep, LastWord, Opening, PushInStep, Evidence
<1> QED
  BY <1>2, <1>4, OneSessionMoves

\* Steps of a pulling client after the handshake that leave the channels alone.
LEMMA PullsInStep ==
  ASSUME TypeOK, InStep, NEW s \in Session, mode[s] = "pull", ~ Opening(s), ~ Ended(s),
         cpc'[s] \in {"operations", "writing", "copying"},
         \A t \in Session \ {s} : cpc'[t] = cpc[t],
         \/ UNCHANGED down
         \/ Received(s) /\ Arrived(s) # "nothing",
         UNCHANGED <<mode, serverErrors, spc, out, up, refused>>
  PROVE  InStep'
<1>1. /\ \A t \in Session \ {s} : down'[t] = down[t]
      /\ Types(down'[s]) \subseteq Types(down[s])
      /\ DoneIsLast(down[s]) => DoneIsLast(down'[s])
  BY ReceivedTypes
<1>2. \A t \in Session \ {s} : UNCHANGED Part(t)
  BY <1>1 DEF Part
<1>3. SessionInStep(s)
  BY DEF InStep, Ended
<1>4. SessionInStep(s)'
  BY <1>1, <1>3 DEF SessionInStep, LastWord, Opening, Ended
<1> QED
  BY <1>2, <1>4, OneSessionMoves

LEMMA OnlyPullsReceiveFiles ==
  ASSUME TypeOK, InStep, NEW s \in Session, cpc[s] \in {"awaitFile", "writing", "copying"}
  PROVE  mode[s] = "pull" /\ ~ Opening(s) /\ ~ Ended(s)
<1>1. ~ Opening(s) /\ ~ Ended(s) /\ SessionInStep(s)
  BY DEF Opening, Ended, InStep
<1> QED
  BY <1>1 DEF SessionInStep, PushInStep, TypeOK, ClientTyped

LEMMA ExecuteOperationInStep ==
  ASSUME TypeOK, InStep, NEW s \in Session, ExecuteOperation(s)
  PROVE  InStep'
<1>1. PICK o \in Op : /\ cpc[s] = "operations"
                      /\ \/ Upload(s, o) \/ SendRemote(s, o) \/ RequestFile(s, o)
                         \/ PrepareCopy(s, o) \/ DeleteLocal(s, o)
  BY DEF ExecuteOperation, Current, TypeOK, ClientTyped
<1>2. CASE ClientFails(s)
  BY <1>2, ClientFailsInStep
<1>3. CASE Upload(s, o) /\ ~ ClientFails(s)
  <2> DEFINE d == local[Owner[s]][o.to]
  <2>1. /\ IsFile(local[Owner[s]], o.to) /\ Sent(s, File(o.to, d))
        /\ UNCHANGED <<mode, cpc, serverErrors, spc, out, down, refused>>
    BY <1>3 DEF Upload, Succeeds, server
  <2>2. File(o.to, d) \in UpMessage
    BY <1>3, <2>1, UpMessages, OpParts DEF Upload, IsFile
  <2> QED
    BY <1>1, <2>1, <2>2, SendsInStep DEF File
<1>4. CASE SendRemote(s, o)
  <2>1. Delete(o.to) \in UpMessage /\ (o.act = "copy" => Copy(o.from, o.to) \in UpMessage)
    BY UpMessages, OpParts
  <2>2. PICK m \in UpMessage : Sent(s, m) /\ m.type # "REQUEST"
    BY <1>4, <2>1 DEF SendRemote, Delete, Copy
  <2> QED
    BY <1>1, <1>4, <2>2, SendsInStep DEF SendRemote, server
<1>5. CASE RequestFile(s, o)
  <2>1. Request(o.to) \in UpMessage
    BY <1>5, UpMessages, OpParts DEF RequestFile
  <2> QED
    BY <1>1, <1>5, <2>1, SendsInStep DEF RequestFile, CGoto, server, TypeOK, ClientTyped
<1>6. CASE PrepareCopy(s, o) /\ ~ ClientFails(s)
  BY <1>1, <1>6, PullsInStep DEF PrepareCopy, CGoto, server, Opening, Ended, TypeOK, ClientTyped
<1>7. CASE DeleteLocal(s, o)
  BY <1>1, <1>7, PullsInStep DEF DeleteLocal, server, Opening, Ended
<1> QED
  BY <1>1, <1>2, <1>3, <1>4, <1>5, <1>6, <1>7

LEMMA FileStepsInStep ==
  ASSUME TypeOK, InStep, NEW s \in Session,
         SkipFile(s) \/ WriteReceivedFile(s) \/ FinishReceivedFile(s) \/ CopyItem(s)
  PROVE  InStep'
<1>1. CASE ClientFails(s)
  BY <1>1, ClientFailsInStep
<1>2. CASE ~ ClientFails(s)
  <2>1. mode[s] = "pull" /\ ~ Opening(s) /\ ~ Ended(s)
    BY OnlyPullsReceiveFiles DEF SkipFile, WriteReceivedFile, FinishReceivedFile, CopyItem
  <2>2. /\ cpc'[s] \in {"operations", "writing", "copying"}
        /\ \A t \in Session \ {s} : cpc'[t] = cpc[t]
        /\ UNCHANGED <<mode, serverErrors, spc, out, up, refused>>
    BY <1>2 DEF SkipFile, WriteReceivedFile, FinishReceivedFile, CopyItem, CGoto, server,
                TypeOK, ClientTyped
  <2>3. UNCHANGED down \/ (Received(s) /\ Arrived(s) # "nothing")
    BY <1>2 DEF SkipFile, WriteReceivedFile, FinishReceivedFile, CopyItem
  <2> QED
    BY <2>1, <2>2, <2>3, PullsInStep
<1> QED
  BY <1>1, <1>2

LEMMA SendDoneInStep ==
  ASSUME TypeOK, InStep, NEW s \in Session, SendDone(s)
  PROVE  InStep'
<1>1. Simple("DONE") \in UpMessage /\ Simple("DONE").type # "REQUEST"
  BY UpMessages DEF Simple
<1> QED
  BY <1>1, SendsInStep DEF SendDone, CGoto, server, TypeOK, ClientTyped

LEMMA DrainReplyInStep ==
  ASSUME TypeOK, InStep, NEW s \in Session, DrainReply(s)
  PROVE  InStep'
<1>1. /\ cpc[s] = "awaitDone" /\ Arrived(s) \notin {"nothing", "FRAGMENT", "DONE"} /\ Received(s)
      /\ serverErrors'[s] = (serverErrors[s] \/ Arrived(s) = "ERROR")
      /\ \A t \in Session \ {s} : serverErrors'[t] = serverErrors[t]
      /\ UNCHANGED <<mode, cpc, spc, out, up, refused>>
  BY DEF DrainReply, server, TypeOK, ClientTyped
<1>2. /\ Types(down[s]) = Types(down'[s]) \cup {Arrived(s)}
      /\ DoneIsLast(down[s]) => DoneIsLast(down'[s])
      /\ \A t \in Session \ {s} : down'[t] = down[t]
  BY <1>1, ReceivedTypes
<1>3. \A t \in Session \ {s} : UNCHANGED Part(t)
  BY <1>1, <1>2 DEF Part
<1>4. SessionInStep(s) /\ ~ Opening(s)
  BY <1>1 DEF InStep, Opening
<1>5. SessionInStep(s)'
  <2>1. LastWord(s)'
    BY <1>1, <1>2, <1>4 DEF SessionInStep, LastWord
  <2>2. mode[s] = "push" => PushInStep(s)'
    BY <1>1, <1>2, <1>4 DEF SessionInStep, PushInStep
  <2>3. Evidence(s) => Evidence(s)'
    BY <1>1, <1>2 DEF Evidence
  <2> QED
    BY <1>1, <1>4, <2>1, <2>2, <2>3 DEF SessionInStep, Opening
<1> QED
  BY <1>3, <1>5, OneSessionMoves

\* The step that counts: what a refusal leaves behind is there to be seen, or it
\* has been, when DONE is read.
LEMMA ReceiveDoneInStep ==
  ASSUME TypeOK, InStep, NEW s \in Session, ReceiveDone(s)
  PROVE  InStep'
<1>1. CASE ClientFails(s)
  BY <1>1, ClientFailsInStep
<1>2. CASE ~ ClientFails(s)
  <2>1. /\ cpc[s] = "awaitDone" /\ cpc'[s] = "ok" /\ ~ serverErrors[s]
        /\ \A t \in Session \ {s} : cpc'[t] = cpc[t]
        /\ Arrived(s) = "DONE" /\ Received(s)
        /\ UNCHANGED <<mode, serverErrors, spc, out, up, refused>>
    BY <1>2 DEF ReceiveDone, CGoto, server, TypeOK, ClientTyped
  <2>2. /\ Types(down[s]) = Types(down'[s]) \cup {"DONE"}
        /\ DoneIsLast(down[s]) => down'[s] = <<>>
        /\ \A t \in Session \ {s} : down'[t] = down[t]
    BY <2>1, ReceivedTypes
  <2>3. \A t \in Session \ {s} : UNCHANGED Part(t)
    BY <2>1, <2>2 DEF Part
  <2>4. SessionInStep(s) /\ ~ Opening(s)
    BY <2>1 DEF InStep, Opening
  <2>5. /\ down'[s] = <<>> /\ Types(down[s]) = {"DONE"} /\ Types(down'[s]) = {}
        /\ spc[s] \in {"closing", "closed"}
    BY <2>2, <2>4, EmptyTypes DEF SessionInStep, LastWord
  <2>6. ~ Evidence(s)
    BY <2>1, <2>5 DEF Evidence
  <2>7. SessionInStep(s)'
    BY <2>1, <2>4, <2>5, <2>6, EmptyTypes DEF SessionInStep, LastWord, Opening, PushInStep
  <2> QED
    BY <2>3, <2>7, OneSessionMoves
<1> QED
  BY <1>1, <1>2

-----------------------------------------------------------------------------
(* The handler                                                             *)

\* Where a reply goes: nowhere if the channel is cut, into the channel, or into
\* the hands of a handler that waits.
Answered(s, m, next) ==
  /\ \A t \in Session \ {s} : spc'[t] = spc[t] /\ out'[t] = out[t] /\ down'[t] = down[t]
  /\ \/ /\ "FRAGMENT" \in Types(down[s]) /\ down'[s] = down[s]
        /\ spc'[s] = next /\ out'[s] = out[s]
     \/ /\ Types(down'[s]) = Types(down[s]) \cup {m.type}
        /\ Len(down'[s]) = Len(down[s]) + 1
        /\ DoneIsLast(down[s]) /\ "DONE" \notin Types(down[s]) => DoneIsLast(down'[s])
        /\ spc'[s] = next /\ out'[s] = out[s]
     \/ /\ down[s] # <<>> /\ down'[s] = down[s]
        /\ spc'[s] = "sending" /\ out'[s].message = m /\ out'[s].next = next

LEMMA ReplyAnswers ==
  ASSUME TypeOK, NEW s \in Session, NEW m \in DownMessage, NEW next, Reply(s, m, next), ~ Ended(s)
  PROVE  Answered(s, m, next)
<1>1. CASE Broken(s)
  BY <1>1, BrokenTypes DEF Reply, SGoto, Answered, TypeOK, ServerTyped
<1>2. CASE ~ Broken(s) /\ HasRoom(s)
  <2>1. /\ down'[s] = Append(down[s], m) /\ UNCHANGED out /\ spc'[s] = next
        /\ \A t \in Session \ {s} : down'[t] = down[t] /\ spc'[t] = spc[t]
    BY <1>2 DEF Reply, SGoto, TypeOK, ServerTyped, DownTyped
  <2>2. down[s] \in Seq(DownMessage)
    BY DEF TypeOK, DownTyped
  <2> QED
    BY <2>1, <2>2, AppendTypes DEF Answered
<1>3. CASE ~ Broken(s) /\ ~ HasRoom(s)
  <2>1. down[s] # <<>>
    BY <1>3, EmptySeq, BoundAssumption DEF HasRoom
  <2> QED
    BY <1>3, <2>1 DEF Reply, SGoto, Answered, TypeOK, ServerTyped
<1> QED
  BY <1>1, <1>2, <1>3

LEMMA AnsweredLastWord ==
  ASSUME NEW s \in Session, NEW m \in DownMessage, NEW next, Answered(s, m, next), LastWord(s),
         cpc[s] # "ok", UNCHANGED cpc, spc[s] \notin {"closing", "closed"},
         m.type = "DONE" => next = "closing", next # "sending"
  PROVE  LastWord(s)'
  BY DEF Answered, LastWord

\* A session whose handler has anything left to do is one that is not over.
LEMMA HandlerIsNeeded ==
  ASSUME InStep, NEW s \in Session, cpc[s] # "failed", spc[s] \notin {"closing", "closed"}
  PROVE  ~ Ended(s) /\ SessionInStep(s) /\ LastWord(s)
  BY DEF InStep, SessionInStep, LastWord, Ended

\* What receiving does to the client's channel.
LEMMA TakenTypes ==
  ASSUME TypeOK, NEW s \in Session, Offered(s) # "nothing", Taken(s)
  PROVE  /\ Types(up[s]) = Types(up'[s]) \cup {Offered(s)}
         /\ Len(up[s]) = 1 => up'[s] = <<>>
         /\ up[s] # <<>>
         /\ \A t \in Session \ {s} : up'[t] = up[t]
<1>1. up'[s] = Tail(up[s]) /\ \A t \in Session \ {s} : up'[t] = up[t]
  BY DEF Taken, TypeOK, UpTyped
<1>2. up[s] # <<>> /\ Head(up[s]).type = Offered(s) /\ up[s] \in Seq(UpMessage)
  BY OfferedHead DEF TypeOK, UpTyped
<1> QED
  BY <1>1, <1>2, TailTypes

LEMMA ReceiveHelloInStep ==
  ASSUME TypeOK, InStep, NEW s \in Session, ReceiveHello(s)
  PROVE  InStep'
<1>1. /\ spc[s] = "hello" /\ Offered(s) # "nothing" /\ Taken(s)
      /\ UNCHANGED <<mode, cpc, serverErrors, refused>>
  BY DEF ReceiveHello, client
<1>2. PICK m \in DownMessage, next \in {"scan", "closing"} :
         Reply(s, m, next) /\ m.type \in {"OK", "ERROR"}
  BY DownMessages DEF ReceiveHello, Simple
<1>3. CASE cpc[s] = "failed"
  <2>1. \A t \in Session \ {s} : UNCHANGED Part(t)
    BY <1>1, <1>2, TakenTypes DEF Reply, SGoto, Part, TypeOK, ServerTyped, DownTyped
  <2> QED
    BY <1>1, <1>3, <2>1, OneSessionMoves
<1>4. CASE cpc[s] # "failed"
  <2>1. ~ Ended(s) /\ SessionInStep(s) /\ LastWord(s)
    BY <1>1, <1>4, HandlerIsNeeded
  <2>2. Answered(s, m, next)
    BY <1>2, <2>1, ReplyAnswers
  <2>3. LastWord(s)'
    BY <1>1, <1>2, <2>1, <2>2, AnsweredLastWord DEF Ended
  <2>4. ASSUME Opening(s) PROVE HandshakeInStep(s)'
    <3>1. /\ cpc[s] = "awaitOK" /\ Len(up[s]) = 1 /\ down[s] = <<>>
          /\ HandshakeInStep(s)
      BY <1>1, <2>1, <2>4 DEF SessionInStep, HandshakeInStep
    <3>2. /\ up'[s] = <<>> /\ Len(down'[s]) = 1 /\ spc'[s] = next
          /\ Types(down'[s]) = {m.type}
      BY <1>1, <2>2, <3>1, TakenTypes, EmptyTypes, EmptySeq DEF Answered
    <3>3. cpc'[s] = "awaitOK" /\ ~ refused'[s] /\ spc'[s] \in {"scan", "closing"}
      BY <1>1, <3>1, <3>2 DEF HandshakeInStep
    <3>4. "METADATA" \notin Types(down'[s])
      BY <1>2, <3>2
    <3> QED
      BY <3>2, <3>3, <3>4 DEF HandshakeInStep
  <2>5. SessionInStep(s)'
    BY <1>1, <2>1, <2>3, <2>4, TakenTypes
       DEF SessionInStep, Opening, PushInStep, HandshakeInStep
  <2>6. \A t \in Session \ {s} : UNCHANGED Part(t)
    BY <1>1, <2>2, TakenTypes DEF Answered, Part
  <2> QED
    BY <2>5, <2>6, OneSessionMoves
<1> QED
  BY <1>3, <1>4

\* A step of the handler of s disturbs no other session.
LEMMA HandlerMoves ==
  ASSUME InStep, NEW s \in Session, UNCHANGED client,
         \A t \in Session \ {s} : /\ spc'[t] = spc[t] /\ out'[t] = out[t] /\ up'[t] = up[t]
                                  /\ down'[t] = down[t] /\ refused'[t] = refused[t],
         cpc[s] # "failed" => SessionInStep(s)'
  PROVE  InStep'
<1>1. \A t \in Session \ {s} : UNCHANGED Part(t)
  BY DEF client, Part
<1> QED
  BY <1>1, OneSessionMoves DEF client

LEMMA ReplyOthers ==
  ASSUME TypeOK, NEW s \in Session, NEW m, NEW next, Reply(s, m, next)
  PROVE  \A t \in Session \ {s} : spc'[t] = spc[t] /\ out'[t] = out[t] /\ down'[t] = down[t]
  BY DEF Reply, SGoto, TypeOK, ServerTyped, DownTyped

LEMMA ScanServedInStep ==
  ASSUME TypeOK, InStep, NEW s \in Session, ScanServed(s)
  PROVE  InStep'
<1>1. spc[s] = "scan" /\ UNCHANGED <<client, refused, up>>
  BY DEF ScanServed
<1>2. UNCHANGED <<mode, cpc, serverErrors>>
  BY <1>1 DEF client
<1>3. CASE SGoto(s, "metadata") /\ UNCHANGED <<down, out>>
  <2>1. spc'[s] = "metadata" /\ \A t \in Session \ {s} : spc'[t] = spc[t]
    BY <1>3 DEF SGoto, TypeOK, ServerTyped
  <2>2. ASSUME cpc[s] # "failed" PROVE SessionInStep(s)'
    <3>1. SessionInStep(s)
      BY <2>2 DEF InStep
    <3>2. LastWord(s)'
      BY <1>1, <1>2, <1>3, <2>1, <3>1 DEF SessionInStep, LastWord
    <3>3. Opening(s) => HandshakeInStep(s)'
      BY <1>1, <1>2, <1>3, <2>1, <3>1 DEF SessionInStep, HandshakeInStep
    <3> QED
      BY <1>1, <1>2, <3>1, <3>2, <3>3
         DEF SessionInStep, Opening, HandshakeInStep, PushInStep
  <2> QED
    BY <1>1, <1>3, <2>1, <2>2, HandlerMoves
<1>4. CASE Reply(s, Simple("ERROR"), "closing")
  <2> DEFINE m == Simple("ERROR")
  <2>1. m \in DownMessage /\ m.type = "ERROR"
    BY DownMessages DEF Simple
  <2> HIDE DEF m
  <2>2. ASSUME cpc[s] # "failed" PROVE SessionInStep(s)'
    <3>1. ~ Ended(s) /\ SessionInStep(s) /\ LastWord(s)
      BY <1>1, <2>2, HandlerIsNeeded
    <3>2. Answered(s, m, "closing")
      BY <1>4, <2>1, <3>1, ReplyAnswers DEF m
    <3>3. LastWord(s)'
      BY <1>1, <1>2, <2>1, <3>1, <3>2, AnsweredLastWord DEF Ended
    <3>4. ASSUME Opening(s) PROVE HandshakeInStep(s)'
      <4>1. HandshakeInStep(s) /\ "METADATA" \notin Types(down[s])
        BY <1>1, <3>1, <3>4 DEF SessionInStep, HandshakeInStep
      <4>2. "METADATA" \notin Types(down'[s]) /\ spc'[s] \in {"closing", "sending"}
            /\ (spc'[s] = "sending" => out'[s].message.type = "ERROR" /\ out'[s].next = "closing")
        BY <2>1, <3>2, <4>1 DEF Answered
      <4> QED
        BY <1>1, <1>2, <4>1, <4>2 DEF HandshakeInStep
    <3> QED
      BY <1>1, <1>2, <3>1, <3>3, <3>4
         DEF SessionInStep, Opening, HandshakeInStep, PushInStep
  <2> QED
    BY <1>1, <1>4, <2>2, HandlerMoves, ReplyOthers
<1> QED
  BY <1>3, <1>4 DEF ScanServed

LEMMA ExchangeMetadataInStep ==
  ASSUME TypeOK, InStep, NEW s \in Session, ExchangeMetadata(s)
  PROVE  InStep'
<1>1. /\ spc[s] = "metadata" /\ Offered(s) # "nothing" /\ Taken(s)
      /\ UNCHANGED <<client, refused>>
  BY DEF ExchangeMetadata
<1>2. UNCHANGED <<mode, cpc, serverErrors>>
  BY <1>1 DEF client
<1>3. PICK m \in DownMessage, next \in {"loop", "closing"} :
         Reply(s, m, next) /\ m.type \in {"METADATA", "ERROR"}
  BY DownMessages DEF ExchangeMetadata, Metadata, Simple, TypeOK, ServerTyped
<1>4. ASSUME cpc[s] # "failed" PROVE SessionInStep(s)'
  <2>1. ~ Ended(s) /\ SessionInStep(s) /\ LastWord(s)
    BY <1>1, <1>4, HandlerIsNeeded
  <2>2. Answered(s, m, next)
    BY <1>3, <2>1, ReplyAnswers
  <2>3. LastWord(s)'
    BY <1>1, <1>2, <1>3, <2>1, <2>2, AnsweredLastWord DEF Ended
  <2>4. ASSUME Opening(s) PROVE HandshakeInStep(s)'
    <3>1. /\ cpc[s] = "awaitMetadata" /\ Len(up[s]) = 1 /\ down[s] = <<>>
          /\ HandshakeInStep(s)
      BY <1>1, <2>1, <2>4, TakenTypes DEF SessionInStep, HandshakeInStep, Opening
    <3>2. /\ up'[s] = <<>> /\ Len(down'[s]) = 1 /\ spc'[s] = next
      BY <1>1, <2>2, <3>1, TakenTypes, EmptyTypes, EmptySeq DEF Answered
    <3>3. cpc'[s] = "awaitMetadata" /\ ~ refused'[s] /\ spc'[s] \in {"loop", "closing"}
      BY <1>1, <1>2, <3>1, <3>2 DEF HandshakeInStep
    <3> QED
      BY <3>2, <3>3 DEF HandshakeInStep
  <2>5. mode[s] = "push" => Opening(s) /\ ~ refused[s] /\ "REQUEST" \notin Types(up'[s])
    BY <1>1, <2>1, TakenTypes DEF SessionInStep, PushInStep, HandshakeInStep
  <2> QED
    BY <1>1, <1>2, <2>3, <2>4, <2>5 DEF SessionInStep, Opening
<1> QED
  BY <1>1, <1>3, <1>4, TakenTypes, HandlerMoves, ReplyOthers

LEMMA ReceiveFailsInStep ==
  ASSUME TypeOK, InStep, NEW s \in Session, ReceiveFails(s)
  PROVE  InStep'
<1>1. spc[s] \in {"hello", "metadata", "loop"} /\ up[s] = <<>> /\ UNCHANGED <<client, refused, up>>
  BY DEF ReceiveFails
<1>2. UNCHANGED <<mode, cpc, serverErrors>>
  BY <1>1 DEF client
<1>3. CASE spc[s] = "loop"
  <2>1. /\ spc'[s] = "closing" /\ (\A t \in Session \ {s} : spc'[t] = spc[t])
        /\ UNCHANGED <<down, out>>
    BY <1>3 DEF ReceiveFails, SGoto, TypeOK, ServerTyped
  <2>2. ASSUME cpc[s] # "failed" PROVE SessionInStep(s)'
    <3>1. SessionInStep(s)
      BY <2>2 DEF InStep
    <3>2. LastWord(s)'
      BY <1>2, <2>1, <3>1 DEF SessionInStep, LastWord
    <3>3. Opening(s) => HandshakeInStep(s)'
      BY <1>1, <1>2, <1>3, <2>1, <3>1 DEF SessionInStep, HandshakeInStep
    <3>4. mode[s] = "push" => (~ Opening(s) => PushInStep(s)') /\ (Evidence(s) => Evidence(s)')
      BY <1>1, <1>2, <1>3, <2>1, <3>1 DEF SessionInStep, PushInStep, Evidence
    <3> QED
      BY <1>1, <1>2, <3>1, <3>2, <3>3, <3>4 DEF SessionInStep, Opening
  <2> QED
    BY <1>1, <2>1, <2>2, HandlerMoves
<1>4. CASE spc[s] # "loop"
  <2> DEFINE m == Simple("ERROR")
  <2>1. m \in DownMessage /\ m.type = "ERROR"
    BY DownMessages DEF Simple
  <2>2. Reply(s, m, "closing")
    BY <1>4 DEF ReceiveFails
  <2> HIDE DEF m
  <2>3. ASSUME cpc[s] # "failed" PROVE SessionInStep(s)'
    <3>1. ~ Ended(s) /\ SessionInStep(s) /\ LastWord(s)
      BY <1>1, <2>3, HandlerIsNeeded
    <3>2. Answered(s, m, "closing")
      BY <2>1, <2>2, <3>1, ReplyAnswers
    <3>3. LastWord(s)'
      BY <1>1, <1>2, <2>1, <3>1, <3>2, AnsweredLastWord DEF Ended
    <3>4. ASSUME Opening(s) PROVE HandshakeInStep(s)'
      <4>1. HandshakeInStep(s) /\ "METADATA" \notin Types(down[s])
        BY <1>1, <1>4, <3>1, <3>4 DEF SessionInStep, HandshakeInStep
      <4>2. "METADATA" \notin Types(down'[s]) /\ spc'[s] \in {"closing", "sending"}
            /\ (spc'[s] = "sending" => out'[s].message.type = "ERROR" /\ out'[s].next = "closing")
        BY <2>1, <3>2, <4>1 DEF Answered
      <4> QED
        BY <1>1, <1>2, <4>1, <4>2 DEF HandshakeInStep
    <3> QED
      BY <1>1, <1>2, <1>4, <3>1, <3>3, <3>4
         DEF SessionInStep, Opening, HandshakeInStep, PushInStep
  <2> QED
    BY <1>1, <2>2, <2>3, HandlerMoves, ReplyOthers
<1> QED
  BY <1>3, <1>4

\* In the transfer loop the handshake is over.
LEMMA LoopIsLater ==
  ASSUME InStep, NEW s \in Session, cpc[s] # "failed",
         \/ spc[s] = "loop" /\ up[s] # <<>>
         \/ spc[s] \in {"writing", "copying"}
  PROVE  /\ ~ Opening(s) /\ ~ Ended(s) /\ SessionInStep(s) /\ LastWord(s)
         /\ mode[s] = "push" => PushInStep(s)
<1>1. ~ Ended(s) /\ SessionInStep(s) /\ LastWord(s)
  BY HandlerIsNeeded
<1>2. ~ Opening(s)
  BY <1>1 DEF SessionInStep, HandshakeInStep
<1> QED
  BY <1>1, <1>2 DEF SessionInStep

\* The client's channel, when an operation is done with or goes on.
Shorter(s) ==
  /\ "REQUEST" \notin Types(up[s]) => "REQUEST" \notin Types(up'[s])
  /\ \A t \in Session \ {s} : up'[t] = up[t]

LEMMA ShorterChannel ==
  ASSUME TypeOK, NEW s \in Session, UNCHANGED up \/ (Offered(s) # "nothing" /\ Taken(s))
  PROVE  Shorter(s)
  BY TakenTypes DEF Shorter

\* The transfer loop goes on to another operation, or to the second half of one.
LEMMA LoopInStep ==
  ASSUME TypeOK, InStep, NEW s \in Session,
         \/ spc[s] = "loop" /\ up[s] # <<>>
         \/ spc[s] \in {"writing", "copying"},
         Shorter(s), spc' = [spc EXCEPT ![s] = spc'[s]],
         spc'[s] \in {"loop", "writing", "copying"},
         UNCHANGED <<client, out, down, refused>>
  PROVE  InStep'
<1>1. UNCHANGED <<mode, cpc, serverErrors>>
  BY DEF client
<1>2. ASSUME cpc[s] # "failed" PROVE SessionInStep(s)'
  <2>1. ~ Opening(s) /\ ~ Ended(s) /\ SessionInStep(s) /\ LastWord(s)
        /\ (mode[s] = "push" => PushInStep(s))
    BY <1>2, LoopIsLater
  <2>2. LastWord(s)'
    BY <1>1, <2>1 DEF LastWord, Ended
  <2>3. mode[s] = "push" => PushInStep(s)' /\ (Evidence(s) => Evidence(s)')
    BY <1>1, <2>1 DEF PushInStep, Evidence
  <2> QED
    BY <1>1, <2>1, <2>2, <2>3 DEF SessionInStep, Opening, Shorter
<1>3. \A t \in Session \ {s} : spc'[t] = spc[t]
  BY DEF TypeOK, ServerTyped
<1> QED
  BY <1>2, <1>3, HandlerMoves DEF Shorter

\* The transfer loop answers: a refusal, an end, or (in a pull) a file.
LEMMA AnswerInStep ==
  ASSUME TypeOK, InStep, NEW s \in Session,
         \/ spc[s] = "loop" /\ up[s] # <<>>
         \/ spc[s] \in {"writing", "copying"},
         Shorter(s), UNCHANGED client,
         NEW m \in DownMessage, NEW next \in {"loop", "closing"}, Reply(s, m, next),
         m.type = "DONE" => next = "closing",
         mode[s] = "push" => m.type \in {"ERROR", "DONE"},
         refused' = refused \/ (refused' = [refused EXCEPT ![s] = TRUE] /\ m.type = "ERROR")
  PROVE  InStep'
<1>1. UNCHANGED <<mode, cpc, serverErrors>>
  BY DEF client
<1>2. ASSUME cpc[s] # "failed" PROVE SessionInStep(s)'
  <2>1. ~ Opening(s) /\ ~ Ended(s) /\ SessionInStep(s) /\ LastWord(s)
        /\ (mode[s] = "push" => PushInStep(s))
    BY <1>2, LoopIsLater
  <2>2. Answered(s, m, next)
    BY <2>1, ReplyAnswers
  <2>3. LastWord(s)'
    BY <1>1, <2>1, <2>2, AnsweredLastWord DEF Ended
  <2>4. mode[s] = "push" => PushInStep(s)'
    BY <1>1, <2>1, <2>2 DEF PushInStep, Answered
  <2>5. m.type = "ERROR" => Evidence(s)'
    BY <2>2 DEF Evidence, Answered
  <2>6. spc[s] \notin {"sending", "closed"} /\ Evidence(s) => Evidence(s)'
    BY <1>1, <2>2 DEF Evidence, Answered
  <2>7. refused'[s] => refused[s] \/ m.type = "ERROR"
    OBVIOUS
  <2> QED
    BY <1>1, <2>1, <2>3, <2>4, <2>5, <2>6, <2>7 DEF SessionInStep, Opening, Shorter, Ended
<1>3. \A t \in Session \ {s} : refused'[t] = refused[t]
  BY DEF TypeOK, ServerTyped
<1> QED
  BY <1>2, <1>3, HandlerMoves, ReplyOthers DEF Shorter

LEMMA RefuseInStep ==
  ASSUME TypeOK, InStep, NEW s \in Session, Refuse(s), UNCHANGED client, Shorter(s),
         \/ spc[s] = "loop" /\ up[s] # <<>>
         \/ spc[s] \in {"writing", "copying"}
  PROVE  InStep'
<1> DEFINE m == Simple("ERROR")
<1>1. m \in DownMessage /\ m.type = "ERROR"
  BY DownMessages DEF Simple
<1>2. Reply(s, m, "loop") /\ refused' = [refused EXCEPT ![s] = TRUE]
  BY DEF Refuse
<1> HIDE DEF m
<1> QED
  BY <1>1, <1>2, AnswerInStep

LEMMA TakesInStep ==
  ASSUME TypeOK, NEW s \in Session, NEW t, t # "nothing", Takes(s, t)
  PROVE  spc[s] = "loop" /\ up[s] # <<>> /\ Shorter(s) /\ t \in Types(up[s])
<1>1. Offered(s) = t /\ Taken(s) /\ spc[s] = "loop"
  BY DEF Takes
<1> QED
  BY <1>1, OfferedHead, TakenTypes, ShorterChannel

LEMMA OperationsInStep ==
  ASSUME TypeOK, InStep, NEW s \in Session,
         \/ ReceiveFile(s) \/ FinishFile(s) \/ DeleteFile(s)
         \/ ReceiveCopy(s) \/ FinishCopy(s)
  PROVE  InStep'
<1>1. UNCHANGED client
  BY DEF ReceiveFile, FinishFile, DeleteFile, ReceiveCopy, FinishCopy
<1>2. /\ Shorter(s)
      /\ \/ spc[s] = "loop" /\ up[s] # <<>>
         \/ spc[s] \in {"writing", "copying"}
  BY TakesInStep, ShorterChannel DEF ReceiveFile, FinishFile, DeleteFile, ReceiveCopy, FinishCopy
<1>3. CASE Refuse(s)
  BY <1>1, <1>2, <1>3, RefuseInStep
<1>4. CASE ~ Refuse(s)
  <2>1. \/ \E l \in {"loop", "writing", "copying"} : SGoto(s, l)
        \/ UNCHANGED spc
    BY <1>4 DEF ReceiveFile, FinishFile, DeleteFile, ReceiveCopy, FinishCopy
  <2>2. spc' = [spc EXCEPT ![s] = spc'[s]] /\ spc'[s] \in {"loop", "writing", "copying"}
    BY <1>2, <2>1 DEF SGoto, TypeOK, ServerTyped
  <2>3. UNCHANGED <<out, down, refused>>
    BY <1>4 DEF ReceiveFile, FinishFile, DeleteFile, ReceiveCopy, FinishCopy
  <2> QED
    BY <1>1, <1>2, <2>2, <2>3, LoopInStep
<1> QED
  BY <1>3, <1>4

LEMMA SendFileInStep ==
  ASSUME TypeOK, InStep, NEW s \in Session, SendFile(s)
  PROVE  InStep'
<1> DEFINE p == Head(up[s]).path
           m == File(p, served[p])
<1>1. /\ Shorter(s) /\ spc[s] = "loop" /\ up[s] # <<>> /\ "REQUEST" \in Types(up[s])
      /\ UNCHANGED client
  BY TakesInStep DEF SendFile
<1>2. CASE Refuse(s)
  BY <1>1, <1>2, RefuseInStep
<1>3. CASE IsFile(served, p) /\ Reply(s, m, "loop") /\ UNCHANGED refused
  <2>1. p \in Path
    BY TakesTyped, UpParts DEF SendFile
  <2>2. m \in DownMessage /\ m.type = "FILE"
    BY <1>3, <2>1, DownMessages DEF IsFile, File
  <2>3. cpc[s] # "failed" => mode[s] # "push"
    BY <1>1 DEF InStep, SessionInStep
  <2> HIDE DEF m
  <2>4. CASE cpc[s] # "failed"
    BY <1>1, <1>3, <2>2, <2>3, <2>4, AnswerInStep
  <2>5. CASE cpc[s] = "failed"
    BY <1>1, <1>3, <2>5, HandlerMoves, ReplyOthers DEF Shorter
  <2> QED
    BY <2>4, <2>5
<1> QED
  BY <1>2, <1>3 DEF SendFile, Succeeds

LEMMA ReceiveLastInStep ==
  ASSUME TypeOK, InStep, NEW s \in Session, ReceiveLast(s)
  PROVE  InStep'
<1>1. spc[s] = "loop" /\ up[s] # <<>> /\ Shorter(s) /\ UNCHANGED <<client, refused>>
  BY TakenTypes, ShorterChannel DEF ReceiveLast
<1>2. PICK m \in DownMessage : Reply(s, m, "closing") /\ m.type \in {"ERROR", "DONE"}
  BY DownMessages DEF ReceiveLast, Simple
<1> QED
  BY <1>1, <1>2, AnswerInStep

LEMMA ReplySentInStep ==
  ASSUME TypeOK, InStep, NEW s \in Session, ReplySent(s)
  PROVE  InStep'
<1> DEFINE m == out[s].message
           next == out[s].next
<1>1. m \in DownMessage /\ next # "sending" /\ UNCHANGED <<mode, cpc, serverErrors>>
  BY DEF ReplySent, client, TypeOK, ServerTyped
<1>2. spc[s] = "sending" /\ Reply(s, m, next) /\ UNCHANGED <<client, refused, up>>
  BY DEF ReplySent
<1>3. ASSUME cpc[s] # "failed" PROVE SessionInStep(s)'
  <2>1. ~ Ended(s) /\ SessionInStep(s) /\ LastWord(s)
    BY <1>2, <1>3, HandlerIsNeeded
  <2>2. Answered(s, m, next) /\ (m.type = "DONE" => next = "closing")
    BY <1>1, <1>2, <2>1, ReplyAnswers DEF LastWord
  <2>3. Opening(s) => /\ HandshakeInStep(s) /\ m.type = "ERROR" /\ next = "closing"
                      /\ "METADATA" \notin Types(down[s])
    BY <1>2, <2>1 DEF SessionInStep, HandshakeInStep
  <2>4. mode[s] = "push" /\ ~ Opening(s) =>
          PushInStep(s) /\ m.type \in {"ERROR", "DONE"} /\ next \in {"loop", "closing"}
    BY <1>2, <2>1 DEF SessionInStep, PushInStep, TypeOK, ServerTyped
  <2> HIDE DEF m, next
  <2>5. LastWord(s)'
    BY <1>1, <1>2, <2>1, <2>2, AnsweredLastWord DEF Ended
  <2>6. Opening(s) => HandshakeInStep(s)'
    BY <1>1, <1>2, <2>2, <2>3 DEF HandshakeInStep, Answered
  <2>7. mode[s] = "push" /\ ~ Opening(s) => PushInStep(s)'
    BY <1>1, <1>2, <2>2, <2>4 DEF PushInStep, Answered
  <2>8. Evidence(s) => Evidence(s)'
    BY <1>1, <1>2, <2>2 DEF Evidence, Answered, m
  <2> QED
    BY <1>1, <1>2, <2>1, <2>5, <2>6, <2>7, <2>8 DEF SessionInStep, Opening
<1> QED
  BY <1>2, <1>3, HandlerMoves, ReplyOthers

\* Nothing of a refusal may be sent; but then the channel is full of others.
LEMMA ReplyAbandonedInStep ==
  ASSUME TypeOK, InStep, NEW s \in Session, ReplyAbandoned(s)
  PROVE  InStep'
<1> DEFINE next == out[s].next
<1>1. /\ spc[s] = "sending" /\ spc'[s] = next /\ (\A t \in Session \ {s} : spc'[t] = spc[t])
      /\ next \in {"scan", "loop", "closing"}
      /\ UNCHANGED <<client, out, refused, up>>
  BY DEF ReplyAbandoned, SGoto, TypeOK, ServerTyped
<1>2. UNCHANGED <<mode, cpc, serverErrors>>
  BY <1>1 DEF client
<1>3. /\ DoneIsLast(down[s]) /\ "DONE" \notin Types(down[s]) => DoneIsLast(down'[s])
      /\ Types(down[s]) \subseteq Types(down'[s])
      /\ Types(down'[s]) \subseteq Types(down[s]) \cup {"FRAGMENT"}
      /\ \A t \in Session \ {s} : down'[t] = down[t]
  <2>1. CASE UNCHANGED down
    BY <2>1
  <2>2. CASE down' = [down EXCEPT ![s] = Append(@, Simple("FRAGMENT"))]
    BY <2>2, AppendTypes, DownMessages DEF Simple, TypeOK, DownTyped
  <2> QED
    BY <2>1, <2>2 DEF ReplyAbandoned
<1>4. Types(down[s]) # {}
  <2>1. Len(down[s]) \in Nat /\ ~ (Len(down[s]) < Window)
    BY LenProperties DEF ReplyAbandoned, HasRoom, TypeOK, DownTyped
  <2>2. 1 \in 1..Len(down[s])
    BY <2>1, BoundAssumption
  <2> QED
    BY <2>2 DEF Types
<1>5. ASSUME cpc[s] # "failed" PROVE SessionInStep(s)'
  <2>1. SessionInStep(s) /\ LastWord(s) /\ ~ Ended(s)
    BY <1>1, <1>5, HandlerIsNeeded
  <2>2. "DONE" \notin Types(down[s]) /\ "DONE" \notin Types(down'[s])
    BY <1>1, <1>3, <2>1 DEF LastWord
  <2>3. LastWord(s)'
    BY <1>1, <1>2, <1>3, <2>1, <2>2 DEF LastWord, Ended
  <2>4. Opening(s) => HandshakeInStep(s)'
    BY <1>1, <1>2, <1>3, <2>1 DEF SessionInStep, HandshakeInStep
  <2>5. mode[s] = "push" /\ ~ Opening(s) =>
          PushInStep(s)' /\ ("ERROR" \in Types(down[s]) \/ "FRAGMENT" \in Types(down[s]))
    BY <1>1, <1>2, <1>3, <1>4, <2>1, <2>2 DEF SessionInStep, PushInStep
  <2>6. mode[s] = "push" /\ ~ Opening(s) => Evidence(s)'
    BY <1>3, <2>5 DEF Evidence
  <2> QED
    BY <1>1, <1>2, <2>1, <2>3, <2>4, <2>5, <2>6
       DEF SessionInStep, Opening, HandshakeInStep
<1> QED
  BY <1>1, <1>3, <1>5, HandlerMoves

\* The end of a handler, in order or not.
LEMMA ClosedInStep ==
  ASSUME TypeOK, NEW s \in Session, SessionInStep(s), spc[s] # "none", spc'[s] = "closed",
         down'[s] = down[s] \/ down'[s] = <<>>,
         up'[s] = up[s] \/ up'[s] = <<>>, UNCHANGED <<client, refused>>
  PROVE  SessionInStep(s)'
<1>1. UNCHANGED <<mode, cpc, serverErrors>>
  BY DEF client
<1>2. /\ Types(down'[s]) \subseteq Types(down[s]) /\ Types(up'[s]) \subseteq Types(up[s])
      /\ DoneIsLast(down[s]) => DoneIsLast(down'[s])
      /\ Types(down'[s]) = {} \/ Types(down'[s]) = Types(down[s])
  BY EmptyTypes
<1>3. LastWord(s)'
  BY <1>1, <1>2 DEF SessionInStep, LastWord
<1>4. Opening(s) => HandshakeInStep(s)'
  BY <1>1, <1>2, EmptyTypes DEF SessionInStep, HandshakeInStep
<1>5. mode[s] = "push" /\ ~ Opening(s) => PushInStep(s)'
  BY <1>1, <1>2 DEF SessionInStep, PushInStep
<1>6. Evidence(s) => Evidence(s)'
  BY <1>1, <1>2 DEF SessionInStep, LastWord, Evidence
<1> QED
  BY <1>1, <1>2, <1>3, <1>4, <1>5, <1>6 DEF SessionInStep, Opening

LEMMA CloseConnectionInStep ==
  ASSUME TypeOK, InStep, NEW s \in Session, CloseConnection(s)
  PROVE  InStep'
<1>1. /\ spc[s] = "closing" /\ spc'[s] = "closed" /\ up'[s] = <<>>
      /\ down'[s] = down[s] \/ down'[s] = <<>>
      /\ \A t \in Session \ {s} : spc'[t] = spc[t] /\ up'[t] = up[t] /\ down'[t] = down[t]
      /\ UNCHANGED <<client, out, refused>>
  BY DEF CloseConnection, SGoto, TypeOK, ServerTyped, UpTyped, DownTyped
<1>2. cpc[s] # "failed" => SessionInStep(s)'
  BY <1>1, ClosedInStep DEF InStep
<1> QED
  BY <1>1, <1>2, HandlerMoves

LEMMA ServerCrashInStep ==
  ASSUME TypeOK, InStep, ServerCrash
  PROVE  InStep'
<1>1. UNCHANGED <<client, out, refused, up>>
  BY DEF ServerCrash
<1>2. UNCHANGED <<mode, cpc, serverErrors>>
  BY <1>1 DEF client
<1>3. ASSUME NEW s \in Session, cpc[s] # "failed" PROVE SessionInStep(s)'
  <2>1. SessionInStep(s)
    BY <1>3 DEF InStep
  <2>2. CASE Serving(s)
    <3>1. /\ spc[s] # "none" /\ spc'[s] = "closed"
          /\ down'[s] = down[s] \/ down'[s] = <<>>
      BY <2>2 DEF ServerCrash, Serving
    <3> QED
      BY <1>1, <2>1, <3>1, ClosedInStep
  <2>3. CASE ~ Serving(s)
    <3>1. spc'[s] = spc[s] /\ down'[s] = down[s]
      BY <2>3 DEF ServerCrash
    <3> QED
      BY <1>1, <1>2, <2>1, <3>1
         DEF SessionInStep, LastWord, Opening, HandshakeInStep, PushInStep, Evidence
  <2> QED
    BY <2>2, <2>3
<1> QED
  BY <1>2, <1>3 DEF InStep

-----------------------------------------------------------------------------
LEMMA InitInStep == Init => InStep
  BY EmptyTypes
     DEF Init, InStep, SessionInStep, LastWord, Opening, HandshakeInStep, PushInStep

LEMMA NextInStep == TypeOK /\ InStep /\ [Next]_vars => InStep'
<1> SUFFICES ASSUME TypeOK, InStep, [Next]_vars PROVE InStep'
  OBVIOUS
<1>1. CASE UNCHANGED vars
  <2>1. UNCHANGED <<mode, cpc, serverErrors, spc, out, up, down, refused>>
    BY <1>1 DEF vars, client, server
  <2> QED
    BY <2>1 DEF InStep, SessionInStep, LastWord, Opening, HandshakeInStep, PushInStep, Evidence
<1>2. CASE Quiet
  BY <1>1, <1>2 DEF Quiet
<1>3. CASE ServerCrash
  BY <1>3, ServerCrashInStep
<1>4. ASSUME NEW s \in Session, Connect(s) \/ ClientStep(s) \/ ClientDies(s)
      PROVE  InStep'
  <2>1. CASE ReceiveUnexpected(s) \/ ConnectionLost(s) \/ ClientDies(s)
    BY <2>1, ClientFailsInStep DEF ReceiveUnexpected, ConnectionLost, ClientDies
  <2> QED
    BY <1>4, <2>1, ConnectInStep, ReceiveOKInStep, ScanLocalInStep, ReceiveMetadataInStep,
       ExecuteOperationInStep, FileStepsInStep, SendDoneInStep, DrainReplyInStep,
       ReceiveDoneInStep DEF ClientStep
<1>5. ASSUME NEW s \in Session, HandlerStep(s)
      PROVE  InStep'
  BY <1>5, ReceiveHelloInStep, ScanServedInStep, ExchangeMetadataInStep, ReceiveFailsInStep,
     SendFileInStep, OperationsInStep, ReceiveLastInStep, ReplySentInStep,
     ReplyAbandonedInStep, CloseConnectionInStep DEF HandlerStep
<1> QED
  BY <1>1, <1>2, <1>3, <1>4, <1>5 DEF Next

\* Client and handler stay in step: whatever the window, the faults and the other
\* sessions.
THEOREM SpecInStep == Spec => []InStep
  BY InitInStep, NextInStep, SpecTypeOK, PTL DEF Spec

\* A push that reports success had nothing refused by the server ("Errors ... are
\* drained and reported", the loop at the end of SyncClient.sync), although its
\* operations are sent without waiting and replies can be cut off or dropped.
THEOREM SpecSuccessMeansApplied == Spec => []SuccessMeansApplied
<1>1. InStep => SuccessMeansApplied
  BY DEF InStep, SessionInStep, SuccessMeansApplied
<1> QED
  BY <1>1, SpecInStep, PTL

-----------------------------------------------------------------------------
(* A session by itself, and what it leaves alone                           *)

\* What is under way on a channel.
Messages(q) == {q[i] : i \in 1..Len(q)}

\* A listing that is true of the tree wherever it lists anything.
Seen(l, t) == Flat(l) /\ \A p \in Path : l[p] # Absent => t[p] = l[p]

Matching(s) == {p \in Path : csnap[s][p] = rsnap[s][p] /\ csnap[s][p] # Absent}

\* Until there is a plan the trees are as they were found, and no operation is under way.
Handshaking(s) ==
    /\ plan[s] = {}
    /\ WellFormed(local[Owner[s]]) /\ WellFormed(served)
    /\ cpc[s] = "awaitMetadata" => Seen(csnap[s], local[Owner[s]])
    /\ spc[s] = "metadata" => Seen(ssnap[s], served)
    /\ \A m \in Messages(down[s]) : /\ m.type # "FILE"
                                    /\ m.type = "METADATA" => Seen(m.listing, served)
    /\ \A m \in Messages(up[s]) : m.type \in {"HELLO", "METADATA"}

\* Whatever is still to be done, wherever it has got to, is about a difference.
Apart(s, q) == q \in Path => csnap[s][q] # rsnap[s][q]
Aimed(s, m) ==
    /\ m.type \in {"FILE", "DELETE", "REQUEST"} => Apart(s, m.path)
    /\ m.type = "COPY" => Apart(s, m.to)

Ahead(s) ==
    /\ \A o \in todo[s] : Apart(s, o.to)
    /\ \A m \in Messages(up[s]) \cup Messages(down[s]) : Aimed(s, m)
    /\ cpc[s] = "writing" => Apart(s, cjob[s].path)
    /\ cpc[s] = "copying" => Apart(s, cjob[s].to)
    /\ spc[s] \in {"writing", "copying"} => Aimed(s, sjob[s])
    /\ spc[s] = "sending" => Aimed(s, out[s].message)

Executing(s) ==
    /\ Flat(csnap[s]) /\ Flat(rsnap[s])
    /\ \A p \in Matching(s) : Target(s)[p] = csnap[s][p]
    /\ Ahead(s)

SessionKept(s) ==
    /\ Opening(s) => Handshaking(s)
    /\ ~ Opening(s) /\ plan[s] # {} => Executing(s)

KeptInv == \A s \in Session : Alone(s) => SessionKept(s)

LEMMA EmptyMessages == Messages(<<>>) = {}
  BY DEF Messages

LEMMA AppendMessages ==
  ASSUME NEW M, NEW q \in Seq(M), NEW m \in M
  PROVE  Messages(Append(q, m)) = Messages(q) \cup {m}
<1> DEFINE r == Append(q, m)
<1>1. /\ Len(q) \in Nat /\ Len(r) = Len(q) + 1 /\ r[Len(q) + 1] = m
      /\ \A i \in 1..Len(q) : r[i] = q[i]
  BY AppendProperties, LenProperties
<1> HIDE DEF r
<1>2. \A i \in 1..Len(r) : i \in 1..Len(q) \/ i = Len(q) + 1
  BY <1>1
<1>3. 1..Len(q) \subseteq 1..Len(r) /\ Len(q) + 1 \in 1..Len(r)
  BY <1>1
<1>4. Messages(r) \subseteq Messages(q) \cup {m}
  BY <1>1, <1>2 DEF Messages
<1>5. Messages(q) \cup {m} \subseteq Messages(r)
  BY <1>1, <1>3 DEF Messages
<1> QED
  BY <1>4, <1>5 DEF r

LEMMA TailMessages ==
  ASSUME NEW M, NEW q \in Seq(M), q # <<>>
  PROVE  Head(q) \in Messages(q) /\ Messages(Tail(q)) \subseteq Messages(q)
<1> DEFINE r == Tail(q)
<1>1. /\ Len(q) \in Nat /\ Len(q) >= 1 /\ Len(r) = Len(q) - 1
      /\ Head(q) = q[1] /\ \A i \in 1..Len(r) : r[i] = q[i + 1]
  BY HeadTailProperties, LenProperties, EmptySeq
<1> HIDE DEF r
<1>2. 1 \in 1..Len(q) /\ \A i \in 1..Len(r) : i + 1 \in 1..Len(q)
  BY <1>1
<1> QED
  BY <1>1, <1>2 DEF Messages, r

LEMMA PrefixMessages ==
  ASSUME NEW M, NEW q \in Seq(M), NEW r \in Prefixes(q)
  PROVE  Messages(r) \subseteq Messages(q)
<1>1. PICK k \in 0..Len(q) : r = SubSeq(q, 1, k)
  BY DEF Prefixes
<1>2. Len(r) = k /\ k <= Len(q) /\ Len(q) \in Nat /\ \A i \in 1..k : r[i] = q[i]
  BY <1>1, LenProperties
<1> QED
  BY <1>2 DEF Messages

LEMMA FlatListings ==
  ASSUME NEW t \in Tree, WellFormed(t), NEW missed
  PROVE  Seen(Listed(t, missed), t) /\ Seen(ListingOf(t), t)
  BY EntryAssumption, AboveAssumption DEF Seen, Flat, Listed, ListingOf, WellFormed, IsFile, Tree

\* What is done at a path where the listings differ disturbs no file they agree on: it
\* is neither at the path, nor over it, nor below it.
LEMMA MatchingFilesStay ==
  ASSUME NEW s \in Session, Flat(csnap[s]), Flat(rsnap[s]), NEW q \in Path, Apart(s, q),
         NEW p \in Matching(s), NEW t \in Tree
  PROVE  /\ p # q /\ p \notin Above[q] /\ q \notin Above[p]
         /\ TryWithParents(t, q)[p] = t[p]
         /\ \A e : [t EXCEPT ![q] = e][p] = t[p]
         /\ Removed(t, q)[p] = t[p]
         /\ Pruned(Removed(t, q), q)[p] = t[p]
         /\ ReadyForCopy(t, q)[p] = t[p]
         /\ \A d, u : u \in Filled(t, q, d) => u[p] = t[p]
         /\ \A from, d, u : d \in Entry /\ u \in ItemCopied(t, from, d, q) => u[p] = t[p]
<1>1. /\ p \in Path /\ p # q /\ csnap[s][p] # Absent /\ rsnap[s][p] # Absent
      /\ csnap[s][q] # Absent \/ rsnap[s][q] # Absent
  BY DEF Matching, Apart
<1>2. p \notin Above[q] /\ q \notin Above[p]
  BY <1>1 DEF Flat
<1>3. WithParents(t, q)[p] = t[p] /\ \A e : [t EXCEPT ![q] = e][p] = t[p]
  BY <1>1, <1>2 DEF WithParents, Tree
<1>4. \A u : Removed(u, q)[p] = u[p] /\ Pruned(u, q)[p] = u[p]
  BY <1>1, <1>2 DEF Removed, Pruned
<1>5. \A d, u : u \in Filled(t, q, d) => u[p] = t[p]
  BY <1>3 DEF Filled
<1>6. \A from, d, u : d \in Entry /\ u \in ItemCopied(t, from, d, q) => u[p] = t[p]
  BY <1>1, <1>2, CopyOfItem
<1> QED
  BY <1>1, <1>2, <1>3, <1>4, <1>5, <1>6 DEF TryWithParents, ReadyForCopy

\* As long as another session has not begun, no step is its.
LEMMA StepIsItsOwn ==
  ASSUME TypeOK, InStep, NEW s \in Session, Next, Alone(s)'
  PROVE  /\ Alone(s)
         /\ UNCHANGED vars \/ ServerCrash \/ Connect(s) \/ ClientStep(s) \/ ClientDies(s)
            \/ HandlerStep(s)
<1>1. ASSUME NEW t \in Session, cpc[t] # "idle"
      PROVE  cpc'[t] # "idle"
  <2>1. UNCHANGED cpc \/ \E r \in Session, l \in ClientPC \ {"idle"} : CGoto(r, l)
    <3>1. CASE Quiet \/ ServerCrash
      BY <3>1 DEF Quiet, ServerCrash, vars, client
    <3>2. ASSUME NEW r \in Session, Connect(r) \/ ClientDies(r)
          PROVE  \E l \in ClientPC \ {"idle"} : CGoto(r, l)
      BY <3>2 DEF Connect, ClientDies, ClientFails, ClientPC
    <3>3. ASSUME NEW r \in Session, ExecuteOperation(r)
          PROVE  UNCHANGED cpc \/ \E l \in ClientPC \ {"idle"} : CGoto(r, l)
      BY <3>3 DEF ExecuteOperation, Upload, SendRemote, RequestFile, PrepareCopy, DeleteLocal,
                  ClientFails, ClientPC
    <3>4. ASSUME NEW r \in Session, ClientStep(r), ~ ExecuteOperation(r)
          PROVE  UNCHANGED cpc \/ \E l \in ClientPC \ {"idle"} : CGoto(r, l)
      BY <3>4 DEF ClientStep, ReceiveOK, ScanLocal, ReceiveMetadata, ReceiveUnexpected, SkipFile,
                  WriteReceivedFile, FinishReceivedFile, CopyItem, SendDone, DrainReply,
                  ReceiveDone, ConnectionLost, ClientFails, ClientPC
    <3>5. ASSUME NEW r \in Session, HandlerStep(r)
          PROVE  UNCHANGED cpc
      BY <3>5 DEF HandlerStep, ReceiveHello, ScanServed, ExchangeMetadata, ReceiveFails, SendFile,
                  ReceiveFile, FinishFile, DeleteFile, ReceiveCopy, FinishCopy, ReceiveLast,
                  ReplySent, ReplyAbandoned, CloseConnection, client
    <3> QED
      BY <3>1, <3>2, <3>3, <3>4, <3>5 DEF Next
  <2> QED
    BY <1>1, <2>1 DEF CGoto, TypeOK, ClientTyped
<1>2. Alone(s)
  BY <1>1 DEF Alone
<1>3. ASSUME NEW t \in Session \ {s}
      PROVE  ~ Connect(t) /\ ~ ClientStep(t) /\ ~ ClientDies(t) /\ ~ HandlerStep(t)
  <2>1. cpc[t] = "idle" /\ cpc'[t] = "idle"
    BY <1>2 DEF Alone
  <2>2. spc[t] = "none"
    BY <2>1 DEF InStep, SessionInStep, Opening, HandshakeInStep
  <2>3. ~ Connect(t) /\ ~ ClientDies(t)
    BY <2>1 DEF Connect, ClientDies, Active, CGoto, TypeOK, ClientTyped
  <2>4. ~ ClientStep(t)
    BY <2>1 DEF ClientStep, ReceiveOK, ScanLocal, ReceiveMetadata, ReceiveUnexpected, SkipFile,
                WriteReceivedFile, FinishReceivedFile, CopyItem, SendDone, DrainReply,
                ReceiveDone, ConnectionLost, ExecuteOperation, Current, Active
  <2>5. ~ HandlerStep(t)
    BY <2>2 DEF HandlerStep, ReceiveHello, ScanServed, ExchangeMetadata, ReceiveFails, SendFile,
                ReceiveFile, FinishFile, DeleteFile, ReceiveCopy, FinishCopy, ReceiveLast,
                ReplySent, ReplyAbandoned, CloseConnection, Takes
  <2> QED
    BY <2>3, <2>4, <2>5
<1>4. CASE Quiet
  BY <1>2, <1>4 DEF Quiet
<1>5. CASE \E t \in Session : Connect(t) \/ ClientStep(t) \/ ClientDies(t) \/ HandlerStep(t)
  BY <1>2, <1>3, <1>5
<1> QED
  BY <1>2, <1>4, <1>5 DEF Next

\* What the channels hold after a step.
LEMMA SentMessages ==
  ASSUME TypeOK, NEW s \in Session, NEW m \in UpMessage, Sent(s, m)
  PROVE  Messages(up'[s]) = Messages(up[s]) \cup {m}
  BY AppendMessages DEF Sent, TypeOK, UpTyped

LEMMA TakenMessages ==
  ASSUME TypeOK, NEW s \in Session, Offered(s) # "nothing", Taken(s)
  PROVE  /\ Head(up[s]) \in Messages(up[s]) /\ Head(up[s]).type = Offered(s)
         /\ Messages(up'[s]) \subseteq Messages(up[s])
  BY TailMessages, OfferedHead DEF Taken, TypeOK, UpTyped

LEMMA ReceivedMessages ==
  ASSUME TypeOK, NEW s \in Session, Arrived(s) # "nothing"
  PROVE  /\ Head(down[s]) \in Messages(down[s]) /\ Head(down[s]).type = Arrived(s)
         /\ Received(s) => Messages(down'[s]) \subseteq Messages(down[s])
  BY TailMessages, ArrivedHead DEF Received, TypeOK, DownTyped

LEMMA FailingMessages ==
  ASSUME TypeOK, NEW s \in Session, ClientFails(s)
  PROVE  /\ Messages(up'[s]) \subseteq Messages(up[s]) /\ Messages(down'[s]) = {}
         /\ cpc'[s] = "failed" /\ todo'[s] = {}
  BY PrefixMessages, EmptyMessages
     DEF ClientFails, CGoto, TypeOK, ClientTyped, UpTyped, DownTyped

\* A reply is on its way, waits, or is dropped.
LEMMA ReplyMessages ==
  ASSUME TypeOK, NEW s \in Session, NEW m \in DownMessage, NEW next, Reply(s, m, next)
  PROVE  /\ Messages(down'[s]) \subseteq Messages(down[s]) \cup {m}
         /\ \/ spc'[s] = next /\ out'[s] = out[s]
            \/ spc'[s] = "sending" /\ out'[s].message = m
<1>1. down \in [Session -> Seq(DownMessage)] /\ spc \in [Session -> HandlerPC]
  BY DEF TypeOK, ServerTyped, DownTyped
<1>2. CASE Ended(s) \/ Broken(s)
  BY <1>1, <1>2 DEF Reply, SGoto
<1>3. CASE down' = [down EXCEPT ![s] = Append(@, m)] /\ SGoto(s, next) /\ UNCHANGED out
  <2>1. down'[s] = Append(down[s], m) /\ down[s] \in Seq(DownMessage)
    BY <1>1, <1>3
  <2>2. Messages(down'[s]) = Messages(down[s]) \cup {m}
    BY <2>1, AppendMessages
  <2> QED
    BY <1>1, <1>3, <2>2 DEF SGoto
<1>4. CASE /\ out' = [out EXCEPT ![s] = [message |-> m, next |-> next]]
           /\ SGoto(s, "sending") /\ UNCHANGED down
  BY <1>1, <1>4 DEF SGoto, TypeOK, ServerTyped
<1> QED
  BY <1>2, <1>3, <1>4 DEF Reply

-----------------------------------------------------------------------------
(* While operations are executed                                           *)

\* No step of the trees changes a file on which the listings agree.
Spares(s) == \A p \in Matching(s) : /\ local'[Owner[s]][p] = local[Owner[s]][p]
                                    /\ served'[p] = served[p]
SamePlan(s) == UNCHANGED <<mode[s], csnap[s], rsnap[s], plan[s]>>

LEMMA GoesOn ==
  ASSUME TypeOK, NEW s \in Session, Executing(s), SamePlan(s), Spares(s), Ahead(s)'
  PROVE  Executing(s)'
<1>1. mode'[s] = mode[s] /\ csnap'[s] = csnap[s] /\ rsnap'[s] = rsnap[s]
  BY DEF SamePlan
<1>2. Matching(s)' = Matching(s) /\ Flat(csnap[s])' /\ Flat(rsnap[s])'
  BY <1>1 DEF Matching, Executing, Flat
<1>3. \A p \in Matching(s) : Target(s)'[p] = csnap'[s][p]
  BY <1>1 DEF Executing, Spares, Target
<1> QED
  BY <1>1, <1>2, <1>3 DEF Executing

LEMMA SamePlanAimed ==
  ASSUME NEW s \in Session, SamePlan(s)
  PROVE  /\ \A q : Apart(s, q)' <=> Apart(s, q)
         /\ \A m : Aimed(s, m)' <=> Aimed(s, m)
  BY DEF SamePlan, Apart, Aimed

LEMMA FailsExecuting ==
  ASSUME TypeOK, NEW s \in Session, Executing(s), ClientFails(s), UNCHANGED plan, Spares(s)
  PROVE  Executing(s)'
<1>1. SamePlan(s)
  BY DEF SamePlan, ClientFails
<1>2. /\ Messages(up'[s]) \subseteq Messages(up[s]) /\ Messages(down'[s]) = {}
      /\ cpc'[s] = "failed" /\ todo'[s] = {}
      /\ spc' = spc /\ sjob' = sjob /\ out' = out
  BY FailingMessages DEF ClientFails, server
<1>3. Ahead(s)'
  BY <1>1, <1>2, SamePlanAimed DEF Ahead, Executing
<1> QED
  BY <1>1, <1>3, GoesOn

\* The client sends an operation, or DONE.
LEMMA SendsExecuting ==
  ASSUME TypeOK, NEW s \in Session, Executing(s), NEW m \in UpMessage, Sent(s, m), Aimed(s, m),
         todo'[s] \subseteq todo[s], cpc'[s] \notin {"writing", "copying"},
         UNCHANGED <<trees, mode, csnap, rsnap, server, down>>
  PROVE  Executing(s)'
<1>1. SamePlan(s) /\ Spares(s) /\ spc' = spc /\ sjob' = sjob /\ out' = out /\ down' = down
  BY DEF SamePlan, Spares, trees, server
<1>2. Messages(up'[s]) = Messages(up[s]) \cup {m}
  BY SentMessages
<1>3. Ahead(s)'
  BY <1>1, <1>2, SamePlanAimed DEF Ahead, Executing
<1> QED
  BY <1>1, <1>3, GoesOn

\* It goes on to something else; what it changes in its tree spares the matching files.
LEMMA MovesExecuting ==
  ASSUME TypeOK, NEW s \in Session, Executing(s), Spares(s), SamePlan(s),
         todo'[s] \subseteq todo[s], UNCHANGED <<server, up>>,
         Messages(down'[s]) \subseteq Messages(down[s]),
         cpc'[s] = "writing" => Apart(s, cjob'[s].path),
         cpc'[s] = "copying" => Apart(s, cjob'[s].to)
  PROVE  Executing(s)'
<1>1. spc' = spc /\ sjob' = sjob /\ out' = out /\ up' = up
  BY DEF server
<1>2. Ahead(s)'
  BY <1>1, SamePlanAimed DEF Ahead, Executing
<1> QED
  BY <1>2, GoesOn

LEMMA OperationExecuting ==
  ASSUME TypeOK, NEW s \in Session, Executing(s), NEW o \in todo[s],
         \/ Upload(s, o) \/ SendRemote(s, o) \/ RequestFile(s, o)
         \/ PrepareCopy(s, o) \/ DeleteLocal(s, o),
         Current(s, o)
  PROVE  Executing(s)'
<1>1. o \in Op /\ Apart(s, o.to) /\ cpc[s] = "operations" /\ todo \in [Session -> SUBSET Op]
      /\ cpc \in [Session -> ClientPC] /\ cjob \in [Session -> Op \cup FileMessage]
      /\ o.to \in Place /\ (o.act = "copy" => o.from \in Place) /\ (o.act = "transfer" => o.to \in Path)
  BY OpParts DEF Executing, Ahead, Current, TypeOK, ClientTyped
<1>2. Advance(s, o) => todo'[s] \subseteq todo[s]
  BY <1>1 DEF Advance
<1>3. local[Owner[s]] \in Tree /\ Owner[s] \in Client /\ local \in [Client -> Tree]
  BY SessionAssumption DEF TypeOK, TreesTyped
<1>4. o.to \in Path => \A p \in Matching(s) :
          /\ Removed(local[Owner[s]], o.to)[p] = local[Owner[s]][p]
          /\ ReadyForCopy(local[Owner[s]], o.to)[p] = local[Owner[s]][p]
  BY <1>1, <1>3, MatchingFilesStay DEF Executing
<1>5. CASE Upload(s, o)
  <2>1. CASE ClientFails(s) /\ UNCHANGED trees
    BY <2>1, FailsExecuting DEF trees, Spares
  <2>2. CASE /\ IsFile(local[Owner[s]], o.to)
             /\ Sent(s, File(o.to, local[Owner[s]][o.to])) /\ Advance(s, o)
             /\ UNCHANGED <<trees, mode, cpc, csnap, rsnap, cjob, serverErrors, server, down>>
    <3> DEFINE m == File(o.to, local[Owner[s]][o.to])
    <3>1. o.to \in Path
      BY <1>1, <1>5 DEF Upload
    <3>2. m \in UpMessage /\ m.type = "FILE" /\ m.path = o.to
      BY <2>2, <3>1, UpMessages DEF IsFile, File
    <3>3. Aimed(s, m)
      BY <1>1, <3>2 DEF Aimed
    <3> HIDE DEF m
    <3> QED
      BY <1>1, <1>2, <2>2, <3>2, <3>3, SendsExecuting DEF m
  <2> QED
    BY <1>5, <2>1, <2>2 DEF Upload, Succeeds
<1>6. CASE SendRemote(s, o)
  <2> DEFINE m == IF o.act = "copy" THEN Copy(o.from, o.to) ELSE Delete(o.to)
  <2>1. m \in UpMessage
    BY <1>1, UpMessages
  <2>2. Aimed(s, m)
    BY <1>1 DEF Aimed, Copy, Delete
  <2>3. Sent(s, m)
    BY <1>6 DEF SendRemote
  <2> HIDE DEF m
  <2> QED
    BY <1>1, <1>2, <1>6, <2>1, <2>2, <2>3, SendsExecuting DEF SendRemote
<1>7. CASE RequestFile(s, o)
  <2> DEFINE m == Request(o.to)
  <2>1. m \in UpMessage /\ Aimed(s, m)
    BY <1>1, <1>7, UpMessages DEF Aimed, Request, RequestFile
  <2>2. Sent(s, m) /\ cpc'[s] = "awaitFile"
    BY <1>1, <1>7 DEF RequestFile, CGoto
  <2> HIDE DEF m
  <2> QED
    BY <1>2, <1>7, <2>1, <2>2, SendsExecuting DEF RequestFile
<1>8. CASE PrepareCopy(s, o)
  <2>1. CASE ClientFails(s) /\ UNCHANGED <<local, served, temp>>
    BY <1>8, <2>1, FailsExecuting DEF Spares, PrepareCopy, Begun
  <2>2. CASE /\ local' = [local EXCEPT ![Owner[s]] = ReadyForCopy(local[Owner[s]], o.to)]
             /\ cjob' = [cjob EXCEPT ![s] = o]
             /\ Advance(s, o) /\ CGoto(s, "copying")
             /\ UNCHANGED <<served, temp, mode, csnap, rsnap, serverErrors, server, up, down>>
    <3>1. local'[Owner[s]] = ReadyForCopy(local[Owner[s]], o.to) /\ cjob'[s] = o /\ cpc'[s] = "copying"
      BY <1>1, <1>3, <2>2 DEF CGoto
    <3>2. Spares(s)
      BY <1>4, <2>2, <3>1 DEF Spares, ReadyForCopy
    <3>3. SamePlan(s)
      BY <1>8, <2>2 DEF SamePlan, PrepareCopy, Begun
    <3> QED
      BY <1>1, <1>2, <2>2, <3>1, <3>2, <3>3, MovesExecuting
  <2> QED
    BY <1>8, <2>1, <2>2 DEF PrepareCopy
<1>9. CASE DeleteLocal(s, o)
  <2>1. local'[Owner[s]] = local[Owner[s]]
        \/ (o.to \in Path /\ local'[Owner[s]] = Removed(local[Owner[s]], o.to))
    BY <1>3, <1>9 DEF DeleteLocal
  <2>2. Spares(s)
    BY <1>4, <1>9, <2>1 DEF Spares, DeleteLocal
  <2>3. SamePlan(s) /\ UNCHANGED <<server, up, down, cpc>> /\ Advance(s, o)
    BY <1>9 DEF SamePlan, DeleteLocal, Begun
  <2> QED
    BY <1>1, <1>2, <2>2, <2>3, MovesExecuting
<1> QED
  BY <1>5, <1>6, <1>7, <1>8, <1>9

LEMMA WriteReceivedExecuting ==
  ASSUME TypeOK, NEW s \in Session, Executing(s), WriteReceivedFile(s)
  PROVE  Executing(s)'
<1> DEFINE m == Head(down[s])
           t == TryWithParents(local[Owner[s]], m.path)
<1>1. /\ m \in Messages(down[s]) /\ m.type = "FILE" /\ m \in DownMessage
      /\ Received(s) => Messages(down'[s]) \subseteq Messages(down[s])
  BY ReceivedMessages, ArrivedHead DEF WriteReceivedFile
<1>2. m.path \in Path /\ Apart(s, m.path)
  BY <1>1, DownParts DEF FileMessage, Executing, Ahead, Aimed
<1>3. /\ local[Owner[s]] \in Tree /\ Owner[s] \in Client /\ local \in [Client -> Tree]
      /\ t \in Tree /\ cjob \in [Session -> Op \cup FileMessage] /\ cpc \in [Session -> ClientPC]
  BY <1>2, SessionAssumption, TreeOperations DEF TypeOK, TreesTyped, ClientTyped, TryWithParents
<1>4. \A p \in Matching(s) : /\ t[p] = local[Owner[s]][p]
                             /\ [t EXCEPT ![m.path] = Torn][p] = t[p]
  BY <1>2, <1>3, MatchingFilesStay DEF Executing
<1>5. UNCHANGED <<served, plan>> /\ Begun(s)
  BY DEF WriteReceivedFile, Begun
<1>6. CASE /\ local' = [local EXCEPT ![Owner[s]] = [t EXCEPT ![m.path] = Torn]]
           /\ cjob' = [cjob EXCEPT ![s] = m]
           /\ Received(s) /\ CGoto(s, "writing")
           /\ UNCHANGED <<served, temp, mode, csnap, rsnap, todo, serverErrors, server, up>>
  <2>1. Spares(s)
    BY <1>3, <1>4, <1>6 DEF Spares
  <2>2. cjob'[s] = m /\ cpc'[s] = "writing" /\ SamePlan(s)
    BY <1>3, <1>5, <1>6 DEF CGoto, SamePlan
  <2> QED
    BY <1>1, <1>2, <1>6, <2>1, <2>2, MovesExecuting
<1>7. CASE local' = [local EXCEPT ![Owner[s]] = t] /\ ClientFails(s)
  <2>1. Spares(s)
    BY <1>3, <1>4, <1>5, <1>7 DEF Spares
  <2> QED
    BY <1>5, <1>7, <2>1, FailsExecuting
<1> QED
  BY <1>6, <1>7 DEF WriteReceivedFile

LEMMA FinishReceivedExecuting ==
  ASSUME TypeOK, NEW s \in Session, Executing(s), FinishReceivedFile(s)
  PROVE  Executing(s)'
<1>1. CASE Fault /\ ClientFails(s) /\ UNCHANGED trees
  BY <1>1, FailsExecuting DEF trees, Spares
<1>2. CASE /\ \E t \in Filled(local[Owner[s]], cjob[s].path, cjob[s].data) :
                 local' = [local EXCEPT ![Owner[s]] = t]
           /\ CGoto(s, "operations")
           /\ UNCHANGED <<served, temp, plan, applied, mode, csnap, rsnap, todo, cjob,
                          serverErrors, server, up, down, faults>>
  <2>1. cjob[s].path \in Path /\ Apart(s, cjob[s].path) /\ cpc'[s] = "operations"
    BY <1>2 DEF FinishReceivedFile, TypeOK, JobsTyped, ClientTyped, FileMessage, Executing, Ahead,
                CGoto
  <2>2. local[Owner[s]] \in Tree /\ Owner[s] \in Client /\ local \in [Client -> Tree]
    BY SessionAssumption DEF TypeOK, TreesTyped
  <2>3. local'[Owner[s]] \in Filled(local[Owner[s]], cjob[s].path, cjob[s].data)
    BY <1>2, <2>2
  <2>4. Spares(s)
    BY <1>2, <2>1, <2>2, <2>3, MatchingFilesStay DEF Spares, Executing
  <2> QED
    BY <1>2, <2>1, <2>4, MovesExecuting DEF SamePlan
<1> QED
  BY <1>1, <1>2 DEF FinishReceivedFile

LEMMA CopyItemExecuting ==
  ASSUME TypeOK, NEW s \in Session, Executing(s), CopyItem(s)
  PROVE  Executing(s)'
<1> DEFINE o == cjob[s]
           e == StoredAt(local[Owner[s]], s, o.from)
<1>1. CASE ClientFails(s) /\ UNCHANGED trees
  BY <1>1, FailsExecuting DEF trees, Spares
<1>2. CASE /\ IF o.to \in Path
              THEN \E u \in ItemCopied(local[Owner[s]], o.from, e, o.to) :
                      local' = [local EXCEPT ![Owner[s]] = u]
              ELSE UNCHANGED local
           /\ CGoto(s, "operations")
           /\ UNCHANGED <<served, plan, applied, mode, csnap, rsnap, todo, cjob,
                          serverErrors, server, up, down>>
  <2>1. Apart(s, o.to) /\ cpc'[s] = "operations"
    BY <1>2 DEF CopyItem, TypeOK, ClientTyped, Executing, Ahead, CGoto
  <2>2. local[Owner[s]] \in Tree /\ Owner[s] \in Client /\ local \in [Client -> Tree]
    BY SessionAssumption DEF TypeOK, TreesTyped
  <2>3. local'[Owner[s]] = local[Owner[s]]
        \/ (o.to \in Path /\ local'[Owner[s]] \in ItemCopied(local[Owner[s]], o.from, e, o.to))
    BY <1>2, <2>2
  <2>4. o.to \in Path => \A p \in Matching(s) :
            \A u \in ItemCopied(local[Owner[s]], o.from, e, o.to) : u[p] = local[Owner[s]][p]
    <3>1. o.from \in Place
      BY OpParts DEF CopyItem, TypeOK, JobsTyped
    <3>2. e \in Entry
      BY <2>2, <3>1, StoredTyped
    <3> HIDE DEF e
    <3> QED
      BY <2>1, <2>2, <3>2, MatchingFilesStay DEF Executing
  <2>5. Spares(s)
    BY <1>2, <2>3, <2>4 DEF Spares
  <2> QED
    BY <1>2, <2>1, <2>5, MovesExecuting DEF SamePlan
<1> QED
  BY <1>1, <1>2 DEF CopyItem

\* Whatever the client does next, what it leaves alone stays.
LEMMA ClientExecuting ==
  ASSUME TypeOK, NEW s \in Session, Executing(s), ~ Opening(s), ClientStep(s) \/ ClientDies(s)
  PROVE  Executing(s)'
<1>1. CASE ReceiveUnexpected(s) \/ ConnectionLost(s) \/ ClientDies(s)
  BY <1>1, FailsExecuting DEF ReceiveUnexpected, ConnectionLost, ClientDies, trees, Spares
<1>2. CASE ExecuteOperation(s)
  BY <1>2, OperationExecuting DEF ExecuteOperation
<1>3. CASE SendDone(s)
  <2>1. Simple("DONE") \in UpMessage /\ Aimed(s, Simple("DONE")) /\ cpc'[s] = "awaitDone"
    BY <1>3, UpMessages DEF Aimed, Simple, SendDone, CGoto, TypeOK, ClientTyped
  <2> QED
    BY <1>3, <2>1, SendsExecuting DEF SendDone
<1>4. CASE SkipFile(s) \/ DrainReply(s)
  <2>1. Messages(down'[s]) \subseteq Messages(down[s]) /\ cpc'[s] \in {"operations", "awaitDone"}
    BY <1>4, ReceivedMessages DEF SkipFile, DrainReply, CGoto, TypeOK, ClientTyped
  <2>2. Spares(s) /\ SamePlan(s) /\ UNCHANGED <<todo, server, up>>
    BY <1>4 DEF Spares, SamePlan, SkipFile, DrainReply, trees, Begun
  <2> QED
    BY <2>1, <2>2, MovesExecuting
<1>5. CASE ReceiveDone(s)
  <2>1. CASE ClientFails(s)
    BY <1>5, <2>1, FailsExecuting DEF ReceiveDone, trees, Spares
  <2>2. CASE /\ CGoto(s, "ok") /\ Received(s)
             /\ UNCHANGED <<mode, csnap, rsnap, todo, cjob, serverErrors, server, up>>
    <3>1. Messages(down'[s]) \subseteq Messages(down[s]) /\ cpc'[s] = "ok"
      BY <1>5, <2>2, ReceivedMessages DEF ReceiveDone, CGoto, TypeOK, ClientTyped
    <3>2. Spares(s) /\ SamePlan(s)
      BY <1>5, <2>2 DEF Spares, SamePlan, ReceiveDone, trees
    <3> QED
      BY <2>2, <3>1, <3>2, MovesExecuting
  <2> QED
    BY <1>5, <2>1, <2>2 DEF ReceiveDone
<1> QED
  BY <1>1, <1>2, <1>3, <1>4, <1>5, WriteReceivedExecuting, FinishReceivedExecuting,
     CopyItemExecuting DEF ClientStep, Opening, ReceiveOK, ScanLocal, ReceiveMetadata

\* The handler goes on to something else, and keeps quiet.
LEMMA ServesExecuting ==
  ASSUME TypeOK, NEW s \in Session, Executing(s), Spares(s), UNCHANGED <<plan, client, down>>,
         Messages(up'[s]) \subseteq Messages(up[s]),
         spc'[s] \in {"writing", "copying"} => Aimed(s, sjob'[s]),
         spc'[s] # "sending"
  PROVE  Executing(s)'
<1>1. SamePlan(s) /\ todo' = todo /\ cpc' = cpc /\ cjob' = cjob /\ down' = down
  BY DEF client, SamePlan
<1>2. Ahead(s)'
  BY <1>1, SamePlanAimed DEF Ahead, Executing
<1> QED
  BY <1>1, <1>2, GoesOn

\* It says something.
LEMMA AnswersExecuting ==
  ASSUME TypeOK, NEW s \in Session, Executing(s), Spares(s), UNCHANGED <<plan, client>>,
         Messages(up'[s]) \subseteq Messages(up[s]),
         NEW m \in DownMessage, NEW next \in {"scan", "loop", "closing"}, Reply(s, m, next),
         Aimed(s, m)
  PROVE  Executing(s)'
<1>1. SamePlan(s) /\ todo' = todo /\ cpc' = cpc /\ cjob' = cjob
  BY DEF client, SamePlan
<1>2. /\ Messages(down'[s]) \subseteq Messages(down[s]) \cup {m}
      /\ \/ spc'[s] = next /\ out'[s] = out[s]
         \/ spc'[s] = "sending" /\ out'[s].message = m
  BY ReplyMessages
<1>3. \A x \in Messages(up'[s]) \cup Messages(down'[s]) : Aimed(s, x)
  BY <1>2 DEF Ahead, Executing
<1>4. Ahead(s)'
  BY <1>1, <1>2, <1>3, SamePlanAimed DEF Ahead, Executing
<1> QED
  BY <1>1, <1>4, GoesOn

LEMMA RefusesExecuting ==
  ASSUME TypeOK, NEW s \in Session, Executing(s), Spares(s), UNCHANGED <<plan, client>>,
         Messages(up'[s]) \subseteq Messages(up[s]), Refuse(s)
  PROVE  Executing(s)'
<1> DEFINE m == Simple("ERROR")
<1>1. m \in DownMessage /\ Aimed(s, m) /\ Reply(s, m, "loop")
  BY DownMessages DEF Simple, Aimed, Refuse
<1> HIDE DEF m
<1> QED
  BY <1>1, AnswersExecuting

LEMMA TakesMessages ==
  ASSUME TypeOK, NEW s \in Session, Executing(s), NEW t, t # "nothing", Takes(s, t)
  PROVE  /\ Head(up[s]) \in UpMessage /\ Head(up[s]).type = t /\ Aimed(s, Head(up[s]))
         /\ Messages(up'[s]) \subseteq Messages(up[s])
  BY TakenMessages, OfferedHead DEF Takes, Executing, Ahead

LEMMA SendFileExecuting ==
  ASSUME TypeOK, NEW s \in Session, Executing(s), SendFile(s)
  PROVE  Executing(s)'
<1> DEFINE p == Head(up[s]).path
           m == File(p, served[p])
<1>1. /\ p \in Path /\ Apart(s, p) /\ Messages(up'[s]) \subseteq Messages(up[s])
      /\ UNCHANGED <<plan, client>> /\ Spares(s)
  BY TakesMessages, UpParts DEF SendFile, Aimed, Spares, trees
<1>2. CASE Refuse(s)
  BY <1>1, <1>2, RefusesExecuting
<1>3. CASE IsFile(served, p) /\ Reply(s, m, "loop")
  <2>1. m \in DownMessage /\ Aimed(s, m)
    BY <1>1, <1>3, DownMessages DEF IsFile, File, Aimed
  <2> HIDE DEF m
  <2> QED
    BY <1>1, <1>3, <2>1, AnswersExecuting
<1> QED
  BY <1>2, <1>3 DEF SendFile, Succeeds

LEMMA ReceiveFileExecuting ==
  ASSUME TypeOK, NEW s \in Session, Executing(s), ReceiveFile(s)
  PROVE  Executing(s)'
<1> DEFINE m == Head(up[s])
           t == TryWithParents(served, m.path)
<1>1. /\ m \in UpMessage /\ m.type = "FILE" /\ Aimed(s, m)
      /\ Messages(up'[s]) \subseteq Messages(up[s])
      /\ UNCHANGED <<plan, client, local>>
  BY TakesMessages DEF ReceiveFile, Begun
<1>2. m.path \in Path /\ Apart(s, m.path)
  BY <1>1, UpParts DEF FileMessage, Aimed
<1>3. served \in Tree /\ t \in Tree
  BY <1>2, TreeOperations DEF TypeOK, TreesTyped
<1>4. \A p \in Matching(s) : t[p] = served[p] /\ [t EXCEPT ![m.path] = Torn][p] = t[p]
  BY <1>2, <1>3, MatchingFilesStay DEF Executing
<1>5. CASE /\ served' = [t EXCEPT ![m.path] = Torn]
           /\ sjob' = [sjob EXCEPT ![s] = m]
           /\ SGoto(s, "writing") /\ UNCHANGED <<down, out, refused>>
  <2>1. Spares(s)
    BY <1>1, <1>4, <1>5 DEF Spares
  <2>2. sjob'[s] = m /\ spc'[s] = "writing"
    BY <1>5 DEF SGoto, TypeOK, ServerTyped
  <2> QED
    BY <1>1, <1>5, <2>1, <2>2, ServesExecuting
<1>6. CASE Refuse(s) /\ served' = t
  <2>1. Spares(s)
    BY <1>1, <1>4, <1>6 DEF Spares
  <2> QED
    BY <1>1, <1>6, <2>1, RefusesExecuting
<1> QED
  BY <1>5, <1>6 DEF ReceiveFile

LEMMA FinishFileExecuting ==
  ASSUME TypeOK, NEW s \in Session, Executing(s), FinishFile(s)
  PROVE  Executing(s)'
<1>1. sjob[s] \in FileMessage /\ Aimed(s, sjob[s]) /\ UNCHANGED <<plan, client, local, up>>
  BY DEF FinishFile, TypeOK, JobsTyped, Executing, Ahead
<1>2. sjob[s].path \in Path /\ Apart(s, sjob[s].path)
  BY <1>1 DEF FileMessage, Aimed
<1>3. served \in Tree
  BY DEF TypeOK, TreesTyped
<1>4. CASE /\ served' \in Filled(served, sjob[s].path, sjob[s].data)
           /\ SGoto(s, "loop") /\ UNCHANGED <<down, out, refused, faults>>
  <2>1. Spares(s)
    BY <1>1, <1>2, <1>3, <1>4, MatchingFilesStay DEF Spares, Executing
  <2>2. spc'[s] = "loop"
    BY <1>4 DEF SGoto, TypeOK, ServerTyped
  <2> QED
    BY <1>1, <1>4, <2>1, <2>2, ServesExecuting
<1>5. CASE Refuse(s) /\ UNCHANGED served
  BY <1>1, <1>5, RefusesExecuting DEF Spares
<1> QED
  BY <1>4, <1>5 DEF FinishFile

LEMMA DeleteFileExecuting ==
  ASSUME TypeOK, NEW s \in Session, Executing(s), DeleteFile(s)
  PROVE  Executing(s)'
<1> DEFINE q == Head(up[s]).path
<1>1. /\ Apart(s, q) /\ q \in Place /\ spc[s] = "loop"
      /\ Messages(up'[s]) \subseteq Messages(up[s])
      /\ UNCHANGED <<plan, client, local>>
  BY TakesMessages, UpParts DEF DeleteFile, Begun, Aimed, Takes
<1>2. CASE UNCHANGED <<served, spc, down, out, refused>>
  <2>1. Spares(s) /\ UNCHANGED down /\ spc'[s] = "loop"
    BY <1>1, <1>2 DEF Spares
  <2> QED
    BY <1>1, <2>1, ServesExecuting
<1>3. CASE Refuse(s) /\ UNCHANGED served
  BY <1>1, <1>3, RefusesExecuting DEF Spares
<1>4. CASE /\ q \in Path /\ served' = Pruned(Removed(served, q), q)
           /\ UNCHANGED <<spc, down, out, refused>>
  <2>1. served \in Tree
    BY DEF TypeOK, TreesTyped
  <2>2. Spares(s)
    BY <1>1, <1>4, <2>1, MatchingFilesStay DEF Spares, Executing
  <2>3. UNCHANGED down /\ spc'[s] = "loop"
    BY <1>1, <1>4
  <2> QED
    BY <1>1, <2>2, <2>3, ServesExecuting
<1> QED
  BY <1>1, <1>2, <1>3, <1>4, PlaceCases DEF DeleteFile

LEMMA ReceiveCopyExecuting ==
  ASSUME TypeOK, NEW s \in Session, Executing(s), ReceiveCopy(s)
  PROVE  Executing(s)'
<1> DEFINE m == Head(up[s])
<1>1. /\ m.type = "COPY" /\ Aimed(s, m)
      /\ Messages(up'[s]) \subseteq Messages(up[s])
      /\ UNCHANGED <<plan, client, local>>
  BY TakesMessages DEF ReceiveCopy, Begun
<1>2. served \in Tree /\ Apart(s, m.to)
  BY <1>1 DEF TypeOK, TreesTyped, Aimed
<1>3. CASE /\ served' = ReadyForCopy(served, m.to)
           /\ sjob' = [sjob EXCEPT ![s] = m]
           /\ SGoto(s, "copying") /\ UNCHANGED <<down, out, refused>>
  <2>1. m.to \in Path => Spares(s)
    BY <1>1, <1>2, <1>3, MatchingFilesStay DEF Spares, Executing
  <2>2. m.to \notin Path => Spares(s)
    BY <1>1, <1>3 DEF Spares, ReadyForCopy
  <2>3. sjob'[s] = m /\ spc'[s] = "copying"
    BY <1>3 DEF SGoto, TypeOK, ServerTyped
  <2> QED
    BY <1>1, <1>3, <2>1, <2>2, <2>3, ServesExecuting
<1>4. CASE Refuse(s) /\ UNCHANGED served
  BY <1>1, <1>4, RefusesExecuting DEF Spares
<1> QED
  BY <1>3, <1>4 DEF ReceiveCopy

LEMMA FinishCopyExecuting ==
  ASSUME TypeOK, NEW s \in Session, Executing(s), FinishCopy(s)
  PROVE  Executing(s)'
<1> DEFINE from == sjob[s].from
           to == sjob[s].to
           e == StoredAt(served, s, from)
<1>1. Apart(s, to) /\ served \in Tree /\ UNCHANGED <<plan, client, local, up>>
  BY DEF FinishCopy, TypeOK, TreesTyped, JobsTyped, Executing, Ahead, Aimed
<1>2. CASE /\ (to \in Path /\ served' \in ItemCopied(served, from, e, to)) \/ UNCHANGED served
           /\ SGoto(s, "loop") /\ UNCHANGED <<down, out, refused>>
  <2>1. to \in Path => \A p \in Matching(s) :
            \A u \in ItemCopied(served, from, e, to) : u[p] = served[p]
    <3>1. from \in Place
      BY UpParts DEF FinishCopy, TypeOK, ServerTyped, JobsTyped
    <3>2. e \in Entry
      BY <1>1, <3>1, StoredTyped
    <3> HIDE DEF e
    <3> QED
      BY <1>1, <3>2, MatchingFilesStay DEF Executing
  <2>2. Spares(s)
    BY <1>1, <1>2, <2>1 DEF Spares
  <2>3. spc'[s] = "loop"
    BY <1>2 DEF SGoto, TypeOK, ServerTyped
  <2> QED
    BY <1>1, <1>2, <2>2, <2>3, ServesExecuting
<1>3. CASE Refuse(s) /\ UNCHANGED served
  BY <1>1, <1>3, RefusesExecuting DEF Spares
<1> QED
  BY <1>2, <1>3 DEF FinishCopy

\* ... and so with what the handler does.
LEMMA HandlerExecuting ==
  ASSUME TypeOK, NEW s \in Session, Executing(s), HandlerStep(s)
  PROVE  Executing(s)'
<1>1. CASE \/ ReceiveHello(s) \/ ExchangeMetadata(s) \/ ReceiveLast(s)
           \/ ReceiveFails(s) \/ ReplySent(s) \/ ScanServed(s)
  <2>1. Spares(s) /\ UNCHANGED <<plan, client, sjob>>
    BY <1>1 DEF ReceiveHello, ExchangeMetadata, ReceiveLast, ReceiveFails, ReplySent, ScanServed,
                trees, Spares
  <2>2. Messages(up'[s]) \subseteq Messages(up[s])
    BY <1>1, TakenMessages DEF ReceiveHello, ExchangeMetadata, ReceiveLast, ReceiveFails, ReplySent,
                               ScanServed
  <2>3. /\ \A t \in {"OK", "ERROR", "DONE"} : Simple(t) \in DownMessage /\ Aimed(s, Simple(t))
        /\ Metadata(ssnap[s]) \in DownMessage /\ Aimed(s, Metadata(ssnap[s]))
        /\ out[s].message \in DownMessage /\ out[s].next \in {"scan", "loop", "closing"}
        /\ spc[s] = "sending" => Aimed(s, out[s].message)
    BY DownMessages DEF Simple, Metadata, Aimed, TypeOK, ServerTyped, Executing, Ahead
  <2>4. CASE \E m \in DownMessage, next \in {"scan", "loop", "closing"} :
                Reply(s, m, next) /\ Aimed(s, m)
    BY <2>1, <2>2, <2>4, AnswersExecuting
  <2>5. CASE \E l \in {"metadata", "closing"} : SGoto(s, l) /\ UNCHANGED <<down, out>>
    <3>1. spc'[s] \in {"metadata", "closing"} /\ UNCHANGED down
      BY <2>5 DEF SGoto, TypeOK, ServerTyped
    <3> QED
      BY <2>1, <2>2, <3>1, ServesExecuting
  <2> QED
    BY <1>1, <2>3, <2>4, <2>5
       DEF ReceiveHello, ExchangeMetadata, ReceiveLast, ReceiveFails, ReplySent, ScanServed
<1>2. CASE ReplyAbandoned(s)
  <2>1. /\ Spares(s) /\ UNCHANGED <<plan, client, sjob, out, up>>
        /\ spc'[s] \in {"scan", "loop", "closing"}
    BY <1>2 DEF ReplyAbandoned, trees, Spares, SGoto, TypeOK, ServerTyped
  <2>2. CASE UNCHANGED down
    BY <2>1, <2>2, ServesExecuting
  <2>3. CASE down' = [down EXCEPT ![s] = Append(@, Simple("FRAGMENT"))]
    <3> DEFINE m == Simple("FRAGMENT")
    <3>1. m \in DownMessage /\ Aimed(s, m)
      BY DownMessages DEF Simple, Aimed
    <3> HIDE DEF m
    <3>2. down'[s] = Append(down[s], m) /\ down[s] \in Seq(DownMessage)
      BY <2>3 DEF m, TypeOK, DownTyped
    <3>3. Messages(down'[s]) = Messages(down[s]) \cup {m}
      BY <3>1, <3>2, AppendMessages
    <3>4. SamePlan(s) /\ todo' = todo /\ cpc' = cpc /\ cjob' = cjob /\ up' = up
      BY <2>1 DEF client, SamePlan
    <3>5. \A x \in Messages(up'[s]) \cup Messages(down'[s]) : Aimed(s, x)
      BY <3>1, <3>3, <3>4 DEF Executing, Ahead
    <3>6. Ahead(s)'
      BY <2>1, <3>4, <3>5, SamePlanAimed DEF Ahead, Executing
    <3> QED
      BY <2>1, <3>4, <3>6, GoesOn
  <2> QED
    BY <1>2, <2>2, <2>3 DEF ReplyAbandoned
<1>3. CASE CloseConnection(s)
  <2>1. /\ Spares(s) /\ SamePlan(s) /\ UNCHANGED <<client, sjob>> /\ spc'[s] = "closed"
        /\ up'[s] = <<>> /\ (down'[s] = down[s] \/ down'[s] = <<>>)
    BY <1>3 DEF CloseConnection, trees, client, Spares, SamePlan, SGoto, TypeOK, ServerTyped,
                UpTyped, DownTyped
  <2>2. todo' = todo /\ cpc' = cpc /\ cjob' = cjob
    BY <2>1 DEF client
  <2>3. Ahead(s)'
    BY <2>1, <2>2, SamePlanAimed, EmptyMessages DEF Ahead, Executing
  <2> QED
    BY <2>1, <2>3, GoesOn
<1> QED
  BY <1>1, <1>2, <1>3, SendFileExecuting, ReceiveFileExecuting, FinishFileExecuting,
     DeleteFileExecuting, ReceiveCopyExecuting, FinishCopyExecuting DEF HandlerStep

-----------------------------------------------------------------------------
(* Before there is a plan                                                  *)

\* A step that changes neither tree, and makes no plan.
LEMMA StillHandshaking ==
  ASSUME TypeOK, NEW s \in Session, Handshaking(s), UNCHANGED trees,
         cpc'[s] = "awaitMetadata" =>
             \/ Seen(csnap'[s], local[Owner[s]])
             \/ cpc[s] = "awaitMetadata" /\ csnap'[s] = csnap[s],
         spc'[s] = "metadata" =>
             \/ Seen(ssnap'[s], served)
             \/ spc[s] = "metadata" /\ ssnap'[s] = ssnap[s],
         \A m \in Messages(down'[s]) :
             \/ m \in Messages(down[s])
             \/ m.type # "FILE" /\ (m.type = "METADATA" => Seen(m.listing, served)),
         \A m \in Messages(up'[s]) : m \in Messages(up[s]) \/ m.type \in {"HELLO", "METADATA"}
  PROVE  Handshaking(s)'
<1>1. plan' = plan /\ local' = local /\ served' = served
  BY DEF trees
<1> QED
  BY <1>1 DEF Handshaking

LEMMA ListsSeen ==
  ASSUME NEW t \in Tree, WellFormed(t), NEW l, Lists(l, t)
  PROVE  Seen(l, t)
  BY FlatListings DEF Lists

LEMMA ClientHandshaking ==
  ASSUME TypeOK, NEW s \in Session, Handshaking(s),
         Connect(s) \/ ReceiveOK(s) \/ ScanLocal(s), Opening(s)'
  PROVE  Handshaking(s)'
<1>1. UNCHANGED trees
  BY DEF Connect, ReceiveOK, ScanLocal
<1>2. CASE Connect(s)
  <2>1. cpc'[s] = "awaitOK" /\ spc'[s] = "hello" /\ UNCHANGED down
    BY <1>2 DEF Connect, CGoto, TypeOK, ClientTyped, ServerTyped
  <2>2. PICK v \in Majors : up'[s] = <<Hello(mode[s], v)>>
    BY <1>2 DEF Connect, TypeOK, UpTyped
  <2>3. \A m \in Messages(up'[s]) : m.type = "HELLO"
    BY <2>2 DEF Messages, Hello
  <2> QED
    BY <1>1, <2>1, <2>3, StillHandshaking
<1>3. CASE ReceiveOK(s)
  <2>1. cpc'[s] = "scan" /\ UNCHANGED <<up, spc, ssnap>>
    BY <1>3 DEF ReceiveOK, CGoto, server, TypeOK, ClientTyped
  <2>2. Messages(down'[s]) \subseteq Messages(down[s])
    BY <1>3, ReceivedMessages DEF ReceiveOK
  <2> QED
    BY <1>1, <2>1, <2>2, StillHandshaking
<1>4. CASE ScanLocal(s)
  <2>1. ~ ClientFails(s)
    BY DEF ClientFails, CGoto, Opening, TypeOK, ClientTyped
  <2>2. PICK l \in Listing : /\ Lists(l, local[Owner[s]]) /\ Sent(s, Metadata(l))
                             /\ csnap' = [csnap EXCEPT ![s] = l]
    BY <1>4, <2>1 DEF ScanLocal
  <2>3. UNCHANGED <<spc, ssnap, down>>
    BY <1>4, <2>1 DEF ScanLocal, server
  <2>4. csnap'[s] = l /\ local[Owner[s]] \in Tree
    BY <2>2, SessionAssumption DEF TypeOK, ClientTyped, TreesTyped
  <2>5. Seen(l, local[Owner[s]])
    BY <2>2, <2>4, ListsSeen DEF Handshaking
  <2>6. Metadata(l) \in UpMessage /\ Metadata(l).type = "METADATA"
    BY UpMessages DEF Metadata
  <2>7. Messages(up'[s]) = Messages(up[s]) \cup {Metadata(l)}
    BY <2>2, <2>6, SentMessages
  <2> QED
    BY <1>1, <2>3, <2>4, <2>5, <2>6, <2>7, StillHandshaking
<1> QED
  BY <1>2, <1>3, <1>4

\* Until the handshake is over the handler takes no operation.
LEMMA HandshakeIsQuiet ==
  ASSUME TypeOK, InStep, NEW s \in Session, HandlerStep(s), Opening(s)
  PROVE  /\ ~ (SendFile(s) \/ ReceiveFile(s) \/ FinishFile(s) \/ DeleteFile(s) \/ ReceiveCopy(s))
         /\ ~ FinishCopy(s)
         /\ UNCHANGED <<trees, client>>
<1>1. cpc[s] # "failed"
  BY DEF Opening
<1>2. /\ ~ (SendFile(s) \/ ReceiveFile(s) \/ FinishFile(s) \/ DeleteFile(s) \/ ReceiveCopy(s))
      /\ ~ FinishCopy(s)
  BY <1>1, LoopIsLater, TakesInStep
     DEF SendFile, ReceiveFile, FinishFile, DeleteFile, ReceiveCopy, FinishCopy
<1> QED
  BY <1>2 DEF HandlerStep, ReceiveHello, ScanServed, ExchangeMetadata, ReceiveFails, ReceiveLast,
              ReplySent, ReplyAbandoned, CloseConnection

\* What the handler lists and says until the handshake is over.
LEMMA HandlerOpening ==
  ASSUME TypeOK, InStep, NEW s \in Session, HandlerStep(s), Opening(s)
  PROVE  /\ UNCHANGED <<trees, client>>
         /\ Messages(up'[s]) \subseteq Messages(up[s])
         /\ spc'[s] = "metadata" => \/ Lists(ssnap'[s], served)
                                    \/ spc[s] = "metadata" /\ ssnap'[s] = ssnap[s]
         /\ \A m \in Messages(down'[s]) :
                \/ m \in Messages(down[s])
                \/ m.type \notin {"FILE", "METADATA"}
                \/ spc[s] = "metadata" /\ m.type = "METADATA" /\ m.listing = ssnap[s]
<1> DEFINE Says(m) == \/ m.type \notin {"FILE", "METADATA"}
                      \/ spc[s] = "metadata" /\ m.type = "METADATA" /\ m.listing = ssnap[s]
           Scans == spc'[s] = "metadata" => \/ Lists(ssnap'[s], served)
                                            \/ spc[s] = "metadata" /\ ssnap'[s] = ssnap[s]
           Talks == \A m \in Messages(down'[s]) : m \in Messages(down[s]) \/ Says(m)
<1>1. HandshakeInStep(s) /\ cpc[s] # "failed"
  BY DEF InStep, SessionInStep, Opening
<1>2. /\ ~ (SendFile(s) \/ ReceiveFile(s) \/ FinishFile(s) \/ DeleteFile(s) \/ ReceiveCopy(s))
      /\ ~ FinishCopy(s)
  BY HandshakeIsQuiet
<1>3. UNCHANGED <<trees, client>>
  BY HandshakeIsQuiet
<1>4. Messages(up'[s]) \subseteq Messages(up[s])
  <2>1. CASE ReceiveHello(s) \/ ExchangeMetadata(s) \/ ReceiveLast(s)
    BY <2>1, TakenMessages DEF ReceiveHello, ExchangeMetadata, ReceiveLast
  <2>2. CASE CloseConnection(s)
    BY <2>2, EmptyMessages DEF CloseConnection, TypeOK, UpTyped
  <2>3. CASE ScanServed(s) \/ ReceiveFails(s) \/ ReplySent(s) \/ ReplyAbandoned(s)
    BY <2>3 DEF ScanServed, ReceiveFails, ReplySent, ReplyAbandoned
  <2> QED
    BY <1>2, <2>1, <2>2, <2>3 DEF HandlerStep
<1>5. ssnap \in [Session -> Listing] /\ spc \in [Session -> HandlerPC]
  BY DEF TypeOK, ServerTyped
<1>6. ASSUME NEW m \in DownMessage, NEW next \in {"scan", "loop", "closing"},
             Reply(s, m, next), Says(m)
      PROVE  Talks /\ Scans
  BY <1>6, ReplyMessages
<1>7. \A t \in {"OK", "ERROR", "DONE", "FRAGMENT"} : Simple(t) \in DownMessage /\ Says(Simple(t))
  BY DownMessages DEF Simple
<1> SUFFICES Scans /\ Talks
  BY <1>3, <1>4
<1> HIDE DEF Says, Scans, Talks
<1>8. CASE ReceiveHello(s) \/ ReceiveLast(s)
  BY <1>6, <1>7, <1>8 DEF ReceiveHello, ReceiveLast
<1>9. CASE ExchangeMetadata(s)
  <2>1. Metadata(ssnap[s]) \in DownMessage /\ Says(Metadata(ssnap[s]))
    BY <1>5, <1>9, DownMessages DEF ExchangeMetadata, Metadata, Says
  <2> QED
    BY <1>6, <1>7, <1>9, <2>1 DEF ExchangeMetadata
<1>10. CASE ReceiveFails(s)
  <2>1. CASE SGoto(s, "closing") /\ UNCHANGED <<down, out>>
    BY <1>5, <2>1 DEF SGoto, Scans, Talks
  <2> QED
    BY <1>6, <1>7, <1>10, <2>1 DEF ReceiveFails
<1>11. CASE ScanServed(s)
  <2>1. CASE /\ \E l \in Listing : Lists(l, served) /\ ssnap' = [ssnap EXCEPT ![s] = l]
             /\ UNCHANGED <<down, out>>
    BY <1>5, <2>1 DEF Scans, Talks
  <2> QED
    BY <1>6, <1>7, <1>11, <2>1 DEF ScanServed
<1>12. CASE ReplySent(s)
  <2>1. /\ out[s].message \in DownMessage /\ out[s].next \in {"scan", "loop", "closing"}
        /\ out[s].message.type = "ERROR" /\ Reply(s, out[s].message, out[s].next)
    BY <1>1, <1>12 DEF ReplySent, HandshakeInStep, TypeOK, ServerTyped
  <2> QED
    BY <1>6, <2>1 DEF Says
<1>13. CASE ReplyAbandoned(s)
  <2>1. spc'[s] = "closing"
    BY <1>1, <1>5, <1>13 DEF ReplyAbandoned, HandshakeInStep, SGoto
  <2>2. CASE UNCHANGED down
    BY <2>1, <2>2 DEF Scans, Talks
  <2>3. CASE down' = [down EXCEPT ![s] = Append(@, Simple("FRAGMENT"))]
    <3> DEFINE m == Simple("FRAGMENT")
    <3>1. m \in DownMessage /\ Says(m)
      BY <1>7
    <3>2. down'[s] = Append(down[s], m) /\ down[s] \in Seq(DownMessage)
      BY <2>3 DEF TypeOK, DownTyped
    <3> HIDE DEF m
    <3>3. Messages(down'[s]) = Messages(down[s]) \cup {m}
      BY <3>1, <3>2, AppendMessages
    <3> QED
      BY <2>1, <3>1, <3>3 DEF Scans, Talks
  <2> QED
    BY <1>13, <2>2, <2>3 DEF ReplyAbandoned
<1>14. CASE CloseConnection(s)
  <2>1. spc'[s] = "closed" /\ (down'[s] = down[s] \/ down'[s] = <<>>)
    BY <1>5, <1>14 DEF CloseConnection, SGoto, TypeOK, DownTyped
  <2> QED
    BY <2>1, EmptyMessages DEF Scans, Talks
<1> QED
  BY <1>2, <1>8, <1>9, <1>10, <1>11, <1>12, <1>13, <1>14 DEF HandlerStep

LEMMA HandlerHandshaking ==
  ASSUME TypeOK, InStep, NEW s \in Session, Handshaking(s), HandlerStep(s), Opening(s)
  PROVE  Handshaking(s)'
<1>1. csnap' = csnap /\ cpc' = cpc /\ UNCHANGED trees
  BY HandlerOpening DEF client
<1>2. served \in Tree /\ WellFormed(served)
  BY DEF TypeOK, TreesTyped, Handshaking
<1>3. spc'[s] = "metadata" => \/ Seen(ssnap'[s], served)
                              \/ spc[s] = "metadata" /\ ssnap'[s] = ssnap[s]
  BY <1>2, HandlerOpening, ListsSeen
<1>4. \A m \in Messages(down'[s]) :
          \/ m \in Messages(down[s])
          \/ m.type # "FILE" /\ (m.type = "METADATA" => Seen(m.listing, served))
  BY HandlerOpening DEF Handshaking
<1> QED
  BY <1>1, <1>3, <1>4, HandlerOpening, StillHandshaking

-----------------------------------------------------------------------------
(* The whole session                                                       *)

LEMMA PlanBegins ==
  ASSUME TypeOK, InStep, NEW s \in Session, Handshaking(s), ReceiveMetadata(s)
  PROVE  Executing(s)' /\ ~ Opening(s)'
<1> DEFINE remote == Head(down[s]).listing
           src == IF mode[s] = "push" THEN csnap[s] ELSE remote
           dst == IF mode[s] = "push" THEN remote ELSE csnap[s]
<1>1. /\ cpc[s] = "awaitMetadata" /\ cpc'[s] = "operations"
      /\ Arrived(s) = "METADATA" /\ Received(s)
      /\ UNCHANGED <<local, served, mode, csnap, cjob, server, up>>
  BY DEF ReceiveMetadata, CGoto, TypeOK, ClientTyped
<1>2. HandshakeInStep(s)
  BY <1>1 DEF InStep, SessionInStep, Opening
<1>3. down'[s] = <<>> /\ spc[s] \in {"loop", "closing", "closed"} /\ spc' = spc
  BY <1>1, <1>2, ReceivedTypes DEF HandshakeInStep, server
<1>4. /\ Head(down[s]) \in Messages(down[s]) /\ remote \in Listing
      /\ Head(down[s]).type = "METADATA"
  BY <1>1, ReceivedMessages, ArrivedHead, DownParts
<1>5. Seen(csnap[s], local[Owner[s]]) /\ Seen(remote, served)
  BY <1>1, <1>4 DEF Handshaking
<1>6. csnap[s] \in Listing /\ mode[s] \in {"push", "pull"}
  BY DEF TypeOK, ClientTyped
<1>7. PICK rank \in Orders(DestToSource(src, dst)) : todo'[s] = Plan(src, dst, rank)
  BY DEF ReceiveMetadata, TypeOK, TreesTyped, ClientTyped
<1>8. rsnap'[s] = remote /\ csnap'[s] = csnap[s] /\ mode'[s] = mode[s]
  BY <1>1 DEF ReceiveMetadata, TypeOK, ClientTyped
<1> HIDE DEF remote
<1>9. ASSUME NEW o \in todo'[s], o.to \in Path
      PROVE  csnap'[s][o.to] # rsnap'[s][o.to]
  <2>1. src[o.to] # dst[o.to]
    BY <1>4, <1>6, <1>7, <1>9, PlanWritesOnlyDifferences
  <2> QED
    BY <1>8, <2>1
<1>10. \A m \in Messages(up'[s]) : m.type \in {"HELLO", "METADATA"}
  BY <1>1 DEF Handshaking
<1>11. Ahead(s)'
  BY <1>1, <1>3, <1>9, <1>10, EmptyMessages DEF Ahead, Apart, Aimed
<1>12. ASSUME NEW p \in Matching(s)'
       PROVE  Target(s)'[p] = csnap'[s][p]
  BY <1>1, <1>5, <1>8, <1>12 DEF Matching, Target, Seen
<1>13. Flat(csnap[s])' /\ Flat(rsnap[s])'
  BY <1>5, <1>8 DEF Seen, Flat
<1> QED
  BY <1>1, <1>11, <1>12, <1>13 DEF Executing, Opening

LEMMA CrashKept ==
  ASSUME TypeOK, NEW s \in Session, SessionKept(s), ServerCrash
  PROVE  SessionKept(s)'
<1>1. /\ UNCHANGED <<trees, client, ssnap, sjob, out, up>>
      /\ spc'[s] = spc[s] \/ spc'[s] = "closed"
      /\ down'[s] = down[s] \/ down'[s] = <<>>
  BY DEF ServerCrash
<1>2. /\ cpc' = cpc /\ csnap' = csnap /\ plan' = plan /\ todo' = todo /\ cjob' = cjob
      /\ (Opening(s)' <=> Opening(s)) /\ SamePlan(s) /\ Spares(s)
  BY <1>1 DEF client, trees, Opening, SamePlan, Spares
<1>3. ASSUME Handshaking(s) PROVE Handshaking(s)'
  BY <1>1, <1>2, <1>3, EmptyMessages, StillHandshaking
<1>4. ASSUME Executing(s) PROVE Executing(s)'
  <2>1. Ahead(s)'
    BY <1>1, <1>2, <1>4, SamePlanAimed, EmptyMessages DEF Ahead, Executing
  <2> QED
    BY <1>2, <1>4, <2>1, GoesOn
<1> QED
  BY <1>2, <1>3, <1>4 DEF SessionKept

LEMMA HandlerKept ==
  ASSUME TypeOK, InStep, NEW s \in Session, SessionKept(s), HandlerStep(s)
  PROVE  SessionKept(s)'
<1>1. cpc' = cpc /\ plan' = plan
  BY DEF HandlerStep, ReceiveHello, ScanServed, ExchangeMetadata, ReceiveFails, SendFile,
         ReceiveFile, FinishFile, DeleteFile, ReceiveCopy, FinishCopy, ReceiveLast, ReplySent,
         ReplyAbandoned, CloseConnection, client, trees, Begun
<1> QED
  BY <1>1, HandlerHandshaking, HandlerExecuting DEF SessionKept, Opening

LEMMA ClientKept ==
  ASSUME TypeOK, InStep, NEW s \in Session, SessionKept(s),
         Connect(s) \/ ClientStep(s) \/ ClientDies(s)
  PROVE  SessionKept(s)'
<1>1. CASE Connect(s) \/ ReceiveOK(s) \/ ScanLocal(s)
  <2>1. Opening(s) /\ plan' = plan
    BY <1>1 DEF Connect, ReceiveOK, ScanLocal, Opening, trees
  <2>2. Handshaking(s)
    BY <2>1 DEF SessionKept
  <2> QED
    BY <1>1, <2>1, <2>2, ClientHandshaking DEF SessionKept, Handshaking
<1>2. CASE ReceiveMetadata(s)
  <2>1. Opening(s)
    BY <1>2 DEF ReceiveMetadata, Opening
  <2> QED
    BY <1>2, <2>1, PlanBegins DEF SessionKept
<1>3. CASE ReceiveUnexpected(s) \/ ConnectionLost(s) \/ ClientDies(s)
  <2>1. ClientFails(s) /\ UNCHANGED trees /\ cpc'[s] = "failed"
    BY <1>3, FailingMessages DEF ReceiveUnexpected, ConnectionLost, ClientDies
  <2>2. plan' = plan /\ Spares(s)
    BY <2>1 DEF trees, Spares
  <2> QED
    BY <2>1, <2>2, FailsExecuting DEF SessionKept, Opening, Handshaking
<1>4. CASE \/ ExecuteOperation(s) \/ SkipFile(s) \/ WriteReceivedFile(s) \/ FinishReceivedFile(s)
           \/ CopyItem(s) \/ SendDone(s) \/ DrainReply(s) \/ ReceiveDone(s)
  <2>1. ~ Opening(s) /\ ClientStep(s)
    BY <1>4 DEF Opening, ExecuteOperation, Current, SkipFile, WriteReceivedFile,
                FinishReceivedFile, CopyItem, SendDone, DrainReply, ReceiveDone, ClientStep
  <2>2. plan' = plan
    BY <1>4 DEF ExecuteOperation, Upload, SendRemote, RequestFile, PrepareCopy, DeleteLocal,
                SkipFile, WriteReceivedFile, FinishReceivedFile, CopyItem, SendDone, DrainReply,
                ReceiveDone, trees, Begun
  <2>3. ~ Opening(s)'
    <3>1. \/ UNCHANGED cpc
          \/ \E l \in {"operations", "awaitFile", "writing", "copying", "awaitDone", "ok", "failed"} :
                CGoto(s, l)
      BY <1>4 DEF ExecuteOperation, Upload, SendRemote, RequestFile, PrepareCopy, DeleteLocal,
                  SkipFile, WriteReceivedFile, FinishReceivedFile, CopyItem, SendDone, DrainReply,
                  ReceiveDone, ClientFails
    <3> QED
      BY <2>1, <3>1 DEF Opening, CGoto, TypeOK, ClientTyped
  <2> QED
    BY <2>1, <2>2, <2>3, ClientExecuting DEF SessionKept
<1> QED
  BY <1>1, <1>2, <1>3, <1>4 DEF ClientStep

LEMMA InitKept == Init => KeptInv
<1> SUFFICES ASSUME Init, NEW s \in Session PROVE SessionKept(s)
  BY DEF KeptInv
<1>1. /\ cpc[s] = "idle" /\ spc[s] = "none" /\ plan[s] = {} /\ up[s] = <<>> /\ down[s] = <<>>
      /\ Owner[s] \in Client
  BY SessionAssumption DEF Init
<1>2. WellFormed(local[Owner[s]]) /\ WellFormed(served)
  BY <1>1, ScenarioAssumption DEF Init
<1> QED
  BY <1>1, <1>2, EmptyMessages DEF SessionKept, Handshaking, Opening

LEMMA NextKept == TypeOK /\ InStep /\ KeptInv /\ [Next]_vars => KeptInv'
<1> SUFFICES ASSUME TypeOK, InStep, KeptInv, [Next]_vars, NEW s \in Session, Alone(s)'
             PROVE  SessionKept(s)'
  BY DEF KeptInv
<1>1. CASE UNCHANGED vars
  <2>1. /\ UNCHANGED <<local, served, plan, mode, cpc, csnap, rsnap, todo, cjob>>
        /\ UNCHANGED <<spc, ssnap, sjob, out, up, down>>
    BY <1>1 DEF vars, trees, client, server
  <2>2. SessionKept(s)
    BY <2>1 DEF KeptInv, Alone
  <2> QED
    BY <2>1, <2>2 DEF SessionKept, Opening, Handshaking, Executing, Ahead, Aimed, Apart, Matching,
                      Target
<1>2. CASE Next /\ ~ UNCHANGED vars
  <2>1. /\ SessionKept(s)
        /\ ServerCrash \/ Connect(s) \/ ClientStep(s) \/ ClientDies(s) \/ HandlerStep(s)
    BY <1>2, StepIsItsOwn DEF KeptInv
  <2> QED
    BY <2>1, CrashKept, ClientKept, HandlerKept
<1> QED
  BY <1>1, <1>2

\* A session by itself leaves every file alone on which both listings agree: the plan
\* writes only where they differ (computeOperations), whatever is under way is of the
\* plan, and what is made, removed or pruned on the way to a path (createDirectory,
\* removeItem, deleteFile) is never one of those files, whatever fails, breaks or dies.
THEOREM SpecMatchingKept == Spec => []MatchingKept
<1>1. KeptInv => MatchingKept
  <2> SUFFICES ASSUME KeptInv, NEW s \in Session, Alone(s), plan[s] # {},
                      NEW p \in Path, csnap[s][p] = rsnap[s][p], csnap[s][p] # Absent
               PROVE  Target(s)[p] = csnap[s][p]
    BY DEF MatchingKept
  <2> QED
    BY DEF KeptInv, SessionKept, Handshaking, Executing, Matching
<1> QED
  BY <1>1, InitKept, NextKept, SpecTypeOK, SpecInStep, PTL DEF Spec

-----------------------------------------------------------------------------
(* What is missing or half written                                         *)

\* The files both sides have.
Both(s) == {p \in Path : csnap[s][p] # Absent /\ rsnap[s][p] # Absent}

\* The only path at which something can be torn or missing is the job's.
Known(t, doing, job, files) ==
    /\ \A p \in Path : t[p] = Torn => doing = "writing" /\ p = job.path
    /\ \A p \in files : t[p] = Absent => doing = "copying" /\ p = job.to
    /\ doing = "writing" => t[job.path] = Torn /\ job.data # Torn

Clear(t, files) == Whole(t) /\ \A p \in files : t[p] # Absent

\* What deletes is about a file one side does not have; what is sent is whole.
DeletesExtra(s) == \A o \in todo[s] : o.act = "delete" => o.to \notin Both(s)
SendsWhole(s) == \A m \in Messages(up[s]) : /\ m.type = "FILE" => m.data # Torn
                                            /\ m.type = "DELETE" => m.path \notin Both(s)
TempsWhole(s) == \A q \in TempPlace : temp[s][q] # Torn

\* A handler that closes before it is done may leave one hole; the client cannot succeed.
CutShort(s) == cpc[s] = "failed" \/ (cpc[s] # "ok" /\ \A m \in Messages(down[s]) : m.type # "DONE")
OneHole(s) == \E x : Holes(s) \subseteq {x}

PushHoles(s) ==
    /\ Whole(local[Owner[s]]) /\ TempsWhole(s) /\ DeletesExtra(s) /\ SendsWhole(s)
    /\ cpc[s] \notin {"awaitFile", "writing", "copying"}
    /\ spc[s] # "closed" => Known(served, spc[s], sjob[s], Both(s))
    /\ spc[s] = "closed" => Holes(s) = {} \/ (OneHole(s) /\ CutShort(s))

PullHoles(s) ==
    /\ Whole(served) /\ TempsWhole(s) /\ DeletesExtra(s)
    /\ spc[s] \notin {"writing", "copying"}
    /\ \A m \in Messages(up[s]) : m.type \notin {"FILE", "DELETE", "COPY"}
    /\ \A m \in Messages(down[s]) : m.type = "FILE" => m.data # Torn
    /\ spc[s] = "sending" /\ out[s].message.type = "FILE" => out[s].message.data # Torn
    /\ cpc[s] # "failed" => Known(local[Owner[s]], cpc[s], cjob[s], Both(s))
    /\ cpc[s] = "failed" => OneHole(s)

HolesKnown(s) == IF mode[s] = "push" THEN PushHoles(s) ELSE PullHoles(s)
Unwritten(s) == Whole(local[Owner[s]]) /\ Whole(served) /\ TempsWhole(s)

SessionHoles(s) ==
    /\ Opening(s) => Unwritten(s)
    /\ ~ Opening(s) /\ plan[s] # {} /\ ~ refused[s] => HolesKnown(s)

HoleInv == \A s \in Session : Alone(s) => SessionHoles(s)

\* Operations about a difference disturb no other file both sides have.
LEMMA OthersStay ==
  ASSUME NEW s \in Session, Executing(s), NEW q \in Path, Apart(s, q),
         NEW t \in Tree, Clear(t, Both(s))
  PROVE  /\ Clear(TryWithParents(t, q), Both(s))
         /\ Whole(ReadyForCopy(t, q))
         /\ \A p \in Both(s) : ReadyForCopy(t, q)[p] = Absent => p = q
         /\ q \notin Both(s) => Clear(Removed(t, q), Both(s))
         /\ q \notin Both(s) => Clear(Pruned(Removed(t, q), q), Both(s))
<1>1. Absent # Torn /\ Dir # Torn /\ Dir # Absent
  BY EntryAssumption DEF FileData
<1>2. csnap[s][q] # Absent \/ rsnap[s][q] # Absent
  BY DEF Apart
<1>3. \A p \in Both(s) : p \in Path /\ p \notin Above[q] /\ q \notin Above[p]
  BY <1>2 DEF Both, Executing, Flat
<1>4. \A p \in Path : WithParents(t, q)[p] # Torn
  BY <1>1 DEF WithParents, Clear, Whole
<1>5. \A p \in Both(s) : WithParents(t, q)[p] = t[p]
  BY <1>3 DEF WithParents
<1>6. \A u : (\A p \in Path : u[p] # Torn) => \A p \in Path : Removed(u, q)[p] # Torn
  BY <1>1 DEF Removed
<1>7. \A u : \A p \in Both(s) : p # q => Removed(u, q)[p] = u[p]
  BY <1>3 DEF Removed
<1>8. \A u : (\A p \in Path : u[p] # Torn) => \A p \in Path : Pruned(u, q)[p] # Torn
  BY <1>1 DEF Pruned
<1>9. \A u : \A p \in Both(s) : Pruned(u, q)[p] = u[p]
  BY <1>3 DEF Pruned
<1>10. Clear(TryWithParents(t, q), Both(s))
  BY <1>4, <1>5 DEF TryWithParents, Clear, Whole
<1>11. Whole(ReadyForCopy(t, q))
  BY <1>4, <1>6 DEF ReadyForCopy, Whole
<1>12. \A p \in Both(s) : ReadyForCopy(t, q)[p] = Absent => p = q
  BY <1>5, <1>7 DEF ReadyForCopy, Clear
<1>13. q \notin Both(s) => Clear(Removed(t, q), Both(s))
  BY <1>6, <1>7 DEF Clear, Whole
<1>14. q \notin Both(s) => Clear(Pruned(Removed(t, q), q), Both(s))
  BY <1>6, <1>7, <1>8, <1>9 DEF Clear, Whole
<1> QED
  BY <1>10, <1>11, <1>12, <1>13, <1>14

LEMMA KnownIsClear ==
  ASSUME NEW t, NEW doing, NEW job, NEW files, doing \notin {"writing", "copying"}
  PROVE  Known(t, doing, job, files) <=> Clear(t, files)
  BY DEF Known, Clear, Whole

\* The beginning of a write, and its end.
LEMMA TornKnown ==
  ASSUME NEW t \in Tree, NEW q \in Path, NEW job, job.path = q, job.data # Torn,
         NEW files \in SUBSET Path, Clear(t, files)
  PROVE  Known([t EXCEPT ![q] = Torn], "writing", job, files)
<1>1. Absent # Torn
  BY EntryAssumption DEF FileData
<1>2. \A p \in Path : [t EXCEPT ![q] = Torn][p] = IF p = q THEN Torn ELSE t[p]
  BY DEF Tree
<1> QED
  BY <1>1, <1>2 DEF Known, Clear, Whole

LEMMA FilledClear ==
  ASSUME NEW t \in Tree, NEW job, job \in FileMessage, NEW files \in SUBSET Path,
         Known(t, "writing", job, files), NEW u \in Filled(t, job.path, job.data)
  PROVE  Clear(u, files)
<1>1. job.path \in Path /\ job.data \in FileData /\ job.data # Torn /\ t[job.path] = Torn
  BY DEF FileMessage, Known
<1>2. u = [t EXCEPT ![job.path] = job.data]
  BY <1>1 DEF Filled
<1>3. job.data # Absent
  BY <1>1, EntryAssumption
<1>4. \A p \in Path : u[p] = IF p = job.path THEN job.data ELSE t[p]
  BY <1>1, <1>2 DEF Tree
<1> QED
  BY <1>1, <1>3, <1>4 DEF Known, Clear, Whole

\* The end of a copy.
LEMMA CopiedClear ==
  ASSUME NEW s \in Session, Executing(s), NEW t \in Tree, NEW job, job.to \in Path,
         Apart(s, job.to), Known(t, "copying", job, Both(s)),
         NEW e \in Entry, e # Torn, e # Absent, NEW u \in ItemCopied(t, job.from, e, job.to)
  PROVE  Clear(u, Both(s))
<1>1. csnap[s][job.to] # Absent \/ rsnap[s][job.to] # Absent
  BY DEF Apart
<1>2. \A p \in Both(s) : p \in Path /\ job.to \notin Above[p]
  BY <1>1 DEF Both, Executing, Flat
<1>3. u[job.to] = e /\ \A p \in Both(s) : p # job.to => u[p] = t[p]
  <2> DEFINE to == job.to
             from == job.from
  <2>1. to \in Path /\ u \in ItemCopied(t, from, e, to)
    OBVIOUS
  <2> HIDE DEF to, from
  <2>2. u[to] = e /\ \A p \in Path : p # to /\ to \notin Above[p] => u[p] = t[p]
    BY <2>1, CopyOfItem
  <2> QED
    BY <1>2, <2>2 DEF to
<1>4. Whole(t)
  BY DEF Known, Whole
<1>5. Whole(u)
  BY <1>4, CopyOfItem
<1>6. \A p \in Both(s) : p # job.to => t[p] # Absent
  BY DEF Known
<1>7. \A p \in Both(s) : u[p] # Absent
  BY <1>3, <1>6
<1> QED
  BY <1>5, <1>7 DEF Clear

LEMMA StoredWhole ==
  ASSUME NEW s \in Session, NEW t, NEW job, NEW files, Known(t, "copying", job, files),
         TempsWhole(s), NEW q \in Place
  PROVE  StoredAt(t, s, q) # Torn
  BY PlaceCases DEF StoredAt, Known, TempsWhole

\* Where nothing is in progress there is no hole.
LEMMA ClearNoHoles ==
  ASSUME NEW s \in Session, Clear(Target(s), Both(s))
  PROVE  Holes(s) = {}
  BY DEF Holes, Clear, Whole, Both

LEMMA KnownOneHole ==
  ASSUME NEW s \in Session, NEW doing, NEW job, Known(Target(s), doing, job, Both(s))
  PROVE  OneHole(s)
<1>1. CASE doing = "writing"
  <2>1. Holes(s) \subseteq {job.path}
    BY <1>1 DEF Known, Holes, Both
  <2> QED
    BY <2>1 DEF OneHole
<1>2. CASE doing # "writing"
  <2>1. Holes(s) \subseteq {job.to}
    BY <1>2 DEF Known, Holes, Both
  <2> QED
    BY <2>1 DEF OneHole
<1> QED
  BY <1>1, <1>2

-----------------------------------------------------------------------------
(* Holes in a push                                                         *)

LEMMA SamePlanFiles ==
  ASSUME NEW s \in Session, SamePlan(s)
  PROVE  Both(s)' = Both(s)
  BY DEF SamePlan, Both

\* The handler has done a part of an operation, or the whole.
LEMMA PushServes ==
  ASSUME TypeOK, NEW s \in Session, mode[s] = "push", PushHoles(s),
         UNCHANGED <<client, local, plan>>, Messages(up'[s]) \subseteq Messages(up[s]),
         TempsWhole(s)', spc'[s] # "closed", Known(served', spc'[s], sjob'[s], Both(s))
  PROVE  PushHoles(s)'
<1>1. SamePlan(s) /\ cpc' = cpc /\ todo' = todo
  BY DEF client, SamePlan
<1>2. Both(s)' = Both(s)
  BY <1>1, SamePlanFiles
<1> QED
  BY <1>1, <1>2 DEF PushHoles, DeletesExtra, SendsWhole

LEMMA PushOperations ==
  ASSUME TypeOK, NEW s \in Session, mode[s] = "push", Executing(s), PushHoles(s), ~ refused'[s],
         \/ ReceiveFile(s) \/ FinishFile(s) \/ DeleteFile(s) \/ ReceiveCopy(s) \/ FinishCopy(s)
  PROVE  PushHoles(s)'
<1>1. /\ ~ Refuse(s) /\ served \in Tree /\ Both(s) \in SUBSET Path
      /\ UNCHANGED <<client, local, plan>>
  BY DEF Refuse, ReceiveFile, FinishFile, DeleteFile, ReceiveCopy, FinishCopy, Begun, Both,
         TypeOK, TreesTyped, ServerTyped
<1>2. \A t : t # "nothing" /\ Takes(s, t) =>
         /\ Head(up[s]) \in UpMessage /\ Head(up[s]).type = t /\ Aimed(s, Head(up[s]))
         /\ Head(up[s]) \in Messages(up[s])
         /\ Messages(up'[s]) \subseteq Messages(up[s])
         /\ Clear(served, Both(s))
  BY TakesMessages, TakenMessages, KnownIsClear DEF Takes, PushHoles
<1>3. /\ \A l : SGoto(s, l) => spc'[s] = l
      /\ \A j : sjob' = [sjob EXCEPT ![s] = j] => sjob'[s] = j
      /\ temp \in [Session -> [TempPlace -> Entry]]
  BY DEF SGoto, TypeOK, ServerTyped, TreesTyped
<1>4. TempsWhole(s)
  BY DEF PushHoles
<1>5. CASE ReceiveFile(s)
  <2> DEFINE m == Head(up[s])
             t == TryWithParents(served, m.path)
  <2>1. /\ m \in FileMessage /\ Apart(s, m.path) /\ m.data # Torn /\ Clear(served, Both(s))
        /\ Messages(up'[s]) \subseteq Messages(up[s])
    BY <1>2, <1>5, UpParts DEF ReceiveFile, Aimed, PushHoles, SendsWhole
  <2>2. m.path \in Path /\ t \in Tree
    BY <1>1, <2>1, TreeOperations DEF FileMessage
  <2>3. Clear(t, Both(s))
    BY <1>1, <2>1, <2>2, OthersStay
  <2>4. Known([t EXCEPT ![m.path] = Torn], "writing", m, Both(s))
    BY <1>1, <2>1, <2>2, <2>3, TornKnown
  <2>5. /\ served' = [t EXCEPT ![m.path] = Torn] /\ sjob'[s] = m /\ spc'[s] = "writing"
        /\ UNCHANGED temp
    BY <1>1, <1>3, <1>5 DEF ReceiveFile
  <2> HIDE DEF t, m
  <2> QED
    BY <1>1, <1>4, <2>1, <2>4, <2>5, PushServes DEF TempsWhole
<1>6. CASE FinishFile(s)
  <2>1. /\ served' \in Filled(served, sjob[s].path, sjob[s].data) /\ spc'[s] = "loop"
        /\ UNCHANGED <<temp, up>>
    BY <1>1, <1>3, <1>6 DEF FinishFile
  <2>2. sjob[s] \in FileMessage /\ Known(served, "writing", sjob[s], Both(s))
    BY <1>6 DEF FinishFile, TypeOK, JobsTyped, PushHoles
  <2>3. Clear(served', Both(s))
    BY <1>1, <2>1, <2>2, FilledClear
  <2> QED
    BY <1>1, <1>4, <2>1, <2>3, KnownIsClear, PushServes DEF TempsWhole
<1>7. CASE DeleteFile(s)
  <2> DEFINE q == Head(up[s]).path
  <2>1. /\ q \in Place /\ Apart(s, q) /\ q \notin Both(s) /\ Clear(served, Both(s))
        /\ Messages(up'[s]) \subseteq Messages(up[s]) /\ spc[s] = "loop"
    BY <1>2, <1>7, UpParts DEF DeleteFile, Aimed, PushHoles, SendsWhole, Takes
  <2>2. spc'[s] = "loop"
    BY <1>1, <1>7, <2>1 DEF DeleteFile
  <2>3. CASE q \in TempPlace
    <3>1. served' = served /\ (UNCHANGED temp \/ temp' = [temp EXCEPT ![s][q] = Absent])
      BY <1>7, <2>3 DEF DeleteFile
    <3>2. TempsWhole(s)'
      BY <1>3, <1>4, <2>3, <3>1, EntryAssumption DEF TempsWhole, FileData
    <3> QED
      BY <1>1, <2>1, <2>2, <3>1, <3>2, KnownIsClear, PushServes
  <2>4. CASE q \notin TempPlace
    <3>1. q \in Path /\ served' = Pruned(Removed(served, q), q) /\ UNCHANGED temp
      BY <1>1, <1>7, <2>1, <2>4, PlaceCases DEF DeleteFile
    <3>2. Clear(served', Both(s))
      BY <1>1, <2>1, <3>1, OthersStay
    <3> QED
      BY <1>1, <1>4, <2>1, <2>2, <3>1, <3>2, KnownIsClear, PushServes DEF TempsWhole
  <2> QED
    BY <2>3, <2>4
<1>8. CASE ReceiveCopy(s)
  <2> DEFINE m == Head(up[s])
  <2>1. /\ m.to \in Place /\ Apart(s, m.to) /\ Clear(served, Both(s))
        /\ Messages(up'[s]) \subseteq Messages(up[s])
    BY <1>2, <1>8, UpParts DEF ReceiveCopy, Aimed
  <2>2. /\ served' = ReadyForCopy(served, m.to) /\ sjob'[s] = m /\ spc'[s] = "copying"
        /\ UNCHANGED temp
    BY <1>1, <1>3, <1>8 DEF ReceiveCopy
  <2>3. Known(served', "copying", m, Both(s))
    <3>1. CASE m.to \in Path
      BY <1>1, <2>1, <2>2, <3>1, OthersStay DEF Known, Whole
    <3>2. CASE m.to \notin Path
      BY <2>1, <2>2, <3>2 DEF ReadyForCopy, Known, Clear, Whole
    <3> QED
      BY <3>1, <3>2
  <2> HIDE DEF m
  <2> QED
    BY <1>1, <1>4, <2>1, <2>2, <2>3, PushServes DEF TempsWhole
<1>9. CASE FinishCopy(s)
  <2> DEFINE j == sjob[s]
             e == StoredAt(served, s, j.from)
  <2>1. j.from \in Place /\ j.to \in Place /\ Known(served, "copying", j, Both(s))
    BY <1>9, UpParts DEF FinishCopy, TypeOK, ServerTyped, JobsTyped, PushHoles
  <2>2. /\ e # Absent /\ spc'[s] = "loop" /\ UNCHANGED up
        /\ IF j.to \in Path THEN served' \in ItemCopied(served, j.from, e, j.to) /\ UNCHANGED temp
           ELSE temp' = [temp EXCEPT ![s][j.to] = e] /\ UNCHANGED served
    BY <1>1, <1>3, <1>9 DEF FinishCopy, Succeeds, CanCopy
  <2>3. e # Torn
    BY <1>4, <2>1, StoredWhole
  <2>4. Clear(served', Both(s))
    <3>1. CASE j.to \in Path
      <4>1. Apart(s, j.to) /\ e \in Entry /\ served \in Tree
        BY <1>1, <1>9, <2>1, StoredTyped DEF FinishCopy, TypeOK, JobsTyped, Executing, Ahead, Aimed
      <4> HIDE DEF e, j
      <4> QED
        BY <2>1, <2>2, <2>3, <3>1, <4>1, CopiedClear
    <3>2. CASE j.to \notin Path
      BY <1>1, <2>1, <2>2, <3>2 DEF Known, Clear, Whole
    <3> QED
      BY <3>1, <3>2
  <2>5. TempsWhole(s)'
    BY <1>3, <1>4, <2>1, <2>2, <2>3, PlaceCases DEF TempsWhole
  <2> HIDE DEF j, e
  <2> QED
    BY <1>1, <2>2, <2>4, <2>5, KnownIsClear, PushServes
<1> QED
  BY <1>5, <1>6, <1>7, <1>8, <1>9

LEMMA HandlerPush ==
  ASSUME TypeOK, InStep, NEW s \in Session, mode[s] = "push", Executing(s), PushHoles(s),
         ~ refused'[s], HandlerStep(s)
  PROVE  PushHoles(s)'
<1>1. spc \in [Session -> HandlerPC] /\ out[s].next \in {"scan", "loop", "closing"}
  BY DEF TypeOK, ServerTyped
<1>2. CASE \/ ReceiveHello(s) \/ ScanServed(s) \/ ExchangeMetadata(s) \/ ReceiveFails(s)
           \/ SendFile(s) \/ ReceiveLast(s) \/ ReplySent(s) \/ ReplyAbandoned(s)
  <2>1. UNCHANGED <<client, trees, sjob>> /\ spc[s] \notin {"closed", "writing", "copying"}
    BY <1>2 DEF ReceiveHello, ScanServed, ExchangeMetadata, ReceiveFails, SendFile, ReceiveLast,
                ReplySent, ReplyAbandoned, Takes
  <2>2. Messages(up'[s]) \subseteq Messages(up[s])
    BY <1>2, TakenMessages DEF ReceiveHello, ScanServed, ExchangeMetadata, ReceiveFails, SendFile,
                               ReceiveLast, ReplySent, ReplyAbandoned, Takes
  <2>3. \A m, next : Reply(s, m, next) => spc'[s] \in {next, "sending"}
    BY <1>1 DEF Reply, SGoto
  <2>4. spc'[s] \notin {"closed", "writing", "copying"}
    BY <1>1, <1>2, <2>3 DEF ReceiveHello, ScanServed, ExchangeMetadata, ReceiveFails, SendFile,
                            ReceiveLast, ReplySent, ReplyAbandoned, Refuse, SGoto
  <2>5. UNCHANGED <<local, plan, served, temp>>
    BY <2>1 DEF trees
  <2>6. Known(served', spc'[s], sjob'[s], Both(s)) /\ TempsWhole(s)'
    BY <2>1, <2>4, <2>5, KnownIsClear DEF PushHoles, TempsWhole
  <2> QED
    BY <2>1, <2>2, <2>4, <2>5, <2>6, PushServes
<1>3. CASE CloseConnection(s)
  <2>1. /\ UNCHANGED <<client, trees>> /\ spc[s] = "closing" /\ spc'[s] = "closed"
        /\ up'[s] = <<>>
    BY <1>1, <1>3 DEF CloseConnection, SGoto, TypeOK, UpTyped
  <2>2. /\ SamePlan(s) /\ cpc' = cpc /\ todo' = todo /\ served' = served /\ local' = local
        /\ temp' = temp /\ mode' = mode /\ csnap' = csnap /\ rsnap' = rsnap
    BY <2>1 DEF client, trees, SamePlan
  <2>3. Clear(served, Both(s))
    BY <2>1, KnownIsClear DEF PushHoles
  <2>4. Holes(s) = {}
    BY <2>3, ClearNoHoles DEF Target, PushHoles
  <2>5. Holes(s)' = {}
    BY <2>2, <2>4 DEF Holes, Target
  <2> QED
    BY <2>1, <2>2, <2>5, SamePlanFiles, EmptyMessages
       DEF PushHoles, DeletesExtra, SendsWhole, TempsWhole
<1> QED
  BY <1>2, <1>3, PushOperations DEF HandlerStep

\* The client of a push sends, waits, or fails: the served tree is not its doing.
LEMMA PushGoesOn ==
  ASSUME TypeOK, NEW s \in Session, mode[s] = "push", PushHoles(s), SamePlan(s),
         UNCHANGED <<local, served, temp, server>>, todo'[s] \subseteq todo[s],
         cpc'[s] \notin {"awaitFile", "writing", "copying"},
         \A m \in Messages(up'[s]) :
             \/ m \in Messages(up[s])
             \/ /\ m.type = "FILE" => m.data # Torn
                /\ m.type = "DELETE" => m.path \notin Both(s),
         CutShort(s) => CutShort(s)'
  PROVE  PushHoles(s)'
<1>1. spc' = spc /\ sjob' = sjob /\ Both(s)' = Both(s)
  BY SamePlanFiles DEF server
<1>2. Holes(s)' = Holes(s)
  BY DEF SamePlan, Holes, Target
<1>3. OneHole(s) => OneHole(s)'
  BY <1>2 DEF OneHole
<1> QED
  BY <1>1, <1>2, <1>3 DEF PushHoles, DeletesExtra, SendsWhole, TempsWhole

LEMMA PushFails ==
  ASSUME TypeOK, NEW s \in Session, mode[s] = "push", PushHoles(s), ClientFails(s),
         UNCHANGED trees
  PROVE  PushHoles(s)'
<1>1. /\ SamePlan(s) /\ UNCHANGED <<local, served, temp, server>>
  BY DEF SamePlan, trees, ClientFails
<1>2. Messages(up'[s]) \subseteq Messages(up[s]) /\ cpc'[s] = "failed" /\ todo'[s] = {}
  BY FailingMessages
<1> QED
  BY <1>1, <1>2, PushGoesOn DEF CutShort

LEMMA ClientPush ==
  ASSUME TypeOK, NEW s \in Session, mode[s] = "push", Executing(s), PushHoles(s),
         ~ Opening(s), ClientStep(s) \/ ClientDies(s)
  PROVE  PushHoles(s)'
<1>1. CASE ReceiveUnexpected(s) \/ ConnectionLost(s) \/ ClientDies(s)
  BY <1>1, PushFails DEF ReceiveUnexpected, ConnectionLost, ClientDies
<1>2. ASSUME NEW o \in todo[s], Upload(s, o), Current(s, o)
      PROVE  PushHoles(s)'
  <2> DEFINE d == local[Owner[s]][o.to]
             m == File(o.to, d)
  <2>1. CASE ClientFails(s) /\ UNCHANGED trees
    BY <2>1, PushFails
  <2>2. CASE /\ IsFile(local[Owner[s]], o.to) /\ Sent(s, m) /\ Advance(s, o)
             /\ UNCHANGED <<trees, mode, cpc, csnap, rsnap, cjob, serverErrors, server, down>>
    <3>1. o \in Op /\ o.to \in Path
      BY <1>2, OpParts DEF Upload, TypeOK, ClientTyped
    <3>2. m \in UpMessage /\ m.type = "FILE" /\ m.data = d /\ d # Torn
      BY <2>2, <3>1, UpMessages DEF IsFile, File, PushHoles, Whole
    <3> HIDE DEF m, d
    <3>3. Messages(up'[s]) = Messages(up[s]) \cup {m}
      BY <2>2, <3>2, SentMessages
    <3>4. todo'[s] \subseteq todo[s] /\ SamePlan(s) /\ UNCHANGED <<local, served, temp, server, down, cpc>>
      BY <2>2 DEF Advance, SamePlan, trees, TypeOK, ClientTyped
    <3> QED
      BY <3>2, <3>3, <3>4, PushGoesOn DEF PushHoles, CutShort
  <2> QED
    BY <1>2, <2>1, <2>2 DEF Upload, Succeeds
<1>3. ASSUME NEW o \in todo[s], SendRemote(s, o), Current(s, o)
      PROVE  PushHoles(s)'
  <2> DEFINE m == IF o.act = "copy" THEN Copy(o.from, o.to) ELSE Delete(o.to)
  <2>1. o \in Op /\ o.to \in Place /\ (o.act = "copy" => o.from \in Place)
        /\ o.act \in {"copy", "delete"}
    BY <1>3, OpParts DEF SendRemote, TypeOK, ClientTyped
  <2>2. m \in UpMessage /\ m.type # "FILE" /\ (m.type = "DELETE" => m.path \notin Both(s))
    BY <2>1, UpMessages DEF Copy, Delete, PushHoles, DeletesExtra
  <2>3. Sent(s, m)
    BY <1>3 DEF SendRemote
  <2> HIDE DEF m
  <2>4. Messages(up'[s]) = Messages(up[s]) \cup {m}
    BY <2>2, <2>3, SentMessages
  <2>5. todo'[s] \subseteq todo[s] /\ SamePlan(s) /\ UNCHANGED <<local, served, temp, server, down, cpc>>
    BY <1>3 DEF SendRemote, Advance, SamePlan, trees, TypeOK, ClientTyped
  <2> QED
    BY <2>2, <2>4, <2>5, PushGoesOn DEF PushHoles, CutShort
<1>4. CASE SendDone(s)
  <2> DEFINE m == Simple("DONE")
  <2>1. m \in UpMessage /\ m.type = "DONE" /\ Sent(s, m)
    BY <1>4, UpMessages DEF Simple, SendDone
  <2> HIDE DEF m
  <2>2. Messages(up'[s]) = Messages(up[s]) \cup {m}
    BY <2>1, SentMessages
  <2>3. /\ cpc[s] = "operations" /\ cpc'[s] = "awaitDone" /\ SamePlan(s)
        /\ UNCHANGED <<todo, local, served, temp, server, down>>
    BY <1>4 DEF SendDone, CGoto, SamePlan, trees, TypeOK, ClientTyped
  <2> QED
    BY <2>1, <2>2, <2>3, PushGoesOn DEF CutShort
<1>5. CASE DrainReply(s)
  <2>1. /\ Messages(down'[s]) \subseteq Messages(down[s]) /\ SamePlan(s)
        /\ UNCHANGED <<cpc, todo, local, served, temp, server, up>>
    BY <1>5, ReceivedMessages DEF DrainReply, SamePlan, trees
  <2> QED
    BY <2>1, PushGoesOn DEF PushHoles, CutShort
<1>6. CASE ReceiveDone(s)
  <2>1. CASE ClientFails(s)
    BY <1>6, <2>1, PushFails DEF ReceiveDone
  <2>2. CASE /\ CGoto(s, "ok") /\ Received(s)
             /\ UNCHANGED <<mode, csnap, rsnap, todo, cjob, serverErrors, server, up>>
    <3>1. Head(down[s]) \in Messages(down[s]) /\ Head(down[s]).type = "DONE" /\ cpc[s] = "awaitDone"
      BY <1>6, ReceivedMessages DEF ReceiveDone
    <3>2. ~ CutShort(s)
      BY <3>1 DEF CutShort
    <3>3. cpc'[s] = "ok" /\ SamePlan(s) /\ UNCHANGED <<local, served, temp>>
      BY <1>6, <2>2 DEF ReceiveDone, CGoto, SamePlan, trees, TypeOK, ClientTyped
    <3> QED
      BY <2>2, <3>2, <3>3, PushGoesOn
  <2> QED
    BY <1>6, <2>1, <2>2 DEF ReceiveDone
<1>7. /\ ~ (ReceiveOK(s) \/ ScanLocal(s) \/ ReceiveMetadata(s) \/ SkipFile(s))
      /\ ~ (WriteReceivedFile(s) \/ FinishReceivedFile(s) \/ CopyItem(s))
      /\ \A o : ~ (RequestFile(s, o) \/ PrepareCopy(s, o) \/ DeleteLocal(s, o))
  BY DEF PushHoles, Opening, ReceiveOK, ScanLocal, ReceiveMetadata, SkipFile, WriteReceivedFile,
         FinishReceivedFile, CopyItem, RequestFile, PrepareCopy, DeleteLocal
<1> QED
  BY <1>1, <1>2, <1>3, <1>4, <1>5, <1>6, <1>7 DEF ClientStep, ExecuteOperation

-----------------------------------------------------------------------------
(* Holes in a pull                                                         *)

CarriesWhole(m) == m.type = "FILE" => m.data # Torn

LEMMA HandlerPull ==
  ASSUME TypeOK, NEW s \in Session, mode[s] # "push", PullHoles(s), HandlerStep(s)
  PROVE  PullHoles(s)'
<1>1. spc \in [Session -> HandlerPC] /\ served \in Tree /\ ssnap[s] \in Listing
      /\ out[s].message \in DownMessage /\ out[s].next \in {"scan", "loop", "closing"}
  BY DEF TypeOK, ServerTyped, TreesTyped
<1>2. Offered(s) \notin {"FILE", "DELETE", "COPY"}
  BY OfferedHead, TailMessages DEF PullHoles, Offered, TypeOK, UpTyped
<1>3. /\ ~ (ReceiveFile(s) \/ FinishFile(s) \/ DeleteFile(s) \/ ReceiveCopy(s) \/ FinishCopy(s))
      /\ UNCHANGED <<served, local, temp, plan, client>>
  BY <1>2 DEF PullHoles, ReceiveFile, FinishFile, DeleteFile, ReceiveCopy, FinishCopy, Takes,
              HandlerStep, ReceiveHello, ScanServed, ExchangeMetadata, ReceiveFails, SendFile,
              ReceiveLast, ReplySent, ReplyAbandoned, CloseConnection, trees
<1>4. Messages(up'[s]) \subseteq Messages(up[s])
  <2>1. CASE ReceiveHello(s) \/ ExchangeMetadata(s) \/ ReceiveLast(s) \/ SendFile(s)
    BY <2>1, TakenMessages DEF ReceiveHello, ExchangeMetadata, ReceiveLast, SendFile, Takes
  <2>2. CASE CloseConnection(s)
    BY <2>2, EmptyMessages DEF CloseConnection, TypeOK, UpTyped
  <2>3. CASE ScanServed(s) \/ ReceiveFails(s) \/ ReplySent(s) \/ ReplyAbandoned(s)
    BY <2>3 DEF ScanServed, ReceiveFails, ReplySent, ReplyAbandoned
  <2> QED
    BY <1>3, <2>1, <2>2, <2>3 DEF HandlerStep
<1>5. ASSUME spc'[s] \notin {"writing", "copying"},
             \A m \in Messages(down'[s]) : m \in Messages(down[s]) \/ CarriesWhole(m),
             spc'[s] = "sending" => CarriesWhole(out'[s].message)
      PROVE  PullHoles(s)'
  <2>1. /\ SamePlan(s) /\ cpc' = cpc /\ cjob' = cjob /\ todo' = todo
        /\ served' = served /\ local' = local /\ temp' = temp /\ mode' = mode
        /\ csnap' = csnap /\ rsnap' = rsnap
    BY <1>3 DEF client, SamePlan
  <2>2. Both(s)' = Both(s) /\ Holes(s)' = Holes(s)
    BY <2>1, SamePlanFiles DEF Holes, Target
  <2>3. OneHole(s) => OneHole(s)'
    BY <2>2 DEF OneHole
  <2> QED
    BY <1>4, <1>5, <2>1, <2>2, <2>3 DEF PullHoles, DeletesExtra, TempsWhole, CarriesWhole
<1>6. CASE \E m \in DownMessage, next \in {"scan", "loop", "closing"} :
              Reply(s, m, next) /\ CarriesWhole(m)
  <2>1. PICK m \in DownMessage, next \in {"scan", "loop", "closing"} :
              Reply(s, m, next) /\ CarriesWhole(m)
    BY <1>6
  <2>2. /\ Messages(down'[s]) \subseteq Messages(down[s]) \cup {m}
        /\ \/ spc'[s] = next /\ out'[s] = out[s]
           \/ spc'[s] = "sending" /\ out'[s].message = m
    BY <2>1, ReplyMessages
  <2> QED
    BY <1>5, <2>1, <2>2
<1>7. CASE \E l \in {"metadata", "closing"} : SGoto(s, l) /\ UNCHANGED <<down, out>>
  <2>1. spc'[s] \in {"metadata", "closing"} /\ UNCHANGED down
    BY <1>1, <1>7 DEF SGoto
  <2> QED
    BY <1>5, <2>1
<1>8. \A t \in {"OK", "ERROR", "DONE"} : Simple(t) \in DownMessage /\ CarriesWhole(Simple(t))
  BY DownMessages DEF Simple, CarriesWhole
<1>9. Metadata(ssnap[s]) \in DownMessage /\ CarriesWhole(Metadata(ssnap[s]))
  BY <1>1, DownMessages DEF Metadata, CarriesWhole
<1>10. CASE ReceiveHello(s) \/ ExchangeMetadata(s) \/ ReceiveLast(s) \/ ReceiveFails(s)
            \/ ScanServed(s)
  BY <1>6, <1>7, <1>8, <1>9, <1>10
     DEF ReceiveHello, ExchangeMetadata, ReceiveLast, ReceiveFails, ScanServed
<1>11. CASE SendFile(s)
  <2> DEFINE p == Head(up[s]).path
             m == File(p, served[p])
  <2>1. CASE Refuse(s)
    BY <1>6, <1>8, <2>1 DEF Refuse
  <2>2. CASE IsFile(served, p) /\ Reply(s, m, "loop")
    <3>1. p \in Path
      BY <1>11, TakesTyped, UpParts DEF SendFile
    <3>2. m \in DownMessage /\ CarriesWhole(m)
      BY <2>2, <3>1, DownMessages DEF IsFile, File, CarriesWhole, PullHoles, Whole
    <3> HIDE DEF m
    <3> QED
      BY <1>6, <2>2, <3>2
  <2> QED
    BY <1>11, <2>1, <2>2 DEF SendFile, Succeeds
<1>12. CASE ReplySent(s)
  BY <1>1, <1>6, <1>12 DEF ReplySent, PullHoles, CarriesWhole
<1>13. CASE ReplyAbandoned(s)
  <2>1. spc'[s] \in {"scan", "loop", "closing"}
    BY <1>1, <1>13 DEF ReplyAbandoned, SGoto
  <2>2. CASE UNCHANGED down
    BY <1>5, <2>1, <2>2
  <2>3. CASE down' = [down EXCEPT ![s] = Append(@, Simple("FRAGMENT"))]
    <3> DEFINE m == Simple("FRAGMENT")
    <3>1. m \in DownMessage /\ CarriesWhole(m)
      BY DownMessages DEF Simple, CarriesWhole
    <3>2. down'[s] = Append(down[s], m) /\ down[s] \in Seq(DownMessage)
      BY <2>3 DEF TypeOK, DownTyped
    <3> HIDE DEF m
    <3>3. Messages(down'[s]) = Messages(down[s]) \cup {m}
      BY <3>1, <3>2, AppendMessages
    <3> QED
      BY <1>5, <2>1, <3>1, <3>3
  <2> QED
    BY <1>13, <2>2, <2>3 DEF ReplyAbandoned
<1>14. CASE CloseConnection(s)
  <2>1. spc'[s] = "closed" /\ (down'[s] = down[s] \/ down'[s] = <<>>)
    BY <1>1, <1>14 DEF CloseConnection, SGoto, TypeOK, DownTyped
  <2> QED
    BY <1>5, <2>1, EmptyMessages
<1> QED
  BY <1>3, <1>10, <1>11, <1>12, <1>13, <1>14 DEF HandlerStep

\* The client of a pull goes on, or fails.
LEMMA PullMoves ==
  ASSUME TypeOK, NEW s \in Session, mode[s] # "push", PullHoles(s), SamePlan(s),
         UNCHANGED <<served, server>>, TempsWhole(s)', todo'[s] \subseteq todo[s],
         Messages(down'[s]) \subseteq Messages(down[s]),
         \A m \in Messages(up'[s]) : \/ m \in Messages(up[s])
                                     \/ m.type \notin {"FILE", "DELETE", "COPY"},
         cpc'[s] # "failed" => Known(local'[Owner[s]], cpc'[s], cjob'[s], Both(s)),
         cpc'[s] = "failed" => OneHole(s)'
  PROVE  PullHoles(s)'
<1>1. spc' = spc /\ out' = out /\ Both(s)' = Both(s)
  BY SamePlanFiles DEF server
<1> QED
  BY <1>1 DEF PullHoles, DeletesExtra

LEMMA PullFails ==
  ASSUME TypeOK, NEW s \in Session, mode[s] # "push", PullHoles(s), ClientFails(s),
         UNCHANGED <<served, temp, plan>>,
         \E doing, job : Known(local'[Owner[s]], doing, job, Both(s))
  PROVE  PullHoles(s)'
<1>1. /\ SamePlan(s) /\ UNCHANGED server /\ mode' = mode
  BY DEF SamePlan, ClientFails
<1>2. /\ Messages(up'[s]) \subseteq Messages(up[s]) /\ Messages(down'[s]) = {}
      /\ cpc'[s] = "failed" /\ todo'[s] = {}
  BY FailingMessages
<1>3. OneHole(s)'
  <2>1. PICK doing, job : Known(local'[Owner[s]], doing, job, Both(s))
    OBVIOUS
  <2>2. Target(s)' = local'[Owner[s]] /\ Both(s)' = Both(s)
    BY <1>1, SamePlanFiles DEF Target
  <2>3. Holes(s)' \subseteq {job.path} \/ Holes(s)' \subseteq {job.to}
    BY <2>1, <2>2 DEF Known, Holes, Both
  <2> QED
    BY <2>3 DEF OneHole
<1> QED
  BY <1>1, <1>2, <1>3, PullMoves DEF PullHoles, TempsWhole

LEMMA ClientPull ==
  ASSUME TypeOK, NEW s \in Session, mode[s] # "push", Executing(s), PullHoles(s),
         ~ Opening(s), ClientStep(s) \/ ClientDies(s)
  PROVE  PullHoles(s)'
<1> DEFINE t == local[Owner[s]]
<1>1. /\ t \in Tree /\ Owner[s] \in Client /\ local \in [Client -> Tree]
      /\ temp \in [Session -> [TempPlace -> Entry]]
      /\ cpc \in [Session -> ClientPC] /\ cjob \in [Session -> Op \cup FileMessage]
      /\ todo \in [Session -> SUBSET Op] /\ Both(s) \in SUBSET Path
  BY SessionAssumption DEF TypeOK, TreesTyped, ClientTyped, Both
<1>2. cpc[s] # "failed"
  BY DEF ClientStep, ClientDies, ReceiveOK, ScanLocal, ReceiveMetadata, ReceiveUnexpected,
         ExecuteOperation, Current, SkipFile, WriteReceivedFile, FinishReceivedFile, CopyItem,
         SendDone, DrainReply, ReceiveDone, ConnectionLost, Active, Ended
<1>3. Known(t, cpc[s], cjob[s], Both(s)) /\ TempsWhole(s)
  BY <1>2 DEF PullHoles
<1>4. cpc[s] \notin {"writing", "copying"} => Clear(t, Both(s))
  BY <1>3, KnownIsClear
<1>5. ASSUME ClientFails(s), UNCHANGED <<local, served, temp, plan>>
      PROVE  PullHoles(s)'
  BY <1>3, <1>5, PullFails
<1>6. /\ \A l : CGoto(s, l) => cpc'[s] = l
      /\ \A j : cjob' = [cjob EXCEPT ![s] = j] => cjob'[s] = j
      /\ \A u : local' = [local EXCEPT ![Owner[s]] = u] => local'[Owner[s]] = u
      /\ \A o : Advance(s, o) => todo'[s] \subseteq todo[s]
  BY <1>1 DEF CGoto, Advance
<1>7. CASE ReceiveUnexpected(s) \/ ConnectionLost(s) \/ ClientDies(s)
  BY <1>5, <1>7 DEF ReceiveUnexpected, ConnectionLost, ClientDies, trees
<1>8. ASSUME NEW o \in todo[s], RequestFile(s, o), Current(s, o)
      PROVE  PullHoles(s)'
  <2> DEFINE m == Request(o.to)
  <2>1. m \in UpMessage /\ m.type = "REQUEST"
    BY <1>1, <1>8, OpParts, UpMessages DEF RequestFile, Request
  <2>2. Sent(s, m)
    BY <1>8 DEF RequestFile
  <2> HIDE DEF m
  <2>3. Messages(up'[s]) = Messages(up[s]) \cup {m}
    BY <2>1, <2>2, SentMessages
  <2>4. /\ cpc[s] = "operations" /\ cpc'[s] = "awaitFile" /\ SamePlan(s)
        /\ UNCHANGED <<served, server, temp, local, down>> /\ todo'[s] \subseteq todo[s]
    BY <1>6, <1>8 DEF RequestFile, Current, SamePlan, trees
  <2>5. Known(local'[Owner[s]], cpc'[s], cjob'[s], Both(s)) /\ TempsWhole(s)'
    BY <1>3, <1>4, <2>4, KnownIsClear DEF TempsWhole
  <2> QED
    BY <2>1, <2>3, <2>4, <2>5, PullMoves
<1>9. CASE SendDone(s)
  <2> DEFINE m == Simple("DONE")
  <2>1. m \in UpMessage /\ m.type = "DONE" /\ Sent(s, m)
    BY <1>9, UpMessages DEF Simple, SendDone
  <2> HIDE DEF m
  <2>2. Messages(up'[s]) = Messages(up[s]) \cup {m}
    BY <2>1, SentMessages
  <2>3. /\ cpc[s] = "operations" /\ cpc'[s] = "awaitDone" /\ SamePlan(s)
        /\ UNCHANGED <<served, server, temp, local, down, todo>>
    BY <1>6, <1>9 DEF SendDone, SamePlan, trees
  <2>4. Known(local'[Owner[s]], cpc'[s], cjob'[s], Both(s)) /\ TempsWhole(s)'
    BY <1>3, <1>4, <2>3, KnownIsClear DEF TempsWhole
  <2> QED
    BY <2>1, <2>2, <2>3, <2>4, PullMoves
<1>10. CASE SkipFile(s) \/ DrainReply(s)
  <2>1. /\ Messages(down'[s]) \subseteq Messages(down[s]) /\ SamePlan(s)
        /\ cpc[s] \in {"awaitFile", "awaitDone"} /\ cpc'[s] \in {"operations", "awaitDone"}
        /\ UNCHANGED <<served, server, temp, local, up, todo>>
    BY <1>6, <1>10, ReceivedMessages DEF SkipFile, DrainReply, SamePlan, trees, Begun
  <2>2. Known(local'[Owner[s]], cpc'[s], cjob'[s], Both(s)) /\ TempsWhole(s)'
    BY <1>3, <1>4, <2>1, KnownIsClear DEF TempsWhole
  <2> QED
    BY <2>1, <2>2, PullMoves
<1>11. CASE ReceiveDone(s)
  <2>1. CASE ClientFails(s)
    BY <1>5, <1>11, <2>1 DEF ReceiveDone, trees
  <2>2. CASE /\ CGoto(s, "ok") /\ Received(s)
             /\ UNCHANGED <<mode, csnap, rsnap, todo, cjob, serverErrors, server, up>>
    <3>1. /\ Messages(down'[s]) \subseteq Messages(down[s]) /\ SamePlan(s)
          /\ cpc[s] = "awaitDone" /\ cpc'[s] = "ok"
          /\ UNCHANGED <<served, server, temp, local, up, todo>>
      BY <1>6, <1>11, <2>2, ReceivedMessages DEF ReceiveDone, SamePlan, trees
    <3>2. Known(local'[Owner[s]], cpc'[s], cjob'[s], Both(s)) /\ TempsWhole(s)'
      BY <1>3, <1>4, <3>1, KnownIsClear DEF TempsWhole
    <3> QED
      BY <3>1, <3>2, PullMoves
  <2> QED
    BY <1>11, <2>1, <2>2 DEF ReceiveDone
<1>12. CASE WriteReceivedFile(s)
  <2> DEFINE m == Head(down[s])
             u == TryWithParents(t, m.path)
  <2>1. /\ m \in Messages(down[s]) /\ m.type = "FILE" /\ m \in DownMessage
        /\ Received(s) => Messages(down'[s]) \subseteq Messages(down[s])
        /\ cpc[s] = "awaitFile"
    BY <1>12, ReceivedMessages, ArrivedHead DEF WriteReceivedFile
  <2>2. m \in FileMessage /\ m.path \in Path /\ Apart(s, m.path) /\ m.data # Torn
    BY <2>1, DownParts DEF FileMessage, Executing, Ahead, Aimed, PullHoles
  <2>3. u \in Tree /\ Clear(u, Both(s))
    BY <1>1, <1>4, <2>1, <2>2, OthersStay, TreeOperations
  <2>4. Known([u EXCEPT ![m.path] = Torn], "writing", m, Both(s)) /\ Known(u, "loop", m, Both(s))
    BY <1>1, <2>2, <2>3, TornKnown, KnownIsClear
  <2>5. UNCHANGED <<served, temp, plan>>
    BY <1>12 DEF WriteReceivedFile, Begun
  <2>6. CASE local' = [local EXCEPT ![Owner[s]] = u] /\ ClientFails(s)
    <3>1. local'[Owner[s]] = u
      BY <1>6, <2>6
    <3> QED
      BY <2>4, <2>5, <2>6, <3>1, PullFails
  <2>7. CASE /\ local' = [local EXCEPT ![Owner[s]] = [u EXCEPT ![m.path] = Torn]]
             /\ cjob' = [cjob EXCEPT ![s] = m]
             /\ Received(s) /\ CGoto(s, "writing")
             /\ UNCHANGED <<served, temp, mode, csnap, rsnap, todo, serverErrors, server, up>>
    <3>1. /\ local'[Owner[s]] = [u EXCEPT ![m.path] = Torn] /\ cjob'[s] = m
          /\ cpc'[s] = "writing" /\ SamePlan(s) /\ TempsWhole(s)'
      BY <1>3, <1>6, <2>5, <2>7 DEF SamePlan, TempsWhole
    <3> HIDE DEF u, m
    <3> QED
      BY <2>1, <2>4, <2>7, <3>1, PullMoves
  <2> QED
    BY <1>12, <2>6, <2>7 DEF WriteReceivedFile
<1>13. CASE FinishReceivedFile(s)
  <2>1. CASE ClientFails(s) /\ UNCHANGED trees
    BY <1>5, <2>1 DEF trees
  <2>2. CASE /\ \E u \in Filled(t, cjob[s].path, cjob[s].data) :
                   local' = [local EXCEPT ![Owner[s]] = u]
             /\ CGoto(s, "operations")
             /\ UNCHANGED <<served, temp, plan, applied, mode, csnap, rsnap, todo, cjob,
                            serverErrors, server, up, down, faults>>
    <3>1. cjob[s] \in FileMessage /\ Known(t, "writing", cjob[s], Both(s))
      BY <1>3, <1>13 DEF FinishReceivedFile, TypeOK, JobsTyped
    <3>2. Clear(local'[Owner[s]], Both(s))
      BY <1>1, <1>6, <2>2, <3>1, FilledClear
    <3>3. cpc'[s] = "operations" /\ SamePlan(s) /\ TempsWhole(s)'
      BY <1>3, <1>6, <2>2 DEF SamePlan, TempsWhole
    <3> QED
      BY <2>2, <3>2, <3>3, KnownIsClear, PullMoves
  <2> QED
    BY <1>13, <2>1, <2>2 DEF FinishReceivedFile
<1>14. ASSUME NEW o \in todo[s], PrepareCopy(s, o), Current(s, o)
       PROVE  PullHoles(s)'
  <2>1. CASE ClientFails(s) /\ UNCHANGED <<local, served, temp>>
    BY <1>5, <1>14, <2>1 DEF PrepareCopy, Begun
  <2>2. CASE /\ local' = [local EXCEPT ![Owner[s]] = ReadyForCopy(t, o.to)]
             /\ cjob' = [cjob EXCEPT ![s] = o]
             /\ Advance(s, o) /\ CGoto(s, "copying")
             /\ UNCHANGED <<served, temp, mode, csnap, rsnap, serverErrors, server, up, down>>
    <3>1. /\ o.to \in Place /\ Apart(s, o.to) /\ Clear(t, Both(s))
      BY <1>1, <1>4, <1>14, OpParts DEF Executing, Ahead, Current
    <3>2. Known(ReadyForCopy(t, o.to), "copying", o, Both(s))
      <4>1. CASE o.to \in Path
        BY <1>1, <3>1, <4>1, OthersStay DEF Known, Whole
      <4>2. CASE o.to \notin Path
        BY <3>1, <4>2 DEF ReadyForCopy, Known, Clear, Whole
      <4> QED
        BY <4>1, <4>2
    <3>3. /\ local'[Owner[s]] = ReadyForCopy(t, o.to) /\ cjob'[s] = o /\ cpc'[s] = "copying"
          /\ todo'[s] \subseteq todo[s] /\ SamePlan(s) /\ TempsWhole(s)'
      BY <1>3, <1>6, <1>14, <2>2 DEF SamePlan, TempsWhole, PrepareCopy, Begun
    <3> QED
      BY <2>2, <3>2, <3>3, PullMoves
  <2> QED
    BY <1>14, <2>1, <2>2 DEF PrepareCopy
<1>15. CASE CopyItem(s)
  <2> DEFINE j == cjob[s]
             e == StoredAt(t, s, j.from)
  <2>1. j.from \in Place /\ j.to \in Place /\ Known(t, "copying", j, Both(s))
    BY <1>3, <1>15, OpParts DEF CopyItem, TypeOK, JobsTyped
  <2>2. CASE ClientFails(s) /\ UNCHANGED trees
    BY <1>5, <2>2 DEF trees
  <2>3. CASE /\ e # Absent
             /\ IF j.to \in Path
                THEN /\ \E u \in ItemCopied(t, j.from, e, j.to) :
                           local' = [local EXCEPT ![Owner[s]] = u]
                     /\ UNCHANGED temp
                ELSE temp' = [temp EXCEPT ![s][j.to] = e] /\ UNCHANGED local
             /\ CGoto(s, "operations")
             /\ UNCHANGED <<served, plan, applied, mode, csnap, rsnap, todo, cjob,
                            serverErrors, server, up, down>>
    <3>1. e # Torn
      BY <1>3, <2>1, StoredWhole
    <3>2. Clear(local'[Owner[s]], Both(s))
      <4>1. CASE j.to \in Path
        <5>1. local'[Owner[s]] \in ItemCopied(t, j.from, e, j.to)
          BY <1>1, <2>3, <4>1
        <5>2. t \in Tree /\ e # Absent /\ e \in Entry /\ Apart(s, j.to)
          BY <1>1, <1>15, <2>1, <2>3, StoredTyped DEF CopyItem, Executing, Ahead
        <5> HIDE DEF j, e, t
        <5> QED
          BY <2>1, <3>1, <4>1, <5>1, <5>2, CopiedClear
      <4>2. CASE j.to \notin Path
        BY <1>1, <2>1, <2>3, <4>2 DEF Known, Clear, Whole
      <4> QED
        BY <4>1, <4>2
    <3>3. TempsWhole(s)'
      BY <1>1, <1>3, <2>1, <2>3, <3>1, PlaceCases DEF TempsWhole
    <3>4. cpc'[s] = "operations" /\ SamePlan(s)
      BY <1>6, <2>3 DEF SamePlan
    <3> HIDE DEF j, e
    <3> QED
      BY <2>3, <3>2, <3>3, <3>4, KnownIsClear, PullMoves
  <2> QED
    BY <1>15, <2>2, <2>3 DEF CopyItem, Succeeds, CanCopy
<1>16. ASSUME NEW o \in todo[s], DeleteLocal(s, o), Current(s, o)
       PROVE  PullHoles(s)'
  <2>1. /\ o.to \in Place /\ Apart(s, o.to) /\ o.to \notin Both(s) /\ Clear(t, Both(s))
        /\ cpc[s] = "operations"
    BY <1>1, <1>4, <1>16, OpParts DEF Executing, Ahead, Current, PullHoles, DeletesExtra, DeleteLocal
  <2>2. \/ UNCHANGED <<local, temp>>
        \/ o.to \in Path /\ local'[Owner[s]] = Removed(t, o.to) /\ UNCHANGED temp
        \/ o.to \in TempPlace /\ temp' = [temp EXCEPT ![s][o.to] = Absent] /\ UNCHANGED local
    BY <1>6, <1>16, <2>1, PlaceCases DEF DeleteLocal
  <2>3. Clear(local'[Owner[s]], Both(s))
    BY <1>1, <2>1, <2>2, OthersStay
  <2>4. TempsWhole(s)'
    BY <1>1, <1>3, <2>2, EntryAssumption DEF TempsWhole, FileData
  <2>5. /\ cpc' = cpc /\ cjob' = cjob /\ SamePlan(s) /\ todo'[s] \subseteq todo[s]
        /\ UNCHANGED <<served, server, up, down>>
    BY <1>6, <1>16 DEF DeleteLocal, SamePlan, Begun
  <2> QED
    BY <2>1, <2>3, <2>4, <2>5, KnownIsClear, PullMoves
<1>17. /\ ~ (ReceiveOK(s) \/ ScanLocal(s) \/ ReceiveMetadata(s))
       /\ \A o \in todo[s] : ~ (Upload(s, o) \/ SendRemote(s, o))
  BY DEF Opening, ReceiveOK, ScanLocal, ReceiveMetadata, Upload, SendRemote
<1> QED
  BY <1>7, <1>8, <1>9, <1>10, <1>11, <1>12, <1>13, <1>14, <1>15, <1>16, <1>17
     DEF ClientStep, ExecuteOperation

-----------------------------------------------------------------------------
(* Holes in the whole session                                              *)

LEMMA PlanBeginsHoles ==
  ASSUME TypeOK, InStep, NEW s \in Session, Handshaking(s), Unwritten(s), ReceiveMetadata(s)
  PROVE  HolesKnown(s)'
<1> DEFINE remote == Head(down[s]).listing
           src == IF mode[s] = "push" THEN csnap[s] ELSE remote
           dst == IF mode[s] = "push" THEN remote ELSE csnap[s]
<1>1. /\ cpc[s] = "awaitMetadata" /\ cpc'[s] = "operations"
      /\ Arrived(s) = "METADATA" /\ Received(s)
      /\ UNCHANGED <<local, served, temp, mode, csnap, cjob, server, up>>
  BY DEF ReceiveMetadata, CGoto, TypeOK, ClientTyped
<1>2. HandshakeInStep(s)
  BY <1>1 DEF InStep, SessionInStep, Opening
<1>3. down'[s] = <<>> /\ spc'[s] \in {"loop", "closing", "closed"}
  BY <1>1, <1>2, ReceivedTypes DEF HandshakeInStep, server
<1>4. /\ Head(down[s]) \in Messages(down[s]) /\ remote \in Listing
      /\ Head(down[s]).type = "METADATA"
  BY <1>1, ReceivedMessages, ArrivedHead, DownParts
<1>5. Seen(csnap[s], local[Owner[s]]) /\ Seen(remote, served)
  BY <1>1, <1>4 DEF Handshaking
<1>6. csnap[s] \in Listing /\ mode[s] \in {"push", "pull"}
  BY DEF TypeOK, ClientTyped
<1>7. PICK rank \in Orders(DestToSource(src, dst)) : todo'[s] = Plan(src, dst, rank)
  BY DEF ReceiveMetadata, TypeOK, TreesTyped, ClientTyped
<1>8. rsnap'[s] = remote /\ csnap'[s] = csnap[s] /\ mode'[s] = mode[s]
  BY <1>1 DEF ReceiveMetadata, TypeOK, ClientTyped
<1> HIDE DEF remote
<1>9. DeletesExtra(s)'
  <2> SUFFICES ASSUME NEW o \in todo'[s], o.act = "delete", o.to \in Path
               PROVE  csnap'[s][o.to] = Absent \/ rsnap'[s][o.to] = Absent
    BY DEF DeletesExtra, Both
  <2>1. src[o.to] = Absent
    BY <1>4, <1>6, <1>7, PlanDeletesOnlyExtra
  <2> QED
    BY <1>8, <2>1
<1>10. /\ Clear(local[Owner[s]], Both(s)') /\ Clear(served, Both(s)')
       /\ TempsWhole(s)'
  BY <1>1, <1>5, <1>8 DEF Unwritten, Clear, Seen, Both, TempsWhole
<1>11. \A m \in Messages(up'[s]) : m.type \in {"HELLO", "METADATA"}
  BY <1>1 DEF Handshaking
<1>12. CASE mode[s] = "push"
  <2>1. Holes(s)' = {}
    BY <1>1, <1>8, <1>10, <1>12 DEF Holes, Target, Clear, Whole, Both
  <2>2. Known(served', spc'[s], sjob'[s], Both(s)')
    BY <1>1, <1>3, <1>10, KnownIsClear
  <2>3. PushHoles(s)'
    BY <1>1, <1>9, <1>10, <1>11, <2>1, <2>2 DEF PushHoles, SendsWhole, Clear
  <2> QED
    BY <1>8, <1>12, <2>3 DEF HolesKnown
<1>13. CASE mode[s] # "push"
  <2>1. Known(local'[Owner[s]], cpc'[s], cjob'[s], Both(s)')
    BY <1>1, <1>10, KnownIsClear
  <2>2. PullHoles(s)'
    BY <1>1, <1>3, <1>9, <1>10, <1>11, <2>1, EmptyMessages DEF PullHoles, Clear
  <2> QED
    BY <1>8, <1>13, <2>2 DEF HolesKnown
<1> QED
  BY <1>12, <1>13

LEMMA CrashHoles ==
  ASSUME TypeOK, InStep, NEW s \in Session, ~ Opening(s), HolesKnown(s), ServerCrash
  PROVE  HolesKnown(s)'
<1>1. /\ UNCHANGED <<trees, client, ssnap, sjob, out, up>>
      /\ spc'[s] = IF Serving(s) THEN "closed" ELSE spc[s]
      /\ down'[s] = down[s] \/ down'[s] = <<>>
      /\ down'[s] = down[s] \/ Serving(s)
  BY DEF ServerCrash
<1>2. /\ SamePlan(s) /\ cpc' = cpc /\ todo' = todo /\ cjob' = cjob /\ mode' = mode
      /\ served' = served /\ local' = local /\ temp' = temp
  BY <1>1 DEF client, trees, SamePlan
<1>3. Both(s)' = Both(s) /\ Holes(s)' = Holes(s)
  BY <1>2, SamePlanFiles DEF SamePlan, Holes, Target
<1>4. Messages(down'[s]) \subseteq Messages(down[s])
  BY <1>1, EmptyMessages
<1>5. CASE mode[s] = "push"
  <2>1. PushHoles(s)
    BY <1>5 DEF HolesKnown
  <2>2. CASE Serving(s)
    <3>1. spc'[s] = "closed" /\ spc[s] # "closed" /\ Known(served, spc[s], sjob[s], Both(s))
      BY <1>1, <2>1, <2>2 DEF Serving, PushHoles
    <3>2. OneHole(s)
      BY <1>5, <3>1, KnownOneHole DEF Target
    <3>3. spc[s] = "closing" => Holes(s) = {}
      BY <1>5, <3>1, KnownIsClear, ClearNoHoles DEF Target
    <3>4. CASE cpc[s] = "failed"
      BY <1>1, <1>2, <1>3, <1>5, <2>1, <3>1, <3>2, <3>4
         DEF HolesKnown, PushHoles, DeletesExtra, SendsWhole, TempsWhole, CutShort, OneHole
    <3>5. CASE cpc[s] # "failed" /\ spc[s] # "closing"
      <4>1. cpc[s] # "ok" /\ "DONE" \notin Types(down[s])
        BY <3>1, <3>5 DEF InStep, SessionInStep, LastWord
      <4>2. CutShort(s)'
        BY <1>2, <1>4, <4>1 DEF CutShort, Types, Messages
      <4> QED
        BY <1>1, <1>2, <1>3, <1>5, <2>1, <3>1, <3>2, <4>2
           DEF HolesKnown, PushHoles, DeletesExtra, SendsWhole, TempsWhole, OneHole
    <3>6. CASE spc[s] = "closing"
      BY <1>1, <1>2, <1>3, <1>5, <2>1, <3>1, <3>3, <3>6
         DEF HolesKnown, PushHoles, DeletesExtra, SendsWhole, TempsWhole
    <3> QED
      BY <3>4, <3>5, <3>6
  <2>3. CASE ~ Serving(s)
    <3>1. spc'[s] = spc[s] /\ down'[s] = down[s]
      BY <1>1, <2>3
    <3> QED
      BY <1>1, <1>2, <1>3, <1>5, <2>1, <3>1
         DEF HolesKnown, PushHoles, DeletesExtra, SendsWhole, TempsWhole, CutShort, OneHole
  <2> QED
    BY <2>2, <2>3
<1>6. CASE mode[s] # "push"
  <2>1. PullHoles(s) /\ spc'[s] \in {spc[s], "closed"}
    BY <1>1, <1>6 DEF HolesKnown
  <2>2. PullHoles(s)'
    BY <1>1, <1>2, <1>3, <1>4, <2>1 DEF PullHoles, DeletesExtra, TempsWhole, OneHole
  <2> QED
    BY <1>2, <1>6, <2>2 DEF HolesKnown
<1> QED
  BY <1>5, <1>6

LEMMA StaysUnwritten ==
  ASSUME NEW s \in Session, Unwritten(s), UNCHANGED trees
  PROVE  Unwritten(s)'
  BY DEF Unwritten, trees, TempsWhole

LEMMA CrashSessionHoles ==
  ASSUME TypeOK, InStep, NEW s \in Session, SessionHoles(s), ServerCrash
  PROVE  SessionHoles(s)'
<1>1. UNCHANGED <<trees, client, refused>>
  BY DEF ServerCrash
<1>2. (Opening(s)' <=> Opening(s)) /\ plan' = plan
  BY <1>1 DEF client, trees, Opening
<1> QED
  BY <1>1, <1>2, StaysUnwritten, CrashHoles DEF SessionHoles

LEMMA HandlerHoles ==
  ASSUME TypeOK, InStep, NEW s \in Session, SessionKept(s), SessionHoles(s), HandlerStep(s)
  PROVE  SessionHoles(s)'
<1>1. cpc' = cpc /\ plan' = plan /\ mode' = mode
  BY DEF HandlerStep, ReceiveHello, ScanServed, ExchangeMetadata, ReceiveFails, SendFile,
         ReceiveFile, FinishFile, DeleteFile, ReceiveCopy, FinishCopy, ReceiveLast, ReplySent,
         ReplyAbandoned, CloseConnection, client, trees, Begun
<1>2. refused[s] => refused'[s]
  BY DEF HandlerStep, ReceiveHello, ScanServed, ExchangeMetadata, ReceiveFails, SendFile,
         ReceiveFile, FinishFile, DeleteFile, ReceiveCopy, FinishCopy, ReceiveLast, ReplySent,
         ReplyAbandoned, CloseConnection, Refuse, TypeOK, ServerTyped
<1>3. CASE Opening(s)
  <2>1. Opening(s)' /\ UNCHANGED trees
    BY <1>1, <1>3, HandshakeIsQuiet DEF Opening
  <2> QED
    BY <1>3, <2>1, StaysUnwritten DEF SessionHoles
<1>4. CASE ~ Opening(s)
  <2>1. ~ Opening(s)'
    BY <1>1, <1>4 DEF Opening
  <2>2. ASSUME plan'[s] # {}, ~ refused'[s] PROVE HolesKnown(s)'
    <3>1. Executing(s) /\ HolesKnown(s)
      BY <1>1, <1>2, <1>4, <2>2 DEF SessionKept, SessionHoles
    <3> QED
      BY <1>1, <2>2, <3>1, HandlerPush, HandlerPull DEF HolesKnown
  <2> QED
    BY <2>1, <2>2 DEF SessionHoles
<1> QED
  BY <1>3, <1>4

LEMMA ClientHoles ==
  ASSUME TypeOK, InStep, NEW s \in Session, SessionKept(s), SessionHoles(s),
         Connect(s) \/ ClientStep(s) \/ ClientDies(s)
  PROVE  SessionHoles(s)'
<1>1. CASE Connect(s) \/ ReceiveOK(s) \/ ScanLocal(s)
  <2>1. Opening(s) /\ UNCHANGED trees
    BY <1>1 DEF Connect, ReceiveOK, ScanLocal, Opening
  <2>2. plan'[s] = {}
    BY <2>1 DEF SessionKept, Handshaking, trees
  <2> QED
    BY <2>1, <2>2, StaysUnwritten DEF SessionHoles
<1>2. CASE ReceiveMetadata(s)
  <2>1. Opening(s)
    BY <1>2 DEF ReceiveMetadata, Opening
  <2> QED
    BY <1>2, <2>1, PlanBegins, PlanBeginsHoles DEF SessionKept, SessionHoles
<1>3. CASE ReceiveUnexpected(s) \/ ConnectionLost(s) \/ ClientDies(s)
  <2>1. ClientFails(s) /\ UNCHANGED trees /\ cpc'[s] = "failed"
    BY <1>3, FailingMessages DEF ReceiveUnexpected, ConnectionLost, ClientDies
  <2>2. plan' = plan /\ refused' = refused /\ mode' = mode /\ ~ Opening(s)'
    BY <2>1 DEF trees, ClientFails, server, Opening
  <2>3. CASE Opening(s)
    BY <2>2, <2>3 DEF SessionKept, Handshaking, SessionHoles
  <2>4. CASE ~ Opening(s)
    <3>1. ASSUME plan'[s] # {}, ~ refused'[s] PROVE HolesKnown(s)'
      <4>1. Executing(s) /\ HolesKnown(s) /\ (ClientStep(s) \/ ClientDies(s))
        BY <1>3, <2>2, <2>4, <3>1 DEF SessionKept, SessionHoles, ClientStep
      <4> QED
        BY <2>2, <2>4, <4>1, ClientPush, ClientPull DEF HolesKnown
    <3> QED
      BY <2>2, <3>1 DEF SessionHoles
  <2> QED
    BY <2>3, <2>4
<1>4. CASE \/ ExecuteOperation(s) \/ SkipFile(s) \/ WriteReceivedFile(s) \/ FinishReceivedFile(s)
           \/ CopyItem(s) \/ SendDone(s) \/ DrainReply(s) \/ ReceiveDone(s)
  <2>1. ~ Opening(s) /\ ClientStep(s)
    BY <1>4 DEF Opening, ExecuteOperation, Current, SkipFile, WriteReceivedFile,
                FinishReceivedFile, CopyItem, SendDone, DrainReply, ReceiveDone, ClientStep
  <2>2. plan' = plan /\ refused' = refused /\ mode' = mode
    BY <1>4 DEF ExecuteOperation, Upload, SendRemote, RequestFile, PrepareCopy, DeleteLocal,
                SkipFile, WriteReceivedFile, FinishReceivedFile, CopyItem, SendDone, DrainReply,
                ReceiveDone, trees, Begun, ClientFails, server
  <2>3. ~ Opening(s)'
    <3>1. \/ UNCHANGED cpc
          \/ \E l \in {"operations", "awaitFile", "writing", "copying", "awaitDone", "ok", "failed"} :
                CGoto(s, l)
      BY <1>4 DEF ExecuteOperation, Upload, SendRemote, RequestFile, PrepareCopy, DeleteLocal,
                  SkipFile, WriteReceivedFile, FinishReceivedFile, CopyItem, SendDone, DrainReply,
                  ReceiveDone, ClientFails
    <3> QED
      BY <2>1, <3>1 DEF Opening, CGoto, TypeOK, ClientTyped
  <2>4. ASSUME plan'[s] # {}, ~ refused'[s] PROVE HolesKnown(s)'
    <3>1. Executing(s) /\ HolesKnown(s)
      BY <2>1, <2>2, <2>4 DEF SessionKept, SessionHoles
    <3> QED
      BY <2>1, <2>2, <3>1, ClientPush, ClientPull DEF HolesKnown
  <2> QED
    BY <2>3, <2>4 DEF SessionHoles
<1> QED
  BY <1>1, <1>2, <1>3, <1>4 DEF ClientStep

LEMMA InitHoles == Init => HoleInv
<1> SUFFICES ASSUME Init, NEW s \in Session PROVE SessionHoles(s)
  BY DEF HoleInv
<1>1. cpc[s] = "idle" /\ Owner[s] \in Client
  BY SessionAssumption DEF Init
<1>2. Whole(local[Owner[s]]) /\ Whole(served)
  BY <1>1, ScenarioAssumption DEF Init
<1>3. TempsWhole(s)
  BY EntryAssumption DEF Init, TempsWhole, FileData
<1> QED
  BY <1>1, <1>2, <1>3 DEF SessionHoles, Opening, Unwritten

LEMMA NextHoles == TypeOK /\ InStep /\ KeptInv /\ HoleInv /\ [Next]_vars => HoleInv'
<1> SUFFICES ASSUME TypeOK, InStep, KeptInv, HoleInv, [Next]_vars, NEW s \in Session, Alone(s)'
             PROVE  SessionHoles(s)'
  BY DEF HoleInv
<1>1. CASE UNCHANGED vars
  <2>1. /\ UNCHANGED <<local, served, temp, plan, mode, cpc, csnap, rsnap, todo, cjob>>
        /\ UNCHANGED <<spc, sjob, out, up, down, refused>>
    BY <1>1 DEF vars, trees, client, server
  <2>2. SessionHoles(s)
    BY <2>1 DEF HoleInv, Alone
  <2> QED
    BY <2>1, <2>2 DEF SessionHoles, Opening, Unwritten, HolesKnown, PushHoles, PullHoles, TempsWhole,
                      DeletesExtra, SendsWhole, CutShort, OneHole, Holes, Target, Both
<1>2. CASE Next /\ ~ UNCHANGED vars
  <2>1. /\ SessionKept(s) /\ SessionHoles(s)
        /\ ServerCrash \/ Connect(s) \/ ClientStep(s) \/ ClientDies(s) \/ HandlerStep(s)
    BY <1>2, StepIsItsOwn DEF KeptInv, HoleInv
  <2> QED
    BY <2>1, CrashSessionHoles, ClientHoles, HandlerHoles
<1> QED
  BY <1>1, <1>2

\* Of the files both sides have, an interrupted session leaves at most one missing or half
\* written, and a session that goes on none but the one it is at: copyFile and copyLocal
\* remove and copy, Data.write truncates and writes, one operation at a time, and a handler
\* that closes in between has not said DONE, so that the client cannot report success.
THEOREM SpecOneHoleAtMost == Spec => []OneHoleAtMost
<1>1. KeptInv /\ HoleInv => OneHoleAtMost
  <2> SUFFICES ASSUME KeptInv, HoleInv, NEW s \in Session, Alone(s), plan[s] # {}, ~ refused[s]
               PROVE  IF Interrupted(s) THEN Cardinality(Holes(s)) <= 1
                      ELSE Holes(s) \subseteq InProgress(s)
    BY DEF OneHoleAtMost
  <2>1. HolesKnown(s)
    BY DEF KeptInv, SessionKept, Handshaking, HoleInv, SessionHoles
  <2>2. Interrupted(s) => OneHole(s) \/ Holes(s) = {}
    BY <2>1 DEF Interrupted, HolesKnown, PushHoles, PullHoles
  <2>3. OneHole(s) \/ Holes(s) = {} => Cardinality(Holes(s)) <= 1
    <3>1. Cardinality({}) = 0 /\ \A x : Cardinality({x}) = 1
      BY FS_EmptySet, FS_Singleton
    <3>2. OneHole(s) \/ Holes(s) = {} => Holes(s) = {} \/ \E x : Holes(s) = {x}
      BY DEF OneHole
    <3> QED
      BY <3>1, <3>2
  <2>4. CASE ~ Interrupted(s) /\ mode[s] = "push"
    <3>1. CASE spc[s] = "closed"
      BY <2>1, <2>4, <3>1 DEF Interrupted, HolesKnown, PushHoles, CutShort
    <3>2. CASE spc[s] # "closed"
      BY <2>1, <2>4, <3>2 DEF HolesKnown, PushHoles, Known, Holes, Target, Both, InProgress
    <3> QED
      BY <3>1, <3>2
  <2>5. CASE ~ Interrupted(s) /\ mode[s] # "push"
    BY <2>1, <2>5 DEF Interrupted, HolesKnown, PullHoles, Known, Holes, Target, Both, InProgress
  <2> QED
    BY <2>2, <2>3, <2>4, <2>5
<1> QED
  BY <1>1, InitKept, NextKept, InitHoles, NextHoles, SpecTypeOK, SpecInStep, PTL DEF Spec
=============================================================================
