--------------------------- MODULE NetOrderProofs ---------------------------
(***************************************************************************)
(* That a session begins the operations of its plan in their order, and    *)
(* what follows from it.  Of a session by itself, that it carries out its  *)
(* plan as a single thread would (SequentialSync), and mirrors the source  *)
(* when it succeeds without a refusal and nothing it reads was overtaken.  *)
(* Of pushes at the same time about different files, that none is in       *)
(* another's way.                                                          *)
(***************************************************************************)
EXTENDS NetRefinement, NetSessionProofs

-----------------------------------------------------------------------------
(* The order of the operations                                             *)

\* How many of the operations come before o in the client's array.
Pos(P, o) == Cardinality({x \in P : x.ord < o.ord})

\* All but the first k operations of P.
Remains(P, R, k) ==
    /\ R \subseteq P /\ Cardinality(P \ R) = k
    /\ \A o \in P \ R, x \in R : o.ord < x.ord

\* The message a push sends for an operation, and what a pull does for one.
Carries(m, o) ==
    \/ m.type = "FILE" /\ o.act = "transfer" /\ m.path = o.to
    \/ m.type = "COPY" /\ o.act = "copy" /\ m.from = o.from /\ m.to = o.to
    \/ m.type = "DELETE" /\ o.act = "delete" /\ m.path = o.to

Operating == {"FILE", "COPY", "DELETE"}

\* The kth operation of s is what m says.
IsOperation(s, k, m) == \E o \in plan[s] : Carries(m, o) /\ Pos(plan[s], o) = k

\* What is on its way to the handler: the operations that follow those begun, and DONE
\* behind the last of them.
UpInOrder(s) ==
    \A i \in 1..Len(up[s]) :
        LET m == up[s][i]
        IN  /\ m.type \in Operating => mode[s] = "push" /\ IsOperation(s, applied[s] + i - 1, m)
            /\ m.type = "DONE" =>
                  /\ i = Len(up[s])
                  /\ mode[s] = "push" => applied[s] + i - 1 = Cardinality(plan[s])
            /\ mode[s] = "push" /\ plan[s] # {} => m.type \in Operating \cup {"DONE"}

\* ... of which there is none before the plan, or if it is empty.
UpBefore(s) ==
    /\ Len(up[s]) <= 1
    /\ \/ cpc[s] \in {"scan", "operations"}
       \/ cpc[s] = "awaitOK" /\ "OK" \in Types(down[s])
       \/ cpc[s] = "awaitMetadata" /\ "METADATA" \in Types(down[s])
       => up[s] = <<>>

ChannelInOrder(s) ==
    spc[s] # "closed" =>
        /\ UpInOrder(s)
        /\ plan[s] = {} => UpBefore(s)
        /\ cpc[s] = "operations" => "DONE" \notin Types(up[s])

\* The handler is with an operation of the push, once there are any.
HandlerInOrder(s) ==
    /\ mode[s] = "push" /\ plan[s] # {} =>
          /\ spc[s] \in {"loop", "writing", "copying", "sending", "closing", "closed"}
          /\ spc[s] = "sending" => out[s].next # "scan"
    /\ spc[s] \in {"writing", "copying"} =>
          /\ mode[s] = "push" /\ applied[s] > 0 /\ IsOperation(s, applied[s] - 1, sjob[s])

PushInOrder(s) ==
    /\ cpc[s] \notin {"awaitFile", "writing", "copying"}
    /\ cpc[s] = "operations" =>
          /\ todo[s] \subseteq plan[s]
          /\ spc[s] # "closed" => Remains(plan[s], todo[s], applied[s] + Len(up[s]))
    /\ cpc[s] # "failed" /\ \/ cpc[s] = "ok"
                            \/ "DONE" \in Types(down[s])
                            \/ spc[s] = "sending" /\ out[s].message.type = "DONE"
       => applied[s] = Cardinality(plan[s])

\* Between two files nothing is under way in a pull; else the file asked for is.
NothingUnderWay(s) ==
    /\ spc[s] \in {"loop", "closing", "closed"} /\ down[s] = <<>>
    /\ spc[s] # "closed" => up[s] = <<>>

FileUnderWay(s, p) ==
    /\ spc[s] \in {"loop", "closing", "closed"}
    /\ \/ down[s] = <<>>
       \/ /\ Len(down[s]) = 1
          /\ down[s][1].type = "ERROR" \/ (down[s][1].type = "FILE" /\ down[s][1].path = p)
    /\ spc[s] # "closed" => up[s] = <<>> \/ (up[s] = <<Request(p)>> /\ down[s] = <<>>)

PullInOrder(s) ==
    /\ cpc[s] \in {"operations", "writing", "copying"} =>
          Remains(plan[s], todo[s], applied[s]) /\ NothingUnderWay(s)
    /\ cpc[s] \in {"writing", "copying"} =>
          \E o \in plan[s] :
              /\ applied[s] > 0 /\ Pos(plan[s], o) = applied[s] - 1
              /\ cpc[s] = "writing" => o.act = "transfer" /\ o.to = cjob[s].path
              /\ cpc[s] = "copying" => o = cjob[s]
    /\ cpc[s] = "awaitFile" =>
          /\ Remains(plan[s], todo[s], applied[s] + 1)
          /\ \E o \in plan[s] : /\ o.act = "transfer" /\ Pos(plan[s], o) = applied[s]
                                /\ FileUnderWay(s, o.to)
    /\ cpc[s] \in {"awaitDone", "ok"} => applied[s] = Cardinality(plan[s])

\* What the client has planned is a plan for the two listings.
Planned(s) ==
    /\ Opening(s) => plan[s] = {} /\ applied[s] = 0 /\ todo[s] = {}
    /\ Opening(s) \/ (cpc[s] = "failed" /\ plan[s] = {})
       \/ \E rank \in Orders(DestToSource(SourceListing(s), TargetListing(s))) :
             plan[s] = Plan(SourceListing(s), TargetListing(s), rank)

InOrder(s) ==
    /\ Planned(s) /\ ChannelInOrder(s) /\ HandlerInOrder(s)
    /\ mode[s] = "push" => PushInOrder(s)
    /\ mode[s] = "pull" => PullInOrder(s)

OrderInv == \A s \in Session : InOrder(s)
\* The places of a plan's operations are below a bound.
LEMMA PlacesBounded ==
  ASSUME NEW src \in Listing, NEW dst \in Listing,
         NEW rank \in Orders(DestToSource(src, dst)), NEW o \in Plan(src, dst, rank)
  PROVE  AfterCycles + NPaths + NPaths \in Nat /\ o.ord \in 0..(AfterCycles + NPaths + NPaths)
<1> DEFINE d2s == DestToSource(src, dst)
           M == NPaths + 2
           base == AfterCycles
<1>1. /\ M \in Nat /\ M - 1 = NPaths + 1 /\ base \in Nat /\ base + NPaths + NPaths \in Nat
      /\ \A p \in Path : /\ base + p \in 0..(base + NPaths + NPaths)
                         /\ base + NPaths + p \in 0..(base + NPaths + NPaths)
  BY PathAssumption DEF AfterCycles, Path
<1>2. CASE \E p \in WalksThatFind(d2s, rank) : o \in CycleOps(d2s, rank, p)
  <2>1. PICK p \in WalksThatFind(d2s, rank) : o \in CycleOps(d2s, rank, p)
    BY <1>2
  <2>2. p \in Copies(src, dst) /\ LeadsToCycle(d2s, p) /\ d2s \in Dictionary
        /\ p \in DOMAIN d2s
    BY <2>1, DestToSourceIsDictionary, CopiesNeedTransfer DEF WalksThatFind
  <2>3. rank[p] \in Nat /\ rank[p] < NPaths + 1
    BY <2>2, RankBounds, PathAssumption
  <2> HIDE DEF d2s
  <2>4. PICK i \in 0..(NPaths + 1) : o.ord = rank[p] * M + i
    BY <2>1, <2>2, <2>3, OneOpPerSlot
  <2>5. rank[p] * M \in Nat /\ rank[p] * M + i < (NPaths + 1) * M /\ i \in Nat
    BY <1>1, <2>3, Blocks, PathAssumption
  <2> DEFINE r == rank[p] * M
  <2>6. r \in Nat /\ r + i < base /\ o.ord = r + i
    BY <2>4, <2>5 DEF AfterCycles
  <2> HIDE DEF r, base
  <2> QED
    BY <1>1, <2>5, <2>6, PathAssumption DEF base
<1>3. CASE ~ \E p \in WalksThatFind(d2s, rank) : o \in CycleOps(d2s, rank, p)
  <2>1. \E p \in Path : o.ord = base + p \/ o.ord = base + NPaths + p
    BY <1>3, PlanCases, CopiesNeedTransfer
  <2> HIDE DEF base
  <2> QED
    BY <1>1, <2>1 DEF base
<1> QED
  BY <1>2, <1>3

\* A list of operations: so many, and no two with the same place.
Ordered(P) == P \subseteq Op /\ IsFiniteSet(P) /\ \A o, x \in P : o.ord = x.ord => o = x

LEMMA PlanOrdered ==
  ASSUME NEW src \in Listing, NEW dst \in Listing,
         NEW rank \in Orders(DestToSource(src, dst))
  PROVE  Ordered(Plan(src, dst, rank))
<1> DEFINE P == Plan(src, dst, rank)
           B == 0..(AfterCycles + NPaths + NPaths)
           f == [o \in P |-> o.ord]
<1>1. CASE P = {}
  BY <1>1, FS_EmptySet DEF Ordered
<1>2. CASE P # {}
  <2>1. AfterCycles + NPaths + NPaths \in Nat /\ \A o \in P : o.ord \in B
    BY <1>2, PlacesBounded
  <2>2. IsFiniteSet(B)
    BY <2>1, FS_Interval
  <2>3. \A o, x \in P : o.ord = x.ord => o = x
    BY OneOpPerPlace
  <2>4. f \in Injection(P, B)
    BY <2>1, <2>3 DEF Injection, IsInjective
  <2>5. IsFiniteSet(P)
    BY <2>2, <2>4, FS_Injection
  <2>6. P \subseteq Op
    BY PlanWritesOnlyDifferences
  <2> QED
    BY <2>3, <2>5, <2>6 DEF Ordered
<1> QED
  BY <1>1, <1>2

LEMMA PosBounds ==
  ASSUME NEW P, Ordered(P), NEW o \in P
  PROVE  /\ Cardinality(P) \in Nat /\ Pos(P, o) \in Nat /\ Pos(P, o) < Cardinality(P)
         /\ \A x \in P : /\ o.ord < x.ord <=> Pos(P, o) < Pos(P, x)
                         /\ Pos(P, o) = Pos(P, x) => o = x
<1> DEFINE B(x) == {y \in P : y.ord < x.ord}
<1>1. /\ \A x \in P : x.ord \in Nat
      /\ IsFiniteSet(P) /\ \A x, y \in P : x.ord = y.ord => x = y
  BY DEF Ordered, Op
<1>2. \A x \in P : B(x) \in SUBSET P /\ IsFiniteSet(B(x)) /\ Cardinality(B(x)) \in Nat
  BY <1>1, FS_Subset, FS_CardinalityType
<1>3. Cardinality(P) \in Nat
  BY <1>1, FS_CardinalityType
<1>4. ASSUME NEW x \in P, NEW y \in P, x.ord < y.ord
      PROVE  Cardinality(B(x)) < Cardinality(B(y))
  <2>1. B(x) \in SUBSET B(y) /\ x \in B(y) /\ x \notin B(x)
    BY <1>1, <1>4
  <2>2. Cardinality(B(x)) <= Cardinality(B(y)) /\ Cardinality(B(x)) # Cardinality(B(y))
    BY <1>2, <2>1, FS_Subset
  <2> QED
    BY <1>2, <2>2
<1>5. Cardinality(B(o)) < Cardinality(P)
  <2>1. o \notin B(o)
    BY <1>1
  <2>2. Cardinality(B(o)) <= Cardinality(P) /\ Cardinality(B(o)) # Cardinality(P)
    BY <1>1, <1>2, <2>1, FS_Subset
  <2> QED
    BY <1>2, <1>3, <2>2
<1>6. \A x \in P : Pos(P, x) = Cardinality(B(x))
  BY DEF Pos
<1> HIDE DEF B
<1>7. ASSUME NEW x \in P
      PROVE  /\ o.ord < x.ord <=> Pos(P, o) < Pos(P, x)
             /\ Pos(P, o) = Pos(P, x) => o = x
  <2>1. o.ord < x.ord \/ o.ord = x.ord \/ x.ord < o.ord
    BY <1>1
  <2>2. o.ord < x.ord => Pos(P, o) < Pos(P, x)
    BY <1>4, <1>6
  <2>3. x.ord < o.ord => Pos(P, x) < Pos(P, o)
    BY <1>4, <1>6
  <2>4. o.ord = x.ord => o = x
    BY <1>1
  <2>5. Pos(P, x) \in Nat /\ Pos(P, o) \in Nat
    BY <1>2, <1>6
  <2> QED
    BY <2>1, <2>2, <2>3, <2>4, <2>5
<1> QED
  BY <1>2, <1>3, <1>5, <1>6, <1>7

\* The next of what remains is the next in the array.
LEMMA RemainsTakes ==
  ASSUME NEW P, Ordered(P), NEW R, NEW k, Remains(P, R, k), NEW o \in R,
         \A x \in R : o.ord <= x.ord
  PROVE  /\ k \in Nat /\ o \in P /\ Pos(P, o) = k
         /\ Remains(P, R \ {o}, k + 1)
<1>1. /\ \A x \in P : x.ord \in Nat
      /\ IsFiniteSet(P) /\ \A x, y \in P : x.ord = y.ord => x = y
  BY DEF Ordered, Op
<1>2. /\ R \subseteq P /\ Cardinality(P \ R) = k
      /\ \A y \in P \ R, x \in R : y.ord < x.ord
  BY DEF Remains
<1>3. {x \in P : x.ord < o.ord} = P \ R
  <2>1. \A x \in R : ~ (x.ord < o.ord)
    BY <1>1, <1>2
  <2> QED
    BY <1>2, <2>1
<1>4. IsFiniteSet(P \ R) /\ k \in Nat
  BY <1>1, <1>2, FS_Subset, FS_CardinalityType
<1>5. P \ (R \ {o}) = (P \ R) \cup {o} /\ o \notin P \ R
  BY <1>2
<1>6. Cardinality(P \ (R \ {o})) = k + 1
  BY <1>2, <1>4, <1>5, FS_AddElement
<1>7. \A x \in R \ {o} : o.ord < x.ord
  BY <1>1, <1>2
<1>8. \A y \in P \ (R \ {o}), x \in R \ {o} : y.ord < x.ord
  BY <1>2, <1>5, <1>7
<1> QED
  BY <1>2, <1>3, <1>4, <1>6, <1>8 DEF Remains, Pos

LEMMA RemainsEnds ==
  ASSUME NEW P, Ordered(P)
  PROVE  /\ Remains(P, P, 0)
         /\ \A k : Remains(P, {}, k) => k = Cardinality(P)
<1>1. P \ P = {} /\ P \ {} = P
  OBVIOUS
<1> QED
  BY <1>1, FS_EmptySet DEF Remains

-----------------------------------------------------------------------------
(* What of a session its order depends on                                  *)

OrderPart(s) == <<mode[s], cpc[s], csnap[s], rsnap[s], todo[s], cjob[s], spc[s], sjob[s], out[s],
                  up[s], down[s], plan[s], applied[s]>>

LEMMA SamePartSameOrder ==
  ASSUME NEW s \in Session, InOrder(s), UNCHANGED OrderPart(s)
  PROVE  InOrder(s)'
<1>1. /\ mode'[s] = mode[s] /\ cpc'[s] = cpc[s] /\ csnap'[s] = csnap[s] /\ rsnap'[s] = rsnap[s]
      /\ todo'[s] = todo[s] /\ cjob'[s] = cjob[s] /\ spc'[s] = spc[s] /\ sjob'[s] = sjob[s]
      /\ out'[s] = out[s] /\ up'[s] = up[s] /\ down'[s] = down[s] /\ plan'[s] = plan[s]
      /\ applied'[s] = applied[s]
  BY DEF OrderPart
<1>2. Planned(s)'
  BY <1>1 DEF InOrder, Planned, Opening, SourceListing, TargetListing
<1>3. ChannelInOrder(s)'
  BY <1>1 DEF InOrder, ChannelInOrder, UpInOrder, UpBefore, IsOperation
<1>4. HandlerInOrder(s)'
  BY <1>1 DEF InOrder, HandlerInOrder, IsOperation
<1>5. mode'[s] = "push" => PushInOrder(s)'
  BY <1>1 DEF InOrder, PushInOrder
<1>6. mode'[s] = "pull" => PullInOrder(s)'
  BY <1>1 DEF InOrder, PullInOrder, NothingUnderWay, FileUnderWay
<1> QED
  BY <1>2, <1>3, <1>4, <1>5, <1>6 DEF InOrder

\* What there is to know of types, for a session.
LEMMA OrderTyped ==
  ASSUME TypeOK, NEW s \in Session
  PROVE  /\ up[s] \in Seq(UpMessage) /\ down[s] \in Seq(DownMessage)
         /\ Len(up[s]) \in Nat /\ Len(down[s]) \in Nat
         /\ applied[s] \in Nat /\ plan[s] \subseteq Op /\ todo[s] \subseteq Op
         /\ mode[s] \in {"push", "pull"} /\ cpc[s] \in ClientPC /\ spc[s] \in HandlerPC
         /\ csnap[s] \in Listing /\ rsnap[s] \in Listing
<1>1. up[s] \in Seq(UpMessage) /\ down[s] \in Seq(DownMessage)
  BY DEF TypeOK, UpTyped, DownTyped
<1>2. Len(up[s]) \in Nat /\ Len(down[s]) \in Nat
  BY <1>1, LenProperties
<1> QED
  BY <1>1, <1>2 DEF TypeOK, TreesTyped, ClientTyped, ServerTyped

LEMMA PlanIsOrdered ==
  ASSUME TypeOK, NEW s \in Session, Planned(s)
  PROVE  Ordered(plan[s])
<1>1. SourceListing(s) \in Listing /\ TargetListing(s) \in Listing
  BY OrderTyped DEF SourceListing, TargetListing
<1>2. CASE plan[s] = {}
  BY <1>2, FS_EmptySet DEF Ordered
<1>3. CASE plan[s] # {}
  BY <1>1, <1>3, PlanOrdered DEF Planned
<1> QED
  BY <1>2, <1>3

LEMMA EmptyLength == Len(<<>>) = 0 /\ Len(<<>>) <= 1 /\ 1..Len(<<>>) = {}
  OBVIOUS

\* What a channel holds without its first message.
LEMMA UpTail ==
  ASSUME TypeOK, NEW s \in Session, up[s] # <<>>, up'[s] = Tail(up[s])
  PROVE  /\ Len(up[s]) >= 1 /\ Len(up'[s]) = Len(up[s]) - 1 /\ Head(up[s]) = up[s][1]
         /\ \A i \in 1..Len(up'[s]) : i + 1 \in 1..Len(up[s]) /\ up'[s][i] = up[s][i + 1]
         /\ Len(up[s]) = 1 => up'[s] = <<>>
         /\ Types(up'[s]) \subseteq Types(up[s])
<1> DEFINE q == up[s]
           r == Tail(q)
<1>1. q \in Seq(UpMessage) /\ q # <<>> /\ Len(q) \in Nat /\ Len(q) # 0
  BY OrderTyped, EmptySeq
<1>2. /\ Len(r) = Len(q) - 1 /\ Head(q) = q[1]
      /\ \A i \in 1..Len(r) : r[i] = q[i + 1]
  BY <1>1, HeadTailProperties
<1>3. Len(q) = 1 => r = <<>>
  BY <1>1, TailTypes
<1>4. Types(r) \subseteq Types(q)
  BY <1>1, TailTypes
<1> HIDE DEF q, r
<1>5. \A i \in 1..Len(r) : i + 1 \in 1..Len(q)
  BY <1>1, <1>2
<1> QED
  BY <1>1, <1>2, <1>3, <1>4, <1>5 DEF q, r

\* ... and with one more.
LEMMA UpAppend ==
  ASSUME TypeOK, NEW s \in Session, NEW m \in UpMessage, Sent(s, m)
  PROVE  /\ Len(up'[s]) = Len(up[s]) + 1 /\ up'[s][Len(up[s]) + 1] = m
         /\ \A i \in 1..Len(up[s]) : up'[s][i] = up[s][i]
         /\ Types(up'[s]) = Types(up[s]) \cup {m.type}
         /\ up[s] = <<>> => up'[s] = <<m>>
<1>1. up'[s] = Append(up[s], m) /\ up[s] \in Seq(UpMessage)
  BY DEF Sent, TypeOK, UpTyped
<1>2. up[s] = <<>> => up'[s] = <<m>>
  BY <1>1
<1> QED
  BY <1>1, <1>2, AppendProperties, AppendTypes, LenProperties

\* The handler takes a message.
LEMMA ChannelTakes ==
  ASSUME TypeOK, NEW s \in Session, ChannelInOrder(s), spc[s] # "closed",
         up[s] # <<>>, up'[s] = Tail(up[s]),
         UNCHANGED <<mode[s], cpc[s], plan[s]>>,
         IF Head(up[s]).type \in Operating THEN applied'[s] = applied[s] + 1
                                           ELSE applied'[s] = applied[s]
  PROVE  /\ ChannelInOrder(s)' /\ (plan[s] = {} => up'[s] = <<>>)
         /\ Head(up[s]).type \in Operating =>
               mode[s] = "push" /\ IsOperation(s, applied[s], Head(up[s]))
         /\ mode[s] = "push" /\ Head(up[s]).type \notin Operating => up'[s] = <<>>
         /\ mode[s] = "push" /\ Head(up[s]).type = "DONE" => applied[s] = Cardinality(plan[s])
<1>1. /\ Len(up[s]) >= 1 /\ Len(up'[s]) = Len(up[s]) - 1 /\ Head(up[s]) = up[s][1]
      /\ \A i \in 1..Len(up'[s]) : i + 1 \in 1..Len(up[s]) /\ up'[s][i] = up[s][i + 1]
      /\ Len(up[s]) = 1 => up'[s] = <<>>
      /\ Types(up'[s]) \subseteq Types(up[s])
  BY UpTail
<1>2. Len(up[s]) \in Nat /\ applied[s] \in Nat /\ mode[s] \in {"push", "pull"}
  BY OrderTyped
<1>3. UpInOrder(s) /\ (plan[s] = {} => UpBefore(s)) /\ 1 \in 1..Len(up[s])
  BY <1>1, <1>2 DEF ChannelInOrder
<1>4. plan[s] = {} => up'[s] = <<>>
  <2>1. plan[s] = {} => Len(up[s]) <= 1
    BY <1>3 DEF UpBefore
  <2> QED
    BY <1>1, <1>2, <2>1
<1>5. Head(up[s]).type = "DONE" => up'[s] = <<>>
  BY <1>1, <1>3 DEF UpInOrder
<1>6. mode[s] = "push" /\ Head(up[s]).type \notin Operating => up'[s] = <<>>
  BY <1>1, <1>3, <1>4, <1>5 DEF UpInOrder
<1>7. Head(up[s]).type \in Operating =>
          mode[s] = "push" /\ IsOperation(s, applied[s], Head(up[s]))
  <2>1. applied[s] + 1 - 1 = applied[s]
    BY <1>2
  <2> QED
    BY <1>1, <1>3, <2>1 DEF UpInOrder
<1>8. mode[s] = "push" /\ Head(up[s]).type = "DONE" => applied[s] = Cardinality(plan[s])
  <2>1. applied[s] + 1 - 1 = applied[s]
    BY <1>2
  <2> QED
    BY <1>1, <1>3, <2>1 DEF UpInOrder
<1>9. UpInOrder(s)'
  <2>1. CASE up'[s] = <<>>
    <3>1. 1..Len(up'[s]) = {}
      BY <2>1, EmptyLength
    <3> QED
      BY <3>1 DEF UpInOrder
  <2>2. CASE up'[s] # <<>>
    <3>1. ASSUME NEW i \in 1..Len(up'[s])
          PROVE  /\ i + 1 \in 1..Len(up[s]) /\ up'[s][i] = up[s][i + 1]
                 /\ i + 1 = Len(up[s]) => i = Len(up'[s])
                 /\ mode[s] = "push" => applied'[s] + i - 1 = applied[s] + (i + 1) - 1
      <4>1. mode[s] = "push" => applied'[s] = applied[s] + 1
        BY <1>6, <2>2
      <4>2. i \in Nat /\ i + 1 \in 1..Len(up[s]) /\ up'[s][i] = up[s][i + 1]
        BY <1>1
      <4>3. i + 1 = Len(up[s]) => i = Len(up'[s])
        BY <1>1, <1>2, <4>2
      <4>4. applied[s] + 1 + i - 1 = applied[s] + (i + 1) - 1
        BY <1>2, <4>2
      <4> QED
        BY <4>1, <4>2, <4>3, <4>4
    <3>2. \A k, m : IsOperation(s, k, m)' <=> IsOperation(s, k, m)
      BY DEF IsOperation
    <3> QED
      BY <1>3, <3>1, <3>2 DEF UpInOrder
  <2> QED
    BY <2>1, <2>2
<1>10. plan[s] = {} => UpBefore(s)'
  BY <1>4, EmptyLength DEF UpBefore
<1> QED
  BY <1>1, <1>3, <1>4, <1>6, <1>7, <1>8, <1>9, <1>10 DEF ChannelInOrder

\* The channel stays as it is.
LEMMA ChannelKeeps ==
  ASSUME NEW s \in Session, ChannelInOrder(s), spc[s] # "closed",
         UNCHANGED <<mode[s], cpc[s], plan[s], applied[s], up[s]>>,
         Opening(s) /\ "OK" \in Types(down'[s]) => "OK" \in Types(down[s]),
         Opening(s) /\ "METADATA" \in Types(down'[s]) => "METADATA" \in Types(down[s])
  PROVE  ChannelInOrder(s)'
<1>1. UpInOrder(s)'
  BY DEF ChannelInOrder, UpInOrder, IsOperation
<1>2. plan[s] = {} => UpBefore(s)'
  BY DEF ChannelInOrder, UpBefore, Opening
<1> QED
  BY <1>1, <1>2 DEF ChannelInOrder

\* Where a reply goes.
LEMMA ReplyEffect ==
  ASSUME TypeOK, NEW s \in Session, NEW m \in DownMessage, NEW next, Reply(s, m, next)
  PROVE  /\ Types(down'[s]) \subseteq Types(down[s]) \cup {m.type}
         /\ \/ spc'[s] = next /\ out'[s] = out[s]
            \/ /\ spc'[s] = "sending" /\ out'[s].message = m /\ out'[s].next = next
               /\ ~ Ended(s)
         /\ down[s] = <<>> /\ ~ Ended(s) => down'[s] = <<m>> /\ spc'[s] = next
<1>1. down \in [Session -> Seq(DownMessage)] /\ spc \in [Session -> HandlerPC]
      /\ down[s] \in Seq(DownMessage)
  BY DEF TypeOK, ServerTyped, DownTyped
<1>2. CASE Ended(s) \/ Broken(s)
  <2>1. Broken(s) => down[s] # <<>>
    BY DEF Broken
  <2> QED
    BY <1>1, <1>2, <2>1 DEF Reply, SGoto
<1>3. CASE ~ Ended(s) /\ ~ Broken(s) /\ HasRoom(s)
  <2>1. down' = [down EXCEPT ![s] = Append(@, m)] /\ SGoto(s, next) /\ UNCHANGED out
    BY <1>3 DEF Reply
  <2>2. down'[s] = Append(down[s], m)
    BY <1>1, <2>1
  <2>3. Types(down'[s]) = Types(down[s]) \cup {m.type}
    BY <1>1, <2>2, AppendTypes
  <2>4. down[s] = <<>> => down'[s] = <<m>>
    BY <2>2
  <2> QED
    BY <1>1, <2>1, <2>3, <2>4 DEF SGoto
<1>4. CASE ~ Ended(s) /\ ~ Broken(s) /\ ~ HasRoom(s)
  <2>1. /\ out' = [out EXCEPT ![s] = [message |-> m, next |-> next]]
        /\ SGoto(s, "sending") /\ UNCHANGED down
    BY <1>4 DEF Reply
  <2>2. down[s] # <<>>
    BY <1>4, EmptyLength, BoundAssumption DEF HasRoom
  <2>3. out \in [Session -> [message: DownMessage, next: {"scan", "loop", "closing"}]]
    BY DEF TypeOK, ServerTyped
  <2> QED
    BY <1>1, <1>4, <2>1, <2>2, <2>3 DEF SGoto
<1> QED
  BY <1>2, <1>3, <1>4

LEMMA SamePlanned ==
  ASSUME NEW s \in Session, Planned(s),
         UNCHANGED <<mode[s], cpc[s], csnap[s], rsnap[s], todo[s], plan[s], applied[s]>>
            \/ (~ Opening(s) /\ ~ Opening(s)' /\ UNCHANGED <<mode[s], csnap[s], rsnap[s], plan[s]>>
                /\ (cpc[s] = "failed" => cpc'[s] = "failed"))
  PROVE  Planned(s)'
  BY DEF Planned, Opening, SourceListing, TargetListing

\* A push goes on with its operations.
LEMMA PushContinues ==
  ASSUME TypeOK, InStep, NEW s \in Session, mode[s] = "push", PushInOrder(s),
         UNCHANGED <<client, plan>>,
         \/ spc[s] = "loop" /\ up[s] # <<>>
         \/ spc[s] \in {"writing", "copying"},
         applied'[s] + Len(up'[s]) = applied[s] + Len(up[s]),
         Types(down'[s]) \subseteq Types(down[s]) \cup {"ERROR"},
         spc'[s] = "sending" => out'[s].message.type = "ERROR"
  PROVE  PushInOrder(s)'
<1>1. cpc' = cpc /\ todo' = todo /\ plan' = plan
  BY DEF client
<1>2. cpc[s] # "failed" => cpc[s] # "ok" /\ "DONE" \notin Types(down[s])
  BY LoopIsLater DEF LastWord, Ended
<1> QED
  BY <1>1, <1>2 DEF PushInOrder

LEMMA ContinuesOrder ==
  ASSUME TypeOK, InStep, NEW s \in Session, InOrder(s), UNCHANGED <<client, plan>>,
         Types(down'[s]) \subseteq Types(down[s]) \cup {"ERROR"},
         \/ /\ spc[s] = "loop" /\ up[s] # <<>> /\ Head(up[s]).type \in Operating
            /\ up'[s] = Tail(up[s]) /\ applied'[s] = applied[s] + 1
         \/ /\ spc[s] \in {"writing", "copying"} /\ spc'[s] \notin {"writing", "copying"}
            /\ UNCHANGED <<up[s], applied[s]>>,
         \/ spc'[s] = "loop"
         \/ spc'[s] \in {"writing", "copying"} /\ sjob'[s] = Head(up[s])
         \/ spc'[s] = "sending" /\ out'[s].message.type = "ERROR" /\ out'[s].next = "loop"
  PROVE  InOrder(s)'
<1>1. /\ mode' = mode /\ cpc' = cpc /\ csnap' = csnap /\ rsnap' = rsnap /\ todo' = todo
      /\ cjob' = cjob /\ plan' = plan
  BY DEF client
<1>2. Len(up[s]) \in Nat /\ applied[s] \in Nat
  BY OrderTyped
<1>3. CASE spc[s] = "loop"
  <2>1. /\ up[s] # <<>> /\ Head(up[s]).type \in Operating
        /\ up'[s] = Tail(up[s]) /\ applied'[s] = applied[s] + 1
    BY <1>3
  <2>2. /\ ChannelInOrder(s)' /\ mode[s] = "push"
        /\ IsOperation(s, applied[s], Head(up[s]))
    BY <1>1, <1>3, <2>1, ChannelTakes DEF InOrder
  <2>3. Len(up'[s]) = Len(up[s]) - 1
    BY <2>1, UpTail
  <2>4. PushInOrder(s)'
    <3>1. applied'[s] + Len(up'[s]) = applied[s] + Len(up[s])
      BY <1>2, <2>1, <2>3
    <3> QED
      BY <1>1, <1>3, <2>1, <2>2, <3>1, PushContinues DEF InOrder
  <2>5. Planned(s)'
    <3>1. ~ Opening(s)
      BY <2>2 DEF InOrder, Planned, IsOperation
    <3> QED
      BY <1>1, <3>1, SamePlanned DEF InOrder, Opening
  <2>6. HandlerInOrder(s)'
    <3>1. applied'[s] > 0 /\ applied'[s] - 1 = applied[s]
      BY <1>2, <2>1
    <3>2. sjob'[s] = Head(up[s]) => IsOperation(s, applied[s] - 1, sjob[s])'
      BY <1>1, <2>2, <3>1 DEF IsOperation
    <3> QED
      BY <1>1, <2>2, <3>1, <3>2 DEF HandlerInOrder
  <2> QED
    BY <1>1, <2>2, <2>4, <2>5, <2>6 DEF InOrder
<1>4. CASE spc[s] \in {"writing", "copying"}
  <2>1. UNCHANGED <<up[s], applied[s]>> /\ spc'[s] \in {"loop", "sending"} /\ spc[s] # "closed"
    BY <1>4
  <2>2. mode[s] = "push" /\ IsOperation(s, applied[s] - 1, sjob[s])
    BY <1>4 DEF InOrder, HandlerInOrder
  <2>3. ChannelInOrder(s)'
    BY <1>1, <2>1, ChannelKeeps DEF InOrder
  <2>4. PushInOrder(s)'
    BY <1>1, <1>4, <2>1, <2>2, PushContinues DEF InOrder
  <2>5. Planned(s)'
    BY <1>1, <2>1, SamePlanned DEF InOrder
  <2>6. HandlerInOrder(s)'
    BY <2>1 DEF HandlerInOrder
  <2> QED
    BY <1>1, <2>2, <2>3, <2>4, <2>5, <2>6 DEF InOrder
<1> QED
  BY <1>3, <1>4

LEMMA ReceiveFileOrder ==
  ASSUME TypeOK, InStep, NEW s \in Session, InOrder(s), ReceiveFile(s) \/ ReceiveCopy(s) \/ DeleteFile(s)
  PROVE  InOrder(s)'
<1>1. \E t \in {"FILE", "COPY", "DELETE"} : Takes(s, t)
  BY DEF ReceiveFile, ReceiveCopy, DeleteFile
<1>2. /\ spc[s] = "loop" /\ up[s] # <<>> /\ Head(up[s]).type \in Operating
      /\ up'[s] = Tail(up[s])
  BY <1>1, OfferedHead DEF Takes, Taken, Operating, TypeOK, UpTyped
<1>3. UNCHANGED <<client, plan>> /\ applied'[s] = applied[s] + 1
  BY DEF ReceiveFile, ReceiveCopy, DeleteFile, Begun, TypeOK, TreesTyped
<1>4. CASE Refuse(s)
  <2> DEFINE m == Simple("ERROR")
  <2>1. m \in DownMessage /\ m.type = "ERROR" /\ Reply(s, m, "loop")
    BY <1>4, DownMessages DEF Simple, Refuse
  <2> HIDE DEF m
  <2>2. /\ Types(down'[s]) \subseteq Types(down[s]) \cup {"ERROR"}
        /\ \/ spc'[s] = "loop"
           \/ spc'[s] = "sending" /\ out'[s].message.type = "ERROR" /\ out'[s].next = "loop"
    BY <2>1, ReplyEffect
  <2> QED
    BY <1>2, <1>3, <2>2, ContinuesOrder
<1>5. CASE ~ Refuse(s)
  <2>1. down' = down
    BY <1>5 DEF ReceiveFile, ReceiveCopy, DeleteFile
  <2>2. \/ spc'[s] = "loop"
        \/ spc'[s] \in {"writing", "copying"} /\ sjob'[s] = Head(up[s])
    BY <1>2, <1>5 DEF ReceiveFile, ReceiveCopy, DeleteFile, SGoto, TypeOK, ServerTyped
  <2> QED
    BY <1>2, <1>3, <2>1, <2>2, ContinuesOrder
<1> QED
  BY <1>4, <1>5

LEMMA FinishOrder ==
  ASSUME TypeOK, InStep, NEW s \in Session, InOrder(s), FinishFile(s) \/ FinishCopy(s)
  PROVE  InOrder(s)'
<1>1. spc[s] \in {"writing", "copying"} /\ UNCHANGED <<client, plan, up, applied>>
  BY DEF FinishFile, FinishCopy
<1>2. CASE Refuse(s)
  <2> DEFINE m == Simple("ERROR")
  <2>1. m \in DownMessage /\ m.type = "ERROR" /\ Reply(s, m, "loop")
    BY <1>2, DownMessages DEF Simple, Refuse
  <2> HIDE DEF m
  <2>2. /\ Types(down'[s]) \subseteq Types(down[s]) \cup {"ERROR"}
        /\ \/ spc'[s] = "loop"
           \/ spc'[s] = "sending" /\ out'[s].message.type = "ERROR" /\ out'[s].next = "loop"
    BY <2>1, ReplyEffect
  <2> QED
    BY <1>1, <2>2, ContinuesOrder
<1>3. CASE ~ Refuse(s)
  <2>1. down' = down /\ spc'[s] = "loop"
    BY <1>3 DEF FinishFile, FinishCopy, SGoto, TypeOK, ServerTyped
  <2> QED
    BY <1>1, <2>1, ContinuesOrder
<1> QED
  BY <1>2, <1>3

\* Before the transfer loop.
LEMMA EarlyOrder ==
  ASSUME TypeOK, InStep, NEW s \in Session, InOrder(s), spc[s] \in {"hello", "scan", "metadata"},
         UNCHANGED <<client, plan, applied>>,
         \/ /\ up'[s] = up[s]
            /\ Types(down'[s]) \subseteq Types(down[s]) \cup {"ERROR"}
         \/ /\ up[s] # <<>> /\ up'[s] = Tail(up[s])
            /\ Types(down'[s]) \subseteq Types(down[s]) \cup {"OK", "ERROR", "METADATA"},
         \/ spc'[s] \in {"scan", "metadata", "loop", "closing"}
         \/ spc'[s] = "sending" /\ out'[s].message.type # "DONE"
  PROVE  InOrder(s)'
<1>1. /\ mode' = mode /\ cpc' = cpc /\ csnap' = csnap /\ rsnap' = rsnap /\ todo' = todo
      /\ cjob' = cjob /\ plan' = plan /\ applied' = applied
  BY DEF client
<1>2. Planned(s)'
  BY <1>1, SamePlanned DEF InOrder
<1>3. mode[s] = "push" => plan[s] = {}
  BY DEF InOrder, HandlerInOrder
<1>4. ChannelInOrder(s)'
  <2>1. CASE up'[s] = up[s] /\ Types(down'[s]) \subseteq Types(down[s]) \cup {"ERROR"}
    BY <1>1, <2>1, ChannelKeeps DEF InOrder
  <2>2. CASE up[s] # <<>> /\ up'[s] = Tail(up[s])
    <3>1. Head(up[s]).type \notin Operating
      <4>1. 1 \in 1..Len(up[s]) /\ Head(up[s]) = up[s][1]
        BY <2>2, UpTail, OrderTyped
      <4> QED
        BY <1>3, <4>1 DEF InOrder, ChannelInOrder, UpInOrder, IsOperation
    <3> QED
      BY <1>1, <2>2, <3>1, ChannelTakes DEF InOrder
  <2> QED
    BY <2>1, <2>2
<1>5. HandlerInOrder(s)'
  BY <1>1, <1>3 DEF HandlerInOrder
<1>6. ASSUME mode[s] = "push" PROVE PushInOrder(s)'
  <2>1. cpc[s] # "failed" => Opening(s) /\ "DONE" \notin Types(down[s])
    BY <1>6 DEF InStep, SessionInStep, LastWord, PushInStep
  <2>2. "DONE" \in Types(down'[s]) => "DONE" \in Types(down[s])
    OBVIOUS
  <2> QED
    BY <1>1, <1>6, <2>1, <2>2 DEF InOrder, PushInOrder, Opening
<1>7. mode[s] = "pull" => PullInOrder(s)'
  BY <1>1 DEF InOrder, PullInOrder, NothingUnderWay, FileUnderWay
<1> QED
  BY <1>1, <1>2, <1>4, <1>5, <1>6, <1>7 DEF InOrder

\* The replies there are before the loop.
LEMMA EarlyReply ==
  ASSUME TypeOK, NEW s \in Session, NEW m \in DownMessage, NEW next \in {"scan", "loop", "closing"},
         m.type \in {"OK", "ERROR", "METADATA"}, Reply(s, m, next)
  PROVE  /\ Types(down'[s]) \subseteq Types(down[s]) \cup {m.type}
         /\ \/ spc'[s] \in {"scan", "metadata", "loop", "closing"}
            \/ spc'[s] = "sending" /\ out'[s].message.type # "DONE"
  BY ReplyEffect

LEMMA HandshakeOrder ==
  ASSUME TypeOK, InStep, NEW s \in Session, InOrder(s),
         \/ ReceiveHello(s) \/ ScanServed(s) \/ ExchangeMetadata(s)
         \/ ReceiveFails(s) /\ spc[s] # "loop"
  PROVE  InOrder(s)'
<1>1. spc[s] \in {"hello", "scan", "metadata"} /\ UNCHANGED <<client, plan, applied>>
  BY DEF ReceiveHello, ScanServed, ExchangeMetadata, ReceiveFails, trees
<1>2. CASE ReceiveHello(s) \/ ExchangeMetadata(s)
  <2>1. up[s] # <<>> /\ up'[s] = Tail(up[s])
    BY <1>2, OfferedHead DEF ReceiveHello, ExchangeMetadata, Taken, TypeOK, UpTyped
  <2>2. PICK m \in DownMessage, next \in {"scan", "loop", "closing"} :
           m.type \in {"OK", "ERROR", "METADATA"} /\ Reply(s, m, next)
    <3>1. ssnap[s] \in Listing
      BY DEF TypeOK, ServerTyped
    <3> QED
      BY <1>2, <3>1, DownMessages DEF ReceiveHello, ExchangeMetadata, Simple, Metadata
  <2> QED
    BY <1>1, <2>1, <2>2, EarlyReply, EarlyOrder
<1>3. CASE (ScanServed(s) \/ ReceiveFails(s)) /\ Reply(s, Simple("ERROR"), "closing")
  <2>1. Simple("ERROR") \in DownMessage /\ Simple("ERROR").type = "ERROR"
    BY DownMessages DEF Simple
  <2>2. up'[s] = up[s]
    BY <1>3 DEF ScanServed, ReceiveFails
  <2> QED
    BY <1>1, <1>3, <2>1, <2>2, EarlyReply, EarlyOrder
<1>4. CASE ScanServed(s) /\ SGoto(s, "metadata") /\ UNCHANGED <<down, out>>
  <2>1. up'[s] = up[s] /\ spc'[s] = "metadata"
    BY <1>4 DEF ScanServed, SGoto, TypeOK, ServerTyped
  <2> QED
    BY <1>1, <1>4, <2>1, EarlyOrder
<1> QED
  BY <1>2, <1>3, <1>4 DEF ScanServed, ReceiveFails

\* The handler gives up, or is done.
LEMMA ClosingOrder ==
  ASSUME TypeOK, NEW s \in Session, InOrder(s),
         UNCHANGED <<client, plan, applied>>, spc[s] # "none",
         \/ spc[s] = "loop" /\ spc'[s] = "closing" /\ UNCHANGED <<up[s], down[s]>>
         \/ /\ spc'[s] = "closed"
            /\ down'[s] \in {down[s], <<>>}
  PROVE  InOrder(s)'
<1>1. /\ mode' = mode /\ cpc' = cpc /\ csnap' = csnap /\ rsnap' = rsnap /\ todo' = todo
      /\ cjob' = cjob /\ plan' = plan /\ applied' = applied
  BY DEF client
<1>2. Planned(s)'
  BY <1>1, SamePlanned DEF InOrder
<1>3. ChannelInOrder(s)'
  <2>1. CASE spc'[s] = "closed"
    BY <2>1 DEF ChannelInOrder
  <2>2. CASE spc[s] = "loop" /\ UNCHANGED <<up[s], down[s]>>
    BY <1>1, <2>2, ChannelKeeps DEF InOrder
  <2> QED
    BY <2>1, <2>2
<1>4. HandlerInOrder(s)'
  BY <1>1 DEF InOrder, HandlerInOrder
<1>5. Types(down'[s]) \subseteq Types(down[s])
  BY EmptyTypes
<1>6. ASSUME mode[s] = "push" PROVE PushInOrder(s)'
  BY <1>1, <1>5, <1>6 DEF InOrder, PushInOrder
<1>7. ASSUME mode[s] = "pull" PROVE PullInOrder(s)'
  <2>1. NothingUnderWay(s) => NothingUnderWay(s)'
    BY DEF NothingUnderWay
  <2>2. \A p : FileUnderWay(s, p) => FileUnderWay(s, p)'
    BY DEF FileUnderWay
  <2> QED
    BY <1>1, <1>7, <2>1, <2>2 DEF InOrder, PullInOrder
<1> QED
  BY <1>1, <1>2, <1>3, <1>4, <1>6, <1>7 DEF InOrder

LEMMA CloseOrder ==
  ASSUME TypeOK, NEW s \in Session, InOrder(s),
         CloseConnection(s) \/ (ReceiveFails(s) /\ spc[s] = "loop")
  PROVE  InOrder(s)'
<1>1. UNCHANGED <<client, plan, applied>> /\ spc[s] \in {"closing", "loop"}
  BY DEF CloseConnection, ReceiveFails, trees
<1>2. CASE CloseConnection(s)
  <2>1. spc'[s] = "closed" /\ down'[s] \in {down[s], <<>>}
    BY <1>2 DEF CloseConnection, SGoto, TypeOK, ServerTyped, DownTyped
  <2> QED
    BY <1>1, <2>1, ClosingOrder
<1>3. CASE ReceiveFails(s) /\ spc[s] = "loop"
  <2>1. spc'[s] = "closing" /\ UNCHANGED <<up[s], down[s]>>
    BY <1>3 DEF ReceiveFails, SGoto, TypeOK, ServerTyped
  <2> QED
    BY <1>1, <1>3, <2>1, ClosingOrder
<1> QED
  BY <1>2, <1>3

\* The head of the client's channel.
LEMMA HeadOrder ==
  ASSUME TypeOK, NEW s \in Session, ChannelInOrder(s), spc[s] # "closed", up[s] # <<>>
  PROVE  /\ Head(up[s]) = up[s][1] /\ Head(up[s]).type \in Types(up[s])
         /\ mode[s] = "push" /\ plan[s] # {} => Head(up[s]).type \in Operating \cup {"DONE"}
         /\ cpc[s] = "operations" => plan[s] # {} /\ Head(up[s]).type # "DONE"
<1>1. 1 \in 1..Len(up[s]) /\ Head(up[s]) = up[s][1]
  BY OrderTyped, EmptySeq, HeadTailProperties
<1> QED
  BY <1>1 DEF ChannelInOrder, UpInOrder, UpBefore, Types

\* DONE, and whatever has no place in the loop.
LEMMA ReceiveLastOrder ==
  ASSUME TypeOK, InStep, NEW s \in Session, InOrder(s), ReceiveLast(s)
  PROVE  InOrder(s)'
<1>1. /\ spc[s] = "loop" /\ Offered(s) \notin {"nothing", "REQUEST", "FILE", "DELETE", "COPY"}
      /\ UNCHANGED <<client, plan, applied>> /\ up'[s] = Tail(up[s]) /\ up[s] # <<>>
      /\ Head(up[s]).type = Offered(s)
  BY OfferedHead DEF ReceiveLast, trees, Taken, TypeOK, UpTyped
<1>2. /\ mode' = mode /\ cpc' = cpc /\ csnap' = csnap /\ rsnap' = rsnap /\ todo' = todo
      /\ cjob' = cjob /\ plan' = plan /\ applied' = applied
  BY <1>1 DEF client
<1>3. PICK m \in DownMessage :
         /\ Reply(s, m, "closing") /\ m.type \in {"ERROR", "DONE"}
         /\ m.type = "DONE" => Offered(s) = "DONE"
  BY <1>1, DownMessages DEF ReceiveLast, Simple
<1>4. /\ Types(down'[s]) \subseteq Types(down[s]) \cup {m.type}
      /\ \/ spc'[s] = "closing"
         \/ spc'[s] = "sending" /\ out'[s].message = m /\ out'[s].next = "closing"
  BY <1>3, ReplyEffect
<1>5. /\ ChannelInOrder(s)'
      /\ mode[s] = "push" /\ Offered(s) = "DONE" => applied[s] = Cardinality(plan[s])
  <2>1. Head(up[s]).type \notin Operating
    BY <1>1 DEF Operating
  <2> QED
    BY <1>1, <1>2, <2>1, ChannelTakes DEF InOrder
<1>6. HandlerInOrder(s)'
  BY <1>2, <1>4 DEF InOrder, HandlerInOrder
<1>7. ASSUME mode[s] = "push" PROVE PushInOrder(s)'
  <2>1. cpc[s] # "operations"
    <3>1. ASSUME cpc[s] = "operations" PROVE FALSE
      <4>1. plan[s] # {} /\ Offered(s) # "DONE"
        BY <1>1, <3>1, HeadOrder DEF InOrder
      <4>2. Offered(s) \in Operating \cup {"DONE"}
        BY <1>1, <1>7, <4>1, HeadOrder DEF InOrder
      <4> QED
        BY <1>1, <4>1, <4>2 DEF Operating
    <3> QED
      BY <3>1
  <2>2. cpc[s] # "failed" => cpc[s] # "ok" /\ "DONE" \notin Types(down[s])
    BY <1>1, LoopIsLater DEF LastWord, Ended
  <2> QED
    BY <1>2, <1>3, <1>4, <1>5, <1>7, <2>1, <2>2 DEF InOrder, PushInOrder
<1>8. ASSUME mode[s] = "pull" PROVE PullInOrder(s)'
  <2>1. ~ NothingUnderWay(s)
    BY <1>1 DEF NothingUnderWay
  <2>2. \A p : ~ FileUnderWay(s, p)
    <3>1. \A p : up[s] # <<Request(p)>>
      <4>1. \A p : up[s] = <<Request(p)>> => Head(up[s]).type = "REQUEST"
        BY DEF Request
      <4> QED
        BY <1>1, <4>1
    <3> QED
      BY <1>1, <3>1 DEF FileUnderWay
  <2> QED
    BY <1>2, <1>8, <2>1, <2>2 DEF InOrder, PullInOrder
<1>9. Planned(s)'
  BY <1>2, SamePlanned DEF InOrder
<1> QED
  BY <1>2, <1>5, <1>6, <1>7, <1>8, <1>9 DEF InOrder

\* A file is asked for; if it is for a pull, nothing else is under way.
LEMMA SendFileOrder ==
  ASSUME TypeOK, InStep, NEW s \in Session, InOrder(s), SendFile(s)
  PROVE  InOrder(s)'
<1>1. /\ spc[s] = "loop" /\ up[s] # <<>> /\ Head(up[s]).type = "REQUEST"
      /\ UNCHANGED <<client, plan, applied>> /\ up'[s] = Tail(up[s])
      /\ Head(up[s]) \in UpMessage
  BY OfferedHead DEF SendFile, Takes, trees, Taken, TypeOK, UpTyped
<1>2. /\ mode' = mode /\ cpc' = cpc /\ csnap' = csnap /\ rsnap' = rsnap /\ todo' = todo
      /\ cjob' = cjob /\ plan' = plan /\ applied' = applied
  BY <1>1 DEF client
<1>3. Head(up[s]).path \in Path /\ Request(Head(up[s]).path).path = Head(up[s]).path
  BY <1>1, UpParts DEF Request
<1>4. PICK m \in DownMessage :
         /\ Reply(s, m, "loop")
         /\ m.type = "ERROR" \/ (m.type = "FILE" /\ m.path = Head(up[s]).path)
  <2>1. CASE Refuse(s)
    BY <2>1, DownMessages DEF Refuse, Simple
  <2>2. CASE ~ Refuse(s)
    <3> DEFINE p == Head(up[s]).path
               m == File(p, served[p])
    <3>1. IsFile(served, p) /\ Reply(s, m, "loop")
      BY <2>2 DEF SendFile, Succeeds
    <3>2. m \in DownMessage /\ m.type = "FILE" /\ m.path = p
      BY <1>3, <3>1, DownMessages DEF IsFile, File
    <3> HIDE DEF m
    <3> QED
      BY <3>1, <3>2
  <2> QED
    BY <2>1, <2>2
<1>5. /\ Types(down'[s]) \subseteq Types(down[s]) \cup {m.type}
      /\ \/ spc'[s] = "loop"
         \/ spc'[s] = "sending" /\ out'[s].message = m /\ out'[s].next = "loop"
      /\ down[s] = <<>> /\ ~ Ended(s) => down'[s] = <<m>> /\ spc'[s] = "loop"
  BY <1>4, ReplyEffect
<1>6. /\ ChannelInOrder(s)' /\ (mode[s] = "push" => up'[s] = <<>>)
      /\ Len(up[s]) = 1 => up'[s] = <<>>
  <2>1. Head(up[s]).type \notin Operating
    BY <1>1 DEF Operating
  <2> QED
    BY <1>1, <1>2, <2>1, ChannelTakes, UpTail DEF InOrder
<1>7. HandlerInOrder(s)'
  BY <1>2, <1>5 DEF InOrder, HandlerInOrder
<1>8. ASSUME mode[s] = "push" PROVE PushInOrder(s)'
  <2>1. cpc[s] = "failed"
    BY <1>1, <1>8, TakesInStep DEF SendFile, InStep, SessionInStep
  <2> QED
    BY <1>2, <1>8, <2>1 DEF InOrder, PushInOrder
<1>9. ASSUME mode[s] = "pull" PROVE PullInOrder(s)'
  <2>1. ~ NothingUnderWay(s)
    BY <1>1 DEF NothingUnderWay
  <2>2. ASSUME NEW p, FileUnderWay(s, p), cpc[s] = "awaitFile" PROVE FileUnderWay(s, p)'
    <3>1. up[s] = <<Request(p)>> /\ down[s] = <<>>
      BY <1>1, <2>2 DEF FileUnderWay
    <3>2. Head(up[s]).path = p /\ Len(up[s]) = 1
      BY <3>1 DEF Request
    <3>3. down'[s] = <<m>> /\ spc'[s] = "loop" /\ up'[s] = <<>>
      BY <1>5, <1>6, <2>2, <3>1, <3>2 DEF Ended
    <3>4. Len(down'[s]) = 1 /\ down'[s][1] = m
      BY <3>3
    <3> QED
      BY <1>4, <3>2, <3>3, <3>4 DEF FileUnderWay
  <2> QED
    BY <1>2, <1>9, <2>1, <2>2 DEF InOrder, PullInOrder
<1>10. Planned(s)'
  BY <1>2, SamePlanned DEF InOrder
<1> QED
  BY <1>2, <1>6, <1>7, <1>8, <1>9, <1>10 DEF InOrder

\* A reply that had to wait.
LEMMA ReplySentOrder ==
  ASSUME TypeOK, InStep, NEW s \in Session, InOrder(s), ReplySent(s) \/ ReplyAbandoned(s)
  PROVE  InOrder(s)'
<1>1. /\ spc[s] = "sending" /\ UNCHANGED <<client, plan, applied, up>>
      /\ out[s].message \in DownMessage /\ out[s].next \in {"scan", "loop", "closing"}
  BY DEF ReplySent, ReplyAbandoned, trees, TypeOK, ServerTyped
<1>2. /\ mode' = mode /\ cpc' = cpc /\ csnap' = csnap /\ rsnap' = rsnap /\ todo' = todo
      /\ cjob' = cjob /\ plan' = plan /\ applied' = applied
  BY <1>1 DEF client
<1>3. /\ Types(down'[s]) \subseteq Types(down[s]) \cup {out[s].message.type, "FRAGMENT"}
      /\ \/ spc'[s] = out[s].next
         \/ spc'[s] = "sending" /\ out'[s].message = out[s].message /\ out'[s].next = out[s].next
  <2>1. CASE ReplySent(s)
    <3>1. Reply(s, out[s].message, out[s].next)
      BY <2>1 DEF ReplySent
    <3> QED
      BY <1>1, <3>1, ReplyEffect
  <2>2. CASE ReplyAbandoned(s)
    <3>1. spc'[s] = out[s].next
      BY <2>2 DEF ReplyAbandoned, SGoto, TypeOK, ServerTyped
    <3>2. Simple("FRAGMENT") \in DownMessage /\ Simple("FRAGMENT").type = "FRAGMENT"
      BY DownMessages DEF Simple
    <3>3. down'[s] = down[s] \/ down'[s] = Append(down[s], Simple("FRAGMENT"))
      BY <2>2 DEF ReplyAbandoned, TypeOK, DownTyped
    <3>4. down[s] \in Seq(DownMessage)
      BY OrderTyped
    <3>5. Types(Append(down[s], Simple("FRAGMENT"))) = Types(down[s]) \cup {"FRAGMENT"}
      BY <3>2, <3>4, AppendTypes
    <3> QED
      BY <3>1, <3>3, <3>5
  <2> QED
    BY <2>1, <2>2
<1>4. cpc[s] # "failed" /\ Opening(s) => out[s].message.type = "ERROR"
  BY <1>1 DEF InStep, SessionInStep, HandshakeInStep
<1>5. ChannelInOrder(s)'
  <2>1. cpc[s] = "failed" => ~ Opening(s)
    BY DEF Opening
  <2> QED
    BY <1>1, <1>2, <1>3, <1>4, <2>1, ChannelKeeps DEF InOrder
<1>6. HandlerInOrder(s)'
  BY <1>1, <1>2, <1>3 DEF InOrder, HandlerInOrder
<1>7. ASSUME mode[s] = "push" PROVE PushInOrder(s)'
  BY <1>1, <1>2, <1>3, <1>7 DEF InOrder, PushInOrder
<1>8. ASSUME mode[s] = "pull" PROVE PullInOrder(s)'
  BY <1>1, <1>2, <1>8 DEF InOrder, PullInOrder, NothingUnderWay, FileUnderWay
<1>9. Planned(s)'
  BY <1>2, SamePlanned DEF InOrder
<1> QED
  BY <1>2, <1>5, <1>6, <1>7, <1>8, <1>9 DEF InOrder

LEMMA HandlerOrder ==
  ASSUME TypeOK, InStep, NEW s \in Session, InOrder(s), HandlerStep(s)
  PROVE  InOrder(s)'
  BY ReceiveFileOrder, FinishOrder, HandshakeOrder, CloseOrder, ReceiveLastOrder, SendFileOrder,
     ReplySentOrder DEF HandlerStep

-----------------------------------------------------------------------------
(* The client's steps keep the order                                       *)

LEMMA UpPrefix ==
  ASSUME TypeOK, NEW s \in Session, NEW q \in Prefixes(up[s])
  PROVE  /\ Len(q) \in Nat /\ Len(q) <= Len(up[s])
         /\ \A i \in 1..Len(q) : i \in 1..Len(up[s]) /\ q[i] = up[s][i]
<1>1. PICK k \in 0..Len(up[s]) : q = SubSeq(up[s], 1, k)
  BY DEF Prefixes
<1>2. up[s] \in Seq(UpMessage) /\ Len(up[s]) \in Nat
  BY OrderTyped
<1>3. Len(q) = k /\ \A i \in 1..k : q[i] = up[s][i]
  BY <1>1, <1>2
<1> QED
  BY <1>2, <1>3

LEMMA ClientFailsOrder ==
  ASSUME TypeOK, NEW s \in Session, InOrder(s), ClientFails(s), plan'[s] = plan[s],
         applied'[s] = applied[s] \/ mode[s] = "pull"
  PROVE  InOrder(s)'
<1>1. PICK q \in Prefixes(up[s]) : up' = [up EXCEPT ![s] = q]
  BY DEF ClientFails
<1>2. /\ cpc'[s] = "failed" /\ up'[s] = q /\ down'[s] = <<>>
      /\ mode' = mode /\ csnap' = csnap /\ rsnap' = rsnap /\ spc' = spc /\ sjob' = sjob
      /\ out' = out
  BY <1>1 DEF ClientFails, CGoto, server, TypeOK, ClientTyped, UpTyped, DownTyped
<1>3. /\ Len(q) \in Nat /\ Len(q) <= Len(up[s])
      /\ \A i \in 1..Len(q) : i \in 1..Len(up[s]) /\ q[i] = up[s][i]
  BY UpPrefix
<1>4. Planned(s)'
  BY <1>2 DEF InOrder, Planned, Opening, SourceListing, TargetListing
<1>5. ChannelInOrder(s)'
  <2>1. CASE spc[s] = "closed"
    BY <1>2, <2>1 DEF ChannelInOrder
  <2>2. CASE spc[s] # "closed"
    <3>1. UpInOrder(s) /\ (plan[s] = {} => Len(up[s]) <= 1)
      BY <2>2 DEF InOrder, ChannelInOrder, UpBefore
    <3>2. Len(up[s]) \in Nat
      BY OrderTyped
    <3>3. ASSUME NEW i \in 1..Len(q)
          PROVE  i = Len(up[s]) => i = Len(q)
      BY <1>3, <3>2
    <3>4. UpInOrder(s)'
      BY <1>2, <1>3, <3>1, <3>3 DEF UpInOrder, IsOperation
    <3>5. plan[s] = {} => UpBefore(s)'
      BY <1>2, <1>3, <3>1, <3>2 DEF UpBefore
    <3> QED
      BY <1>2, <3>4, <3>5 DEF ChannelInOrder
  <2> QED
    BY <2>1, <2>2
<1>6. HandlerInOrder(s)'
  BY <1>2 DEF InOrder, HandlerInOrder, IsOperation
<1> QED
  BY <1>2, <1>4, <1>5, <1>6, EmptyTypes DEF InOrder, PushInOrder, PullInOrder

\* A message that is sent is the last of the channel.
LEMMA ChannelSends ==
  ASSUME TypeOK, NEW s \in Session, ChannelInOrder(s), spc'[s] = spc[s],
         NEW m \in UpMessage, Sent(s, m), cpc[s] = "operations",
         UNCHANGED <<mode[s], plan[s], applied[s]>>,
         m.type \in Operating => plan[s] # {},
         spc[s] # "closed" =>
            /\ m.type \in Operating =>
                  mode[s] = "push" /\ IsOperation(s, applied[s] + Len(up[s]), m)
            /\ m.type = "DONE" /\ mode[s] = "push" => applied[s] + Len(up[s]) = Cardinality(plan[s])
            /\ mode[s] = "push" => m.type \in Operating \cup {"DONE"},
         m.type = "DONE" => cpc'[s] # "operations", cpc'[s] \notin {"scan", "awaitOK", "awaitMetadata"},
         plan[s] = {} => cpc'[s] # "operations"
  PROVE  ChannelInOrder(s)'
<1> SUFFICES ASSUME spc[s] # "closed" PROVE ChannelInOrder(s)'
  BY DEF ChannelInOrder
<1> DEFINE n == Len(up[s])
<1>1. /\ Len(up'[s]) = n + 1 /\ up'[s][n + 1] = m
      /\ \A i \in 1..n : up'[s][i] = up[s][i]
      /\ Types(up'[s]) = Types(up[s]) \cup {m.type}
      /\ up[s] = <<>> => up'[s] = <<m>>
  BY UpAppend
<1>2. n \in Nat /\ applied[s] \in Nat
  BY OrderTyped
<1>3. UpInOrder(s) /\ "DONE" \notin Types(up[s]) /\ (plan[s] = {} => up[s] = <<>>)
  BY DEF ChannelInOrder, UpBefore
<1> HIDE DEF n
<1>4. \A i \in 1..(n + 1) : i \in 1..n \/ i = n + 1
  BY <1>2
<1>5. \A i \in 1..n : up[s][i].type # "DONE"
  BY <1>3 DEF Types, n
<1>6. applied[s] + (n + 1) - 1 = applied[s] + n
  BY <1>2
<1>7. mode'[s] = mode[s] /\ plan'[s] = plan[s] /\ applied'[s] = applied[s] /\ Len(up[s]) = n
  BY DEF n
<1>8. ASSUME NEW i \in 1..Len(up'[s])
      PROVE  /\ up'[s][i].type \in Operating =>
                    mode'[s] = "push" /\ IsOperation(s, applied[s] + i - 1, up[s][i])'
             /\ up'[s][i].type = "DONE" =>
                   /\ i = Len(up'[s])
                   /\ mode'[s] = "push" => applied'[s] + i - 1 = Cardinality(plan'[s])
             /\ mode'[s] = "push" /\ plan'[s] # {} => up'[s][i].type \in Operating \cup {"DONE"}
  <2>1. CASE i \in 1..n
    <3>1. up'[s][i] = up[s][i] /\ up[s][i].type # "DONE" /\ i \in 1..Len(up[s])
      BY <1>1, <1>5, <1>7, <2>1
    <3>2. /\ up[s][i].type \in Operating =>
                mode[s] = "push" /\ IsOperation(s, applied[s] + i - 1, up[s][i])
          /\ mode[s] = "push" /\ plan[s] # {} => up[s][i].type \in Operating \cup {"DONE"}
      BY <1>3, <3>1 DEF UpInOrder
    <3>3. up[s][i].type \in Operating => IsOperation(s, applied[s] + i - 1, up[s][i])'
      BY <1>7, <3>1, <3>2 DEF IsOperation
    <3> QED
      BY <1>7, <3>1, <3>2, <3>3
  <2>2. CASE i = n + 1
    <3>1. up'[s][i] = m /\ i = Len(up'[s])
      BY <1>1, <2>2
    <3>2. applied'[s] + i - 1 = applied[s] + Len(up[s])
      BY <1>6, <1>7, <2>2
    <3>3. m.type \in Operating => IsOperation(s, applied[s] + i - 1, up[s][i])'
      BY <1>6, <1>7, <2>2, <3>1, <3>2 DEF IsOperation
    <3>4. m.type = "DONE" /\ mode[s] = "push" => applied'[s] + i - 1 = Cardinality(plan'[s])
      BY <1>7, <3>2
    <3> QED
      BY <1>7, <3>1, <3>3, <3>4
  <2> QED
    BY <1>1, <1>4, <2>1, <2>2
<1>9. UpInOrder(s)'
  BY <1>8 DEF UpInOrder
<1>10. plan[s] = {} => UpBefore(s)'
  <2>1. plan[s] = {} => Len(up'[s]) <= 1
    BY <1>1, <1>3, EmptyLength DEF n
  <2> QED
    BY <2>1 DEF UpBefore
<1>11. cpc'[s] = "operations" => "DONE" \notin Types(up'[s])
  BY <1>1, <1>3
<1> QED
  BY <1>9, <1>10, <1>11 DEF ChannelInOrder

LEMMA NextOperation ==
  ASSUME TypeOK, NEW s \in Session, InOrder(s), NEW o, Current(s, o),
         NEW k, Remains(plan[s], todo[s], k)
  PROVE  /\ k \in Nat /\ o \in plan[s] /\ Pos(plan[s], o) = k
         /\ Remains(plan[s], todo[s] \ {o}, k + 1)
<1>1. Ordered(plan[s])
  BY PlanIsOrdered DEF InOrder
<1> QED
  BY <1>1, RemainsTakes DEF Current

\* Upload, SendRemote
LEMMA SendsOrder ==
  ASSUME TypeOK, InStep, NEW s \in Session, InOrder(s), NEW o \in todo[s], Current(s, o),
         mode[s] = "push", NEW m \in UpMessage, Carries(m, o), m.type \in Operating,
         Sent(s, m), Advance(s, o),
         UNCHANGED <<plan, applied, mode, cpc, csnap, rsnap, cjob, server, down>>
  PROVE  InOrder(s)'
<1>1. /\ spc' = spc /\ sjob' = sjob /\ out' = out /\ todo'[s] = todo[s] \ {o}
      /\ cpc[s] = "operations" /\ cpc' = cpc /\ mode' = mode /\ plan' = plan
      /\ applied' = applied /\ csnap' = csnap /\ rsnap' = rsnap /\ down' = down
  BY DEF server, Advance, Current, TypeOK, ClientTyped
<1>2. ASSUME spc[s] # "closed"
      PROVE  /\ o \in plan[s] /\ Pos(plan[s], o) = applied[s] + Len(up[s])
             /\ Remains(plan[s], todo'[s], applied[s] + Len(up[s]) + 1)
  <2> DEFINE k == applied[s] + Len(up[s])
  <2>1. Remains(plan[s], todo[s], k)
    BY <1>1, <1>2 DEF InOrder, PushInOrder
  <2> HIDE DEF k
  <2>2. o \in plan[s] /\ Pos(plan[s], o) = k /\ Remains(plan[s], todo[s] \ {o}, k + 1)
    BY <2>1, NextOperation
  <2> QED
    BY <1>1, <2>2 DEF k
<1>3. todo[s] \subseteq plan[s] /\ plan[s] # {}
  BY <1>1 DEF InOrder, PushInOrder
<1>4. Planned(s)'
  BY <1>1, SamePlanned DEF InOrder, Opening
<1>5. ChannelInOrder(s)'
  <2>1. ASSUME spc[s] # "closed" PROVE IsOperation(s, applied[s] + Len(up[s]), m)
    BY <1>2, <2>1 DEF IsOperation
  <2>2. m.type # "DONE"
    BY DEF Operating
  <2>3. ChannelInOrder(s)
    BY DEF InOrder
  <2> QED
    BY <1>1, <1>3, <2>1, <2>2, <2>3, ChannelSends
<1>6. HandlerInOrder(s)'
  BY <1>1 DEF InOrder, HandlerInOrder, IsOperation
<1>7. PushInOrder(s)'
  <2>1. spc[s] # "closed" => Remains(plan[s], todo'[s], applied[s] + Len(up'[s]))
    <3>1. Len(up'[s]) = Len(up[s]) + 1
      BY UpAppend
    <3>2. applied[s] \in Nat /\ Len(up[s]) \in Nat
      BY OrderTyped
    <3>3. applied[s] + Len(up'[s]) = applied[s] + Len(up[s]) + 1
      BY <3>1, <3>2
    <3> QED
      BY <1>2, <3>3
  <2> QED
    BY <1>1, <1>3, <2>1 DEF InOrder, PushInOrder
<1> QED
  BY <1>1, <1>4, <1>5, <1>6, <1>7 DEF InOrder

LEMMA PushSendsOrder ==
  ASSUME TypeOK, InStep, NEW s \in Session, InOrder(s), NEW o \in todo[s], Current(s, o),
         Upload(s, o) \/ SendRemote(s, o)
  PROVE  InOrder(s)'
<1>1. o \in Op
  BY DEF TypeOK, ClientTyped
<1>2. CASE Upload(s, o)
  <2>1. CASE ClientFails(s) /\ UNCHANGED trees
    BY <2>1, ClientFailsOrder DEF trees
  <2>2. CASE Sent(s, File(o.to, local[Owner[s]][o.to])) /\ Advance(s, o)
             /\ IsFile(local[Owner[s]], o.to)
             /\ UNCHANGED <<trees, mode, cpc, csnap, rsnap, cjob, serverErrors, server, down>>
    <3> DEFINE m == File(o.to, local[Owner[s]][o.to])
    <3>1. m \in UpMessage
      BY <1>1, <1>2, <2>2 DEF Upload, Op, File, UpMessage, FileMessage, TypeOK, TreesTyped, Tree, IsFile,
         FileData, Entry, ModeAssumption, SessionAssumption
    <3>2. m.type = "FILE" /\ m.path = o.to /\ Sent(s, m)
      BY <2>2 DEF File
    <3> HIDE DEF m
    <3>3. Carries(m, o) /\ m.type \in Operating
      BY <1>2, <3>2 DEF Upload, Carries, Operating
    <3>4. UNCHANGED <<plan, applied, mode, cpc, csnap, rsnap, cjob, server, down>> /\ Advance(s, o)
          /\ mode[s] = "push"
      BY <1>2, <2>2 DEF trees, Upload
    <3> QED
      BY <3>1, <3>2, <3>3, <3>4, SendsOrder
  <2> QED
    BY <1>2, <2>1, <2>2 DEF Upload, Succeeds
<1>3. CASE SendRemote(s, o)
  <2> DEFINE m == IF o.act = "copy" THEN Copy(o.from, o.to) ELSE Delete(o.to)
  <2>1. m \in UpMessage /\ Carries(m, o) /\ m.type \in Operating
    BY <1>1, <1>3 DEF SendRemote, Op, Copy, Delete, UpMessage, Carries, Operating
  <2>2. Sent(s, m)
    BY <1>3 DEF SendRemote
  <2> HIDE DEF m
  <2> QED
    BY <1>3, <2>1, <2>2, SendsOrder DEF trees, SendRemote
<1> QED
  BY <1>2, <1>3

-----------------------------------------------------------------------------
(* Until there is a plan there is nothing to be out of order               *)

LEMMA OpeningOrder ==
  ASSUME NEW s \in Session, ChannelInOrder(s)', Opening(s)',
         plan'[s] = {}, applied'[s] = 0, todo'[s] = {}, spc'[s] \notin {"writing", "copying"}
  PROVE  InOrder(s)'
<1>1. Cardinality({}) = 0
  BY FS_EmptySet
<1>2. cpc'[s] \in {"idle", "awaitOK", "scan", "awaitMetadata"}
  BY DEF Opening
<1> QED
  BY <1>1, <1>2 DEF InOrder, Planned, HandlerInOrder, PushInOrder, PullInOrder

LEMMA OpeningEmpty ==
  ASSUME TypeOK, InStep, NEW s \in Session, InOrder(s), Opening(s)
  PROVE  /\ plan[s] = {} /\ applied[s] = 0 /\ todo[s] = {} /\ HandshakeInStep(s)
         /\ spc[s] \notin {"writing", "copying"}
         /\ spc[s] # "closed" => UpBefore(s)
<1>1. HandshakeInStep(s)
  BY DEF InStep, Opening, SessionInStep
<1> QED
  BY <1>1 DEF InOrder, Planned, HandshakeInStep, ChannelInOrder

\* A single message of the handshake on the way.
LEMMA ChannelOpens ==
  ASSUME NEW s \in Session, plan'[s] = {}, UpBefore(s)', cpc'[s] # "operations",
         Len(up'[s]) \in Nat,
         \A i \in 1..Len(up'[s]) : up'[s][i].type \in {"HELLO", "METADATA"}
  PROVE  ChannelInOrder(s)'
<1>1. UpInOrder(s)'
  BY DEF UpInOrder, Operating
<1> QED
  BY <1>1 DEF ChannelInOrder

LEMMA ConnectOrder ==
  ASSUME TypeOK, InStep, NEW s \in Session, InOrder(s), Connect(s)
  PROVE  InOrder(s)'
<1>1. PICK v \in Majors : up'[s] = <<Hello(mode[s], v)>>
  BY DEF Connect, TypeOK, UpTyped
<1>2. /\ cpc[s] = "idle" /\ cpc'[s] = "awaitOK" /\ spc'[s] = "hello" /\ down' = down
      /\ plan' = plan /\ applied' = applied /\ todo' = todo
  BY DEF Connect, CGoto, trees, TypeOK, ClientTyped, ServerTyped
<1>3. Opening(s) /\ Opening(s)'
  BY <1>2 DEF Opening
<1>4. plan[s] = {} /\ applied[s] = 0 /\ todo[s] = {} /\ down[s] = <<>>
  BY <1>2, <1>3, OpeningEmpty DEF HandshakeInStep
<1>5. Len(up'[s]) = 1 /\ \A i \in 1..Len(up'[s]) : up'[s][i].type = "HELLO"
  BY <1>1 DEF Hello
<1>6. UpBefore(s)'
  BY <1>2, <1>4, <1>5, EmptyTypes DEF UpBefore
<1> QED
  BY <1>2, <1>3, <1>4, <1>5, <1>6, ChannelOpens, OpeningOrder

LEMMA ReceiveOKOrder ==
  ASSUME TypeOK, InStep, NEW s \in Session, InOrder(s), ReceiveOK(s)
  PROVE  InOrder(s)'
<1>1. /\ cpc[s] = "awaitOK" /\ cpc'[s] = "scan" /\ spc' = spc /\ up' = up /\ mode' = mode
      /\ plan' = plan /\ applied' = applied /\ todo' = todo
      /\ down[s] # <<>> /\ Head(down[s]).type = "OK"
  BY DEF ReceiveOK, Arrived, CGoto, trees, server, TypeOK, ClientTyped
<1>2. Opening(s) /\ Opening(s)'
  BY <1>1 DEF Opening
<1>3. "OK" \in Types(down[s])
  <2>1. down[s] \in Seq(DownMessage)
    BY OrderTyped
  <2> QED
    BY <1>1, <2>1, EmptySeq, HeadTailProperties DEF Types
<1>4. /\ plan[s] = {} /\ applied[s] = 0 /\ todo[s] = {} /\ spc[s] \notin {"writing", "copying"}
      /\ spc[s] # "closed" => up[s] = <<>>
  BY <1>1, <1>2, <1>3, OpeningEmpty DEF UpBefore
<1>5. CASE spc[s] = "closed"
  <2>1. ChannelInOrder(s)'
    BY <1>1, <1>5 DEF ChannelInOrder
  <2> QED
    BY <1>1, <1>2, <1>4, <2>1, OpeningOrder
<1>6. CASE spc[s] # "closed"
  <2>1. up'[s] = <<>> /\ Len(up'[s]) = 0 /\ 1..Len(up'[s]) = {}
    BY <1>1, <1>4, <1>6, EmptyLength
  <2>2. ChannelInOrder(s)'
    BY <1>1, <1>4, <2>1, ChannelOpens DEF UpBefore
  <2> QED
    BY <1>1, <1>2, <1>4, <2>2, OpeningOrder
<1> QED
  BY <1>5, <1>6

LEMMA ScanLocalOrder ==
  ASSUME TypeOK, InStep, NEW s \in Session, InOrder(s), ScanLocal(s)
  PROVE  InOrder(s)'
<1>1. CASE ClientFails(s) /\ UNCHANGED trees
  BY <1>1, ClientFailsOrder DEF trees
<1>2. CASE /\ \E l \in Listing : CanSend(s) /\ Sent(s, Metadata(l))
           /\ CGoto(s, "awaitMetadata") /\ cpc[s] = "scan"
           /\ UNCHANGED <<trees, mode, rsnap, todo, cjob, serverErrors, server, down>>
  <2>1. PICK l \in Listing : Sent(s, Metadata(l))
    BY <1>2
  <2>2. /\ cpc[s] = "scan" /\ cpc'[s] = "awaitMetadata" /\ spc' = spc /\ down' = down
        /\ plan' = plan /\ applied' = applied /\ todo' = todo
    BY <1>2 DEF CGoto, trees, server, TypeOK, ClientTyped
  <2>3. Opening(s) /\ Opening(s)'
    BY <2>2 DEF Opening
  <2>4. /\ plan[s] = {} /\ applied[s] = 0 /\ todo[s] = {} /\ spc[s] \notin {"writing", "copying"}
        /\ spc[s] # "closed" => up[s] = <<>>
        /\ "METADATA" \notin Types(down[s])
    BY <2>2, <2>3, OpeningEmpty DEF UpBefore, HandshakeInStep
  <2>5. CASE spc[s] = "closed"
    <3>1. ChannelInOrder(s)'
      BY <2>2, <2>5 DEF ChannelInOrder
    <3> QED
      BY <2>2, <2>3, <2>4, <3>1, OpeningOrder
  <2>6. CASE spc[s] # "closed"
    <3>1. Metadata(l) \in UpMessage /\ Metadata(l).type = "METADATA"
      BY UpMessages DEF Metadata
    <3>2. up'[s] = <<Metadata(l)>>
      BY <2>1, <2>4, <2>6, <3>1, UpAppend
    <3>3. Len(up'[s]) = 1 /\ \A i \in 1..Len(up'[s]) : up'[s][i].type = "METADATA"
      BY <3>1, <3>2
    <3>4. UpBefore(s)'
      BY <2>2, <2>4, <3>3 DEF UpBefore
    <3>5. ChannelInOrder(s)'
      BY <2>2, <2>4, <3>3, <3>4, ChannelOpens
    <3> QED
      BY <2>2, <2>3, <2>4, <3>5, OpeningOrder
  <2> QED
    BY <2>5, <2>6
<1> QED
  BY <1>1, <1>2 DEF ScanLocal

-----------------------------------------------------------------------------
(* The plan is made, and the operations end                                *)

LEMMA ReceiveMetadataOrder ==
  ASSUME TypeOK, InStep, NEW s \in Session, InOrder(s), ReceiveMetadata(s)
  PROVE  InOrder(s)'
<1> DEFINE remote == Head(down[s]).listing
           src == IF mode[s] = "push" THEN csnap[s] ELSE remote
           dst == IF mode[s] = "push" THEN remote ELSE csnap[s]
<1>1. /\ cpc[s] = "awaitMetadata" /\ cpc'[s] = "operations" /\ spc' = spc /\ up' = up
      /\ mode' = mode /\ csnap' = csnap /\ rsnap'[s] = remote /\ applied' = applied
      /\ out' = out /\ todo'[s] = plan'[s] /\ down'[s] = Tail(down[s])
      /\ down[s] # <<>> /\ Head(down[s]).type = "METADATA"
      /\ \E rank \in Orders(DestToSource(src, dst)) : plan'[s] = Plan(src, dst, rank)
  <2>1. rsnap' = [rsnap EXCEPT ![s] = remote] /\ todo' = [todo EXCEPT ![s] = plan'[s]]
        /\ \E rank \in Orders(DestToSource(src, dst)) :
              plan' = [plan EXCEPT ![s] = Plan(src, dst, rank)]
    BY DEF ReceiveMetadata
  <2>2. rsnap'[s] = remote /\ todo'[s] = plan'[s]
        /\ \E rank \in Orders(DestToSource(src, dst)) : plan'[s] = Plan(src, dst, rank)
    <3> HIDE DEF remote, src, dst
    <3> QED
      BY <2>1 DEF TypeOK, ClientTyped, TreesTyped
  <2> HIDE DEF remote, src, dst
  <2> QED
    BY <2>2 DEF ReceiveMetadata, Arrived, Received, CGoto, server, TypeOK, ClientTyped, DownTyped
<1>2. Opening(s)
  BY <1>1 DEF Opening
<1>3. /\ plan[s] = {} /\ applied[s] = 0 /\ HandshakeInStep(s)
      /\ spc[s] # "closed" => UpBefore(s)
  BY <1>2, OpeningEmpty
<1>4. down[s] \in Seq(DownMessage)
  BY OrderTyped
<1>5. "METADATA" \in Types(down[s])
  BY <1>1, <1>4, EmptySeq, HeadTailProperties DEF Types
<1>6. /\ spc[s] \in {"loop", "closing", "closed"} /\ down'[s] = <<>>
      /\ spc[s] # "closed" => up[s] = <<>>
  <2>1. Len(down[s]) = 1 /\ spc[s] \in {"loop", "closing", "closed"}
    BY <1>3, <1>5 DEF HandshakeInStep
  <2>2. down'[s] = <<>>
    BY <2>1, ReceivedTypes DEF ReceiveMetadata
  <2> QED
    BY <1>1, <1>3, <1>5, <2>1, <2>2 DEF UpBefore
<1>7. SourceListing(s)' = src /\ TargetListing(s)' = dst /\ src \in Listing /\ dst \in Listing
  <2>1. Head(down[s]) \in DownMessage
    BY <1>1, <1>4, EmptySeq, HeadTailProperties
  <2>2. remote \in Listing
    BY <1>1, <2>1, DownParts
  <2> HIDE DEF remote
  <2> QED
    BY <1>1, <2>2, OrderTyped DEF SourceListing, TargetListing
<1> HIDE DEF remote, src, dst
<1>8. Planned(s)'
  <2>1. ~ Opening(s)'
    BY <1>1 DEF Opening
  <2> QED
    BY <1>1, <1>7, <2>1 DEF Planned
<1>9. Ordered(plan'[s])
  BY <1>1, <1>7, PlanOrdered
<1>10. Remains(plan'[s], todo'[s], 0)
  BY <1>1, <1>9, RemainsEnds
<1>11. ChannelInOrder(s)'
  <2>1. spc[s] # "closed" => /\ Types(up'[s]) = {} /\ Len(up'[s]) <= 1 /\ up'[s] = <<>>
                             /\ 1..Len(up'[s]) = {}
    BY <1>1, <1>6, EmptyLength, EmptyTypes
  <2> QED
    BY <1>1, <2>1 DEF ChannelInOrder, UpInOrder, UpBefore
<1>12. HandlerInOrder(s)'
  BY <1>1, <1>6 DEF HandlerInOrder
<1>13. mode[s] = "push" => PushInOrder(s)'
  <2>1. spc[s] # "closed" => applied'[s] + Len(up'[s]) = 0
    BY <1>1, <1>3, <1>6, EmptyLength
  <2>2. Types(down'[s]) = {}
    BY <1>6, EmptyTypes
  <2> QED
    BY <1>1, <1>6, <1>10, <2>1, <2>2 DEF PushInOrder
<1>14. mode[s] = "pull" => PullInOrder(s)'
  BY <1>1, <1>3, <1>6, <1>10 DEF PullInOrder, NothingUnderWay
<1> QED
  BY <1>1, <1>8, <1>11, <1>12, <1>13, <1>14 DEF InOrder

LEMMA SendDoneOrder ==
  ASSUME TypeOK, InStep, NEW s \in Session, InOrder(s), SendDone(s)
  PROVE  InOrder(s)'
<1>1. /\ cpc[s] = "operations" /\ todo[s] = {} /\ cpc'[s] = "awaitDone" /\ spc' = spc
      /\ down' = down /\ mode' = mode /\ csnap' = csnap /\ rsnap' = rsnap /\ plan' = plan
      /\ applied' = applied /\ out' = out /\ sjob' = sjob
  BY DEF SendDone, CGoto, trees, server, TypeOK, ClientTyped
<1> DEFINE m == Simple("DONE")
<1>2. m \in UpMessage /\ m.type = "DONE" /\ Sent(s, m)
  BY UpMessages DEF SendDone, Simple
<1> HIDE DEF m
<1>3. Ordered(plan[s])
  BY PlanIsOrdered DEF InOrder
<1>4. mode[s] = "push" /\ spc[s] # "closed" => applied[s] + Len(up[s]) = Cardinality(plan[s])
  <2> DEFINE k == applied[s] + Len(up[s])
  <2>1. mode[s] = "push" /\ spc[s] # "closed" => Remains(plan[s], {}, k)
    BY <1>1 DEF InOrder, PushInOrder
  <2> HIDE DEF k
  <2>2. mode[s] = "push" /\ spc[s] # "closed" => k = Cardinality(plan[s])
    BY <1>3, <2>1, RemainsEnds
  <2> QED
    BY <2>2 DEF k
<1>5. mode[s] = "pull" => applied[s] = Cardinality(plan[s])
  BY <1>1, <1>3, RemainsEnds DEF InOrder, PullInOrder
<1>6. Planned(s)'
  BY <1>1, SamePlanned DEF InOrder, Opening
<1>7. ChannelInOrder(s)'
  <2>1. ChannelInOrder(s) /\ "DONE" \notin Operating
    BY DEF InOrder, Operating
  <2> QED
    BY <1>1, <1>2, <1>4, <2>1, ChannelSends
<1>8. HandlerInOrder(s)'
  BY <1>1 DEF InOrder, HandlerInOrder, IsOperation
<1>9. mode[s] = "push" => PushInOrder(s)'
  BY <1>1 DEF InOrder, PushInOrder
<1>10. mode[s] = "pull" => PullInOrder(s)'
  BY <1>1, <1>5 DEF PullInOrder
<1> QED
  BY <1>1, <1>6, <1>7, <1>8, <1>9, <1>10 DEF InOrder

LEMMA DrainOrder ==
  ASSUME TypeOK, InStep, NEW s \in Session, InOrder(s), DrainReply(s) \/ ReceiveDone(s)
  PROVE  InOrder(s)'
<1>1. CASE ReceiveDone(s) /\ ClientFails(s)
  BY <1>1, ClientFailsOrder DEF ReceiveDone, trees
<1>2. CASE DrainReply(s) \/ (ReceiveDone(s) /\ ~ ClientFails(s))
  <2>1. /\ cpc[s] = "awaitDone" /\ spc' = spc /\ up' = up /\ mode' = mode /\ csnap' = csnap
        /\ rsnap' = rsnap /\ plan' = plan /\ applied' = applied /\ out' = out /\ sjob' = sjob
        /\ cpc'[s] = "awaitDone" \/ (cpc'[s] = "ok" /\ Arrived(s) = "DONE")
        /\ down'[s] = Tail(down[s]) /\ down[s] # <<>>
    BY <1>2 DEF DrainReply, ReceiveDone, Arrived, Received, CGoto, trees, server, TypeOK,
                ClientTyped, DownTyped
  <2>2. Types(down'[s]) \subseteq Types(down[s]) /\ (Arrived(s) = "DONE" => "DONE" \in Types(down[s]))
    <3>1. down[s] \in Seq(DownMessage)
      BY OrderTyped
    <3> QED
      BY <2>1, <3>1, EmptySeq, HeadTailProperties DEF Types, Arrived
  <2>3. Planned(s)'
    BY <2>1, SamePlanned DEF InOrder, Opening
  <2>4. ChannelInOrder(s)'
    BY <2>1 DEF InOrder, ChannelInOrder, UpInOrder, UpBefore, IsOperation
  <2>5. HandlerInOrder(s)'
    BY <2>1 DEF InOrder, HandlerInOrder, IsOperation
  <2>6. mode[s] = "push" => PushInOrder(s)'
    BY <2>1, <2>2 DEF InOrder, PushInOrder
  <2>7. mode[s] = "pull" => PullInOrder(s)'
    BY <2>1 DEF InOrder, PullInOrder
  <2> QED
    BY <2>1, <2>3, <2>4, <2>5, <2>6, <2>7 DEF InOrder
<1> QED
  BY <1>1, <1>2

-----------------------------------------------------------------------------
(* A pull                                                                  *)

\* A pulling client that sends nothing.
LEMMA PullKeeps ==
  ASSUME TypeOK, NEW s \in Session, InOrder(s), mode[s] = "pull",
         ~ Opening(s), ~ Opening(s)', cpc[s] # "failed", plan[s] # {},
         UNCHANGED <<mode, csnap, rsnap, plan, up, spc>>,
         spc[s] # "closed" /\ cpc'[s] = "operations" => "DONE" \notin Types(up[s]),
         PullInOrder(s)'
  PROVE  InOrder(s)'
<1>1. Planned(s)'
  BY SamePlanned DEF InOrder
<1>2. ChannelInOrder(s)'
  <2>1. spc[s] # "closed" => UpInOrder(s)'
    BY DEF InOrder, ChannelInOrder, UpInOrder
  <2> QED
    BY <2>1 DEF ChannelInOrder
<1>3. HandlerInOrder(s)'
  BY DEF InOrder, HandlerInOrder
<1> QED
  BY <1>1, <1>2, <1>3 DEF InOrder

\* Where a client stands that receives a file.
LEMMA FilePending ==
  ASSUME TypeOK, NEW s \in Session, InOrder(s), cpc[s] \in {"awaitFile", "writing", "copying"}
  PROVE  /\ mode[s] = "pull" /\ ~ Opening(s) /\ plan[s] # {} /\ PullInOrder(s)
         /\ applied[s] \in Nat
  BY OrderTyped DEF InOrder, PushInOrder, PullInOrder, Opening

\* Down to the file that was asked for, or the ERROR in its place.
LEMMA FileArrives ==
  ASSUME TypeOK, NEW s \in Session, InOrder(s), cpc[s] = "awaitFile", Arrived(s) # "nothing",
         Received(s)
  PROVE  /\ Head(down[s]) = down[s][1] /\ Arrived(s) = Head(down[s]).type
         /\ down'[s] = <<>> /\ (spc[s] # "closed" => up[s] = <<>>)
         /\ spc[s] \in {"loop", "closing", "closed"}
         /\ Remains(plan[s], todo[s], applied[s] + 1)
         /\ \E o \in plan[s] : /\ o.act = "transfer" /\ Pos(plan[s], o) = applied[s]
                               /\ Arrived(s) = "FILE" => Head(down[s]).path = o.to
<1>1. down[s] \in Seq(DownMessage) /\ down[s] # <<>> /\ Arrived(s) = Head(down[s]).type
      /\ down'[s] = Tail(down[s])
  BY OrderTyped DEF Arrived, Received, TypeOK, DownTyped
<1>2. PullInOrder(s)
  BY FilePending
<1>3. PICK o \in plan[s] : /\ o.act = "transfer" /\ Pos(plan[s], o) = applied[s]
                           /\ FileUnderWay(s, o.to)
  BY <1>2 DEF PullInOrder
<1>4. /\ Len(down[s]) = 1
      /\ down[s][1].type = "ERROR" \/ (down[s][1].type = "FILE" /\ down[s][1].path = o.to)
      /\ spc[s] \in {"loop", "closing", "closed"}
      /\ spc[s] # "closed" => up[s] = <<>>
  BY <1>1, <1>3 DEF FileUnderWay
<1>5. Head(down[s]) = down[s][1]
  BY <1>1
<1>6. down'[s] = <<>>
  BY <1>4, ReceivedTypes
<1> QED
  BY <1>1, <1>2, <1>3, <1>4, <1>5, <1>6 DEF PullInOrder

LEMMA RequestFileOrder ==
  ASSUME TypeOK, InStep, NEW s \in Session, InOrder(s), NEW o \in todo[s], Current(s, o),
         RequestFile(s, o)
  PROVE  InOrder(s)'
<1>1. /\ cpc[s] = "operations" /\ cpc'[s] = "awaitFile" /\ spc' = spc /\ down' = down
      /\ mode' = mode /\ csnap' = csnap /\ rsnap' = rsnap /\ plan' = plan /\ applied' = applied
      /\ mode[s] = "pull" /\ todo'[s] = todo[s] \ {o} /\ o.act = "transfer"
  BY DEF RequestFile, Current, Advance, CGoto, trees, server, TypeOK, ClientTyped
<1>2. Remains(plan[s], todo[s], applied[s]) /\ NothingUnderWay(s)
  BY <1>1 DEF InOrder, PullInOrder
<1>3. o \in plan[s] /\ Pos(plan[s], o) = applied[s] /\ Remains(plan[s], todo[s] \ {o}, applied[s] + 1)
  BY <1>2, NextOperation
<1> DEFINE m == Request(o.to)
<1>4. m \in UpMessage /\ m.type = "REQUEST" /\ Sent(s, m)
  <2>1. o \in Op
    BY <1>3, OrderTyped
  <2>2. o.to \in Path
    BY <1>1, <2>1 DEF Op
  <2> QED
    BY <2>2, UpMessages DEF RequestFile, Request
<1>5. spc[s] # "closed" => up'[s] = <<Request(o.to)>>
  BY <1>2, <1>4, UpAppend DEF NothingUnderWay
<1> HIDE DEF m
<1>6. Planned(s)'
  BY <1>1, SamePlanned DEF InOrder, Opening
<1>7. ChannelInOrder(s)'
  <2>1. ChannelInOrder(s) /\ "REQUEST" \notin Operating \cup {"DONE"}
    BY DEF InOrder, Operating
  <2> QED
    BY <1>1, <1>4, <2>1, ChannelSends
<1>8. HandlerInOrder(s)'
  BY <1>1 DEF InOrder, HandlerInOrder
<1>9. PullInOrder(s)'
  BY <1>1, <1>2, <1>3, <1>5 DEF PullInOrder, FileUnderWay, NothingUnderWay
<1> QED
  BY <1>1, <1>6, <1>7, <1>8, <1>9 DEF InOrder

LEMMA FileOrder ==
  ASSUME TypeOK, InStep, NEW s \in Session, InOrder(s), SkipFile(s) \/ WriteReceivedFile(s)
  PROVE  InOrder(s)'
<1>1. cpc[s] = "awaitFile" /\ Arrived(s) # "nothing" /\ Begun(s)
  BY DEF SkipFile, WriteReceivedFile
<1>2. mode[s] = "pull" /\ ~ Opening(s) /\ plan[s] # {} /\ applied[s] \in Nat
  BY <1>1, FilePending
<1>3. plan' = plan /\ applied'[s] = applied[s] + 1
  BY <1>1 DEF Begun, TypeOK, TreesTyped
<1>4. CASE ClientFails(s)
  BY <1>2, <1>3, <1>4, ClientFailsOrder
<1>5. CASE ~ ClientFails(s)
  <2>1. /\ Received(s) /\ mode' = mode /\ csnap' = csnap /\ rsnap' = rsnap /\ todo' = todo
        /\ up' = up /\ spc' = spc
        /\ \/ cpc'[s] = "operations"
           \/ cpc'[s] = "writing" /\ cjob'[s] = Head(down[s]) /\ Arrived(s) = "FILE"
    BY <1>5 DEF SkipFile, WriteReceivedFile, CGoto, server, TypeOK, ClientTyped
  <2>2. /\ down'[s] = <<>> /\ (spc[s] # "closed" => up[s] = <<>>)
        /\ spc[s] \in {"loop", "closing", "closed"}
        /\ Remains(plan[s], todo[s], applied'[s])
    BY <1>1, <1>3, <2>1, FileArrives
  <2>3. PICK o \in plan[s] : /\ o.act = "transfer" /\ Pos(plan[s], o) = applied[s]
                             /\ Arrived(s) = "FILE" => Head(down[s]).path = o.to
    BY <1>1, <2>1, FileArrives
  <2>4. applied'[s] > 0 /\ applied'[s] - 1 = applied[s]
    BY <1>2, <1>3
  <2>5. NothingUnderWay(s)'
    BY <2>1, <2>2 DEF NothingUnderWay
  <2>6. cpc'[s] = "writing" => \E x \in plan'[s] : /\ applied'[s] > 0
                                                   /\ Pos(plan'[s], x) = applied'[s] - 1
                                                   /\ x.act = "transfer" /\ x.to = cjob'[s].path
    BY <1>3, <2>1, <2>3, <2>4
  <2>7. PullInOrder(s)'
    BY <1>3, <2>1, <2>2, <2>5, <2>6 DEF PullInOrder
  <2>8. ~ Opening(s)'
    BY <2>1 DEF Opening
  <2>9. spc[s] # "closed" => "DONE" \notin Types(up[s])
    BY <2>2, EmptyTypes
  <2> QED
    BY <1>1, <1>2, <1>3, <2>1, <2>7, <2>8, <2>9, PullKeeps
<1> QED
  BY <1>4, <1>5

LEMMA FinishedOrder ==
  ASSUME TypeOK, InStep, NEW s \in Session, InOrder(s), FinishReceivedFile(s) \/ CopyItem(s)
  PROVE  InOrder(s)'
<1>1. cpc[s] \in {"writing", "copying"} /\ plan' = plan /\ applied' = applied
  BY DEF FinishReceivedFile, CopyItem, trees
<1>2. mode[s] = "pull" /\ ~ Opening(s) /\ plan[s] # {} /\ PullInOrder(s)
  BY <1>1, FilePending
<1>3. CASE ClientFails(s)
  BY <1>1, <1>3, ClientFailsOrder
<1>4. CASE ~ ClientFails(s)
  <2>1. /\ mode' = mode /\ csnap' = csnap /\ rsnap' = rsnap /\ todo' = todo
        /\ up' = up /\ spc' = spc /\ down' = down /\ cpc'[s] = "operations"
    BY <1>4 DEF FinishReceivedFile, CopyItem, CGoto, server, TypeOK, ClientTyped
  <2>2. Remains(plan[s], todo[s], applied[s]) /\ NothingUnderWay(s)
    BY <1>1, <1>2 DEF PullInOrder
  <2>3. PullInOrder(s)'
    BY <1>1, <2>1, <2>2 DEF PullInOrder, NothingUnderWay
  <2>4. ~ Opening(s)'
    BY <2>1 DEF Opening
  <2>5. spc[s] # "closed" => "DONE" \notin Types(up[s])
    BY <2>2, EmptyTypes DEF NothingUnderWay
  <2> QED
    BY <1>1, <1>2, <2>1, <2>3, <2>4, <2>5, PullKeeps
<1> QED
  BY <1>3, <1>4

LEMMA LocalOperationOrder ==
  ASSUME TypeOK, InStep, NEW s \in Session, InOrder(s), NEW o \in todo[s], Current(s, o),
         PrepareCopy(s, o) \/ DeleteLocal(s, o)
  PROVE  InOrder(s)'
<1>1. /\ cpc[s] = "operations" /\ mode[s] = "pull" /\ plan' = plan
      /\ applied'[s] = applied[s] + 1 /\ applied[s] \in Nat
  BY DEF PrepareCopy, DeleteLocal, Current, Begun, TypeOK, TreesTyped
<1>2. Remains(plan[s], todo[s], applied[s]) /\ NothingUnderWay(s)
  BY <1>1 DEF InOrder, PullInOrder
<1>3. o \in plan[s] /\ Pos(plan[s], o) = applied[s] /\ Remains(plan[s], todo[s] \ {o}, applied[s] + 1)
  BY <1>2, NextOperation
<1>4. CASE ClientFails(s)
  BY <1>1, <1>4, ClientFailsOrder
<1>5. CASE ~ ClientFails(s)
  <2>1. /\ mode' = mode /\ csnap' = csnap /\ rsnap' = rsnap /\ todo'[s] = todo[s] \ {o}
        /\ up' = up /\ spc' = spc /\ down' = down
        /\ cpc'[s] = "operations" \/ (cpc'[s] = "copying" /\ cjob'[s] = o)
    BY <1>1, <1>5 DEF PrepareCopy, DeleteLocal, Advance, CGoto, server, TypeOK, ClientTyped
  <2>2. applied'[s] > 0 /\ applied'[s] - 1 = applied[s]
    BY <1>1
  <2>3. cpc'[s] = "copying" => \E x \in plan'[s] : /\ applied'[s] > 0
                                                   /\ Pos(plan'[s], x) = applied'[s] - 1
                                                   /\ x = cjob'[s]
    BY <1>1, <1>3, <2>1, <2>2
  <2>4. Remains(plan'[s], todo'[s], applied'[s]) /\ NothingUnderWay(s)'
    BY <1>1, <1>2, <1>3, <2>1 DEF NothingUnderWay
  <2>5. PullInOrder(s)'
    BY <2>1, <2>3, <2>4 DEF PullInOrder
  <2>6. ~ Opening(s) /\ ~ Opening(s)' /\ cpc[s] # "failed" /\ plan[s] # {}
    BY <1>1, <1>3, <2>1 DEF Opening
  <2>7. spc[s] # "closed" => "DONE" \notin Types(up[s])
    BY <1>2, EmptyTypes DEF NothingUnderWay
  <2> QED
    BY <1>1, <2>1, <2>5, <2>6, <2>7, PullKeeps
<1> QED
  BY <1>4, <1>5

-----------------------------------------------------------------------------
(* Every step keeps the order                                              *)

\* A session is where it was when another moves.
LEMMA OthersOrder ==
  ASSUME TypeOK, NEW s \in Session, NEW t \in Session \ {s},
         Connect(s) \/ ClientStep(s) \/ ClientDies(s) \/ HandlerStep(s)
  PROVE  UNCHANGED OrderPart(t)
<1> USE DEF TypeOK, TreesTyped, ClientTyped, ServerTyped, UpTyped, DownTyped
<1>1. CASE ClientFails(s) /\ plan' = plan /\ (applied' = applied \/ Begun(s))
  BY <1>1 DEF ClientFails, CGoto, Begun, server, OrderPart
<1>2. CASE Connect(s)
  BY <1>2 DEF Connect, CGoto, trees, OrderPart
<1>3. CASE ReceiveUnexpected(s) \/ ConnectionLost(s) \/ ClientDies(s)
  BY <1>1, <1>3 DEF ReceiveUnexpected, ConnectionLost, ClientDies, trees
<1>4. CASE ReceiveOK(s) \/ ScanLocal(s) \/ SendDone(s) \/ DrainReply(s) \/ ReceiveDone(s)
  BY <1>1, <1>4 DEF ReceiveOK, ScanLocal, SendDone, DrainReply, ReceiveDone, Received, Sent, CGoto,
                    trees, server, OrderPart
<1>5. CASE ReceiveMetadata(s)
  BY <1>5 DEF ReceiveMetadata, Received, CGoto, server, OrderPart
<1>6. ASSUME NEW o \in todo[s],
             Upload(s, o) \/ SendRemote(s, o) \/ RequestFile(s, o) \/ PrepareCopy(s, o)
             \/ DeleteLocal(s, o)
      PROVE  UNCHANGED OrderPart(t)
  BY <1>1, <1>6 DEF Upload, SendRemote, RequestFile, PrepareCopy, DeleteLocal, Sent, Advance,
                    Begun, CGoto, trees, server, OrderPart
<1>7. CASE SkipFile(s) \/ WriteReceivedFile(s) \/ FinishReceivedFile(s) \/ CopyItem(s)
  BY <1>1, <1>7 DEF SkipFile, WriteReceivedFile, FinishReceivedFile, CopyItem, Received, Begun,
                    CGoto, trees, server, OrderPart
<1>8. ASSUME NEW m, NEW next, Reply(s, m, next)
      PROVE  spc'[t] = spc[t] /\ down'[t] = down[t] /\ out'[t] = out[t]
  BY <1>8 DEF Reply, SGoto
<1>9. CASE HandlerStep(s)
  <2>1. CASE ReceiveHello(s) \/ ScanServed(s) \/ ExchangeMetadata(s) \/ ReceiveFails(s)
             \/ ReceiveLast(s)
    BY <1>8, <2>1 DEF ReceiveHello, ScanServed, ExchangeMetadata, ReceiveFails, ReceiveLast, Taken,
                      SGoto, trees, client, OrderPart
  <2>2. CASE ReplySent(s) \/ ReplyAbandoned(s) \/ CloseConnection(s)
    BY <1>8, <2>2 DEF ReplySent, ReplyAbandoned, CloseConnection, SGoto, trees, client, OrderPart
  <2>3. CASE SendFile(s) \/ ReceiveFile(s) \/ FinishFile(s)
    BY <1>8, <2>3 DEF SendFile, ReceiveFile, FinishFile, Takes, Taken, Refuse, Begun, SGoto,
                      trees, client, OrderPart
  <2>4. CASE DeleteFile(s) \/ ReceiveCopy(s) \/ FinishCopy(s)
    BY <1>8, <2>4 DEF DeleteFile, ReceiveCopy, FinishCopy, Takes, Taken, Refuse, Begun, SGoto,
                      trees, client, OrderPart
  <2> QED
    BY <1>9, <2>1, <2>2, <2>3, <2>4 DEF HandlerStep
<1> QED
  BY <1>2, <1>3, <1>4, <1>5, <1>6, <1>7, <1>9 DEF ClientStep, ExecuteOperation

LEMMA ClientOrder ==
  ASSUME TypeOK, InStep, NEW s \in Session, InOrder(s),
         Connect(s) \/ ClientStep(s) \/ ClientDies(s)
  PROVE  InOrder(s)'
<1>1. CASE ReceiveUnexpected(s) \/ ConnectionLost(s) \/ ClientDies(s)
  BY <1>1, ClientFailsOrder DEF ReceiveUnexpected, ConnectionLost, ClientDies, trees
<1>2. CASE ExecuteOperation(s)
  BY <1>2, PushSendsOrder, RequestFileOrder, LocalOperationOrder DEF ExecuteOperation
<1> QED
  BY <1>1, <1>2, ConnectOrder, ReceiveOKOrder, ScanLocalOrder, ReceiveMetadataOrder, FileOrder,
     FinishedOrder, SendDoneOrder, DrainOrder DEF ClientStep

LEMMA CrashOrder ==
  ASSUME TypeOK, OrderInv, ServerCrash
  PROVE  OrderInv'
<1> SUFFICES ASSUME NEW s \in Session PROVE InOrder(s)'
  BY DEF OrderInv
<1>1. InOrder(s) /\ UNCHANGED <<client, plan, applied, up, sjob, out>>
  BY DEF OrderInv, ServerCrash, trees
<1>2. CASE Serving(s)
  <2>1. spc[s] # "none" /\ spc'[s] = "closed" /\ down'[s] \in {down[s], <<>>}
    BY <1>2 DEF ServerCrash, Serving
  <2> QED
    BY <1>1, <2>1, ClosingOrder
<1>3. CASE ~ Serving(s)
  <2>1. spc'[s] = spc[s] /\ down'[s] = down[s]
    BY <1>3 DEF ServerCrash
  <2> QED
    BY <1>1, <2>1, SamePartSameOrder DEF OrderPart, client
<1> QED
  BY <1>2, <1>3

LEMMA InitOrder == Init => OrderInv
<1> SUFFICES ASSUME Init, NEW s \in Session PROVE InOrder(s)
  BY DEF OrderInv
<1>1. /\ cpc[s] = "idle" /\ spc[s] = "none" /\ plan[s] = {} /\ applied[s] = 0 /\ todo[s] = {}
      /\ up[s] = <<>> /\ down[s] = <<>>
  BY DEF Init
<1>2. Cardinality({}) = 0 /\ Types(down[s]) = {} /\ Len(up[s]) = 0 /\ 1..Len(up[s]) = {}
      /\ Types(up[s]) = {}
  BY <1>1, FS_EmptySet, EmptyTypes, EmptyLength
<1>3. ChannelInOrder(s)
  BY <1>1, <1>2 DEF ChannelInOrder, UpInOrder, UpBefore
<1> QED
  BY <1>1, <1>2, <1>3 DEF InOrder, Planned, Opening, HandlerInOrder, PushInOrder, PullInOrder

LEMMA NextOrder == TypeOK /\ InStep /\ OrderInv /\ [Next]_vars => OrderInv'
<1> SUFFICES ASSUME TypeOK, InStep, OrderInv, [Next]_vars PROVE OrderInv'
  OBVIOUS
<1>1. CASE UNCHANGED vars
  BY <1>1, SamePartSameOrder DEF vars, trees, client, server, OrderPart, OrderInv
<1>2. CASE Quiet
  BY <1>1, <1>2 DEF Quiet
<1>3. ASSUME NEW s \in Session, Connect(s) \/ ClientStep(s) \/ ClientDies(s) \/ HandlerStep(s)
      PROVE  OrderInv'
  <2>1. InOrder(s)'
    BY <1>3, ClientOrder, HandlerOrder DEF OrderInv
  <2>2. ASSUME NEW t \in Session \ {s} PROVE InOrder(t)'
    BY <1>3, <2>2, OthersOrder, SamePartSameOrder DEF OrderInv
  <2> QED
    BY <2>1, <2>2 DEF OrderInv
<1> QED
  BY <1>1, <1>2, <1>3, CrashOrder DEF Next

\* However many messages a push has on the way, and whatever is lost, the handler begins
\* its operations in the order of the plan, none twice and none left out, and a pull does
\* the same; DONE comes behind the last, and success is reported when all were begun
\* (executeTransfers sends without waiting, handleFileTransfers takes what comes).
THEOREM SpecOrderInv == Spec => []OrderInv
  BY InitOrder, NextOrder, SpecTypeOK, SpecInStep, PTL DEF Spec

-----------------------------------------------------------------------------
(* What a session by itself has listed and is carrying                     *)

Source(s) == IF mode[s] = "push" THEN local[Owner[s]] ELSE served

\* A scan of t, which without a fault passes over nothing.
ScanOf(l, t, n) ==
    /\ \E missed \in {{}} \cup Unreadable : l = Listed(t, missed)
    /\ n = 0 => l = ListingOf(t)

\* Until the plan is made the listings are scans of the trees.
Scanned(s) ==
    /\ cpc[s] = "awaitMetadata" => ScanOf(csnap[s], local[Owner[s]], faults)
    /\ spc[s] = "metadata" => ScanOf(ssnap[s], served, faults)
    /\ \A m \in Messages(down[s]) : m.type = "METADATA" => ScanOf(m.listing, served, faults)

\* A file is sent as it was listed, and asked for if it was.
Faithful(s, m) ==
    /\ m.type = "FILE" => m.data = SourceListing(s)[m.path]
    /\ m.type = "REQUEST" => SourceListing(s)[m.path] # Absent

AsListed(s) == \A p \in Path : SourceListing(s)[p] # Absent => Source(s)[p] = SourceListing(s)[p]

\* Whatever is under way is faithful; a file that is being written is torn till the end.
Carrying(s) ==
    /\ AsListed(s)
    /\ \A m \in Messages(up[s]) \cup Messages(down[s]) : Faithful(s, m)
    /\ spc[s] = "sending" => Faithful(s, out[s].message)
    /\ spc[s] = "writing" => Faithful(s, sjob[s]) /\ served[sjob[s].path] = Torn
    /\ cpc[s] = "writing" => Faithful(s, cjob[s]) /\ local[Owner[s]][cjob[s].path] = Torn

GoalKept(s) ==
    /\ Opening(s) => Scanned(s)
    /\ ~ Opening(s) /\ plan[s] # {} => Carrying(s)
    /\ mode[s] = "push" => \A m \in Messages(up[s]) : m.type # "REQUEST"

GoalInv == \A s \in Session : Alone(s) => GoalKept(s)

\* Faults do not heal.
LEMMA FaultsGrow ==
  ASSUME TypeOK, NEW s \in Session,
         ServerCrash \/ Connect(s) \/ ClientStep(s) \/ ClientDies(s) \/ HandlerStep(s)
  PROVE  faults' = 0 => faults = 0
<1>1. UNCHANGED faults \/ Fault => (faults' = 0 => faults = 0)
  BY DEF Fault, TypeOK
<1>2. CASE ServerCrash \/ Connect(s) \/ ClientDies(s)
  BY <1>1, <1>2 DEF ServerCrash, Connect, ClientDies
<1>3. CASE ExecuteOperation(s)
  BY <1>1, <1>3 DEF ExecuteOperation, Upload, SendRemote, RequestFile, PrepareCopy, DeleteLocal,
                    Fails, Succeeds
<1>4. CASE ClientStep(s) /\ ~ ExecuteOperation(s)
  BY <1>1, <1>4 DEF ClientStep, ReceiveOK, ScanLocal, ReceiveMetadata, ReceiveUnexpected, SkipFile,
                  WriteReceivedFile, FinishReceivedFile, CopyItem, SendDone, DrainReply,
                  ReceiveDone, ConnectionLost, Lists, Fails, Succeeds
<1>5. CASE HandlerStep(s)
  BY <1>1, <1>5 DEF HandlerStep, ReceiveHello, ScanServed, ExchangeMetadata, ReceiveFails, SendFile,
                ReceiveFile, FinishFile, DeleteFile, ReceiveCopy, FinishCopy, ReceiveLast,
                ReplySent, ReplyAbandoned, CloseConnection, Lists, Fails, Succeeds
<1> QED
  BY <1>2, <1>3, <1>4, <1>5

LEMMA ListsScans ==
  ASSUME TypeOK, NEW t \in Tree, NEW l, Lists(l, t)
  PROVE  ScanOf(l, t, faults')
<1>1. ListingOf(t) = Listed(t, {})
  BY DEF ListingOf, Listed
<1>2. CASE Fault /\ \E missed \in Unreadable : l = Listed(t, missed)
  <2>1. faults' # 0
    BY <1>2 DEF Fault, TypeOK
  <2> QED
    BY <1>2, <2>1 DEF ScanOf
<1> QED
  BY <1>1, <1>2 DEF Lists, ScanOf

\* A step that changes neither tree, and makes no plan.
LEMMA StillScanned ==
  ASSUME TypeOK, NEW s \in Session, Scanned(s), UNCHANGED trees, faults' = 0 => faults = 0,
         cpc'[s] = "awaitMetadata" =>
             \/ ScanOf(csnap'[s], local[Owner[s]], faults')
             \/ cpc[s] = "awaitMetadata" /\ csnap'[s] = csnap[s],
         spc'[s] = "metadata" =>
             \/ ScanOf(ssnap'[s], served, faults')
             \/ spc[s] = "metadata" /\ ssnap'[s] = ssnap[s],
         \A m \in Messages(down'[s]) :
             \/ m \in Messages(down[s])
             \/ m.type = "METADATA" => ScanOf(m.listing, served, faults')
  PROVE  Scanned(s)'
<1>1. local' = local /\ served' = served
  BY DEF trees
<1>2. \A l, t : ScanOf(l, t, faults) => ScanOf(l, t, faults')
  BY DEF ScanOf
<1> QED
  BY <1>1, <1>2 DEF Scanned

LEMMA HandlerScanned ==
  ASSUME TypeOK, InStep, NEW s \in Session, Scanned(s), HandlerStep(s), Opening(s)
  PROVE  Scanned(s)'
<1>1. csnap' = csnap /\ cpc' = cpc /\ UNCHANGED trees /\ (faults' = 0 => faults = 0)
  BY HandlerOpening, FaultsGrow DEF client
<1>2. served \in Tree
  BY DEF TypeOK, TreesTyped
<1>3. spc'[s] = "metadata" => \/ ScanOf(ssnap'[s], served, faults')
                              \/ spc[s] = "metadata" /\ ssnap'[s] = ssnap[s]
  BY <1>2, HandlerOpening, ListsScans
<1>4. \A m \in Messages(down'[s]) :
          \/ m \in Messages(down[s])
          \/ m.type = "METADATA" => ScanOf(m.listing, served, faults')
  <2>1. spc[s] = "metadata" => ScanOf(ssnap[s], served, faults')
    BY <1>1 DEF Scanned, ScanOf
  <2> QED
    BY <2>1, HandlerOpening
<1> QED
  BY <1>1, <1>3, <1>4, StillScanned

LEMMA ClientScanned ==
  ASSUME TypeOK, NEW s \in Session, Scanned(s),
         Connect(s) \/ ReceiveOK(s) \/ ScanLocal(s), Opening(s)'
  PROVE  Scanned(s)'
<1>1. UNCHANGED trees /\ (faults' = 0 => faults = 0)
  BY FaultsGrow DEF Connect, ReceiveOK, ScanLocal, ClientStep
<1>2. CASE Connect(s)
  <2>1. cpc'[s] = "awaitOK" /\ spc'[s] = "hello" /\ UNCHANGED down
    BY <1>2 DEF Connect, CGoto, TypeOK, ClientTyped, ServerTyped
  <2> QED
    BY <1>1, <2>1, StillScanned
<1>3. CASE ReceiveOK(s)
  <2>1. cpc'[s] = "scan" /\ UNCHANGED <<spc, ssnap>>
    BY <1>3 DEF ReceiveOK, CGoto, server, TypeOK, ClientTyped
  <2>2. Messages(down'[s]) \subseteq Messages(down[s])
    BY <1>3, ReceivedMessages DEF ReceiveOK
  <2> QED
    BY <1>1, <2>1, <2>2, StillScanned
<1>4. CASE ScanLocal(s)
  <2>1. ~ ClientFails(s)
    BY DEF ClientFails, CGoto, Opening, TypeOK, ClientTyped
  <2>2. PICK l \in Listing : Lists(l, local[Owner[s]]) /\ csnap' = [csnap EXCEPT ![s] = l]
    BY <1>4, <2>1 DEF ScanLocal
  <2>3. UNCHANGED <<spc, ssnap, down>>
    BY <1>4, <2>1 DEF ScanLocal, server
  <2>4. csnap'[s] = l /\ local[Owner[s]] \in Tree
    BY <2>2, SessionAssumption DEF TypeOK, ClientTyped, TreesTyped
  <2>5. ScanOf(l, local[Owner[s]], faults')
    BY <2>2, <2>4, ListsScans
  <2> QED
    BY <1>1, <2>3, <2>4, <2>5, StillScanned
<1> QED
  BY <1>2, <1>3, <1>4

-----------------------------------------------------------------------------
(* ... once there is a plan                                                *)

\* What a plan transfers the source lists.
LEMMA TransfersListed ==
  ASSUME TypeOK, NEW s \in Session, InOrder(s), NEW o \in plan[s]
  PROVE  /\ o \in Op /\ (o.act = "transfer" => SourceListing(s)[o.to] # Absent)
<1>1. SourceListing(s) \in Listing /\ TargetListing(s) \in Listing
  BY OrderTyped DEF SourceListing, TargetListing
<1>2. PICK rank \in Orders(DestToSource(SourceListing(s), TargetListing(s))) :
          plan[s] = Plan(SourceListing(s), TargetListing(s), rank)
  BY DEF InOrder, Planned
<1>3. o \in Op
  BY <1>1, <1>2, PlanWritesOnlyDifferences
<1>4. ASSUME o.act = "transfer"
      PROVE  o.to \in NeedsTransfer(SourceListing(s), TargetListing(s))
  <2>1. ASSUME NEW p \in WalksThatFind(DestToSource(SourceListing(s), TargetListing(s)), rank),
               o \in CycleOps(DestToSource(SourceListing(s), TargetListing(s)), rank, p)
        PROVE  FALSE
    BY <1>4, <2>1 DEF CycleOps
  <2> QED
    BY <1>1, <1>2, <1>4, <2>1, PlanCases
<1> QED
  BY <1>3, <1>4 DEF NeedsTransfer

LEMMA SamePlanFaithful ==
  ASSUME NEW s \in Session, SamePlan(s)
  PROVE  /\ SourceListing(s)' = SourceListing(s)
         /\ \A m : Faithful(s, m)' <=> Faithful(s, m)
<1>1. SourceListing(s)' = SourceListing(s)
  BY DEF SamePlan, SourceListing
<1> QED
  BY <1>1 DEF Faithful

\* The client goes on, and sends nothing or m.
LEMMA ClientCarriesOn ==
  ASSUME TypeOK, NEW s \in Session, Carrying(s), SamePlan(s), UNCHANGED <<served, server>>,
         mode[s] = "push" => UNCHANGED local,
         \A m \in Messages(up'[s]) : m \in Messages(up[s]) \/ Faithful(s, m),
         Messages(down'[s]) \subseteq Messages(down[s]),
         cpc'[s] = "writing" => Faithful(s, cjob'[s]) /\ local'[Owner[s]][cjob'[s].path] = Torn
  PROVE  Carrying(s)'
<1>1. spc' = spc /\ sjob' = sjob /\ out' = out /\ mode'[s] = mode[s]
  BY DEF server, SamePlan
<1>2. Source(s)' = Source(s)
  BY <1>1 DEF Source
<1>3. AsListed(s)'
  BY <1>2, SamePlanFaithful DEF AsListed, Carrying
<1> QED
  BY <1>1, <1>3, SamePlanFaithful DEF Carrying

LEMMA ClientFailsCarrying ==
  ASSUME TypeOK, NEW s \in Session, Carrying(s), ClientFails(s), UNCHANGED <<served, plan>>,
         mode[s] = "push" => UNCHANGED local
  PROVE  Carrying(s)'
<1>1. /\ Messages(up'[s]) \subseteq Messages(up[s]) /\ Messages(down'[s]) = {}
      /\ cpc'[s] = "failed" /\ SamePlan(s) /\ UNCHANGED server
  BY FailingMessages DEF ClientFails, SamePlan
<1> QED
  BY <1>1, ClientCarriesOn

LEMMA OperationCarrying ==
  ASSUME TypeOK, NEW s \in Session, Carrying(s), InOrder(s), NEW o \in todo[s], Current(s, o),
         Upload(s, o) \/ SendRemote(s, o) \/ RequestFile(s, o)
         \/ PrepareCopy(s, o) \/ DeleteLocal(s, o)
  PROVE  Carrying(s)'
<1>1. /\ cpc[s] = "operations" /\ o \in plan[s] /\ mode[s] \in {"push", "pull"}
      /\ cpc \in [Session -> ClientPC]
  BY OrderTyped DEF Current, InOrder, PushInOrder, PullInOrder, Remains, TypeOK, ClientTyped
<1>2. o \in Op /\ (o.act = "transfer" => SourceListing(s)[o.to] # Absent)
  BY <1>1, TransfersListed
<1>3. /\ o.to \in Place /\ (o.act = "copy" => o.from \in Place)
      /\ (o.act = "transfer" => o.to \in Path)
  BY <1>2, OpParts
<1>4. CASE Upload(s, o)
  <2> DEFINE m == File(o.to, local[Owner[s]][o.to])
  <2>1. CASE ClientFails(s) /\ UNCHANGED trees
    BY <2>1, ClientFailsCarrying DEF trees
  <2>2. CASE /\ IsFile(local[Owner[s]], o.to) /\ Sent(s, m)
             /\ UNCHANGED <<trees, mode, cpc, csnap, rsnap, cjob, serverErrors, server, down>>
    <3>1. o.to \in Path /\ mode[s] = "push"
      BY <1>3, <1>4 DEF Upload
    <3>2. m \in UpMessage /\ Faithful(s, m)
      BY <1>2, <1>4, <2>2, <3>1, UpMessages
         DEF Upload, IsFile, File, Faithful, Carrying, AsListed, Source
    <3> HIDE DEF m
    <3>3. Messages(up'[s]) = Messages(up[s]) \cup {m}
      BY <2>2, <3>2, SentMessages
    <3>4. SamePlan(s) /\ UNCHANGED <<served, local, server>> /\ down' = down /\ cpc' = cpc
      BY <2>2 DEF SamePlan, trees
    <3> QED
      BY <1>1, <3>2, <3>3, <3>4, ClientCarriesOn
  <2> QED
    BY <1>4, <2>1, <2>2 DEF Upload, Succeeds
<1>5. CASE SendRemote(s, o)
  <2> DEFINE m == IF o.act = "copy" THEN Copy(o.from, o.to) ELSE Delete(o.to)
  <2>1. m \in UpMessage /\ Faithful(s, m) /\ Sent(s, m)
    BY <1>3, <1>5, UpMessages DEF SendRemote, Copy, Delete, Faithful
  <2> HIDE DEF m
  <2>2. Messages(up'[s]) = Messages(up[s]) \cup {m}
    BY <2>1, SentMessages
  <2>3. SamePlan(s) /\ UNCHANGED <<served, local, server>> /\ down' = down /\ cpc' = cpc
    BY <1>5 DEF SendRemote, SamePlan, trees
  <2> QED
    BY <1>1, <2>1, <2>2, <2>3, ClientCarriesOn
<1>6. CASE RequestFile(s, o)
  <2> DEFINE m == Request(o.to)
  <2>1. m \in UpMessage /\ Faithful(s, m) /\ Sent(s, m)
    BY <1>2, <1>3, <1>6, UpMessages DEF RequestFile, Request, Faithful
  <2> HIDE DEF m
  <2>2. Messages(up'[s]) = Messages(up[s]) \cup {m}
    BY <2>1, SentMessages
  <2>3. /\ SamePlan(s) /\ UNCHANGED <<served, local, server>> /\ down' = down
        /\ cpc'[s] = "awaitFile"
    BY <1>1, <1>6 DEF RequestFile, SamePlan, trees, CGoto
  <2> QED
    BY <2>1, <2>2, <2>3, ClientCarriesOn
<1>7. CASE PrepareCopy(s, o)
  <2>1. mode[s] = "pull" /\ UNCHANGED <<served, plan>>
    BY <1>7 DEF PrepareCopy, Begun
  <2>2. CASE ClientFails(s)
    BY <2>1, <2>2, ClientFailsCarrying
  <2>3. CASE /\ CGoto(s, "copying")
             /\ UNCHANGED <<served, temp, mode, csnap, rsnap, serverErrors, server, up, down>>
    <3>1. SamePlan(s) /\ cpc'[s] = "copying" /\ UNCHANGED server
      BY <1>1, <2>1, <2>3 DEF SamePlan, CGoto
    <3> QED
      BY <2>1, <2>3, <3>1, ClientCarriesOn
  <2> QED
    BY <1>7, <2>2, <2>3 DEF PrepareCopy
<1>8. CASE DeleteLocal(s, o)
  <2>1. /\ mode[s] = "pull" /\ UNCHANGED <<served, server>> /\ SamePlan(s) /\ cpc' = cpc
        /\ up' = up /\ down' = down
    BY <1>8 DEF DeleteLocal, Begun, SamePlan
  <2> QED
    BY <1>1, <2>1, ClientCarriesOn
<1> QED
  BY <1>4, <1>5, <1>6, <1>7, <1>8

LEMMA ClientCarrying ==
  ASSUME TypeOK, NEW s \in Session, Carrying(s), InOrder(s), ~ Opening(s),
         ClientStep(s) \/ ClientDies(s)
  PROVE  Carrying(s)'
<1>1. /\ cpc[s] \in {"awaitFile", "writing", "copying"} => mode[s] = "pull"
      /\ cpc \in [Session -> ClientPC] /\ cjob \in [Session -> Op \cup FileMessage]
      /\ mode[s] \in {"push", "pull"}
  BY OrderTyped DEF InOrder, PushInOrder, TypeOK, ClientTyped
<1>2. CASE ReceiveUnexpected(s) \/ ConnectionLost(s) \/ ClientDies(s)
  <2>1. ClientFails(s) /\ UNCHANGED trees
    BY <1>2 DEF ReceiveUnexpected, ConnectionLost, ClientDies
  <2> QED
    BY <2>1, ClientFailsCarrying DEF trees
<1>3. CASE ExecuteOperation(s)
  BY <1>3, OperationCarrying DEF ExecuteOperation
<1>4. CASE SendDone(s)
  <2> DEFINE m == Simple("DONE")
  <2>1. m \in UpMessage /\ Faithful(s, m) /\ Sent(s, m)
    BY <1>4, UpMessages DEF SendDone, Simple, Faithful
  <2> HIDE DEF m
  <2>2. Messages(up'[s]) = Messages(up[s]) \cup {m}
    BY <2>1, SentMessages
  <2>3. /\ SamePlan(s) /\ UNCHANGED <<served, local, server>> /\ down' = down
        /\ cpc'[s] = "awaitDone"
    BY <1>1, <1>4 DEF SendDone, SamePlan, trees, CGoto
  <2> QED
    BY <2>1, <2>2, <2>3, ClientCarriesOn
<1>5. CASE SkipFile(s) \/ DrainReply(s)
  <2>1. /\ Messages(down'[s]) \subseteq Messages(down[s]) /\ cpc'[s] \in {"operations", "awaitDone"}
        /\ SamePlan(s) /\ UNCHANGED <<served, local, server>> /\ up' = up
    BY <1>1, <1>5, ReceivedMessages DEF SkipFile, DrainReply, CGoto, SamePlan, trees, Begun
  <2> QED
    BY <2>1, ClientCarriesOn
<1>6. CASE ReceiveDone(s)
  <2>1. CASE ClientFails(s)
    BY <1>6, <2>1, ClientFailsCarrying DEF ReceiveDone, trees
  <2>2. CASE /\ CGoto(s, "ok") /\ Received(s)
             /\ UNCHANGED <<mode, csnap, rsnap, todo, cjob, serverErrors, server, up>>
    <3>1. /\ Messages(down'[s]) \subseteq Messages(down[s]) /\ cpc'[s] = "ok"
          /\ SamePlan(s) /\ UNCHANGED <<served, local, server>> /\ up' = up
      BY <1>1, <1>6, <2>2, ReceivedMessages DEF ReceiveDone, CGoto, SamePlan, trees
    <3> QED
      BY <3>1, ClientCarriesOn
  <2> QED
    BY <1>6, <2>1, <2>2 DEF ReceiveDone
<1>7. CASE WriteReceivedFile(s)
  <2> DEFINE m == Head(down[s])
             t == TryWithParents(local[Owner[s]], m.path)
  <2>1. /\ m \in Messages(down[s]) /\ m.type = "FILE" /\ m \in DownMessage
        /\ Received(s) => Messages(down'[s]) \subseteq Messages(down[s])
        /\ Faithful(s, m)
    BY <1>7, ReceivedMessages, ArrivedHead DEF WriteReceivedFile, Carrying
  <2>2. m.path \in Path /\ mode[s] = "pull" /\ UNCHANGED <<served, plan>>
    BY <1>1, <1>7, <2>1, DownParts DEF FileMessage, WriteReceivedFile, Begun
  <2>3. /\ Owner[s] \in Client /\ local \in [Client -> Tree] /\ t \in Tree
    BY <2>2, SessionAssumption, TreeOperations DEF TypeOK, TreesTyped, TryWithParents
  <2>4. CASE ClientFails(s)
    BY <2>2, <2>4, ClientFailsCarrying
  <2>5. CASE /\ local' = [local EXCEPT ![Owner[s]] = [t EXCEPT ![m.path] = Torn]]
             /\ cjob' = [cjob EXCEPT ![s] = m]
             /\ Received(s) /\ CGoto(s, "writing")
             /\ UNCHANGED <<served, temp, mode, csnap, rsnap, todo, serverErrors, server, up>>
    <3>1. cjob'[s] = m /\ local'[Owner[s]][m.path] = Torn
      BY <1>1, <2>2, <2>3, <2>5 DEF Tree
    <3>2. SamePlan(s) /\ UNCHANGED server /\ up' = up
      BY <2>2, <2>5 DEF SamePlan
    <3> HIDE DEF m, t
    <3> QED
      BY <2>1, <2>2, <2>5, <3>1, <3>2, ClientCarriesOn
  <2> QED
    BY <1>7, <2>4, <2>5 DEF WriteReceivedFile
<1>8. CASE FinishReceivedFile(s) \/ CopyItem(s)
  <2>1. mode[s] = "pull" /\ UNCHANGED <<served, plan>>
    BY <1>1, <1>8 DEF FinishReceivedFile, CopyItem, trees
  <2>2. CASE ClientFails(s)
    BY <2>1, <2>2, ClientFailsCarrying
  <2>3. CASE CGoto(s, "operations") /\ UNCHANGED <<mode, csnap, rsnap, server, up, down>>
    <3>1. SamePlan(s) /\ cpc'[s] = "operations" /\ UNCHANGED server
      BY <1>1, <2>1, <2>3 DEF SamePlan, CGoto
    <3> QED
      BY <2>1, <2>3, <3>1, ClientCarriesOn
  <2> QED
    BY <1>8, <2>2, <2>3 DEF FinishReceivedFile, CopyItem
<1> QED
  BY <1>2, <1>3, <1>4, <1>5, <1>6, <1>7, <1>8
     DEF ClientStep, Opening, ReceiveOK, ScanLocal, ReceiveMetadata

LEMMA HandlerCarriesOn ==
  ASSUME TypeOK, NEW s \in Session, Carrying(s), UNCHANGED <<client, local, plan>>,
         mode[s] # "push" => UNCHANGED served,
         Messages(up'[s]) \subseteq Messages(up[s]),
         \A m \in Messages(down'[s]) : m \in Messages(down[s]) \/ Faithful(s, m),
         spc'[s] = "sending" => Faithful(s, out'[s].message),
         spc'[s] = "writing" => Faithful(s, sjob'[s]) /\ served'[sjob'[s].path] = Torn
  PROVE  Carrying(s)'
<1>1. SamePlan(s) /\ cpc' = cpc /\ cjob' = cjob /\ mode' = mode /\ local' = local
  BY DEF client, SamePlan
<1>2. Source(s)' = Source(s)
  BY <1>1 DEF Source
<1>3. AsListed(s)'
  BY <1>1, <1>2, SamePlanFaithful DEF AsListed, Carrying
<1> QED
  BY <1>1, <1>3, SamePlanFaithful DEF Carrying

LEMMA AnswersCarrying ==
  ASSUME TypeOK, NEW s \in Session, Carrying(s), UNCHANGED <<client, local, plan>>,
         mode[s] # "push" => UNCHANGED served,
         Messages(up'[s]) \subseteq Messages(up[s]),
         NEW m \in DownMessage, Faithful(s, m),
         NEW next \in {"scan", "loop", "closing"}, Reply(s, m, next)
  PROVE  Carrying(s)'
<1>1. /\ Messages(down'[s]) \subseteq Messages(down[s]) \cup {m}
      /\ \/ spc'[s] = next /\ out'[s] = out[s]
         \/ spc'[s] = "sending" /\ out'[s].message = m
  BY ReplyMessages
<1> QED
  BY <1>1, HandlerCarriesOn

LEMMA RefusesCarrying ==
  ASSUME TypeOK, NEW s \in Session, Carrying(s), UNCHANGED <<client, local, plan>>,
         mode[s] # "push" => UNCHANGED served,
         Messages(up'[s]) \subseteq Messages(up[s]), Refuse(s)
  PROVE  Carrying(s)'
<1> DEFINE m == Simple("ERROR")
<1>1. m \in DownMessage /\ Faithful(s, m) /\ Reply(s, m, "loop")
  BY DownMessages DEF Simple, Faithful, Refuse
<1> HIDE DEF m
<1> QED
  BY <1>1, AnswersCarrying

\* Only a push has the handler change its tree.
LEMMA OnlyPushesChange ==
  ASSUME TypeOK, NEW s \in Session, InOrder(s),
         \/ ReceiveFile(s) \/ FinishFile(s) \/ DeleteFile(s) \/ ReceiveCopy(s) \/ FinishCopy(s)
  PROVE  mode[s] = "push"
<1>1. CASE FinishFile(s) \/ FinishCopy(s)
  BY <1>1 DEF FinishFile, FinishCopy, InOrder, HandlerInOrder
<1>2. CASE ReceiveFile(s) \/ DeleteFile(s) \/ ReceiveCopy(s)
  <2>1. spc[s] = "loop" /\ Offered(s) \in Operating /\ Taken(s)
    BY <1>2 DEF ReceiveFile, DeleteFile, ReceiveCopy, Takes, Operating
  <2>2. up[s] # <<>> /\ Head(up[s]).type \in Operating /\ up'[s] = Tail(up[s])
    BY <2>1 DEF Offered, Operating, Taken, TypeOK, UpTyped
  <2>3. Head(up[s]) = up[s][1] /\ 1 \in 1..Len(up[s])
    BY <2>2, UpTail, OrderTyped
  <2> QED
    BY <2>1, <2>2, <2>3 DEF InOrder, ChannelInOrder, UpInOrder
<1> QED
  BY <1>1, <1>2

LEMMA OperationsCarrying ==
  ASSUME TypeOK, NEW s \in Session, Carrying(s), mode[s] = "push",
         \/ ReceiveFile(s) \/ FinishFile(s) \/ DeleteFile(s) \/ ReceiveCopy(s) \/ FinishCopy(s)
  PROVE  Carrying(s)'
<1>1. UNCHANGED <<client, local, plan>>
  BY DEF ReceiveFile, FinishFile, DeleteFile, ReceiveCopy, FinishCopy, Begun
<1>2. Messages(up'[s]) \subseteq Messages(up[s])
  BY TakenMessages DEF ReceiveFile, FinishFile, DeleteFile, ReceiveCopy, FinishCopy, Takes
<1>3. CASE Refuse(s)
  BY <1>1, <1>2, <1>3, RefusesCarrying
<1>4. spc \in [Session -> HandlerPC] /\ sjob \in [Session -> UpMessage]
  BY DEF TypeOK, ServerTyped
<1>5. CASE ReceiveFile(s) /\ ~ Refuse(s)
  <2> DEFINE m == Head(up[s])
             t == TryWithParents(served, m.path)
  <2>1. m \in Messages(up[s]) /\ m.type = "FILE" /\ m \in UpMessage
    BY <1>5, TakenMessages, OfferedHead DEF ReceiveFile, Takes
  <2>2. m.path \in Path /\ t \in Tree /\ Faithful(s, m)
    BY <2>1, UpParts, TreeOperations DEF FileMessage, TypeOK, TreesTyped, Carrying
  <2>3. /\ served' = [t EXCEPT ![m.path] = Torn] /\ sjob'[s] = m /\ spc'[s] = "writing"
        /\ down' = down
    BY <1>4, <1>5 DEF ReceiveFile, SGoto
  <2>4. served'[m.path] = Torn
    BY <2>2, <2>3 DEF Tree
  <2> HIDE DEF m, t
  <2> QED
    BY <1>1, <1>2, <2>2, <2>3, <2>4, HandlerCarriesOn
<1>6. CASE ~ ReceiveFile(s) /\ ~ Refuse(s)
  <2>1. down' = down /\ spc'[s] \in {"loop", "copying"}
    BY <1>4, <1>6 DEF FinishFile, DeleteFile, ReceiveCopy, FinishCopy, SGoto, Takes
  <2> QED
    BY <1>1, <1>2, <2>1, HandlerCarriesOn
<1> QED
  BY <1>3, <1>5, <1>6

LEMMA HandlerCarrying ==
  ASSUME TypeOK, NEW s \in Session, Carrying(s), InOrder(s), HandlerStep(s),
         mode[s] = "push" => \A m \in Messages(up[s]) : m.type # "REQUEST"
  PROVE  Carrying(s)'
<1>1. /\ spc \in [Session -> HandlerPC] /\ mode[s] \in {"push", "pull"}
      /\ out[s].message \in DownMessage /\ out[s].next \in {"scan", "loop", "closing"}
  BY OrderTyped DEF TypeOK, ServerTyped
<1>2. CASE \/ ReceiveFile(s) \/ FinishFile(s) \/ DeleteFile(s) \/ ReceiveCopy(s) \/ FinishCopy(s)
  BY <1>2, OnlyPushesChange, OperationsCarrying
<1>3. CASE SendFile(s)
  <2> DEFINE p == Head(up[s]).path
             m == File(p, served[p])
  <2>1. /\ Head(up[s]) \in Messages(up[s]) /\ Head(up[s]).type = "REQUEST"
        /\ Head(up[s]) \in UpMessage /\ Messages(up'[s]) \subseteq Messages(up[s])
        /\ UNCHANGED <<client, local, plan, served>>
    BY <1>3, TakenMessages, OfferedHead DEF SendFile, Takes, trees
  <2>2. p \in Path /\ mode[s] # "push" /\ SourceListing(s)[p] # Absent
    BY <2>1, UpParts DEF Carrying, Faithful
  <2>3. served[p] = SourceListing(s)[p]
    BY <1>1, <2>2 DEF Carrying, AsListed, Source
  <2>4. CASE Refuse(s)
    BY <2>1, <2>4, RefusesCarrying
  <2>5. CASE IsFile(served, p) /\ Reply(s, m, "loop")
    <3>1. m \in DownMessage /\ Faithful(s, m)
      BY <2>2, <2>3, <2>5, DownMessages DEF IsFile, File, Faithful
    <3> HIDE DEF m
    <3> QED
      BY <2>1, <2>5, <3>1, AnswersCarrying
  <2> QED
    BY <1>3, <2>4, <2>5 DEF SendFile, Succeeds
<1>4. CASE \/ ReceiveHello(s) \/ ExchangeMetadata(s) \/ ReceiveLast(s)
           \/ ReceiveFails(s) \/ ReplySent(s) \/ ScanServed(s)
  <2>1. UNCHANGED <<client, local, plan, served>>
    BY <1>4 DEF ReceiveHello, ExchangeMetadata, ReceiveLast, ReceiveFails, ReplySent, ScanServed,
                trees
  <2>2. Messages(up'[s]) \subseteq Messages(up[s])
    BY <1>4, TakenMessages DEF ReceiveHello, ExchangeMetadata, ReceiveLast, ReceiveFails, ReplySent,
                               ScanServed
  <2>3. /\ \A t \in {"OK", "ERROR", "DONE"} : Simple(t) \in DownMessage /\ Faithful(s, Simple(t))
        /\ Metadata(ssnap[s]) \in DownMessage /\ Faithful(s, Metadata(ssnap[s]))
        /\ spc[s] = "sending" => Faithful(s, out[s].message)
    BY DownMessages DEF Simple, Metadata, Faithful, TypeOK, ServerTyped, Carrying
  <2>4. CASE \E m \in DownMessage, next \in {"scan", "loop", "closing"} :
                Reply(s, m, next) /\ Faithful(s, m)
    BY <2>1, <2>2, <2>4, AnswersCarrying
  <2>5. CASE \E l \in {"metadata", "closing"} : SGoto(s, l) /\ UNCHANGED <<down, out>>
    <3>1. spc'[s] \in {"metadata", "closing"} /\ UNCHANGED down
      BY <1>1, <2>5 DEF SGoto
    <3> QED
      BY <2>1, <2>2, <3>1, HandlerCarriesOn
  <2> QED
    BY <1>1, <1>4, <2>3, <2>4, <2>5
       DEF ReceiveHello, ExchangeMetadata, ReceiveLast, ReceiveFails, ReplySent, ScanServed
<1>5. CASE ReplyAbandoned(s)
  <2>1. /\ UNCHANGED <<client, local, plan, served, up>>
        /\ spc'[s] \in {"scan", "loop", "closing"}
    BY <1>1, <1>5 DEF ReplyAbandoned, trees, SGoto
  <2>2. \A m \in Messages(down'[s]) : m \in Messages(down[s]) \/ Faithful(s, m)
    <3>1. CASE UNCHANGED down
      BY <3>1
    <3>2. CASE down' = [down EXCEPT ![s] = Append(@, Simple("FRAGMENT"))]
      <4> DEFINE m == Simple("FRAGMENT")
      <4>1. m \in DownMessage /\ Faithful(s, m)
        BY DownMessages DEF Simple, Faithful
      <4>2. down'[s] = Append(down[s], m) /\ down[s] \in Seq(DownMessage)
        BY <3>2 DEF TypeOK, DownTyped
      <4> HIDE DEF m
      <4>3. Messages(down'[s]) = Messages(down[s]) \cup {m}
        BY <4>1, <4>2, AppendMessages
      <4> QED
        BY <4>1, <4>3
    <3> QED
      BY <1>5, <3>1, <3>2 DEF ReplyAbandoned
  <2> QED
    BY <2>1, <2>2, HandlerCarriesOn
<1>6. CASE CloseConnection(s)
  <2>1. /\ UNCHANGED <<client, local, plan, served>> /\ spc'[s] = "closed"
        /\ up'[s] = <<>> /\ (down'[s] = down[s] \/ down'[s] = <<>>)
    BY <1>1, <1>6 DEF CloseConnection, trees, SGoto, TypeOK, UpTyped, DownTyped
  <2> QED
    BY <2>1, EmptyMessages, HandlerCarriesOn
<1> QED
  BY <1>2, <1>3, <1>4, <1>5, <1>6 DEF HandlerStep

-----------------------------------------------------------------------------
(* The whole session                                                       *)

LEMMA GoalBegins ==
  ASSUME TypeOK, InStep, NEW s \in Session, Handshaking(s), ReceiveMetadata(s)
  PROVE  Carrying(s)'
<1> DEFINE remote == Head(down[s]).listing
<1>1. /\ cpc[s] = "awaitMetadata" /\ cpc'[s] = "operations"
      /\ Arrived(s) = "METADATA" /\ Received(s)
      /\ UNCHANGED <<local, served, mode, csnap, cjob, server, up>>
  BY DEF ReceiveMetadata, CGoto, TypeOK, ClientTyped
<1>2. HandshakeInStep(s)
  BY <1>1 DEF InStep, SessionInStep, Opening
<1>3. down'[s] = <<>> /\ spc'[s] \in {"loop", "closing", "closed"}
  BY <1>1, <1>2, ReceivedTypes DEF HandshakeInStep, server
<1>4. Head(down[s]) \in Messages(down[s]) /\ Head(down[s]).type = "METADATA"
  BY <1>1, ReceivedMessages, ArrivedHead
<1>5. Seen(csnap[s], local[Owner[s]]) /\ Seen(remote, served)
  BY <1>1, <1>4 DEF Handshaking
<1>6. rsnap'[s] = remote /\ csnap'[s] = csnap[s] /\ mode'[s] = mode[s]
  BY <1>1 DEF ReceiveMetadata, TypeOK, ClientTyped
<1> HIDE DEF remote
<1>7. \A m \in Messages(up'[s]) : m.type \in {"HELLO", "METADATA"}
  BY <1>1 DEF Handshaking
<1>8. AsListed(s)'
  BY <1>1, <1>5, <1>6 DEF AsListed, SourceListing, Source, Seen
<1> QED
  BY <1>1, <1>3, <1>7, <1>8, EmptyMessages DEF Carrying, Faithful

\* A push asks for nothing.
LEMMA NothingAsked ==
  ASSUME TypeOK, NEW s \in Session, InOrder(s), mode[s] = "push",
         \A m \in Messages(up[s]) : m.type # "REQUEST",
         ServerCrash \/ Connect(s) \/ ClientStep(s) \/ ClientDies(s) \/ HandlerStep(s)
  PROVE  \A m \in Messages(up'[s]) : m.type # "REQUEST"
<1>1. ASSUME NEW m \in UpMessage, Sent(s, m), m.type # "REQUEST"
      PROVE  \A x \in Messages(up'[s]) : x.type # "REQUEST"
  BY <1>1, SentMessages
<1>2. CASE UNCHANGED up \/ ClientFails(s) \/ (Offered(s) # "nothing" /\ Taken(s))
  BY <1>2, FailingMessages, TakenMessages
<1>3. CASE Connect(s)
  <2>1. PICK v \in Majors : up'[s] = <<Hello(mode[s], v)>>
    BY <1>3 DEF Connect, TypeOK, UpTyped
  <2> QED
    BY <2>1 DEF Messages, Hello
<1>4. CASE ScanLocal(s)
  <2>1. ASSUME NEW l \in Listing, Sent(s, Metadata(l))
        PROVE  \A x \in Messages(up'[s]) : x.type # "REQUEST"
    <3>1. Metadata(l) \in UpMessage /\ Metadata(l).type # "REQUEST"
      BY UpMessages DEF Metadata
    <3> QED
      BY <1>1, <2>1, <3>1
  <2> QED
    BY <1>2, <1>4, <2>1 DEF ScanLocal
<1>5. CASE SendDone(s)
  <2>1. Simple("DONE") \in UpMessage /\ Simple("DONE").type # "REQUEST"
    BY UpMessages DEF Simple
  <2> QED
    BY <1>1, <1>5, <2>1 DEF SendDone
<1>6. ASSUME NEW o \in todo[s], Current(s, o),
             Upload(s, o) \/ SendRemote(s, o) \/ RequestFile(s, o)
             \/ PrepareCopy(s, o) \/ DeleteLocal(s, o)
      PROVE  \A x \in Messages(up'[s]) : x.type # "REQUEST"
  <2>1. o \in Op /\ local[Owner[s]] \in Tree
    BY OrderTyped, SessionAssumption DEF TypeOK, ClientTyped, TreesTyped
  <2>2. /\ o.to \in Place /\ (o.act = "copy" => o.from \in Place)
        /\ (o.act = "transfer" => o.to \in Path)
    BY <2>1, OpParts
  <2>3. CASE Upload(s, o) /\ ~ ClientFails(s)
    <3> DEFINE m == File(o.to, local[Owner[s]][o.to])
    <3>1. m \in UpMessage /\ m.type # "REQUEST"
      BY <2>2, <2>3, UpMessages DEF Upload, Succeeds, IsFile, File
    <3>2. Sent(s, m)
      BY <2>3 DEF Upload
    <3> HIDE DEF m
    <3> QED
      BY <1>1, <3>1, <3>2
  <2>4. CASE SendRemote(s, o)
    <3> DEFINE m == IF o.act = "copy" THEN Copy(o.from, o.to) ELSE Delete(o.to)
    <3>1. m \in UpMessage /\ m.type # "REQUEST"
      BY <2>2, UpMessages DEF Copy, Delete
    <3>2. Sent(s, m)
      BY <2>4 DEF SendRemote
    <3> HIDE DEF m
    <3> QED
      BY <1>1, <3>1, <3>2
  <2> QED
    BY <1>2, <1>6, <2>3, <2>4 DEF RequestFile, PrepareCopy, DeleteLocal
<1>7. CASE ServerCrash
  BY <1>2, <1>7 DEF ServerCrash
<1>8. CASE ClientStep(s) \/ ClientDies(s)
  BY <1>2, <1>4, <1>5, <1>6, <1>8
     DEF ClientStep, ClientDies, ExecuteOperation, ReceiveOK, ReceiveMetadata, ReceiveUnexpected,
         SkipFile, WriteReceivedFile, FinishReceivedFile, CopyItem, DrainReply, ReceiveDone,
         ConnectionLost
<1>9. CASE HandlerStep(s)
  <2>1. CASE CloseConnection(s)
    BY <2>1, EmptyMessages DEF CloseConnection, TypeOK, UpTyped
  <2> QED
    BY <1>2, <1>9, <2>1 DEF HandlerStep, ReceiveHello, ScanServed, ExchangeMetadata, ReceiveFails,
       SendFile, ReceiveFile, FinishFile, DeleteFile, ReceiveCopy, FinishCopy, ReceiveLast,
       ReplySent, ReplyAbandoned, Takes
<1> QED
  BY <1>3, <1>7, <1>8, <1>9

LEMMA CrashGoal ==
  ASSUME TypeOK, NEW s \in Session, GoalKept(s), InOrder(s), ServerCrash
  PROVE  GoalKept(s)'
<1>1. /\ UNCHANGED <<trees, client, ssnap, sjob, out, up>>
      /\ spc'[s] = spc[s] \/ spc'[s] = "closed"
      /\ down'[s] = down[s] \/ down'[s] = <<>>
      /\ faults' = 0 => faults = 0
  BY FaultsGrow DEF ServerCrash
<1>2. /\ cpc' = cpc /\ csnap' = csnap /\ plan' = plan /\ mode' = mode /\ up' = up
      /\ (Opening(s)' <=> Opening(s)) /\ UNCHANGED <<local, served>>
  BY <1>1 DEF client, trees, Opening
<1>3. ASSUME Scanned(s) PROVE Scanned(s)'
  BY <1>1, <1>2, <1>3, EmptyMessages, StillScanned
<1>4. ASSUME Carrying(s) PROVE Carrying(s)'
  BY <1>1, <1>2, <1>4, EmptyMessages, HandlerCarriesOn DEF Carrying
<1> QED
  BY <1>2, <1>3, <1>4 DEF GoalKept

LEMMA HandlerGoal ==
  ASSUME TypeOK, InStep, NEW s \in Session, GoalKept(s), InOrder(s), HandlerStep(s)
  PROVE  GoalKept(s)'
<1>1. cpc' = cpc /\ plan' = plan /\ mode' = mode
  BY DEF HandlerStep, ReceiveHello, ScanServed, ExchangeMetadata, ReceiveFails, SendFile,
         ReceiveFile, FinishFile, DeleteFile, ReceiveCopy, FinishCopy, ReceiveLast, ReplySent,
         ReplyAbandoned, CloseConnection, client, trees, Begun
<1> QED
  BY <1>1, HandlerScanned, HandlerCarrying, NothingAsked DEF GoalKept, Opening

LEMMA ClientGoal ==
  ASSUME TypeOK, InStep, NEW s \in Session, SessionKept(s), GoalKept(s), InOrder(s),
         Connect(s) \/ ClientStep(s) \/ ClientDies(s)
  PROVE  GoalKept(s)'
<1>1. mode' = mode
  BY DEF Connect, ClientDies, ClientStep, ExecuteOperation, Upload, SendRemote, RequestFile,
         PrepareCopy, DeleteLocal, ReceiveOK, ScanLocal, ReceiveMetadata, ReceiveUnexpected,
         SkipFile, WriteReceivedFile, FinishReceivedFile, CopyItem, SendDone, DrainReply,
         ReceiveDone, ConnectionLost, ClientFails
<1>2. mode'[s] = "push" => \A m \in Messages(up'[s]) : m.type # "REQUEST"
  BY <1>1, NothingAsked DEF GoalKept
<1>3. CASE Connect(s) \/ ReceiveOK(s) \/ ScanLocal(s)
  <2>1. Opening(s) /\ plan' = plan /\ plan[s] = {}
    BY <1>3 DEF Connect, ReceiveOK, ScanLocal, Opening, trees, SessionKept, Handshaking
  <2> QED
    BY <1>2, <1>3, <2>1, ClientScanned DEF GoalKept
<1>4. CASE ReceiveMetadata(s)
  <2>1. Handshaking(s) /\ ~ Opening(s)'
    BY <1>4 DEF ReceiveMetadata, Opening, SessionKept, CGoto, TypeOK, ClientTyped
  <2> QED
    BY <1>2, <1>4, <2>1, GoalBegins DEF GoalKept
<1>5. CASE ReceiveUnexpected(s) \/ ConnectionLost(s) \/ ClientDies(s)
  <2>1. ClientFails(s) /\ UNCHANGED trees /\ cpc'[s] = "failed"
    BY <1>5, FailingMessages DEF ReceiveUnexpected, ConnectionLost, ClientDies
  <2>2. plan' = plan
    BY <2>1 DEF trees
  <2> QED
    BY <1>2, <1>5, <2>1, <2>2, ClientFailsCarrying
       DEF GoalKept, Opening, SessionKept, Handshaking, trees
<1>6. CASE \/ ExecuteOperation(s) \/ SkipFile(s) \/ WriteReceivedFile(s) \/ FinishReceivedFile(s)
           \/ CopyItem(s) \/ SendDone(s) \/ DrainReply(s) \/ ReceiveDone(s)
  <2>1. ~ Opening(s) /\ ClientStep(s)
    BY <1>6 DEF Opening, ExecuteOperation, Current, SkipFile, WriteReceivedFile,
                FinishReceivedFile, CopyItem, SendDone, DrainReply, ReceiveDone, ClientStep
  <2>2. plan' = plan
    BY <1>6 DEF ExecuteOperation, Upload, SendRemote, RequestFile, PrepareCopy, DeleteLocal,
                SkipFile, WriteReceivedFile, FinishReceivedFile, CopyItem, SendDone, DrainReply,
                ReceiveDone, trees, Begun
  <2>3. ~ Opening(s)'
    <3>1. \/ UNCHANGED cpc
          \/ \E l \in {"operations", "awaitFile", "writing", "copying", "awaitDone", "ok", "failed"} :
                CGoto(s, l)
      BY <1>6 DEF ExecuteOperation, Upload, SendRemote, RequestFile, PrepareCopy, DeleteLocal,
                  SkipFile, WriteReceivedFile, FinishReceivedFile, CopyItem, SendDone, DrainReply,
                  ReceiveDone, ClientFails
    <3> QED
      BY <2>1, <3>1 DEF Opening, CGoto, TypeOK, ClientTyped
  <2> QED
    BY <1>2, <2>1, <2>2, <2>3, ClientCarrying DEF GoalKept
<1> QED
  BY <1>3, <1>4, <1>5, <1>6 DEF ClientStep

LEMMA InitGoal == Init => GoalInv
<1> SUFFICES ASSUME Init, NEW s \in Session PROVE GoalKept(s)
  BY DEF GoalInv
<1>1. /\ cpc[s] = "idle" /\ spc[s] = "none" /\ plan[s] = {} /\ up[s] = <<>> /\ down[s] = <<>>
  BY DEF Init
<1> QED
  BY <1>1, EmptyMessages DEF GoalKept, Scanned, Opening

LEMMA NextGoal ==
  TypeOK /\ InStep /\ OrderInv /\ KeptInv /\ GoalInv /\ [Next]_vars => GoalInv'
<1> SUFFICES ASSUME TypeOK, InStep, OrderInv, KeptInv, GoalInv, [Next]_vars,
                    NEW s \in Session, Alone(s)'
             PROVE  GoalKept(s)'
  BY DEF GoalInv
<1>1. CASE UNCHANGED vars
  <2>1. /\ UNCHANGED <<local, served, plan, mode, cpc, csnap, rsnap, cjob>>
        /\ UNCHANGED <<spc, ssnap, sjob, out, up, down, faults>>
    BY <1>1 DEF vars, trees, client, server
  <2>2. GoalKept(s)
    BY <2>1 DEF GoalInv, Alone
  <2> QED
    BY <2>1, <2>2 DEF GoalKept, Opening, Scanned, Carrying, Faithful, AsListed, Source,
                      SourceListing
<1>2. CASE Next /\ ~ UNCHANGED vars
  <2>1. /\ SessionKept(s) /\ GoalKept(s) /\ InOrder(s)
        /\ ServerCrash \/ Connect(s) \/ ClientStep(s) \/ ClientDies(s) \/ HandlerStep(s)
    BY <1>2, StepIsItsOwn DEF KeptInv, GoalInv, OrderInv
  <2> QED
    BY <2>1, CrashGoal, ClientGoal, HandlerGoal
<1> QED
  BY <1>1, <1>2

\* Until its plan is made a session knows the trees as they are, but for what a scan has
\* passed over; then it carries what the source held when it was listed (create and
\* allFiles, sendFile, Data(contentsOf:)).
THEOREM SpecGoalInv == Spec => []GoalInv
  BY InitKept, NextKept, InitGoal, NextGoal, SpecTypeOK, SpecInStep, SpecOrderInv, PTL DEF Spec

-----------------------------------------------------------------------------
(* A file that was asked for and cannot be had                             *)

\* The ERROR in the place of a file is the answer to the request for it.
AskedInVain(s) == cpc[s] = "awaitFile" /\ "ERROR" \in Types(down[s]) => refused[s]

AskInv == \A s \in Session : Alone(s) => AskedInVain(s)

LEMMA ArrivedType ==
  ASSUME TypeOK, NEW s \in Session, Arrived(s) # "nothing"
  PROVE  Arrived(s) \in Types(down[s])
<1>1. down[s] # <<>> /\ Head(down[s]).type = Arrived(s)
  BY ArrivedHead, OrderTyped DEF Arrived
<1>2. 1 \in 1..Len(down[s]) /\ Head(down[s]) = down[s][1]
  BY <1>1, OrderTyped, EmptySeq, HeadTailProperties
<1> QED
  BY <1>1, <1>2 DEF Types

LEMMA ClientAsks ==
  ASSUME TypeOK, NEW s \in Session, InOrder(s), Connect(s) \/ ClientStep(s) \/ ClientDies(s)
  PROVE  cpc'[s] = "awaitFile" => down'[s] = <<>>
<1>1. CASE \E o \in todo[s] : Current(s, o) /\ RequestFile(s, o)
  <2>1. cpc[s] = "operations" /\ mode[s] = "pull" /\ down' = down
    BY <1>1 DEF Current, RequestFile
  <2> QED
    BY <2>1 DEF InOrder, PullInOrder, NothingUnderWay
<1>2. CASE ~ \E o \in todo[s] : Current(s, o) /\ RequestFile(s, o)
  <2>1. \/ cpc' = cpc /\ cpc[s] # "awaitFile"
        \/ \E l \in ClientPC \ {"awaitFile"} : CGoto(s, l)
    BY <1>2 DEF Connect, ClientDies, ClientStep, ExecuteOperation, Current, Upload, SendRemote,
         PrepareCopy, DeleteLocal, ReceiveOK, ScanLocal, ReceiveMetadata, ReceiveUnexpected,
         SkipFile, WriteReceivedFile, FinishReceivedFile, CopyItem, SendDone, DrainReply,
         ReceiveDone, ConnectionLost, ClientFails, ClientPC
  <2> QED
    BY <2>1 DEF CGoto, TypeOK, ClientTyped
<1> QED
  BY <1>1, <1>2

LEMMA HandlerAnswers ==
  ASSUME TypeOK, NEW s \in Session, InOrder(s), cpc[s] = "awaitFile",
         ServerCrash \/ HandlerStep(s)
  PROVE  /\ "ERROR" \in Types(down'[s]) => "ERROR" \in Types(down[s]) \/ refused'[s]
         /\ refused[s] => refused'[s]
<1>1. mode[s] = "pull" /\ PullInOrder(s)
  BY FilePending
<1>2. PICK p : FileUnderWay(s, p)
  BY <1>1 DEF PullInOrder
<1>3. spc[s] \in {"loop", "closing", "closed"} /\ (spc[s] # "closed" => up[s] \in {<<>>, <<Request(p)>>})
  BY <1>2 DEF FileUnderWay
<1>4. CASE ServerCrash \/ CloseConnection(s) \/ ReceiveFails(s)
  <2>1. (down'[s] = down[s] \/ down'[s] = <<>>) /\ refused' = refused
    BY <1>3, <1>4 DEF ServerCrash, CloseConnection, ReceiveFails, TypeOK, DownTyped
  <2> QED
    BY <2>1, EmptyTypes
<1>5. CASE SendFile(s)
  <2>1. CASE Refuse(s)
    BY <2>1 DEF Refuse, TypeOK, ServerTyped
  <2>2. CASE ~ Refuse(s)
    <3> DEFINE r == Head(up[s]).path
               m == File(r, served[r])
    <3>1. Reply(s, m, "loop") /\ IsFile(served, r) /\ Offered(s) = "REQUEST" /\ refused' = refused
      BY <1>5, <2>2 DEF SendFile, Succeeds, Takes
    <3>2. up[s] # <<>> /\ Head(up[s]).type = "REQUEST" /\ Head(up[s]) \in UpMessage
      BY <3>1, OfferedHead, OrderTyped DEF Offered
    <3>3. r \in Path
      BY <3>2, UpParts
    <3>4. m \in DownMessage /\ m.type = "FILE"
      BY <3>1, <3>3, DownMessages DEF IsFile, File
    <3> HIDE DEF m, r
    <3>5. Types(down'[s]) \subseteq Types(down[s]) \cup {m.type}
      BY <3>1, <3>4, ReplyEffect
    <3> QED
      BY <3>1, <3>4, <3>5
  <2> QED
    BY <2>1, <2>2
<1>6. CASE ReceiveLast(s)
  <2>1. spc[s] = "loop" /\ Offered(s) \notin {"nothing", "REQUEST"}
    BY <1>6 DEF ReceiveLast
  <2> QED
    BY <1>3, <2>1 DEF Offered, Request
<1>7. ~ (ReceiveFile(s) \/ FinishFile(s) \/ DeleteFile(s) \/ ReceiveCopy(s) \/ FinishCopy(s))
  BY <1>1, OnlyPushesChange
<1> QED
  BY <1>3, <1>4, <1>5, <1>6, <1>7 DEF HandlerStep, ReceiveHello, ScanServed, ExchangeMetadata,
     ReplySent, ReplyAbandoned

LEMMA InitAsk == Init => AskInv
  BY DEF Init, AskInv, AskedInVain

LEMMA NextAsk == TypeOK /\ InStep /\ OrderInv /\ AskInv /\ [Next]_vars => AskInv'
<1> SUFFICES ASSUME TypeOK, InStep, OrderInv, AskInv, [Next]_vars, NEW s \in Session, Alone(s)'
             PROVE  AskedInVain(s)'
  BY DEF AskInv
<1>1. CASE UNCHANGED vars
  BY <1>1 DEF AskInv, AskedInVain, Alone, vars, client, server
<1>2. CASE Next /\ ~ UNCHANGED vars
  <2>1. /\ AskedInVain(s) /\ InOrder(s)
        /\ ServerCrash \/ Connect(s) \/ ClientStep(s) \/ ClientDies(s) \/ HandlerStep(s)
    BY <1>2, StepIsItsOwn DEF AskInv, OrderInv
  <2>2. CASE Connect(s) \/ ClientStep(s) \/ ClientDies(s)
    BY <2>1, <2>2, ClientAsks, EmptyTypes DEF AskedInVain
  <2>3. CASE ServerCrash \/ HandlerStep(s)
    <3>1. cpc' = cpc
      BY <2>3 DEF ServerCrash, HandlerStep, ReceiveHello, ScanServed, ExchangeMetadata, ReceiveFails,
             SendFile, ReceiveFile, FinishFile, DeleteFile, ReceiveCopy, FinishCopy, ReceiveLast,
             ReplySent, ReplyAbandoned, CloseConnection, client
    <3> QED
      BY <2>1, <2>3, <3>1, HandlerAnswers DEF AskedInVain
  <2> QED
    BY <2>1, <2>2, <2>3
<1> QED
  BY <1>1, <1>2

\* A pull that is told it cannot have a file it asked for has been refused it by sendFile:
\* nothing else answers a REQUEST with an ERROR.
LEMMA SpecAskInv == Spec => []AskInv
  BY InitAsk, NextAsk, SpecTypeOK, SpecInStep, SpecOrderInv, PTL DEF Spec

-----------------------------------------------------------------------------
(* The operators of SequentialSync are those of NetPlan                    *)

LEMMA SameCardinality ==
  ASSUME NEW s, NEW S
  PROVE  Sequential(s)!Cardinality(S) = Cardinality(S)
  BY DEF Sequential!Cardinality, Cardinality

LEMMA SameDictionary ==
  ASSUME NEW s, NEW src, NEW dst
  PROVE  Sequential(s)!DestToSource(src, dst) = DestToSource(src, dst)
  BY DEF Sequential!DestToSource, Sequential!Copies, Sequential!NeedsTransfer,
         Sequential!IndexedPath, Sequential!Path, Sequential!Min,
         DestToSource, Copies, NeedsTransfer, IndexedPath, Path, Min

LEMMA SameOrders ==
  ASSUME NEW s, NEW d2s
  PROVE  Sequential(s)!Orders(d2s) = Orders(d2s)
  BY SameCardinality DEF Sequential!Orders, Orders

LEMMA SameCycleOps ==
  ASSUME NEW s, NEW d2s, NEW rank, NEW p
  PROVE  Sequential(s)!CycleOps(d2s, rank, p) = CycleOps(d2s, rank, p)
  BY DEF Sequential!CycleOps, Sequential!CycleStart, Sequential!CycleLength, Sequential!Chain,
         Sequential!OnCycle, Sequential!Reached, Sequential!Distance, Sequential!Min,
         CycleOps, CycleStart, CycleLength, Chain, OnCycle, Reached, Distance, Min

LEMMA SameWalks ==
  ASSUME NEW s, NEW d2s, NEW rank
  PROVE  /\ Sequential(s)!WalksThatFind(d2s, rank) = WalksThatFind(d2s, rank)
         /\ \A q : Sequential(s)!OnCycle(d2s, q) <=> OnCycle(d2s, q)
  BY DEF Sequential!WalksThatFind, Sequential!Chain, Sequential!OnCycle, Sequential!Reached,
         Sequential!LeadsToCycle, WalksThatFind, Chain, OnCycle, Reached, LeadsToCycle

LEMMA SamePlans ==
  ASSUME NEW s, NEW src, NEW dst, NEW rank
  PROVE  Sequential(s)!Plan(src, dst, rank) = Plan(src, dst, rank)
  BY SameDictionary, SameCycleOps, SameWalks
     DEF Sequential!Plan, Sequential!AfterCycles, Sequential!NeedsTransfer, Sequential!Path,
         Plan, AfterCycles, NeedsTransfer, Path

LEMMA SameTrees ==
  ASSUME NEW s
  PROVE  /\ Sequential(s)!Path = Path /\ Sequential(s)!TempPlace = TempPlace
         /\ Sequential(s)!Tree = Tree /\ Sequential(s)!Listing = Listing
         /\ Sequential(s)!Unreadable = Unreadable
         /\ \A t, p : Sequential(s)!CanMakeParents(t, p) <=> CanMakeParents(t, p)
         /\ \A t, p : Sequential(s)!WithParents(t, p) = WithParents(t, p)
         /\ \A t, p : Sequential(s)!TryWithParents(t, p) = TryWithParents(t, p)
         /\ \A t, p : Sequential(s)!Removed(t, p) = Removed(t, p)
         /\ \A t, p : Sequential(s)!Pruned(t, p) = Pruned(t, p)
         /\ \A t, m : Sequential(s)!Listed(t, m) = Listed(t, m)
         /\ \A t, from, data, to :
               Sequential(s)!ItemCopied(t, from, data, to) = ItemCopied(t, from, data, to)
<1>1. Sequential(s)!Path = Path /\ Sequential(s)!FileData = FileData
  BY DEF Sequential!Path, Path, Sequential!FileData, FileData
<1>2. /\ Sequential(s)!TempPlace = TempPlace /\ Sequential(s)!Tree = Tree
      /\ Sequential(s)!Listing = Listing
  BY <1>1 DEF Sequential!TempPlace, TempPlace, Sequential!Tree, Tree, Sequential!Entry, Entry,
              Sequential!Listing, Listing
<1>3. \A p : Sequential(s)!Below(p) = Below(p)
  BY <1>1 DEF Sequential!Below, Below
<1>4. Sequential(s)!Unreadable = Unreadable
  BY DEF Sequential!Unreadable, Unreadable, Sequential!Below, Below, Sequential!Path, Path
<1>5. \A t, p : Sequential(s)!CanMakeParents(t, p) <=> CanMakeParents(t, p)
  BY <1>1 DEF Sequential!CanMakeParents, CanMakeParents, Sequential!IsFile, IsFile
<1>6. \A t, p : /\ Sequential(s)!WithParents(t, p) = WithParents(t, p)
                /\ Sequential(s)!Removed(t, p) = Removed(t, p)
  BY <1>1 DEF Sequential!WithParents, WithParents, Sequential!Removed, Removed
<1>7. \A t, p : Sequential(s)!TryWithParents(t, p) = TryWithParents(t, p)
  BY <1>5, <1>6 DEF Sequential!TryWithParents, TryWithParents
<1>8. \A t, p : Sequential(s)!Pruned(t, p) = Pruned(t, p)
  BY DEF Sequential!Pruned, Pruned, Sequential!Below, Below, Sequential!Path, Path
<1>9. \A t, m : Sequential(s)!Listed(t, m) = Listed(t, m)
  BY DEF Sequential!Listed, Listed, Sequential!ListingOf, ListingOf, Sequential!IsFile, IsFile,
         Sequential!FileData, FileData, Sequential!Path, Path
<1>10. \A t, from, data, to :
          Sequential(s)!ItemCopied(t, from, data, to) = ItemCopied(t, from, data, to)
  BY DEF Sequential!ItemCopied, ItemCopied, Sequential!Unpacked, Unpacked, Sequential!Items, Items,
         Sequential!Below, Below, Sequential!Path, Path
<1> QED
  BY <1>1, <1>2, <1>4, <1>5, <1>6, <1>7, <1>8, <1>9, <1>10

-----------------------------------------------------------------------------
(* The steps of SequentialSync, as a session takes them                    *)

Stays(s) == UNCHANGED <<mode[s], plan[s], Goal(s)>>

\* The session can still succeed: nothing has failed, been refused or been cut off.
Going(s) ==
    /\ cpc[s] # "failed" /\ ~ refused[s]
    /\ mode[s] = "push" /\ spc[s] = "closed" => cpc[s] = "ok" \/ "DONE" \in Types(down[s])
    /\ mode[s] = "pull" => faults = 0

\* The steps in which an operation is carried out as planned.
Starts(s, o) ==
    /\ HalfDone(s) = {} /\ Pos(plan[s], o) = applied[s] /\ applied'[s] = applied[s] + 1

StartsTransfer(s, o) ==
    /\ Starts(s, o) /\ o.act = "transfer" /\ HalfDone(s)' = {o}
    /\ CanMakeParents(Target(s), o.to) /\ Target(s)[o.to] # Dir
    /\ Target(s)' = [WithParents(Target(s), o.to) EXCEPT ![o.to] = Torn]
    /\ temp'[s] = temp[s]

StartsCopy(s, o) ==
    /\ Starts(s, o) /\ o.act = "copy" /\ HalfDone(s)' = {o}
    /\ CanPrepareCopy(Target(s), o.to) /\ Target(s)' = ReadyForCopy(Target(s), o.to)
    /\ temp'[s] = temp[s]

DeletesFile(s, o) ==
    /\ Starts(s, o) /\ o.act = "delete" /\ o.to \in Path /\ HalfDone(s)' = {}
    /\ mode[s] = "push" => Target(s)[o.to] # Absent
    /\ Target(s)' = IF mode[s] = "push" THEN Pruned(Removed(Target(s), o.to), o.to)
                                       ELSE Removed(Target(s), o.to)
    /\ temp'[s] = temp[s]

DeletesTemp(s, o) ==
    /\ Starts(s, o) /\ o.act = "delete" /\ o.to \in TempPlace /\ HalfDone(s)' = {}
    /\ temp'[s] = [temp[s] EXCEPT ![o.to] = Absent] \/ temp'[s] = temp[s]
    /\ Target(s)' = Target(s)

FillsFile(s, o) ==
    /\ HalfDone(s) = {o} /\ HalfDone(s)' = {} /\ applied'[s] = applied[s] /\ o.act = "transfer"
    /\ Target(s)[o.to] = Torn
    /\ Target(s)' = [Target(s) EXCEPT ![o.to] = Goal(s)[o.to]] /\ temp'[s] = temp[s]

CopiesFile(s, o) ==
    /\ HalfDone(s) = {o} /\ HalfDone(s)' = {} /\ applied'[s] = applied[s] /\ o.act = "copy"
    /\ CanCopy(Target(s), s, o.from, o.to)
    /\ LET data == StoredAt(Target(s), s, o.from)
       IN  IF o.to \in Path
           THEN Target(s)' \in ItemCopied(Target(s), o.from, data, o.to) /\ temp'[s] = temp[s]
           ELSE temp'[s] = [temp[s] EXCEPT ![o.to] = data] /\ Target(s)' = Target(s)

Works(s) ==
    \E o \in plan[s] : \/ StartsTransfer(s, o) \/ StartsCopy(s, o) \/ DeletesFile(s, o)
                       \/ DeletesTemp(s, o) \/ FillsFile(s, o) \/ CopiesFile(s, o)

Rests(s) == UNCHANGED <<Target(s), temp[s], plan[s], applied[s], HalfDone(s)>>

\* If an operation does not go as planned the session will not succeed.
Moves(s) == Sequential(s)!Next /\ (~ Opening(s) /\ Going(s)' => Works(s) \/ Rests(s))

LEMMA BeginsStep ==
  ASSUME NEW s, NEW o \in plan[s], HalfDone(s) = {}, Pos(plan[s], o) = applied[s],
         applied'[s] = applied[s] + 1
  PROVE  Sequential(s)!Begin(o)
  BY SameCardinality DEF Sequential!Begin, Sequential!IsNext, Sequential!Nothing, Pos

LEMMA OperatesStep ==
  ASSUME NEW s, NEW o \in plan[s], Stays(s),
         Outcome(s)' = Outcome(s) \/ (mode[s] # "push" /\ Outcome(s)' = "failed"),
         \/ Sequential(s)!BeginTransfer(o) \/ Sequential(s)!BeginCopy(o)
         \/ Sequential(s)!DeleteNow(o) \/ Sequential(s)!Skip(o) \/ Sequential(s)!Finish(o)
         \/ Sequential(s)!BreakOff(o)
  PROVE  Sequential(s)!Next
<1>1. Sequential(s)!Operate
  BY DEF Sequential!Operate, Stays, Pushing
<1>2. UNCHANGED Pushing(s)
  BY DEF Stays, Pushing
<1> QED
  BY <1>1, <1>2 DEF Sequential!Next

LEMMA TransferBegins ==
  ASSUME NEW s, NEW o \in plan[s], Stays(s), Outcome(s)' = Outcome(s),
         StartsTransfer(s, o), Refusal(s)' = Refusal(s)
  PROVE  Moves(s)
<1>1. Sequential(s)!BeginTransfer(o)
  BY BeginsStep, SameTrees DEF Sequential!BeginTransfer, StartsTransfer, Starts
<1> QED
  BY <1>1, OperatesStep DEF Moves, Works

LEMMA CopyBegins ==
  ASSUME NEW s, NEW o \in plan[s], Stays(s), Outcome(s)' = Outcome(s),
         StartsCopy(s, o), Refusal(s)' = Refusal(s)
  PROVE  Moves(s)
<1>1. Sequential(s)!BeginCopy(o)
  BY BeginsStep, SameTrees DEF Sequential!BeginCopy, CanPrepareCopy, ReadyForCopy, StartsCopy, Starts
<1> QED
  BY <1>1, OperatesStep DEF Moves, Works

\* In a pull an item that cannot be deleted is passed over; that takes a fault.
LEMMA Deletes ==
  ASSUME NEW s, NEW o \in plan[s], Stays(s), Outcome(s)' = Outcome(s), Refusal(s)' = Refusal(s),
         \/ DeletesFile(s, o) \/ DeletesTemp(s, o)
         \/ /\ Starts(s, o) /\ o.act = "delete" /\ HalfDone(s)' = {} /\ mode[s] # "push"
            /\ Target(s)' = Target(s) /\ temp'[s] = temp[s] /\ ~ Going(s)'
  PROVE  Moves(s)
<1>1. Sequential(s)!DeleteNow(o)
  BY BeginsStep, SameTrees
     DEF Sequential!DeleteNow, Sequential!Nothing, Pushing, DeletesFile, DeletesTemp, Starts
<1> QED
  BY <1>1, OperatesStep DEF Moves, Works

LEMMA Skips ==
  ASSUME NEW s, NEW o \in plan[s], Stays(s),
         Outcome(s)' = Outcome(s) \/ (mode[s] # "push" /\ Outcome(s)' = "failed"),
         HalfDone(s) = {}, Pos(plan[s], o) = applied[s], applied'[s] = applied[s] + 1,
         HalfDone(s)' = {}, temp'[s] = temp[s], mode[s] = "push" => refused'[s],
         \/ Target(s)' = Target(s)
         \/ o.to \in Path /\ Target(s)' = TryWithParents(Target(s), o.to),
         ~ Going(s)'
  PROVE  Moves(s)
<1>1. Refusal(s)' = Pushing(s)
  BY DEF Refusal, Pushing, Stays
<1>2. Sequential(s)!Skip(o)
  BY <1>1, BeginsStep, SameTrees DEF Sequential!Skip, Sequential!Nothing
<1> QED
  BY <1>2, OperatesStep DEF Moves

LEMMA Finishes ==
  ASSUME NEW s, NEW o \in plan[s], Stays(s), Outcome(s)' = Outcome(s), Refusal(s)' = Refusal(s),
         FillsFile(s, o) \/ CopiesFile(s, o)
  PROVE  Moves(s)
<1>1. Sequential(s)!Finish(o)
  BY SameTrees DEF Sequential!Finish, Sequential!Nothing, StoredAt, FillsFile, CopiesFile, CanCopy
<1> QED
  BY <1>1, OperatesStep DEF Moves, Works

LEMMA BreaksOff ==
  ASSUME NEW s, NEW o \in plan[s], Stays(s), Outcome(s)' = Outcome(s),
         HalfDone(s) = {o}, HalfDone(s)' = {}, Refusal(s)' \in {Refusal(s), Pushing(s)},
         UNCHANGED <<Target(s), temp[s], applied[s]>>, ~ Going(s)'
  PROVE  Moves(s)
<1>1. Sequential(s)!BreakOff(o)
  BY DEF Sequential!BreakOff, Sequential!Nothing
<1> QED
  BY <1>1, OperatesStep DEF Moves

\* What fails or is refused does not go on.
LEMMA NotGoing ==
  ASSUME NEW s
  PROVE  /\ refused'[s] => ~ Going(s)'
         /\ cpc'[s] = "failed" => ~ Going(s)'
         /\ mode'[s] = "pull" /\ faults' # 0 => ~ Going(s)'
         /\ mode'[s] = "push" /\ spc'[s] = "closed" /\ cpc'[s] # "ok"
            /\ "DONE" \notin Types(down'[s]) => ~ Going(s)'
  BY DEF Going

LEMMA Abandons ==
  ASSUME NEW s, Stays(s), Outcome(s) \in {"planning", "running"}, Outcome(s)' = "failed",
         HalfDone(s)' = IF mode[s] = "push" THEN HalfDone(s) ELSE {},
         Refusal(s)' = Refusal(s), UNCHANGED <<Target(s), temp[s], applied[s]>>
  PROVE  Sequential(s)!Next
<1>1. Sequential(s)!Abandon
  BY DEF Sequential!Abandon, Sequential!Nothing, Stays, Pushing
<1>2. UNCHANGED Pushing(s)
  BY DEF Stays, Pushing
<1> QED
  BY <1>1, <1>2 DEF Sequential!Next

LEMMA Concludes ==
  ASSUME NEW s, Stays(s), Outcome(s) = "running", Outcome(s)' = "ok",
         applied[s] = Cardinality(plan[s]), HalfDone(s) = {}, HalfDone(s)' = {}, ~ Refusal(s),
         Refusal(s)' = Refusal(s), UNCHANGED <<Target(s), temp[s], applied[s]>>
  PROVE  Sequential(s)!Next
<1>1. Sequential(s)!Succeed
  BY SameCardinality DEF Sequential!Succeed, Sequential!Nothing, Stays, Pushing
<1>2. UNCHANGED Pushing(s)
  BY DEF Stays, Pushing
<1> QED
  BY <1>1, <1>2 DEF Sequential!Next

LEMMA Plans ==
  ASSUME NEW s, Outcome(s) = "planning", Outcome(s)' = "running",
         NEW src \in Listing, NEW dst, NEW rank \in Orders(DestToSource(src, dst)),
         \E missed \in {{}} \cup Unreadable : dst = Listed(Target(s), missed),
         plan'[s] = Plan(src, dst, rank), Goal(s)' = IF plan'[s] = {} THEN Goal(s) ELSE src,
         UNCHANGED <<mode[s], Target(s), temp[s], applied[s], HalfDone(s), Refusal(s)>>
  PROVE  Sequential(s)!Next
<1>1. PICK missed \in {{}} \cup Unreadable : dst = Listed(Target(s), missed)
  OBVIOUS
<1>2. /\ rank \in Sequential(s)!Orders(Sequential(s)!DestToSource(src, Sequential(s)!Listed(Target(s), missed)))
      /\ plan'[s] = Sequential(s)!Plan(src, Sequential(s)!Listed(Target(s), missed), rank)
      /\ src \in Sequential(s)!Listing /\ missed \in {{}} \cup Sequential(s)!Unreadable
  BY <1>1, SameTrees, SameDictionary, SameOrders, SamePlans
<1>3. Sequential(s)!MakePlan
  BY <1>2 DEF Sequential!MakePlan
<1>4. UNCHANGED Pushing(s)
  BY DEF Pushing
<1> QED
  BY <1>3, <1>4 DEF Sequential!Next

LEMMA Stutters ==
  ASSUME NEW s, Stays(s), Outcome(s)' = Outcome(s),
         UNCHANGED <<Target(s), temp[s], applied[s], HalfDone(s), Refusal(s)>>
  PROVE  UNCHANGED Sequential(s)!vars
<1>1. UNCHANGED Pushing(s)
  BY DEF Stays, Pushing
<1> QED
  BY <1>1 DEF Sequential!vars, Stays

-----------------------------------------------------------------------------
(* What a session is doing, as SequentialSync sees it                      *)

LEMMA PlanTells ==
  ASSUME TypeOK, NEW s \in Session, InOrder(s), NEW o \in plan[s]
  PROVE  /\ o \in Op /\ Pos(plan[s], o) \in Nat
         /\ \A x \in plan[s] :
                /\ Pos(plan[s], x) = Pos(plan[s], o) => x = o
                /\ x.act = "transfer" /\ o.act = "transfer" /\ x.to = o.to => x = o
<1>1. Ordered(plan[s])
  BY PlanIsOrdered DEF InOrder
<1>2. /\ o \in Op /\ Pos(plan[s], o) \in Nat
      /\ \A x \in plan[s] : Pos(plan[s], x) = Pos(plan[s], o) => x = o
  BY <1>1, PosBounds DEF Ordered
<1>3. SourceListing(s) \in Listing /\ TargetListing(s) \in Listing
  BY OrderTyped DEF SourceListing, TargetListing
<1>4. PICK rank \in Orders(DestToSource(SourceListing(s), TargetListing(s))) :
          plan[s] = Plan(SourceListing(s), TargetListing(s), rank)
  BY DEF InOrder, Planned
<1>5. ASSUME NEW x \in plan[s], x.act = "transfer"
      PROVE  x = [ord |-> AfterCycles + x.to, act |-> "transfer", from |-> 0, to |-> x.to]
  <2>1. ASSUME NEW p \in WalksThatFind(DestToSource(SourceListing(s), TargetListing(s)), rank),
               x \in CycleOps(DestToSource(SourceListing(s), TargetListing(s)), rank, p)
        PROVE  FALSE
    BY <1>5, <2>1 DEF CycleOps
  <2> QED
    BY <1>3, <1>4, <1>5, <2>1, PlanCases
<1> QED
  BY <1>2, <1>5

\* An operation that has begun and takes a while.
LEMMA HalfBegun ==
  ASSUME TypeOK, NEW s \in Session, InOrder(s), NEW o \in plan[s],
         UNCHANGED <<mode[s], plan[s]>>, applied'[s] = Pos(plan[s], o) + 1,
         \/ mode[s] = "push" /\ spc'[s] = "writing" /\ o.act = "transfer" /\ sjob'[s].path = o.to
         \/ /\ mode[s] = "push" /\ spc'[s] = "copying" /\ o.act = "copy"
            /\ sjob'[s].from = o.from /\ sjob'[s].to = o.to
         \/ mode[s] # "push" /\ cpc'[s] = "writing" /\ o.act = "transfer" /\ cjob'[s].path = o.to
         \/ mode[s] # "push" /\ cpc'[s] = "copying" /\ cjob'[s] = o
  PROVE  HalfDone(s)' = {o}
<1>1. Pos(plan[s], o) \in Nat /\ applied'[s] - 1 = Pos(plan[s], o)
  BY PlanTells
<1>2. \A x \in plan[s] : Cardinality({y \in plan[s] : y.ord < x.ord}) = Pos(plan[s], x)
  BY DEF Pos
<1>3. {x \in plan[s] : x.act = "transfer" /\ x.to = o.to} = {o} \/ o.act # "transfer"
  BY PlanTells
<1>4. o.act = "copy" => {x \in plan[s] : x.act = "copy" /\ x.from = o.from /\ x.to = o.to
                                         /\ Cardinality({y \in plan[s] : y.ord < x.ord}) = applied'[s] - 1}
                        = {o}
  BY <1>1, <1>2, PlanTells
<1> QED
  BY <1>3, <1>4 DEF HalfDone

\* The same of one that began earlier.
LEMMA HalfIs ==
  ASSUME TypeOK, NEW s \in Session, InOrder(s)
  PROVE  /\ mode[s] = "push" /\ spc[s] = "writing" =>
               \E o \in plan[s] : /\ HalfDone(s) = {o} /\ o.act = "transfer"
                                  /\ sjob[s].type = "FILE" /\ sjob[s].path = o.to
         /\ mode[s] = "push" /\ spc[s] = "copying" =>
               \E o \in plan[s] : /\ HalfDone(s) = {o} /\ o.act = "copy"
                                  /\ sjob[s].from = o.from /\ sjob[s].to = o.to
         /\ mode[s] # "push" /\ cpc[s] = "writing" =>
               \E o \in plan[s] : /\ HalfDone(s) = {o} /\ o.act = "transfer"
                                  /\ cjob[s].type = "FILE" /\ cjob[s].path = o.to
         /\ mode[s] # "push" /\ cpc[s] = "copying" =>
               cjob[s] \in plan[s] /\ HalfDone(s) = {cjob[s]} /\ cjob[s].act = "copy"
<1> DEFINE P == plan[s]
<1>1. \A x \in P : Cardinality({y \in P : y.ord < x.ord}) = Pos(P, x)
  BY DEF Pos
<1>2. /\ spc[s] = "writing" => sjob[s] \in FileMessage
      /\ spc[s] = "copying" => sjob[s].type = "COPY"
      /\ cpc[s] = "writing" => cjob[s] \in FileMessage
      /\ cpc[s] = "copying" => cjob[s] \in Op /\ cjob[s].act = "copy"
  BY DEF TypeOK, JobsTyped
<1>3. mode[s] \in {"push", "pull"} /\ applied[s] \in Nat
  BY OrderTyped
<1>4. CASE mode[s] = "push" /\ spc[s] = "writing"
  <2>1. PICK o \in P : Carries(sjob[s], o)
    BY <1>4 DEF InOrder, HandlerInOrder, IsOperation
  <2>2. sjob[s].type = "FILE" /\ o.act = "transfer" /\ sjob[s].path = o.to
    BY <1>2, <1>4, <2>1 DEF Carries, FileMessage
  <2>3. {x \in P : x.act = "transfer" /\ x.to = sjob[s].path} = {o}
    BY <2>2, PlanTells
  <2> QED
    BY <1>4, <2>2, <2>3 DEF HalfDone
<1>5. CASE mode[s] = "push" /\ spc[s] = "copying"
  <2>1. PICK o \in P : Carries(sjob[s], o) /\ Pos(P, o) = applied[s] - 1
    BY <1>5 DEF InOrder, HandlerInOrder, IsOperation
  <2>2. o.act = "copy" /\ sjob[s].from = o.from /\ sjob[s].to = o.to
    BY <1>2, <1>5, <2>1 DEF Carries
  <2>3. {x \in P : x.act = "copy" /\ x.from = sjob[s].from /\ x.to = sjob[s].to
                   /\ Cardinality({y \in P : y.ord < x.ord}) = applied[s] - 1} = {o}
    BY <1>1, <2>1, <2>2, PlanTells
  <2> QED
    BY <1>5, <2>2, <2>3 DEF HalfDone
<1>6. CASE mode[s] # "push" /\ cpc[s] = "writing"
  <2>1. PICK o \in P : o.act = "transfer" /\ o.to = cjob[s].path
    BY <1>3, <1>6 DEF InOrder, PullInOrder
  <2>2. {x \in P : x.act = "transfer" /\ x.to = cjob[s].path} = {o}
    BY <2>1, PlanTells
  <2> QED
    BY <1>2, <1>6, <2>1, <2>2 DEF HalfDone, FileMessage
<1>7. CASE mode[s] # "push" /\ cpc[s] = "copying"
  BY <1>2, <1>3, <1>7 DEF InOrder, PullInOrder, HalfDone
<1> QED
  BY <1>4, <1>5, <1>6, <1>7

LEMMA NothingHalf ==
  ASSUME NEW s
  PROVE  /\ mode[s] = "push" /\ spc[s] \notin {"writing", "copying"} => HalfDone(s) = {}
         /\ mode[s] # "push" /\ cpc[s] \notin {"writing", "copying"} => HalfDone(s) = {}
         /\ mode'[s] = "push" /\ spc'[s] \notin {"writing", "copying"} => HalfDone(s)' = {}
         /\ mode'[s] # "push" /\ cpc'[s] \notin {"writing", "copying"} => HalfDone(s)' = {}
  BY DEF HalfDone

LEMMA StillHalf ==
  ASSUME NEW s, UNCHANGED <<mode[s], plan[s], applied[s]>>,
         mode[s] = "push" => UNCHANGED <<spc[s], sjob[s]>>,
         mode[s] # "push" => UNCHANGED <<cpc[s], cjob[s]>>
  PROVE  HalfDone(s)' = HalfDone(s)
  BY DEF HalfDone

LEMMA PlanStays ==
  ASSUME NEW s, UNCHANGED <<mode[s], plan[s]>>,
         plan[s] = {} \/ UNCHANGED <<csnap[s], rsnap[s]>>
  PROVE  Stays(s)
  BY DEF Stays, Goal, SourceListing

LEMMA OutcomeStays ==
  ASSUME NEW s
  PROVE  /\ cpc'[s] = cpc[s] => Outcome(s)' = Outcome(s)
         /\ ~ Opening(s) /\ ~ Ended(s) => Outcome(s) = "running"
         /\ (~ Opening(s) /\ ~ Ended(s))' => Outcome(s)' = "running"
         /\ Opening(s) => Outcome(s) = "planning"
         /\ Opening(s)' => Outcome(s)' = "planning"
         /\ cpc'[s] = "failed" => Outcome(s)' = "failed"
         /\ cpc'[s] = "ok" => Outcome(s)' = "ok"
  BY DEF Outcome, Opening, Ended

LEMMA TakesOperation ==
  ASSUME TypeOK, NEW s \in Session, InOrder(s), spc[s] = "loop", Offered(s) \in Operating
  PROVE  /\ mode[s] = "push" /\ Head(up[s]).type = Offered(s)
         /\ \E o \in plan[s] : Carries(Head(up[s]), o) /\ Pos(plan[s], o) = applied[s]
<1>1. up[s] # <<>> /\ Head(up[s]).type = Offered(s)
  BY DEF Offered, Operating
<1>2. 1 \in 1..Len(up[s]) /\ Head(up[s]) = up[s][1]
  BY <1>1, OrderTyped, EmptySeq, HeadTailProperties
<1>3. mode[s] = "push" /\ IsOperation(s, applied[s] + 1 - 1, Head(up[s]))
  BY <1>1, <1>2 DEF InOrder, ChannelInOrder, UpInOrder
<1>4. applied[s] + 1 - 1 = applied[s]
  BY OrderTyped
<1> QED
  BY <1>1, <1>3, <1>4 DEF IsOperation

\* A tree a file can be written in once its parents have been tried.
LEMMA WritableWithParents ==
  ASSUME NEW t \in Tree, NEW p \in Path, Writable(TryWithParents(t, p), p)
  PROVE  CanMakeParents(t, p) /\ TryWithParents(t, p) = WithParents(t, p) /\ t[p] # Dir
<1>1. p \notin Above[p] /\ Dir \notin FileData /\ Above[p] \subseteq Path
  BY AboveAssumption, EntryAssumption, WhereThingsLie
<1>2. CASE CanMakeParents(t, p)
  BY <1>1, <1>2 DEF Writable, TryWithParents, WithParents
<1>3. CASE ~ CanMakeParents(t, p)
  BY <1>1, <1>3 DEF Writable, TryWithParents, CanMakeParents, ParentsExist, IsFile
<1> QED
  BY <1>2, <1>3

-----------------------------------------------------------------------------
(* The steps of the handler                                                *)

\* The handler takes the next operation of a push.
LEMMA HandlerTakes ==
  ASSUME TypeOK, NEW s \in Session, InOrder(s),
         ReceiveFile(s) \/ DeleteFile(s) \/ ReceiveCopy(s)
  PROVE  /\ mode[s] = "push" /\ Stays(s) /\ Outcome(s)' = Outcome(s)
         /\ HalfDone(s) = {} /\ applied'[s] = applied[s] + 1
         /\ mode'[s] = mode[s] /\ plan'[s] = plan[s] /\ spc[s] = "loop"
         /\ Head(up[s]) \in UpMessage
         /\ \E o \in plan[s] : /\ o \in Op /\ Carries(Head(up[s]), o) /\ Pos(plan[s], o) = applied[s]
                               /\ ReceiveFile(s) => Head(up[s]).type = "FILE"
                               /\ DeleteFile(s) => Head(up[s]).type = "DELETE"
                               /\ ReceiveCopy(s) => Head(up[s]).type = "COPY"
<1>1. /\ spc[s] = "loop" /\ Offered(s) \in Operating /\ UNCHANGED <<client, plan>> /\ Begun(s)
      /\ ReceiveFile(s) => Offered(s) = "FILE"
      /\ DeleteFile(s) => Offered(s) = "DELETE"
      /\ ReceiveCopy(s) => Offered(s) = "COPY"
  BY DEF ReceiveFile, DeleteFile, ReceiveCopy, Takes, Operating, Begun
<1>2. /\ mode' = mode /\ csnap' = csnap /\ rsnap' = rsnap /\ cpc' = cpc /\ plan' = plan
      /\ applied'[s] = applied[s] + 1
  BY <1>1 DEF client, Begun, TypeOK, TreesTyped
<1>3. Stays(s) /\ Outcome(s)' = Outcome(s)
  BY <1>2, PlanStays, OutcomeStays
<1>4. up[s] # <<>> /\ up[s] \in Seq(UpMessage)
  BY <1>1, OrderTyped DEF Offered, Operating
<1> QED
  BY <1>1, <1>2, <1>3, <1>4, TakesOperation, NothingHalf, PlanTells, OfferedHead

LEMMA RefusedStays ==
  ASSUME TypeOK, NEW s \in Session, UNCHANGED mode
  PROVE  /\ UNCHANGED refused => Refusal(s)' = Refusal(s)
         /\ Refuse(s) => refused'[s] /\ Refusal(s)' = Pushing(s) /\ spc'[s] \in {"loop", "sending"}
<1>1. Refuse(s) => refused'[s]
  BY DEF Refuse, TypeOK, ServerTyped
<1>2. Refuse(s) => spc'[s] \in {"loop", "sending"}
  <2> DEFINE m == Simple("ERROR")
  <2>1. m \in DownMessage
    BY DownMessages DEF Simple
  <2>2. Refuse(s) => Reply(s, m, "loop")
    BY DEF Refuse
  <2> HIDE DEF m
  <2> QED
    BY <2>1, <2>2, ReplyEffect
<1> QED
  BY <1>1, <1>2 DEF Refusal, Pushing

LEMMA ReceiveFileStep ==
  ASSUME TypeOK, NEW s \in Session, InOrder(s), ReceiveFile(s)
  PROVE  Moves(s)
<1> DEFINE m == Head(up[s])
           t == TryWithParents(served, m.path)
<1>1. PICK o \in plan[s] : /\ o \in Op /\ Carries(m, o) /\ Pos(plan[s], o) = applied[s]
                           /\ m.type = "FILE"
  BY HandlerTakes
<1>2. o.act = "transfer" /\ m.path = o.to /\ o.to \in Path
  BY <1>1, OpParts DEF Carries
<1>3. Target(s) = served /\ Target(s)' = served' /\ temp'[s] = temp[s] /\ mode' = mode
  BY HandlerTakes DEF Target, ReceiveFile, client
<1>4. CASE /\ Succeeds(Writable(t, m.path))
           /\ served' = [t EXCEPT ![m.path] = Torn]
           /\ sjob' = [sjob EXCEPT ![s] = m]
           /\ SGoto(s, "writing")
           /\ UNCHANGED <<down, out, refused>>
  <2>1. served \in Tree /\ spc'[s] = "writing" /\ sjob'[s] = m
    BY <1>4 DEF SGoto, TypeOK, TreesTyped, ServerTyped
  <2>2. /\ CanMakeParents(served, o.to) /\ served[o.to] # Dir
        /\ t = WithParents(served, o.to)
    BY <1>2, <1>4, <2>1, WritableWithParents DEF Succeeds
  <2>3. HalfDone(s)' = {o}
    BY <1>1, <1>2, <2>1, HandlerTakes, HalfBegun
  <2>4. Refusal(s)' = Refusal(s)
    BY <1>3, <1>4, RefusedStays
  <2>5. Target(s)' = [WithParents(Target(s), o.to) EXCEPT ![o.to] = Torn]
    BY <1>2, <1>3, <1>4, <2>2
  <2>6. StartsTransfer(s, o)
    BY <1>1, <1>2, <1>3, <2>2, <2>3, <2>5, HandlerTakes DEF StartsTransfer, Starts
  <2> QED
    BY <2>4, <2>6, HandlerTakes, TransferBegins
<1>5. CASE Refuse(s) /\ served' = t
  <2>1. refused'[s] /\ HalfDone(s)' = {}
    BY <1>3, <1>5, HandlerTakes, RefusedStays, NothingHalf
  <2> QED
    BY <1>1, <1>2, <1>3, <1>5, <2>1, HandlerTakes, NotGoing, Skips
<1> QED
  BY <1>4, <1>5 DEF ReceiveFile

LEMMA ReceiveCopyStep ==
  ASSUME TypeOK, NEW s \in Session, InOrder(s), ReceiveCopy(s)
  PROVE  Moves(s)
<1> DEFINE m == Head(up[s])
<1>1. PICK o \in plan[s] : /\ o \in Op /\ Carries(m, o) /\ Pos(plan[s], o) = applied[s]
                           /\ m.type = "COPY"
  BY HandlerTakes
<1>2. o.act = "copy" /\ m.from = o.from /\ m.to = o.to
  BY <1>1 DEF Carries
<1>3. Target(s) = served /\ Target(s)' = served' /\ temp'[s] = temp[s] /\ mode' = mode
  BY HandlerTakes DEF Target, ReceiveCopy, client
<1>4. CASE /\ Succeeds(CanPrepareCopy(served, m.to))
           /\ served' = ReadyForCopy(served, m.to)
           /\ sjob' = [sjob EXCEPT ![s] = m]
           /\ SGoto(s, "copying")
           /\ UNCHANGED <<down, out, refused>>
  <2>1. spc'[s] = "copying" /\ sjob'[s] = m
    BY <1>4 DEF SGoto, TypeOK, ServerTyped
  <2>2. HalfDone(s)' = {o}
    BY <1>1, <1>2, <2>1, HandlerTakes, HalfBegun
  <2>3. Refusal(s)' = Refusal(s)
    BY <1>3, <1>4, RefusedStays
  <2>4. StartsCopy(s, o)
    BY <1>1, <1>2, <1>3, <1>4, <2>2, HandlerTakes DEF StartsCopy, Starts, Succeeds
  <2> QED
    BY <2>3, <2>4, HandlerTakes, CopyBegins
<1>5. CASE Refuse(s) /\ UNCHANGED served
  <2>1. refused'[s] /\ HalfDone(s)' = {}
    BY <1>3, <1>5, HandlerTakes, RefusedStays, NothingHalf
  <2> QED
    BY <1>1, <1>3, <1>5, <2>1, HandlerTakes, NotGoing, Skips
<1> QED
  BY <1>4, <1>5 DEF ReceiveCopy

LEMMA DeleteFileStep ==
  ASSUME TypeOK, NEW s \in Session, InOrder(s), DeleteFile(s)
  PROVE  Moves(s)
<1> DEFINE q == Head(up[s]).path
<1>1. PICK o \in plan[s] : /\ o \in Op /\ Carries(Head(up[s]), o) /\ Pos(plan[s], o) = applied[s]
                           /\ Head(up[s]).type = "DELETE"
  BY HandlerTakes
<1>2. o.act = "delete" /\ q = o.to /\ o.to \in Place
  BY <1>1, OpParts DEF Carries
<1>3. Target(s) = served /\ Target(s)' = served' /\ mode' = mode
  BY HandlerTakes DEF Target, DeleteFile, client
<1>4. CASE /\ UNCHANGED <<spc, refused>>
           /\ \/ /\ q \in TempPlace /\ served' = served
                 /\ temp' = [temp EXCEPT ![s][q] = Absent] \/ UNCHANGED temp
              \/ /\ q \notin TempPlace /\ Succeeds(served[q] # Absent)
                 /\ served' = Pruned(Removed(served, q), q) /\ UNCHANGED temp
  <2>1. HalfDone(s)' = {} /\ Refusal(s)' = Refusal(s)
    BY <1>3, <1>4, HandlerTakes, RefusedStays, NothingHalf
  <2>2. CASE q \in TempPlace /\ served' = served /\ (temp' = [temp EXCEPT ![s][q] = Absent] \/ UNCHANGED temp)
    <3>1. temp'[s] = [temp[s] EXCEPT ![q] = Absent] \/ temp'[s] = temp[s]
      BY <2>2 DEF TypeOK, TreesTyped
    <3>2. DeletesTemp(s, o)
      BY <1>1, <1>2, <1>3, <2>1, <2>2, <3>1, HandlerTakes DEF DeletesTemp, Starts
    <3> QED
      BY <2>1, <3>2, HandlerTakes, Deletes
  <2>3. CASE /\ q \notin TempPlace /\ Succeeds(served[q] # Absent)
             /\ served' = Pruned(Removed(served, q), q) /\ UNCHANGED temp
    <3>1. o.to \in Path /\ served[o.to] # Absent /\ temp'[s] = temp[s]
      BY <1>2, <2>3, PlaceCases DEF Succeeds
    <3>2. mode[s] = "push" /\ Target(s)' = Pruned(Removed(Target(s), o.to), o.to)
      BY <1>2, <1>3, <2>3, HandlerTakes
    <3>3. DeletesFile(s, o)
      BY <1>1, <1>2, <1>3, <2>1, <3>1, <3>2, HandlerTakes DEF DeletesFile, Starts
    <3> QED
      BY <2>1, <3>3, HandlerTakes, Deletes
  <2> QED
    BY <1>4, <2>2, <2>3
<1>5. CASE Refuse(s) /\ q \notin TempPlace /\ UNCHANGED <<served, temp>>
  <2>1. refused'[s] /\ HalfDone(s)' = {}
    BY <1>3, <1>5, HandlerTakes, RefusedStays, NothingHalf
  <2> QED
    BY <1>1, <1>3, <1>5, <2>1, HandlerTakes, NotGoing, Skips
<1> QED
  BY <1>4, <1>5 DEF DeleteFile

\* The handler is through with an operation of a push.
LEMMA FinishFileStep ==
  ASSUME TypeOK, NEW s \in Session, InOrder(s), Carrying(s), FinishFile(s)
  PROVE  Moves(s)
<1> DEFINE p == sjob[s].path
<1>1. mode[s] = "push" /\ spc[s] = "writing"
  BY OnlyPushesChange DEF FinishFile
<1>2. PICK o \in plan[s] : /\ HalfDone(s) = {o} /\ o.act = "transfer"
                           /\ sjob[s].type = "FILE" /\ p = o.to
  BY <1>1, HalfIs
<1>3. /\ mode' = mode /\ csnap' = csnap /\ rsnap' = rsnap /\ cpc' = cpc /\ plan' = plan
      /\ applied' = applied /\ temp' = temp
  BY DEF FinishFile, client
<1>4. /\ Stays(s) /\ Outcome(s)' = Outcome(s) /\ Target(s) = served /\ Target(s)' = served'
      /\ mode'[s] = "push"
  BY <1>1, <1>3, PlanStays, OutcomeStays DEF Target
<1>5. CASE served' \in Filled(served, p, sjob[s].data) /\ SGoto(s, "loop") /\ UNCHANGED refused
  <2>1. served[p] = Torn /\ sjob[s].data = SourceListing(s)[p] /\ Goal(s) = SourceListing(s)
    BY <1>1, <1>2 DEF Carrying, Faithful, Goal
  <2>2. Target(s)' = [Target(s) EXCEPT ![o.to] = Goal(s)[o.to]]
    BY <1>2, <1>4, <1>5, <2>1 DEF Filled
  <2>3. HalfDone(s)' = {} /\ Refusal(s)' = Refusal(s)
    BY <1>3, <1>4, <1>5, NothingHalf, RefusedStays DEF SGoto, TypeOK, ServerTyped
  <2>4. FillsFile(s, o)
    BY <1>2, <1>3, <1>4, <2>1, <2>2, <2>3 DEF FillsFile
  <2> QED
    BY <1>4, <2>3, <2>4, Finishes
<1>6. CASE Refuse(s) /\ UNCHANGED served
  <2>1. HalfDone(s)' = {} /\ Refusal(s)' = Pushing(s) /\ ~ Going(s)'
    BY <1>3, <1>4, <1>6, NothingHalf, RefusedStays, NotGoing
  <2> QED
    BY <1>2, <1>3, <1>4, <1>6, <2>1, BreaksOff
<1> QED
  BY <1>5, <1>6 DEF FinishFile

LEMMA FinishCopyStep ==
  ASSUME TypeOK, NEW s \in Session, InOrder(s), FinishCopy(s)
  PROVE  Moves(s)
<1> DEFINE from == sjob[s].from
           to == sjob[s].to
<1>1. mode[s] = "push" /\ spc[s] = "copying"
  BY OnlyPushesChange DEF FinishCopy
<1>2. PICK o \in plan[s] : HalfDone(s) = {o} /\ o.act = "copy" /\ from = o.from /\ to = o.to
  BY <1>1, HalfIs
<1>3. /\ mode' = mode /\ csnap' = csnap /\ rsnap' = rsnap /\ cpc' = cpc /\ plan' = plan
      /\ applied' = applied
  BY DEF FinishCopy, client
<1>4. /\ Stays(s) /\ Outcome(s)' = Outcome(s) /\ Target(s) = served /\ Target(s)' = served'
      /\ mode'[s] = "push"
  BY <1>1, <1>3, PlanStays, OutcomeStays DEF Target
<1>5. CASE /\ Succeeds(CanCopy(served, s, from, to))
           /\ IF to \in Path
              THEN /\ served' \in ItemCopied(served, from, StoredAt(served, s, from), to)
                   /\ UNCHANGED temp
              ELSE temp' = [temp EXCEPT ![s][to] = StoredAt(served, s, from)] /\ UNCHANGED served
           /\ SGoto(s, "loop")
           /\ UNCHANGED <<down, out, refused>>
  <2>1. CanCopy(served, s, from, to)
    BY <1>5 DEF Succeeds
  <2>2. HalfDone(s)' = {} /\ Refusal(s)' = Refusal(s)
    BY <1>3, <1>4, <1>5, NothingHalf, RefusedStays DEF SGoto, TypeOK, ServerTyped
  <2>3. IF to \in Path
        THEN /\ Target(s)' \in ItemCopied(Target(s), from, StoredAt(Target(s), s, from), to)
             /\ temp'[s] = temp[s]
        ELSE /\ temp'[s] = [temp[s] EXCEPT ![to] = StoredAt(Target(s), s, from)]
             /\ Target(s)' = Target(s)
    BY <1>4, <1>5 DEF TypeOK, TreesTyped
  <2>4. applied'[s] = applied[s] /\ o.act # "transfer"
    BY <1>2, <1>3
  <2>5. CopiesFile(s, o)
    BY <1>2, <1>4, <2>1, <2>2, <2>3, <2>4 DEF CopiesFile
  <2> QED
    BY <1>4, <2>2, <2>5, Finishes
<1>6. CASE Refuse(s) /\ UNCHANGED <<served, temp>>
  <2>1. HalfDone(s)' = {} /\ Refusal(s)' = Pushing(s) /\ ~ Going(s)'
    BY <1>3, <1>4, <1>6, NothingHalf, RefusedStays, NotGoing
  <2> QED
    BY <1>2, <1>3, <1>4, <1>6, <2>1, BreaksOff
<1> QED
  BY <1>5, <1>6 DEF FinishCopy

\* Whatever else the handler does is nothing to the trees.
LEMMA OtherHandlerSteps ==
  ASSUME TypeOK, NEW s \in Session, InOrder(s), HandlerStep(s),
         mode[s] = "push" => \A m \in Messages(up[s]) : m.type # "REQUEST",
         ~ (ReceiveFile(s) \/ FinishFile(s) \/ DeleteFile(s) \/ ReceiveCopy(s) \/ FinishCopy(s))
  PROVE  UNCHANGED Sequential(s)!vars
<1>1. CASE SendFile(s)
  <2>1. mode[s] # "push"
    <3>1. Offered(s) = "REQUEST" /\ Taken(s)
      BY <1>1 DEF SendFile, Takes
    <3> QED
      BY <3>1, TakenMessages
  <2>2. UNCHANGED trees /\ UNCHANGED client
    BY <1>1 DEF SendFile
  <2> QED
    BY <2>1, <2>2, StillHalf, PlanStays, OutcomeStays, Stutters
       DEF trees, client, Target, Refusal
<1>2. CASE ~ SendFile(s)
  <2>1. UNCHANGED trees /\ UNCHANGED client /\ refused' = refused
    BY <1>2 DEF HandlerStep, ReceiveHello, ScanServed, ExchangeMetadata, ReceiveFails, ReceiveLast,
                ReplySent, ReplyAbandoned, CloseConnection
  <2>2. spc[s] \notin {"writing", "copying"}
    BY <1>2 DEF HandlerStep, ReceiveHello, ScanServed, ExchangeMetadata, ReceiveFails, ReceiveLast,
                ReplySent, ReplyAbandoned, CloseConnection
  <2>3. ASSUME NEW m, NEW next \in {"scan", "loop", "closing"}, Reply(s, m, next)
        PROVE  spc'[s] \notin {"writing", "copying"}
    BY <2>3 DEF Reply, SGoto, TypeOK, ServerTyped
  <2>4. out[s].next \in {"scan", "loop", "closing"}
    BY DEF TypeOK, ServerTyped
  <2>5. spc'[s] \notin {"writing", "copying"}
    <3>1. CASE ReceiveHello(s) \/ ExchangeMetadata(s) \/ ReceiveLast(s) \/ ReplySent(s)
      BY <2>3, <2>4, <3>1 DEF ReceiveHello, ExchangeMetadata, ReceiveLast, ReplySent
    <3>2. CASE ScanServed(s) \/ ReceiveFails(s) \/ ReplyAbandoned(s) \/ CloseConnection(s)
      BY <2>3, <2>4, <3>2 DEF ScanServed, ReceiveFails, ReplyAbandoned, CloseConnection, SGoto,
                              TypeOK, ServerTyped
    <3> QED
      BY <1>2, <3>1, <3>2 DEF HandlerStep
  <2>6. mode' = mode /\ cpc' = cpc /\ cjob' = cjob /\ csnap' = csnap /\ rsnap' = rsnap
    BY <2>1 DEF client
  <2>7. HalfDone(s)' = HalfDone(s)
    <3>1. CASE mode[s] = "push"
      BY <2>2, <2>5, <2>6, <3>1, NothingHalf
    <3>2. CASE mode[s] # "push"
      BY <2>1, <2>6, <3>2, StillHalf DEF trees
    <3> QED
      BY <3>1, <3>2
  <2> QED
    BY <2>1, <2>6, <2>7, PlanStays, OutcomeStays, Stutters DEF trees, Target, Refusal
<1> QED
  BY <1>1, <1>2

LEMMA HandlerImplements ==
  ASSUME TypeOK, InStep, NEW s \in Session, InOrder(s), GoalKept(s), HandlerStep(s)
  PROVE  Moves(s) \/ UNCHANGED Sequential(s)!vars
<1>1. CASE ReceiveFile(s) \/ DeleteFile(s) \/ ReceiveCopy(s) \/ FinishCopy(s)
  BY <1>1, ReceiveFileStep, DeleteFileStep, ReceiveCopyStep, FinishCopyStep
<1>2. CASE FinishFile(s)
  <2>1. mode[s] = "push" /\ spc[s] = "writing"
    BY <1>2, OnlyPushesChange DEF FinishFile
  <2>2. plan[s] # {}
    BY <2>1, HalfIs
  <2>3. ~ Opening(s)
    BY <2>2 DEF InOrder, Planned
  <2> QED
    BY <1>2, <2>2, <2>3, FinishFileStep DEF GoalKept
<1> QED
  BY <1>1, <1>2, OtherHandlerSteps DEF GoalKept

LEMMA CrashImplements ==
  ASSUME TypeOK, InStep, NEW s \in Session, InOrder(s), ServerCrash
  PROVE  Moves(s) \/ UNCHANGED Sequential(s)!vars
<1>1. /\ UNCHANGED <<trees, client, sjob, refused>>
      /\ spc'[s] = IF Serving(s) THEN "closed" ELSE spc[s]
  BY DEF ServerCrash
<1>2. /\ mode' = mode /\ cpc' = cpc /\ cjob' = cjob /\ csnap' = csnap /\ rsnap' = rsnap
      /\ plan' = plan /\ applied' = applied /\ local' = local /\ served' = served /\ temp' = temp
  BY <1>1 DEF trees, client
<1>3. /\ Stays(s) /\ Outcome(s)' = Outcome(s) /\ Target(s)' = Target(s)
      /\ Refusal(s)' = Refusal(s)
  BY <1>1, <1>2, PlanStays, OutcomeStays DEF Target, Refusal
<1>4. CASE mode[s] = "push" /\ spc[s] \in {"writing", "copying"}
  <2>1. spc'[s] = "closed"
    BY <1>1, <1>4 DEF Serving
  <2>2. HalfDone(s)' = {}
    BY <1>2, <1>4, <2>1, NothingHalf
  <2>3. \E o \in plan[s] : HalfDone(s) = {o}
    BY <1>4, HalfIs
  <2>4. ~ Going(s)'
    <3>1. CASE cpc[s] = "failed"
      BY <1>2, <3>1, NotGoing
    <3>2. CASE cpc[s] # "failed"
      <4>1. "DONE" \notin Types(down[s]) /\ cpc[s] # "ok"
        BY <1>4, <3>2 DEF InStep, SessionInStep, LastWord
      <4>2. down'[s] = <<>> \/ down'[s] = down[s]
        BY DEF ServerCrash
      <4>3. "DONE" \notin Types(down'[s])
        BY <4>1, <4>2, EmptyTypes
      <4> QED
        BY <1>2, <1>4, <2>1, <4>1, <4>3, NotGoing
    <3> QED
      BY <3>1, <3>2
  <2> QED
    BY <1>2, <1>3, <2>2, <2>3, <2>4, BreaksOff
<1>5. CASE ~ (mode[s] = "push" /\ spc[s] \in {"writing", "copying"})
  <2>1. HalfDone(s)' = HalfDone(s)
    <3>1. CASE mode[s] = "push"
      BY <1>1, <1>2, <1>5, <3>1, NothingHalf
    <3>2. CASE mode[s] # "push"
      BY <1>2, <3>2, StillHalf
    <3> QED
      BY <3>1, <3>2
  <2> QED
    BY <1>2, <1>3, <2>1, Stutters
<1> QED
  BY <1>4, <1>5

-----------------------------------------------------------------------------
(* The steps of the client                                                 *)

LEMMA FailsImplements ==
  ASSUME TypeOK, NEW s \in Session, ~ Ended(s), ClientFails(s), UNCHANGED trees
  PROVE  Moves(s)
<1>1. /\ mode' = mode /\ csnap' = csnap /\ rsnap' = rsnap /\ cjob' = cjob /\ spc' = spc
      /\ sjob' = sjob /\ refused' = refused /\ cpc'[s] = "failed"
      /\ plan' = plan /\ applied' = applied /\ local' = local /\ served' = served /\ temp' = temp
  BY DEF ClientFails, CGoto, server, trees, TypeOK, ClientTyped
<1>2. /\ Stays(s) /\ Outcome(s)' = "failed" /\ Target(s)' = Target(s)
      /\ Refusal(s)' = Refusal(s) /\ Outcome(s) \in {"planning", "running"}
  BY <1>1, PlanStays, OutcomeStays DEF Target, Refusal
<1>3. HalfDone(s)' = IF mode[s] = "push" THEN HalfDone(s) ELSE {}
  BY <1>1, StillHalf, NothingHalf
<1>4. Sequential(s)!Next
  BY <1>1, <1>2, <1>3, Abandons
<1> QED
  BY <1>1, <1>4, NotGoing DEF Moves

\* Before there is a plan, and when something is merely said.
LEMMA TalkImplements ==
  ASSUME TypeOK, NEW s \in Session, UNCHANGED trees, UNCHANGED <<mode[s], refused[s]>>,
         plan[s] = {} \/ UNCHANGED <<csnap[s], rsnap[s]>>, Outcome(s)' = Outcome(s),
         mode[s] = "push" => \/ UNCHANGED <<spc[s], sjob[s]>>
                             \/ {spc[s], spc'[s]} \cap {"writing", "copying"} = {},
         mode[s] # "push" => {cpc[s], cpc'[s]} \cap {"writing", "copying"} = {}
  PROVE  UNCHANGED Sequential(s)!vars
<1>1. /\ plan' = plan /\ applied' = applied /\ local' = local /\ served' = served
      /\ temp' = temp
  BY DEF trees
<1>2. HalfDone(s)' = HalfDone(s)
  BY <1>1, StillHalf, NothingHalf
<1> QED
  BY <1>1, <1>2, PlanStays, Stutters DEF Target, Refusal

LEMMA HandshakeImplements ==
  ASSUME TypeOK, InStep, NEW s \in Session, InOrder(s), Connect(s) \/ ReceiveOK(s) \/ ScanLocal(s)
  PROVE  Moves(s) \/ UNCHANGED Sequential(s)!vars
<1>1. Opening(s) /\ ~ Ended(s)
  BY DEF Connect, ReceiveOK, ScanLocal, Opening, Ended
<1>2. CASE ClientFails(s)
  BY <1>1, <1>2, FailsImplements DEF Connect, ReceiveOK, ScanLocal
<1>3. CASE ~ ClientFails(s)
  <2>1. plan[s] = {} /\ spc[s] \notin {"writing", "copying"}
    BY <1>1, OpeningEmpty
  <2>2. /\ UNCHANGED trees /\ UNCHANGED <<mode, refused>>
        /\ spc'[s] = spc[s] \/ spc'[s] = "hello"
        /\ cpc'[s] \in {"awaitOK", "scan", "awaitMetadata"}
    BY <1>3 DEF Connect, ReceiveOK, ScanLocal, CGoto, server, TypeOK, ClientTyped, ServerTyped
  <2>3. Outcome(s)' = Outcome(s)
    BY <1>1, <2>2, OutcomeStays DEF Opening
  <2>4. {spc[s], spc'[s], cpc[s], cpc'[s]} \cap {"writing", "copying"} = {}
    BY <1>1, <2>1, <2>2 DEF Opening
  <2> QED
    BY <2>1, <2>2, <2>3, <2>4, TalkImplements
<1> QED
  BY <1>2, <1>3

LEMMA SendsImplement ==
  ASSUME TypeOK, NEW s \in Session,
         \/ SendDone(s) \/ DrainReply(s)
         \/ \E o \in todo[s] : /\ Current(s, o)
                               /\ Upload(s, o) \/ SendRemote(s, o) \/ RequestFile(s, o)
  PROVE  Moves(s) \/ UNCHANGED Sequential(s)!vars
<1>1. cpc[s] \in {"operations", "awaitDone"} /\ UNCHANGED trees
  BY DEF SendDone, DrainReply, Current, Upload, SendRemote, RequestFile
<1>2. ~ Ended(s) /\ ~ Opening(s)
  BY <1>1 DEF Ended, Opening
<1>3. CASE ClientFails(s)
  BY <1>1, <1>2, <1>3, FailsImplements
<1>4. CASE ~ ClientFails(s)
  <2>1. /\ UNCHANGED <<mode, csnap, rsnap, server>>
        /\ cpc'[s] \in {"operations", "awaitFile", "awaitDone"}
    BY <1>1, <1>4 DEF SendDone, DrainReply, Upload, SendRemote, RequestFile, CGoto, TypeOK,
                      ClientTyped
  <2>2. Outcome(s)' = Outcome(s)
    BY <1>2, <2>1, OutcomeStays DEF Opening, Ended
  <2>3. {cpc[s], cpc'[s]} \cap {"writing", "copying"} = {}
    BY <1>1, <2>1
  <2>4. UNCHANGED <<spc, sjob, refused>>
    BY <2>1 DEF server
  <2> QED
    BY <1>1, <2>1, <2>2, <2>3, <2>4, TalkImplements
<1> QED
  BY <1>3, <1>4

LEMMA ReceiveDoneImplements ==
  ASSUME TypeOK, InStep, InStep', NEW s \in Session, InOrder(s), ReceiveDone(s)
  PROVE  Moves(s)
<1>1. cpc[s] = "awaitDone" /\ UNCHANGED trees /\ Arrived(s) = "DONE" /\ ~ Ended(s) /\ ~ Opening(s)
  BY DEF ReceiveDone, Ended, Opening
<1>2. CASE ClientFails(s)
  BY <1>1, <1>2, FailsImplements
<1>3. CASE ~ ClientFails(s)
  <2>1. /\ mode' = mode /\ csnap' = csnap /\ rsnap' = rsnap /\ cjob' = cjob /\ spc' = spc
        /\ sjob' = sjob /\ refused' = refused /\ cpc'[s] = "ok"
        /\ plan' = plan /\ applied' = applied /\ local' = local /\ served' = served
        /\ temp' = temp
    BY <1>1, <1>3 DEF ReceiveDone, CGoto, server, trees, TypeOK, ClientTyped
  <2>2. mode[s] = "push" => ~ refused[s]
    BY <2>1 DEF InStep, SessionInStep
  <2>3. "DONE" \in Types(down[s])
    <3>1. down[s] # <<>> /\ Head(down[s]).type = "DONE"
      BY <1>1, ArrivedHead, OrderTyped DEF Arrived
    <3>2. 1 \in 1..Len(down[s]) /\ Head(down[s]) = down[s][1]
      BY <3>1, OrderTyped, EmptySeq, HeadTailProperties
    <3> QED
      BY <3>1, <3>2 DEF Types
  <2>4. spc[s] \in {"closing", "closed"}
    BY <1>1, <2>3 DEF InStep, SessionInStep, LastWord
  <2>5. mode[s] \in {"push", "pull"}
    BY OrderTyped
  <2>6. applied[s] = Cardinality(plan[s])
    BY <1>1, <2>3, <2>5 DEF InOrder, PushInOrder, PullInOrder
  <2>7. HalfDone(s) = {} /\ HalfDone(s)' = {}
    BY <1>1, <2>1, <2>4, NothingHalf
  <2>8. /\ Stays(s) /\ Outcome(s) = "running" /\ Outcome(s)' = "ok" /\ Target(s)' = Target(s)
        /\ Refusal(s)' = Refusal(s) /\ ~ Refusal(s)
    BY <1>1, <2>1, <2>2, PlanStays, OutcomeStays DEF Target, Refusal
  <2>9. Sequential(s)!Next
    BY <2>1, <2>6, <2>7, <2>8, Concludes
  <2> QED
    BY <2>1, <2>7, <2>8, <2>9 DEF Moves, Rests
<1> QED
  BY <1>2, <1>3

LEMMA PlanImplements ==
  ASSUME TypeOK, InStep, NEW s \in Session, InOrder(s), Scanned(s), ReceiveMetadata(s)
  PROVE  Moves(s)
<1> DEFINE remote == Head(down[s]).listing
           src == IF mode[s] = "push" THEN csnap[s] ELSE remote
           dst == IF mode[s] = "push" THEN remote ELSE csnap[s]
<1>1. /\ cpc[s] = "awaitMetadata" /\ cpc'[s] = "operations" /\ Arrived(s) = "METADATA"
      /\ mode' = mode /\ csnap' = csnap /\ rsnap'[s] = remote
      /\ spc' = spc /\ refused' = refused
      /\ applied' = applied /\ local' = local /\ served' = served /\ temp' = temp
  BY DEF ReceiveMetadata, CGoto, server, TypeOK, ClientTyped
<1>2. PICK rank \in Orders(DestToSource(src, dst)) : plan'[s] = Plan(src, dst, rank)
  BY DEF ReceiveMetadata, TypeOK, TreesTyped
<1>3. plan[s] = {} /\ spc[s] \notin {"writing", "copying"}
  BY <1>1, OpeningEmpty DEF Opening
<1>4. Head(down[s]) \in Messages(down[s]) /\ Head(down[s]).type = "METADATA"
  BY <1>1, ReceivedMessages
<1>5. remote \in Listing
  BY <1>1, <1>4, ArrivedHead, OrderTyped, DownParts
<1>6. ScanOf(remote, served, faults) /\ ScanOf(csnap[s], local[Owner[s]], faults)
  BY <1>1, <1>4 DEF Scanned
<1>7. src \in Listing /\ \E missed \in {{}} \cup Unreadable : dst = Listed(Target(s), missed)
  BY <1>5, <1>6, OrderTyped DEF ScanOf, Target
<1>8. Goal(s)' = IF plan'[s] = {} THEN Goal(s) ELSE src
  BY <1>1, <1>3 DEF Goal, SourceListing
<1>9. HalfDone(s)' = HalfDone(s)
  BY <1>1, <1>3, NothingHalf
<1>10. /\ Outcome(s) = "planning" /\ Outcome(s)' = "running" /\ Target(s)' = Target(s)
       /\ Refusal(s)' = Refusal(s)
  BY <1>1, OutcomeStays DEF Opening, Ended, Target, Refusal
<1> HIDE DEF src, dst
<1>11. Sequential(s)!Next
  BY <1>1, <1>2, <1>7, <1>8, <1>9, <1>10, Plans
<1> QED
  BY <1>1, <1>11 DEF Moves, Opening

\* The client of a pull begins an operation: the file it was waiting for, or the next.
LEMMA FileComes ==
  ASSUME TypeOK, NEW s \in Session, InOrder(s), cpc[s] = "awaitFile", Arrived(s) # "nothing"
  PROVE  /\ mode[s] = "pull" /\ HalfDone(s) = {} /\ Outcome(s) = "running"
         /\ \E o \in plan[s] : /\ o \in Op /\ o.act = "transfer" /\ Pos(plan[s], o) = applied[s]
                               /\ Arrived(s) = "FILE" => Head(down[s]).path = o.to
<1>1. mode[s] = "pull" /\ PullInOrder(s) /\ ~ Opening(s) /\ ~ Ended(s)
  BY FilePending DEF Ended
<1>2. down[s] # <<>> /\ Arrived(s) = Head(down[s]).type
  BY ArrivedHead
<1>3. Head(down[s]) = down[s][1]
  BY <1>2, OrderTyped, EmptySeq, HeadTailProperties
<1>4. PICK o \in plan[s] : /\ o.act = "transfer" /\ Pos(plan[s], o) = applied[s]
                           /\ FileUnderWay(s, o.to)
  BY <1>1 DEF PullInOrder
<1>5. Arrived(s) = "FILE" => Head(down[s]).path = o.to
  BY <1>2, <1>3, <1>4 DEF FileUnderWay
<1> QED
  BY <1>1, <1>4, <1>5, PlanTells, NothingHalf, OutcomeStays

LEMMA SkipFileImplements ==
  ASSUME TypeOK, NEW s \in Session, InOrder(s), AskedInVain(s), SkipFile(s)
  PROVE  Moves(s)
<1>1. cpc[s] = "awaitFile" /\ Arrived(s) = "ERROR" /\ Begun(s) /\ CGoto(s, "operations")
  BY DEF SkipFile
<1>2. PICK o \in plan[s] : o \in Op /\ Pos(plan[s], o) = applied[s]
  BY <1>1, FileComes
<1>3. /\ mode' = mode /\ csnap' = csnap /\ rsnap' = rsnap /\ cpc'[s] = "operations"
      /\ plan' = plan /\ applied'[s] = applied[s] + 1 /\ local' = local /\ temp' = temp
  BY <1>1 DEF SkipFile, Begun, CGoto, TypeOK, TreesTyped, ClientTyped
<1>4. mode[s] = "pull" /\ HalfDone(s) = {} /\ Outcome(s) = "running"
  BY <1>1, FileComes
<1>5. /\ Stays(s) /\ Outcome(s)' = Outcome(s) /\ Target(s)' = Target(s) /\ HalfDone(s)' = {}
      /\ temp'[s] = temp[s]
  BY <1>3, <1>4, PlanStays, OutcomeStays, NothingHalf DEF Target, Opening, Ended
<1>6. ~ Going(s)'
  <2>1. "ERROR" \in Types(down[s])
    BY <1>1, ArrivedType
  <2>2. refused'[s]
    BY <1>1, <2>1 DEF AskedInVain, SkipFile, server
  <2> QED
    BY <2>2, NotGoing
<1> QED
  BY <1>2, <1>3, <1>4, <1>5, <1>6, Skips

LEMMA WriteReceivedFileImplements ==
  ASSUME TypeOK, NEW s \in Session, InOrder(s), WriteReceivedFile(s)
  PROVE  Moves(s)
<1> DEFINE m == Head(down[s])
           l == local[Owner[s]]
           t == TryWithParents(l, m.path)
<1>1. cpc[s] = "awaitFile" /\ Arrived(s) = "FILE" /\ Begun(s)
  BY DEF WriteReceivedFile
<1>2. PICK o \in plan[s] : /\ o \in Op /\ o.act = "transfer" /\ Pos(plan[s], o) = applied[s]
                           /\ m.path = o.to
  BY <1>1, FileComes
<1>3. mode[s] = "pull" /\ HalfDone(s) = {} /\ Outcome(s) = "running" /\ o.to \in Path
  BY <1>1, <1>2, FileComes, OpParts
<1>4. /\ mode' = mode /\ csnap' = csnap /\ rsnap' = rsnap /\ plan' = plan
      /\ applied'[s] = applied[s] + 1 /\ temp'[s] = temp[s]
  BY <1>1 DEF WriteReceivedFile, ClientFails, Begun, TypeOK, TreesTyped
<1>5. Stays(s) /\ Target(s) = l /\ Refusal(s)' = Refusal(s) /\ Target(s)' = local'[Owner[s]]
  BY <1>3, <1>4, PlanStays DEF Target, Refusal
<1>6. local \in [Client -> Tree] /\ Owner[s] \in Client
  BY SessionAssumption DEF TypeOK, TreesTyped
<1>7. CASE /\ Succeeds(Writable(t, m.path))
           /\ local' = [local EXCEPT ![Owner[s]] = [t EXCEPT ![m.path] = Torn]]
           /\ cjob' = [cjob EXCEPT ![s] = m]
           /\ CGoto(s, "writing")
  <2>1. cpc'[s] = "writing" /\ cjob'[s] = m
    BY <1>7 DEF CGoto, TypeOK, ClientTyped
  <2>2. CanMakeParents(l, o.to) /\ l[o.to] # Dir /\ t = WithParents(l, o.to)
    BY <1>2, <1>3, <1>6, <1>7, WritableWithParents DEF Succeeds
  <2>3. HalfDone(s)' = {o} /\ Outcome(s)' = Outcome(s)
    BY <1>2, <1>3, <1>4, <2>1, HalfBegun, OutcomeStays DEF Opening, Ended
  <2>4. Target(s)' = [WithParents(Target(s), o.to) EXCEPT ![o.to] = Torn]
    BY <1>2, <1>5, <1>6, <1>7, <2>2
  <2>5. StartsTransfer(s, o)
    BY <1>2, <1>3, <1>4, <1>5, <2>2, <2>3, <2>4 DEF StartsTransfer, Starts
  <2> QED
    BY <1>5, <2>3, <2>5, TransferBegins
<1>8. CASE local' = [local EXCEPT ![Owner[s]] = t] /\ ClientFails(s)
  <2>1. cpc'[s] = "failed"
    BY <1>8, FailingMessages
  <2>2. HalfDone(s)' = {} /\ Outcome(s)' = "failed"
    BY <1>3, <1>4, <2>1, NothingHalf, OutcomeStays
  <2>3. Target(s)' = TryWithParents(Target(s), o.to)
    BY <1>2, <1>5, <1>6, <1>8
  <2> QED
    BY <1>2, <1>3, <1>4, <1>5, <2>1, <2>2, <2>3, NotGoing, Skips
<1> QED
  BY <1>7, <1>8 DEF WriteReceivedFile

\* ... and ends it.
LEMMA FinishReceivedFileImplements ==
  ASSUME TypeOK, NEW s \in Session, InOrder(s), Carrying(s), FinishReceivedFile(s)
  PROVE  Moves(s)
<1> DEFINE p == cjob[s].path
           l == local[Owner[s]]
<1>1. cpc[s] = "writing" /\ mode[s] = "pull" /\ ~ Opening(s) /\ ~ Ended(s)
  BY FilePending DEF FinishReceivedFile, Ended
<1>2. PICK o \in plan[s] : /\ HalfDone(s) = {o} /\ o.act = "transfer"
                           /\ cjob[s].type = "FILE" /\ p = o.to
  BY <1>1, HalfIs
<1>3. CASE ClientFails(s) /\ UNCHANGED trees
  BY <1>1, <1>3, FailsImplements
<1>4. CASE /\ \E t \in Filled(l, p, cjob[s].data) : local' = [local EXCEPT ![Owner[s]] = t]
           /\ CGoto(s, "operations")
           /\ UNCHANGED <<served, temp, plan, applied, mode, csnap, rsnap, todo, cjob,
                          serverErrors, server, up, down, faults>>
  <2>1. l[p] = Torn /\ cjob[s].data = SourceListing(s)[p] /\ Goal(s) = SourceListing(s)
    BY <1>1, <1>2 DEF Carrying, Faithful, Goal
  <2>2. local' = [local EXCEPT ![Owner[s]] = [l EXCEPT ![p] = cjob[s].data]]
    BY <1>4, <2>1 DEF Filled
  <2>3. local'[Owner[s]] = [l EXCEPT ![p] = cjob[s].data]
    BY <2>2, SessionAssumption DEF TypeOK, TreesTyped
  <2>4. /\ cpc'[s] = "operations" /\ mode' = mode /\ csnap' = csnap /\ rsnap' = rsnap
        /\ plan' = plan /\ applied' = applied /\ temp' = temp
    BY <1>4 DEF CGoto, TypeOK, ClientTyped
  <2>5. /\ Stays(s) /\ Outcome(s)' = Outcome(s) /\ HalfDone(s)' = {}
        /\ Refusal(s)' = Refusal(s)
    BY <1>1, <2>4, PlanStays, OutcomeStays, NothingHalf DEF Opening, Ended, Refusal
  <2>6. Target(s) = l /\ Target(s)' = local'[Owner[s]]
    BY <1>1, <2>4 DEF Target
  <2>7. Target(s)' = [Target(s) EXCEPT ![o.to] = Goal(s)[o.to]]
    BY <1>2, <2>1, <2>3, <2>6
  <2>8. FillsFile(s, o)
    BY <1>2, <2>1, <2>4, <2>5, <2>6, <2>7 DEF FillsFile
  <2> QED
    BY <2>5, <2>8, Finishes
<1> QED
  BY <1>3, <1>4 DEF FinishReceivedFile

LEMMA CopyItemImplements ==
  ASSUME TypeOK, NEW s \in Session, InOrder(s), CopyItem(s)
  PROVE  Moves(s)
<1> DEFINE o == cjob[s]
           l == local[Owner[s]]
<1>1. cpc[s] = "copying" /\ mode[s] = "pull" /\ ~ Opening(s) /\ ~ Ended(s)
  BY FilePending DEF CopyItem, Ended
<1>2. o \in plan[s] /\ HalfDone(s) = {o} /\ o.act = "copy"
  BY <1>1, HalfIs
<1>3. CASE ClientFails(s) /\ UNCHANGED trees
  BY <1>1, <1>3, FailsImplements
<1>4. CASE /\ Succeeds(CanCopy(l, s, o.from, o.to))
           /\ IF o.to \in Path
              THEN /\ \E u \in ItemCopied(l, o.from, StoredAt(l, s, o.from), o.to) :
                         local' = [local EXCEPT ![Owner[s]] = u]
                   /\ UNCHANGED temp
              ELSE /\ temp' = [temp EXCEPT ![s][o.to] = StoredAt(l, s, o.from)]
                   /\ UNCHANGED local
           /\ CGoto(s, "operations")
           /\ UNCHANGED <<served, plan, applied, mode, csnap, rsnap, todo, cjob,
                          serverErrors, server, up, down>>
  <2>1. CanCopy(l, s, o.from, o.to)
    BY <1>4 DEF Succeeds
  <2>2. /\ cpc'[s] = "operations" /\ mode' = mode /\ csnap' = csnap /\ rsnap' = rsnap
        /\ plan' = plan /\ applied' = applied
    BY <1>4 DEF CGoto, TypeOK, ClientTyped
  <2>3. /\ Stays(s) /\ Outcome(s)' = Outcome(s) /\ HalfDone(s)' = {}
        /\ Refusal(s)' = Refusal(s)
    BY <1>1, <2>2, PlanStays, OutcomeStays, NothingHalf DEF Opening, Ended, Refusal
  <2>4. Target(s) = l /\ Target(s)' = local'[Owner[s]]
    BY <1>1, <2>2 DEF Target
  <2>5. IF o.to \in Path
        THEN /\ local'[Owner[s]] \in ItemCopied(l, o.from, StoredAt(l, s, o.from), o.to)
             /\ temp'[s] = temp[s]
        ELSE /\ temp'[s] = [temp[s] EXCEPT ![o.to] = StoredAt(l, s, o.from)]
             /\ local'[Owner[s]] = l
    BY <1>4, SessionAssumption DEF TypeOK, TreesTyped
  <2>6. applied'[s] = applied[s] /\ o.act # "transfer"
    BY <1>2, <2>2
  <2> HIDE DEF o, l
  <2>7. CopiesFile(s, o)
    BY <1>2, <2>1, <2>3, <2>4, <2>5, <2>6 DEF CopiesFile
  <2> QED
    BY <1>2, <2>3, <2>7, Finishes
<1> QED
  BY <1>3, <1>4 DEF CopyItem

LEMMA NextLocalOperation ==
  ASSUME TypeOK, NEW s \in Session, InOrder(s), NEW o, Current(s, o), mode[s] = "pull"
  PROVE  /\ o \in plan[s] /\ o \in Op /\ Pos(plan[s], o) = applied[s]
         /\ HalfDone(s) = {} /\ Outcome(s) = "running"
<1>1. cpc[s] = "operations" /\ ~ Opening(s) /\ ~ Ended(s)
  BY DEF Current, Opening, Ended
<1>2. Remains(plan[s], todo[s], applied[s])
  BY <1>1 DEF InOrder, PullInOrder
<1> QED
  BY <1>1, <1>2, NextOperation, PlanTells, NothingHalf, OutcomeStays

LEMMA PrepareCopyImplements ==
  ASSUME TypeOK, NEW s \in Session, InOrder(s), NEW o, Current(s, o), PrepareCopy(s, o)
  PROVE  Moves(s)
<1> DEFINE l == local[Owner[s]]
<1>1. mode[s] = "pull" /\ o.act = "copy" /\ Begun(s)
  BY DEF PrepareCopy
<1>2. /\ o \in plan[s] /\ o \in Op /\ Pos(plan[s], o) = applied[s]
      /\ HalfDone(s) = {} /\ Outcome(s) = "running"
  BY <1>1, NextLocalOperation
<1>3. /\ mode' = mode /\ csnap' = csnap /\ rsnap' = rsnap /\ plan' = plan
      /\ applied'[s] = applied[s] + 1 /\ temp'[s] = temp[s]
  BY <1>1 DEF PrepareCopy, ClientFails, Begun, TypeOK, TreesTyped
<1>4. Stays(s) /\ Target(s) = l /\ Refusal(s)' = Refusal(s) /\ Target(s)' = local'[Owner[s]]
  BY <1>1, <1>3, PlanStays DEF Target, Refusal
<1>5. CASE /\ Succeeds(CanPrepareCopy(l, o.to))
           /\ local' = [local EXCEPT ![Owner[s]] = ReadyForCopy(l, o.to)]
           /\ cjob' = [cjob EXCEPT ![s] = o]
           /\ CGoto(s, "copying")
  <2>1. cpc'[s] = "copying" /\ cjob'[s] = o
    BY <1>5 DEF CGoto, TypeOK, ClientTyped
  <2>2. HalfDone(s)' = {o} /\ Outcome(s)' = Outcome(s)
    BY <1>1, <1>2, <1>3, <2>1, HalfBegun, OutcomeStays DEF Opening, Ended
  <2>3. Target(s)' = ReadyForCopy(Target(s), o.to)
    BY <1>4, <1>5, SessionAssumption DEF TypeOK, TreesTyped
  <2>4. StartsCopy(s, o)
    BY <1>1, <1>2, <1>3, <1>4, <1>5, <2>2, <2>3 DEF StartsCopy, Starts, Succeeds
  <2> QED
    BY <1>2, <1>4, <2>2, <2>4, CopyBegins
<1>6. CASE ClientFails(s) /\ UNCHANGED local
  <2>1. cpc'[s] = "failed"
    BY <1>6, FailingMessages
  <2>2. HalfDone(s)' = {} /\ Outcome(s)' = "failed" /\ Target(s)' = Target(s)
    BY <1>1, <1>3, <1>4, <1>6, <2>1, NothingHalf, OutcomeStays
  <2> QED
    BY <1>1, <1>2, <1>3, <1>4, <2>1, <2>2, NotGoing, Skips
<1> QED
  BY <1>5, <1>6 DEF PrepareCopy

LEMMA DeleteLocalImplements ==
  ASSUME TypeOK, NEW s \in Session, InOrder(s), NEW o, Current(s, o), DeleteLocal(s, o)
  PROVE  Moves(s)
<1> DEFINE l == local[Owner[s]]
<1>1. mode[s] = "pull" /\ o.act = "delete" /\ Begun(s) /\ cpc[s] = "operations"
  BY DEF DeleteLocal, Current
<1>2. /\ o \in plan[s] /\ o \in Op /\ Pos(plan[s], o) = applied[s]
      /\ HalfDone(s) = {} /\ Outcome(s) = "running" /\ o.to \in Place
  BY <1>1, NextLocalOperation, OpParts
<1>3. /\ mode' = mode /\ csnap' = csnap /\ rsnap' = rsnap /\ plan' = plan /\ cpc' = cpc
      /\ applied'[s] = applied[s] + 1
  BY <1>1 DEF DeleteLocal, Begun, TypeOK, TreesTyped
<1>4. /\ Stays(s) /\ Target(s) = l /\ Refusal(s)' = Refusal(s) /\ Target(s)' = local'[Owner[s]]
      /\ HalfDone(s)' = {} /\ Outcome(s)' = Outcome(s)
  BY <1>1, <1>3, PlanStays, NothingHalf, OutcomeStays DEF Target, Refusal
<1>5. \/ faults' # 0 /\ local'[Owner[s]] = l /\ temp'[s] = temp[s]
      \/ /\ o.to \in Path /\ local'[Owner[s]] = Removed(l, o.to) /\ temp'[s] = temp[s]
      \/ /\ o.to \in TempPlace /\ temp'[s] = [temp[s] EXCEPT ![o.to] = Absent]
         /\ local'[Owner[s]] = l
  <2>1. Fault => faults' # 0
    BY DEF Fault, TypeOK
  <2> QED
    BY <1>2, <2>1, PlaceCases, SessionAssumption DEF DeleteLocal, TypeOK, TreesTyped
<1> HIDE DEF l
<1>6. CASE faults' # 0 /\ Target(s)' = Target(s) /\ temp'[s] = temp[s]
  <2>1. ~ Going(s)' /\ Starts(s, o)
    BY <1>1, <1>2, <1>3, <1>6, NotGoing DEF Starts
  <2> QED
    BY <1>1, <1>2, <1>4, <1>6, <2>1, Deletes
<1>7. CASE o.to \in Path /\ Target(s)' = Removed(Target(s), o.to) /\ temp'[s] = temp[s]
  <2>1. DeletesFile(s, o)
    BY <1>1, <1>2, <1>3, <1>4, <1>7 DEF DeletesFile, Starts
  <2> QED
    BY <1>2, <1>4, <2>1, Deletes
<1>8. CASE /\ o.to \in TempPlace /\ temp'[s] = [temp[s] EXCEPT ![o.to] = Absent]
           /\ Target(s)' = Target(s)
  <2>1. DeletesTemp(s, o)
    BY <1>1, <1>2, <1>3, <1>4, <1>8 DEF DeletesTemp, Starts
  <2> QED
    BY <1>2, <1>4, <2>1, Deletes
<1> QED
  BY <1>4, <1>5, <1>6, <1>7, <1>8

-----------------------------------------------------------------------------
(* A session by itself implements SequentialSync                           *)

LEMMA ClientImplements ==
  ASSUME TypeOK, InStep, InStep', NEW s \in Session, InOrder(s), GoalKept(s),
         AskedInVain(s), Connect(s) \/ ClientStep(s) \/ ClientDies(s)
  PROVE  Moves(s) \/ UNCHANGED Sequential(s)!vars
<1>1. CASE ReceiveUnexpected(s) \/ ConnectionLost(s) \/ ClientDies(s)
  <2>1. ~ Ended(s) /\ ClientFails(s) /\ UNCHANGED trees
    BY <1>1 DEF ReceiveUnexpected, ConnectionLost, ClientDies, Active, Ended
  <2> QED
    BY <2>1, FailsImplements
<1>2. CASE ExecuteOperation(s)
  BY <1>2, SendsImplement, PrepareCopyImplements, DeleteLocalImplements DEF ExecuteOperation
<1>3. CASE ReceiveMetadata(s)
  <2>1. Scanned(s)
    BY <1>3 DEF GoalKept, ReceiveMetadata, Opening
  <2> QED
    BY <1>3, <2>1, PlanImplements
<1>4. CASE FinishReceivedFile(s)
  <2>1. cpc[s] = "writing"
    BY <1>4 DEF FinishReceivedFile
  <2>2. ~ Opening(s) /\ plan[s] # {}
    BY <2>1, FilePending
  <2> QED
    BY <1>4, <2>2, FinishReceivedFileImplements DEF GoalKept
<1> QED
  BY <1>1, <1>2, <1>3, <1>4, HandshakeImplements, SendsImplement, SkipFileImplements,
     WriteReceivedFileImplements, CopyItemImplements, ReceiveDoneImplements DEF ClientStep

LEMMA SameView ==
  ASSUME NEW s, UNCHANGED vars
  PROVE  UNCHANGED Sequential(s)!vars
<1>1. /\ mode' = mode /\ csnap' = csnap /\ rsnap' = rsnap /\ cpc' = cpc /\ cjob' = cjob
      /\ spc' = spc /\ sjob' = sjob /\ refused' = refused
      /\ plan' = plan /\ applied' = applied /\ local' = local /\ served' = served /\ temp' = temp
  BY DEF vars, client, server, trees
<1> QED
  BY <1>1, PlanStays, OutcomeStays, StillHalf, Stutters DEF Target, Refusal

LEMMA StepImplements ==
  ASSUME TypeOK, InStep, InStep', OrderInv, GoalInv, AskInv, [Next]_vars, NEW s \in Session,
         Alone(s)'
  PROVE  Moves(s) \/ UNCHANGED Sequential(s)!vars
<1>1. CASE UNCHANGED vars
  BY <1>1, SameView
<1>2. CASE Next /\ ~ UNCHANGED vars
  <2>1. /\ InOrder(s) /\ GoalKept(s) /\ AskedInVain(s)
        /\ ServerCrash \/ Connect(s) \/ ClientStep(s) \/ ClientDies(s) \/ HandlerStep(s)
    BY <1>2, StepIsItsOwn DEF OrderInv, GoalInv, AskInv
  <2> QED
    BY <2>1, ClientImplements, HandlerImplements, CrashImplements
<1> QED
  BY <1>1, <1>2

LEMMA StartImplements ==
  ASSUME Init, NEW s \in Session
  PROVE  Sequential(s)!Init
<1>1. TypeOK
  BY InitTyped
<1>2. /\ cpc[s] = "idle" /\ spc[s] = "none" /\ plan[s] = {} /\ applied[s] = 0
      /\ temp[s] = [q \in TempPlace |-> Absent] /\ ~ refused[s]
  BY DEF Init
<1>3. Target(s) \in Tree
  BY <1>1, SessionAssumption DEF TypeOK, TreesTyped, Target
<1>4. Goal(s) = [p \in Path |-> Absent]
  BY <1>2 DEF Goal, NoListing
<1>5. HalfDone(s) = {} /\ Outcome(s) = "planning" /\ Refusal(s) = FALSE
      /\ Pushing(s) \in BOOLEAN
  BY <1>2 DEF HalfDone, Outcome, Refusal, Pushing
<1> QED
  BY <1>2, <1>3, <1>4, <1>5, SameTrees DEF Sequential!Init, Sequential!Nothing

\* As long as no other command has been given, a session changes its target as one thread
\* with the plan in hand would (SequentialSync): the operations in order, one at a time,
\* each from the first directory it makes to the last byte it writes, none twice; and it
\* reports success at the end of the last, and never of a push that was refused one.
THEOREM SessionImplementsSequential ==
  ASSUME NEW s \in Session
  PROVE  Spec => /\ Sequential(s)!Init
                 /\ [][Alone(s)' => Sequential(s)!Next]_(Sequential(s)!vars)
<1>1. Init => Sequential(s)!Init
  BY StartImplements
<1>2. /\ TypeOK /\ InStep /\ InStep' /\ OrderInv /\ GoalInv /\ AskInv /\ [Next]_vars
      => [Alone(s)' => Sequential(s)!Next]_(Sequential(s)!vars)
  BY StepImplements DEF Moves
<1> QED
  BY <1>1, <1>2, SpecTypeOK, SpecInStep, SpecOrderInv, SpecGoalInv, SpecAskInv, PTL DEF Spec

\* Where there is one session it implements SequentialSync, for whatever tree, plan,
\* window and fault (sync and processClient, over the two channels).
THEOREM SpecImplementsSequential ==
  ASSUME NSessions = 1
  PROVE  Spec => ImplementsSequential
<1>1. 1 \in Session /\ Session = {1}
  BY DEF Session
<1>2. Alone(1)'
  BY <1>1 DEF Alone
<1>3. Init => Sequential(1)!Init
  BY <1>1, StartImplements
<1>4. /\ TypeOK /\ InStep /\ InStep' /\ OrderInv /\ GoalInv /\ AskInv /\ [Next]_vars
      => [Sequential(1)!Next]_(Sequential(1)!vars)
  BY <1>1, <1>2, StepImplements DEF Moves
<1> QED
  BY <1>3, <1>4, SpecTypeOK, SpecInStep, SpecOrderInv, SpecGoalInv, SpecAskInv, PTL
     DEF Spec, ImplementsSequential

-----------------------------------------------------------------------------
(* A session by itself keeps its target on the course of its plan          *)

\* The first k operations of P.
FirstOps(P, k) == {o \in P : Pos(P, o) < k}

OnCourse(s) ==
    /\ Flat(SourceListing(s))
    /\ Course(Target(s), temp[s], SourceListing(s), TargetListing(s), plan[s],
              FirstOps(plan[s], applied[s]), HalfDone(s), faults = 0)

CourseInv ==
    \A s \in Session :
        /\ Alone(s) /\ ~ Opening(s) /\ Going(s)
        /\ Overtaken(SourceListing(s), plan[s]) = {}
        => OnCourse(s)

LEMMA FirstOpsGrow ==
  ASSUME NEW P, Ordered(P)
  PROVE  /\ FirstOps(P, 0) = {} /\ FirstOps(P, Cardinality(P)) = P
         /\ \A o \in P : /\ o \notin FirstOps(P, Pos(P, o))
                         /\ FirstOps(P, Pos(P, o) + 1) = FirstOps(P, Pos(P, o)) \cup {o}
                         /\ FirstOps(P, Pos(P, o) + 1) = {x \in P : x.ord <= o.ord}
<1>1. \A o \in P : Pos(P, o) \in Nat /\ Pos(P, o) < Cardinality(P) /\ o.ord \in Nat
  BY PosBounds DEF Ordered, Op
<1>2. FirstOps(P, 0) = {} /\ FirstOps(P, Cardinality(P)) = P
  BY <1>1 DEF FirstOps
<1>3. ASSUME NEW o \in P
      PROVE  /\ o \notin FirstOps(P, Pos(P, o))
             /\ FirstOps(P, Pos(P, o) + 1) = FirstOps(P, Pos(P, o)) \cup {o}
             /\ FirstOps(P, Pos(P, o) + 1) = {x \in P : x.ord <= o.ord}
  <2>1. o \notin FirstOps(P, Pos(P, o))
    BY <1>1 DEF FirstOps
  <2>2. ASSUME NEW x \in P
        PROVE  /\ Pos(P, x) < Pos(P, o) + 1 <=> Pos(P, x) < Pos(P, o) \/ x = o
               /\ Pos(P, x) < Pos(P, o) + 1 <=> x.ord <= o.ord
    <3>1. o.ord < x.ord <=> Pos(P, o) < Pos(P, x)
      BY PosBounds
    <3>2. Pos(P, o) = Pos(P, x) => o = x
      BY PosBounds
    <3>3. /\ Pos(P, x) \in Nat /\ Pos(P, o) \in Nat /\ x.ord \in Nat /\ o.ord \in Nat
      BY <1>1
    <3> QED
      BY <3>1, <3>2, <3>3
  <2>3. FirstOps(P, Pos(P, o) + 1) = FirstOps(P, Pos(P, o)) \cup {o}
    BY <2>2 DEF FirstOps
  <2>4. FirstOps(P, Pos(P, o) + 1) = {x \in P : x.ord <= o.ord}
    BY <2>2 DEF FirstOps
  <2> QED
    BY <2>1, <2>3, <2>4
<1> QED
  BY <1>2, <1>3

\* What is half done is the last operation begun.
LEMMA HalfIsLast ==
  ASSUME TypeOK, NEW s \in Session, InOrder(s), NEW o \in plan[s], HalfDone(s) = {o}
  PROVE  Pos(plan[s], o) + 1 = applied[s]
<1> DEFINE P == plan[s]
<1>1. applied[s] \in Nat /\ mode[s] \in {"push", "pull"} /\ Pos(P, o) \in Nat
  BY OrderTyped, PlanTells
<1>2. CASE mode[s] = "push"
  <2>1. spc[s] \in {"writing", "copying"}
    BY <1>2, NothingHalf
  <2>2. PICK x \in P : Carries(sjob[s], x) /\ Pos(P, x) = applied[s] - 1 /\ applied[s] > 0
    BY <2>1 DEF InOrder, HandlerInOrder, IsOperation
  <2>3. x.act = o.act /\ x.to = o.to /\ (o.act = "transfer" \/ Pos(P, o) = applied[s] - 1)
    <3>1. CASE spc[s] = "writing"
      <4>1. PICK y \in P : HalfDone(s) = {y} /\ y.act = "transfer" /\ sjob[s].type = "FILE"
                           /\ sjob[s].path = y.to
        BY <1>2, <3>1, HalfIs
      <4>2. y = o
        BY <4>1
      <4> QED
        BY <2>2, <4>1, <4>2 DEF Carries
    <3>2. CASE spc[s] = "copying"
      <4>1. sjob[s].type = "COPY"
        BY <3>2 DEF TypeOK, JobsTyped
      <4>2. x.act = "copy" /\ x.to = sjob[s].to
        BY <2>2, <4>1 DEF Carries
      <4>3. /\ o.act = "copy" /\ o.to = sjob[s].to
            /\ Cardinality({y \in P : y.ord < o.ord}) = applied[s] - 1
        BY <1>2, <3>2 DEF HalfDone
      <4> QED
        BY <4>2, <4>3 DEF Pos
    <3> QED
      BY <2>1, <3>1, <3>2
  <2>4. x = o
    BY <2>2, <2>3, PlanTells
  <2> QED
    BY <1>1, <2>2, <2>4
<1>3. CASE mode[s] # "push"
  <2>1. cpc[s] \in {"writing", "copying"}
    BY <1>3, NothingHalf
  <2>2. PICK x \in P : /\ Pos(P, x) = applied[s] - 1 /\ applied[s] > 0
                       /\ cpc[s] = "writing" => x.act = "transfer" /\ x.to = cjob[s].path
                       /\ cpc[s] = "copying" => x = cjob[s]
    BY <1>1, <1>3, <2>1 DEF InOrder, PullInOrder
  <2>3. x \in HalfDone(s)
    BY <1>3, <2>1, <2>2 DEF HalfDone
  <2>4. x = o
    BY <2>3
  <2> QED
    BY <1>1, <2>2, <2>4
<1> QED
  BY <1>2, <1>3

LEMMA PlanIsFor ==
  ASSUME TypeOK, NEW s \in Session, InOrder(s), ~ Opening(s), Going(s), Flat(SourceListing(s))
  PROVE  /\ PlanFor(SourceListing(s), TargetListing(s), plan[s]) /\ Ordered(plan[s])
         /\ Target(s) \in Tree /\ temp[s] \in [TempPlace -> Entry] /\ applied[s] \in Nat
<1>1. SourceListing(s) \in Listing /\ TargetListing(s) \in Listing
  BY OrderTyped DEF SourceListing, TargetListing
<1>2. cpc[s] # "failed"
  BY DEF Going
<1>3. \E rank \in Orders(DestToSource(SourceListing(s), TargetListing(s))) :
          plan[s] = Plan(SourceListing(s), TargetListing(s), rank)
  BY <1>2 DEF InOrder, Planned
<1>4. PlanFor(SourceListing(s), TargetListing(s), plan[s])
  BY <1>1, <1>3 DEF PlanFor
<1>5. Ordered(plan[s])
  BY PlanIsOrdered DEF InOrder
<1>6. Target(s) \in Tree
  BY SessionAssumption DEF TypeOK, TreesTyped, Target
<1> QED
  BY <1>4, <1>5, <1>6 DEF TypeOK, TreesTyped

\* The first half of an operation, and one that is done at once.
LEMMA BeginsOnCourse ==
  ASSUME TypeOK, NEW s \in Session, InOrder(s), ~ Opening(s), Going(s), OnCourse(s),
         NEW o \in plan[s], Starts(s, o),
         StartsTransfer(s, o) \/ StartsCopy(s, o) \/ DeletesFile(s, o) \/ DeletesTemp(s, o)
  PROVE  Course(Target(s)', temp'[s], SourceListing(s), TargetListing(s), plan[s],
                FirstOps(plan[s], applied'[s]), HalfDone(s)', faults = 0)
<1> DEFINE src == SourceListing(s)
           dst == TargetListing(s)
           P == plan[s]
           B == FirstOps(P, applied[s])
           t == Target(s)
           m == temp[s]
           z == faults = 0
           u == Target(s)'
           n == temp'[s]
           H == HalfDone(s)'
<1>1. PlanFor(src, dst, P) /\ Ordered(P) /\ t \in Tree /\ m \in [TempPlace -> Entry]
  BY PlanIsFor DEF OnCourse
<1>2. Course(t, m, src, dst, P, B, {}, z)
  BY DEF OnCourse, Starts
<1>3. o \notin B /\ FirstOps(P, applied'[s]) = B \cup {o} /\ B \in SUBSET P
  BY <1>1, FirstOpsGrow DEF Starts, FirstOps
<1>4. o \in Op /\ (o.to \in Path \/ o.to \in TempPlace)
  BY PlanTells, OpParts, PlaceCases
<1>5. StartsTransfer(s, o) => /\ o.act = "transfer" /\ H = {o} /\ n = m
                              /\ CanMakeParents(t, o.to) /\ t[o.to] # Dir
                              /\ u = [WithParents(t, o.to) EXCEPT ![o.to] = Torn]
  BY DEF StartsTransfer
<1>6. StartsCopy(s, o) => /\ o.act = "copy" /\ H = {o} /\ n = m
                          /\ o.to \in Path => /\ CanMakeParents(t, o.to)
                                              /\ u = Removed(WithParents(t, o.to), o.to)
                          /\ o.to \notin Path => u = t
  BY DEF StartsCopy, CanPrepareCopy, ReadyForCopy
<1>7. DeletesFile(s, o) => /\ o.act = "delete" /\ H = {} /\ n = m /\ o.to \in Path
                           /\ \/ u = Removed(t, o.to)
                              \/ t[o.to] # Absent /\ u = Pruned(Removed(t, o.to), o.to)
  BY DEF DeletesFile
<1>8. DeletesTemp(s, o) => /\ o.act = "delete" /\ H = {} /\ u = t /\ o.to \in TempPlace
                           /\ n = m \/ n = [m EXCEPT ![o.to] = Absent]
  BY DEF DeletesTemp
<1>9. o.to \in TempPlace => o.to \notin Path
  BY PathsAreNumbers
<1> HIDE DEF src, dst, P, B, t, m, z, u, n, H
<1>10. P = plan[s] /\ o \in P
  BY DEF P
<1>11. Course(u, n, src, dst, P, B \cup {o}, H, z)
  <2>1. CASE StartsTransfer(s, o)
    BY <1>1, <1>2, <1>3, <1>5, <1>10, <2>1, TransferStarts
  <2>2. CASE StartsCopy(s, o) /\ o.to \in Path
    BY <1>1, <1>2, <1>3, <1>6, <1>10, <2>2, CopyStarts
  <2>3. CASE StartsCopy(s, o) /\ o.to \in TempPlace
    BY <1>2, <1>6, <1>9, <2>3, TempCopyStarts
  <2>4. CASE DeletesFile(s, o)
    BY <1>1, <1>2, <1>3, <1>7, <1>10, <2>4, FileDeleted
  <2>5. CASE DeletesTemp(s, o)
    BY <1>1, <1>2, <1>3, <1>8, <1>10, <2>5, TempDeleted
  <2> QED
    BY <1>4, <2>1, <2>2, <2>3, <2>4, <2>5
<1> QED
  BY <1>3, <1>11 DEF src, dst, P, B, t, m, z, u, n, H

\* The second half.
LEMMA EndsOnCourse ==
  ASSUME TypeOK, NEW s \in Session, InOrder(s), ~ Opening(s), Going(s), OnCourse(s),
         Overtaken(SourceListing(s), plan[s]) = {},
         NEW o \in plan[s], FillsFile(s, o) \/ CopiesFile(s, o)
  PROVE  Course(Target(s)', temp'[s], SourceListing(s), TargetListing(s), plan[s],
                FirstOps(plan[s], applied'[s]), HalfDone(s)', faults = 0)
<1> DEFINE src == SourceListing(s)
           dst == TargetListing(s)
           P == plan[s]
           B == FirstOps(P, applied[s])
           t == Target(s)
           m == temp[s]
           z == faults = 0
           u == Target(s)'
           n == temp'[s]
           data == IF o.from \in Path THEN t[o.from] ELSE m[o.from]
<1>1. PlanFor(src, dst, P) /\ Ordered(P) /\ t \in Tree /\ m \in [TempPlace -> Entry]
  BY PlanIsFor DEF OnCourse
<1>2. HalfDone(s) = {o} /\ HalfDone(s)' = {} /\ applied'[s] = applied[s]
  BY DEF FillsFile, CopiesFile
<1>3. Course(t, m, src, dst, P, B, {o}, z) /\ Overtaken(src, P) = {}
  BY <1>2 DEF OnCourse
<1>4. applied[s] = Pos(P, o) + 1
  BY <1>2, HalfIsLast
<1>5. B = {x \in P : x.ord <= o.ord} /\ B \in SUBSET P /\ o \in B
  BY <1>1, <1>4, FirstOpsGrow DEF FirstOps
<1>6. o \in Op /\ (o.to \in Path \/ o.to \in TempPlace) /\ (o.act = "transfer" => o.to \in Path)
  BY PlanTells, OpParts, PlaceCases
<1>7. ASSUME FillsFile(s, o)
      PROVE  /\ o.act = "transfer" /\ t[o.to] = Torn /\ n = m
             /\ u = [t EXCEPT ![o.to] = src[o.to]]
  <2>1. Goal(s) = src
    BY DEF Goal
  <2> QED
    BY <1>7, <2>1 DEF FillsFile
<1>8. ASSUME CopiesFile(s, o)
      PROVE  /\ o.act = "copy" /\ data # Absent
             /\ o.to \in Path => /\ t[o.to] = Absent /\ ParentsExist(t, o.to) /\ n = m
                                 /\ u \in ItemCopied(t, o.from, data, o.to)
             /\ o.to \notin Path => u = t /\ n = [m EXCEPT ![o.to] = data]
             /\ o.from \in Path => t[o.from] # Absent /\ o.from # o.to
  <2>1. /\ o.act = "copy" /\ CanCopy(t, s, o.from, o.to)
        /\ IF o.to \in Path THEN u \in ItemCopied(t, o.from, StoredAt(t, s, o.from), o.to) /\ n = m
                            ELSE n = [m EXCEPT ![o.to] = StoredAt(t, s, o.from)] /\ u = t
    BY <1>8 DEF CopiesFile
  <2>2. data = StoredAt(t, s, o.from)
    BY DEF StoredAt
  <2>3. o.to \in Path => StoredAt(t, s, o.to) = t[o.to]
    BY DEF StoredAt
  <2> HIDE DEF data, t, m, u, n
  <2>4. o.from \in Path => StoredAt(t, s, o.from) = t[o.from]
    BY DEF StoredAt
  <2> QED
    BY <2>1, <2>2, <2>3, <2>4 DEF CanCopy
<1>9. o.to \in TempPlace => o.to \notin Path
  BY PathsAreNumbers
<1> HIDE DEF src, dst, P, B, t, m, z, u, n
<1>10. o \in P /\ Torn # Absent /\ Torn # Dir /\ Absent # Dir
  BY EntryAssumption DEF P, FileData
<1>11. Course(u, n, src, dst, P, B, {}, z)
  <2>1. CASE FillsFile(s, o)
    <3>1. ParentsExist(t, o.to)
      BY <1>3, <1>6, <1>7, <1>10, <2>1 DEF Course, WellFormed, ParentsExist
    <3> QED
      BY <1>1, <1>3, <1>5, <1>6, <1>7, <1>10, <2>1, <3>1, FileInPlace
  <2>2. CASE CopiesFile(s, o)
    <3>1. Course(t, m, src, dst, P, {x \in P : x.ord <= o.ord}, {o}, z)
      BY <1>3, <1>5
    <3>2. data = IF o.from \in Path THEN t[o.from] ELSE m[o.from]
      OBVIOUS
    <3> HIDE DEF data
    <3>3. o.act = "copy" /\ (o.from \in Path => t[o.from] # Absent /\ o.from # o.to)
      BY <1>8, <2>2
    <3>4. data = WantedAt(src, P, o)
      BY <1>1, <1>3, <1>10, <3>1, <3>2, <3>3, FindsWanted
    <3>5. CASE o.to \in Path
      <4>1. data = src[o.to]
        BY <3>4, <3>5 DEF WantedAt
      <4>2. data # Dir
        BY <1>1, <3>5, <4>1, EntryAssumption DEF PlanFor, Listing
      <4>3. u = [t EXCEPT ![o.to] = data]
        BY <1>8, <2>2, <3>5, <4>2 DEF ItemCopied
      <4> QED
        BY <1>1, <1>3, <1>5, <1>8, <1>10, <2>2, <3>5, <4>1, <4>3, FileInPlace
    <3>6. CASE o.to \in TempPlace
      BY <1>1, <1>3, <1>5, <1>8, <1>9, <1>10, <2>2, <3>4, <3>6, FileSaved
    <3> QED
      BY <1>6, <3>5, <3>6
  <2> QED
    BY <2>1, <2>2
<1> QED
  BY <1>2, <1>11 DEF src, dst, P, B, t, m, z, u, n

\* Once there is a plan it stays, and so do the listings it was made from.
LEMMA PlanRemains ==
  ASSUME TypeOK, NEW s \in Session, ~ Opening(s),
         ServerCrash \/ ClientStep(s) \/ ClientDies(s) \/ HandlerStep(s)
  PROVE  UNCHANGED <<mode[s], csnap[s], rsnap[s], plan[s]>>
<1>1. CASE ServerCrash
  BY <1>1 DEF ServerCrash, trees, client
<1>2. CASE HandlerStep(s)
  BY <1>2 DEF HandlerStep, ReceiveHello, ScanServed, ExchangeMetadata, ReceiveFails, SendFile,
     ReceiveFile, FinishFile, DeleteFile, ReceiveCopy, FinishCopy, ReceiveLast, ReplySent,
     ReplyAbandoned, CloseConnection, client, trees, Begun
<1>3. CASE ClientStep(s) \/ ClientDies(s)
  <2>1. ~ ReceiveOK(s) /\ ~ ScanLocal(s) /\ ~ ReceiveMetadata(s)
    BY DEF ReceiveOK, ScanLocal, ReceiveMetadata, Opening
  <2> QED
    BY <1>3, <2>1 DEF ClientStep, ClientDies, ExecuteOperation, Upload, SendRemote, RequestFile,
       PrepareCopy, DeleteLocal, ReceiveUnexpected, SkipFile, WriteReceivedFile,
       FinishReceivedFile, CopyItem, SendDone, DrainReply, ReceiveDone, ConnectionLost,
       ClientFails, trees, Begun
<1> QED
  BY <1>1, <1>2, <1>3

LEMMA RefusalsStay ==
  ASSUME TypeOK, NEW s \in Session, refused[s],
         ServerCrash \/ ClientStep(s) \/ ClientDies(s) \/ HandlerStep(s)
  PROVE  refused'[s]
<1>1. CASE UNCHANGED refused \/ Refuse(s)
  BY <1>1 DEF Refuse, TypeOK, ServerTyped
<1>2. CASE ServerCrash \/ HandlerStep(s)
  BY <1>1, <1>2 DEF ServerCrash, HandlerStep, ReceiveHello, ScanServed, ExchangeMetadata,
     ReceiveFails, SendFile, ReceiveFile, FinishFile, DeleteFile, ReceiveCopy, FinishCopy,
     ReceiveLast, ReplySent, ReplyAbandoned, CloseConnection
<1>3. CASE ClientStep(s) \/ ClientDies(s)
  BY <1>1, <1>3 DEF ClientStep, ClientDies, ExecuteOperation, Upload, SendRemote, RequestFile,
     PrepareCopy, DeleteLocal, ReceiveOK, ScanLocal, ReceiveMetadata, ReceiveUnexpected, SkipFile,
     WriteReceivedFile, FinishReceivedFile, CopyItem, SendDone, DrainReply, ReceiveDone,
     ConnectionLost, ClientFails, server
<1> QED
  BY <1>2, <1>3

\* A handler that is gone says nothing more, and the client only loses what it said.
LEMMA ClosedStays ==
  ASSUME TypeOK, NEW s \in Session, spc[s] = "closed",
         ServerCrash \/ ClientStep(s) \/ ClientDies(s) \/ HandlerStep(s)
  PROVE  /\ spc'[s] = "closed" /\ Types(down'[s]) \subseteq Types(down[s])
         /\ cpc'[s] = "ok" => cpc[s] = "ok" \/ "DONE" \in Types(down[s])
<1>1. ~ HandlerStep(s)
  BY DEF HandlerStep, ReceiveHello, ScanServed, ExchangeMetadata, ReceiveFails, SendFile,
     ReceiveFile, FinishFile, DeleteFile, ReceiveCopy, FinishCopy, ReceiveLast, ReplySent,
     ReplyAbandoned, CloseConnection, Takes
<1>2. CASE ServerCrash
  BY <1>2 DEF ServerCrash, Serving, client
<1>3. CASE ClientStep(s) \/ ClientDies(s)
  <2>1. spc' = spc
    BY <1>3 DEF ClientStep, ClientDies, ExecuteOperation, Upload, SendRemote, RequestFile,
       PrepareCopy, DeleteLocal, ReceiveOK, ScanLocal, ReceiveMetadata, ReceiveUnexpected, SkipFile,
       WriteReceivedFile, FinishReceivedFile, CopyItem, SendDone, DrainReply, ReceiveDone,
       ConnectionLost, ClientFails, server
  <2>2. \/ ClientFails(s)
        \/ UNCHANGED down
        \/ Arrived(s) # "nothing" /\ Received(s)
    BY <1>3 DEF ClientStep, ClientDies, ExecuteOperation, Upload, SendRemote, RequestFile,
       PrepareCopy, DeleteLocal, ReceiveOK, ScanLocal, ReceiveMetadata, ReceiveUnexpected, SkipFile,
       WriteReceivedFile, FinishReceivedFile, CopyItem, SendDone, DrainReply, ReceiveDone,
       ConnectionLost
  <2>3. ClientFails(s) => down'[s] = <<>>
    BY DEF ClientFails, TypeOK, DownTyped
  <2>4. Types(down'[s]) \subseteq Types(down[s])
    BY <2>2, <2>3, EmptyTypes, ReceivedTypes
  <2>5. \/ UNCHANGED cpc
        \/ \E l \in ClientPC \ {"ok"} : CGoto(s, l)
        \/ Arrived(s) = "DONE"
    BY <1>3 DEF ClientStep, ClientDies, ExecuteOperation, Upload, SendRemote, RequestFile,
       PrepareCopy, DeleteLocal, ReceiveOK, ScanLocal, ReceiveMetadata, ReceiveUnexpected, SkipFile,
       WriteReceivedFile, FinishReceivedFile, CopyItem, SendDone, DrainReply, ReceiveDone,
       ConnectionLost, ClientFails, ClientPC
  <2>6. cpc'[s] = "ok" => cpc[s] = "ok" \/ "DONE" \in Types(down[s])
    BY <2>5, ArrivedType DEF CGoto, TypeOK, ClientTyped
  <2> QED
    BY <2>1, <2>4, <2>6
<1> QED
  BY <1>1, <1>2, <1>3

\* A session that can still succeed could all the time.
LEMMA GoingStill ==
  ASSUME TypeOK, NEW s \in Session, ~ Opening(s), Going(s)',
         ServerCrash \/ ClientStep(s) \/ ClientDies(s) \/ HandlerStep(s)
  PROVE  Going(s)
<1>1. mode'[s] = mode[s] /\ mode[s] \in {"push", "pull"}
  BY PlanRemains, OrderTyped
<1>2. cpc[s] # "failed"
  <2>1. ~ Going(s)' \/ cpc'[s] # "failed"
    BY DEF Going
  <2>2. cpc[s] = "failed" => ~ ClientStep(s) /\ ~ ClientDies(s)
    BY DEF ClientStep, ReceiveOK, ScanLocal, ReceiveMetadata, ReceiveUnexpected, SkipFile,
       WriteReceivedFile, FinishReceivedFile, CopyItem, SendDone, DrainReply, ReceiveDone,
       ConnectionLost, ExecuteOperation, Current, Active, Ended, ClientDies
  <2>3. ServerCrash \/ HandlerStep(s) => cpc' = cpc
    BY DEF ServerCrash, HandlerStep, ReceiveHello, ScanServed, ExchangeMetadata, ReceiveFails,
           SendFile, ReceiveFile, FinishFile, DeleteFile, ReceiveCopy, FinishCopy, ReceiveLast,
           ReplySent, ReplyAbandoned, CloseConnection, client
  <2> QED
    BY <2>1, <2>2, <2>3
<1>3. ~ refused[s]
  BY RefusalsStay, NotGoing
<1>4. mode[s] = "pull" => faults = 0
  BY <1>1, FaultsGrow DEF Going
<1>5. mode[s] = "push" /\ spc[s] = "closed" => cpc[s] = "ok" \/ "DONE" \in Types(down[s])
  BY <1>1, ClosedStays DEF Going
<1> QED
  BY <1>2, <1>3, <1>4, <1>5 DEF Going

\* The plan is made for the tree as it is.
LEMMA CourseStarts ==
  ASSUME TypeOK, InStep, NEW s \in Session, InOrder(s), InOrder(s)', Handshaking(s), Scanned(s),
         ReceiveMetadata(s), TypeOK'
  PROVE  OnCourse(s)'
<1> DEFINE remote == Head(down[s]).listing
           dst == IF mode[s] = "push" THEN remote ELSE csnap[s]
<1>1. /\ cpc[s] = "awaitMetadata" /\ cpc'[s] = "operations" /\ Arrived(s) = "METADATA"
      /\ mode' = mode /\ csnap' = csnap /\ rsnap'[s] = remote /\ spc' = spc /\ faults' = faults
      /\ applied' = applied /\ local' = local /\ served' = served /\ temp' = temp
  BY DEF ReceiveMetadata, CGoto, server, TypeOK, ClientTyped
<1>2. plan[s] = {} /\ applied[s] = 0 /\ spc[s] \notin {"writing", "copying"}
  BY <1>1, OpeningEmpty DEF Opening, InOrder, Planned
<1>3. Head(down[s]) \in Messages(down[s]) /\ Head(down[s]).type = "METADATA"
  BY <1>1, ReceivedMessages
<1>4. /\ Seen(csnap[s], local[Owner[s]]) /\ Seen(remote, served)
      /\ WellFormed(local[Owner[s]]) /\ WellFormed(served)
  BY <1>1, <1>3 DEF Handshaking
<1>5. faults = 0 => remote = ListingOf(served) /\ csnap[s] = ListingOf(local[Owner[s]])
  BY <1>1, <1>3 DEF Scanned, ScanOf
<1>6. Target(s)' = Target(s) /\ TargetListing(s)' = dst /\ Flat(SourceListing(s)')
  BY <1>1, <1>4 DEF Target, TargetListing, SourceListing, Seen
<1>7. WellFormed(Target(s)) /\ Seen(dst, Target(s))
  BY <1>4 DEF Target
<1>8. \A p \in Path : dst[p] # Absent => Target(s)[p] = dst[p]
  BY <1>7 DEF Seen
<1>9. faults = 0 => dst = ListingOf(Target(s))
  BY <1>5 DEF Target
<1>10. ASSUME faults = 0, NEW p \in Path, IsFile(Target(s), p) PROVE dst[p] # Absent
  <2> HIDE DEF dst
  <2>1. dst[p] = Target(s)[p] /\ Target(s)[p] \in FileData
    BY <1>9, <1>10 DEF ListingOf, IsFile
  <2>2. dst[p] # Absent
    BY <2>1, EntryAssumption
  <2> QED
    BY <2>2 DEF dst
<1>11. HalfDone(s)' = {}
  BY <1>1, <1>2, NothingHalf
<1>12. FirstOps(plan'[s], applied'[s]) = {}
  <2>1. Ordered(plan'[s])
    <3>1. SourceListing(s)' \in Listing /\ TargetListing(s)' \in Listing
      BY DEF SourceListing, TargetListing, TypeOK, ClientTyped
    <3>2. CASE plan'[s] = {}
      BY <3>2, FS_EmptySet DEF Ordered
    <3>3. CASE plan'[s] # {}
      <4>1. PICK rank \in Orders(DestToSource(SourceListing(s)', TargetListing(s)')) :
                   plan'[s] = Plan(SourceListing(s)', TargetListing(s)', rank)
        BY <3>3 DEF InOrder, Planned
      <4> QED
        BY <3>1, <4>1, PlanOrdered
    <3> QED
      BY <3>2, <3>3
  <2>2. FirstOps(plan'[s], 0) = {}
    BY <2>1, FirstOpsGrow
  <2> QED
    BY <1>1, <1>2, <2>2
<1> HIDE DEF dst, remote
<1>13. Course(Target(s)', temp'[s], SourceListing(s)', dst, plan'[s], {}, {}, faults' = 0)
  BY <1>1, <1>6, <1>7, <1>8, <1>10, CourseBegins
<1> QED
  BY <1>6, <1>11, <1>12, <1>13 DEF OnCourse, Flat

\* The plan is made when the handshake is over, and no sooner.
LEMMA PlanningEnds ==
  ASSUME TypeOK, NEW s \in Session, Opening(s), ~ Opening(s)', Going(s)',
         ServerCrash \/ Connect(s) \/ ClientStep(s) \/ ClientDies(s) \/ HandlerStep(s)
  PROVE  ReceiveMetadata(s)
<1>1. cpc'[s] # "failed"
  BY NotGoing
<1>2. ~ UNCHANGED cpc
  BY DEF Opening
<1>3. ~ ServerCrash /\ ~ HandlerStep(s)
  BY <1>2 DEF ServerCrash, HandlerStep, ReceiveHello, ScanServed, ExchangeMetadata, ReceiveFails,
         SendFile, ReceiveFile, FinishFile, DeleteFile, ReceiveCopy, FinishCopy, ReceiveLast,
         ReplySent, ReplyAbandoned, CloseConnection, client
<1>4. ~ ClientFails(s)
  BY <1>1, FailingMessages
<1>5. ~ Connect(s) /\ ~ ReceiveOK(s) /\ ~ (ScanLocal(s) /\ ~ ClientFails(s))
  BY DEF Connect, ReceiveOK, ScanLocal, CGoto, Opening, TypeOK, ClientTyped
<1>6. ~ ExecuteOperation(s) /\ ~ SendDone(s)
  BY DEF ExecuteOperation, Current, SendDone, Opening
<1> QED
  BY <1>3, <1>4, <1>5, <1>6 DEF ClientStep, ClientDies, ReceiveUnexpected, SkipFile,
     WriteReceivedFile, FinishReceivedFile, CopyItem, DrainReply, ReceiveDone, ConnectionLost,
     Opening

LEMMA InitCourse == Init => CourseInv
  BY DEF Init, CourseInv, Opening

LEMMA StaysOnCourse ==
  ASSUME TypeOK, NEW s \in Session, InOrder(s), ~ Opening(s), Going(s), OnCourse(s), Going(s)',
         Overtaken(SourceListing(s), plan[s]) = {}, faults' = 0 => faults = 0,
         UNCHANGED <<mode[s], csnap[s], rsnap[s], plan[s]>>,
         Moves(s) \/ UNCHANGED Sequential(s)!vars
  PROVE  OnCourse(s)'
<1>1. /\ SourceListing(s)' = SourceListing(s) /\ TargetListing(s)' = TargetListing(s)
      /\ plan'[s] = plan[s]
  BY DEF SourceListing, TargetListing
<1>2. Course(Target(s)', temp'[s], SourceListing(s), TargetListing(s), plan[s],
             FirstOps(plan[s], applied'[s]), HalfDone(s)', faults = 0)
  <2>1. CASE Works(s)
    <3>1. PICK o \in plan[s] : \/ StartsTransfer(s, o) \/ StartsCopy(s, o) \/ DeletesFile(s, o)
                               \/ DeletesTemp(s, o) \/ FillsFile(s, o) \/ CopiesFile(s, o)
      BY <2>1 DEF Works
    <3>2. CASE FillsFile(s, o) \/ CopiesFile(s, o)
      BY <3>2, EndsOnCourse
    <3>3. CASE StartsTransfer(s, o) \/ StartsCopy(s, o) \/ DeletesFile(s, o) \/ DeletesTemp(s, o)
      <4>1. Starts(s, o)
        BY <3>3 DEF StartsTransfer, StartsCopy, DeletesFile, DeletesTemp
      <4> QED
        BY <3>3, <4>1, BeginsOnCourse
    <3> QED
      BY <3>1, <3>2, <3>3
  <2>2. CASE Rests(s)
    <3>1. /\ Target(s)' = Target(s) /\ temp'[s] = temp[s] /\ applied'[s] = applied[s]
          /\ HalfDone(s)' = HalfDone(s)
      BY <2>2 DEF Rests
    <3> QED
      BY <3>1 DEF OnCourse
  <2>3. UNCHANGED Sequential(s)!vars => Rests(s)
    BY DEF Sequential!vars, Rests
  <2> QED
    BY <2>1, <2>2, <2>3 DEF Moves
<1>3. (faults = 0)' => faults = 0
  OBVIOUS
<1>4. Course(Target(s)', temp'[s], SourceListing(s), TargetListing(s), plan[s],
             FirstOps(plan[s], applied'[s]), HalfDone(s)', (faults = 0)')
  BY <1>2, <1>3, CourseFewer
<1> QED
  BY <1>1, <1>4 DEF OnCourse, Flat, FirstOps, Pos

LEMMA NextCourse ==
  /\ TypeOK /\ TypeOK' /\ InStep /\ InStep' /\ OrderInv /\ OrderInv' /\ KeptInv /\ GoalInv /\ AskInv
  /\ CourseInv /\ [Next]_vars
  => CourseInv'
<1> SUFFICES ASSUME TypeOK, TypeOK', InStep, InStep', OrderInv, OrderInv', KeptInv, GoalInv, AskInv,
                    CourseInv, [Next]_vars, NEW s \in Session, Alone(s)', ~ Opening(s)', Going(s)',
                    Overtaken(SourceListing(s)', plan'[s]) = {}
             PROVE  OnCourse(s)'
  BY DEF CourseInv
<1>1. Moves(s) \/ UNCHANGED Sequential(s)!vars
  BY StepImplements
<1>2. InOrder(s) /\ InOrder(s)'
  BY DEF OrderInv
<1>3. CASE UNCHANGED vars
  <2>1. /\ mode' = mode /\ csnap' = csnap /\ rsnap' = rsnap /\ cpc' = cpc /\ spc' = spc
        /\ refused' = refused /\ plan' = plan /\ down' = down /\ faults' = faults
    BY <1>3 DEF vars, client, server, trees
  <2>2. Alone(s) /\ ~ Opening(s) /\ Going(s) /\ SourceListing(s)' = SourceListing(s)
    BY <2>1 DEF Alone, Opening, Going, SourceListing
  <2>3. OnCourse(s)
    BY <2>1, <2>2 DEF CourseInv
  <2> QED
    BY <1>1, <1>2, <2>1, <2>2, <2>3, StaysOnCourse
<1>4. CASE Next /\ ~ UNCHANGED vars
  <2>1. /\ SessionKept(s) /\ GoalKept(s) /\ Alone(s)
        /\ ServerCrash \/ Connect(s) \/ ClientStep(s) \/ ClientDies(s) \/ HandlerStep(s)
    BY <1>4, StepIsItsOwn DEF KeptInv, GoalInv
  <2>2. CASE Opening(s)
    <3>1. ReceiveMetadata(s)
      BY <2>1, <2>2, PlanningEnds
    <3> QED
      BY <1>2, <2>1, <2>2, <3>1, CourseStarts DEF SessionKept, GoalKept
  <2>3. CASE ~ Opening(s)
    <3>1. ~ Connect(s)
      BY <2>3 DEF Connect, Opening
    <3>2. Going(s) /\ UNCHANGED <<mode[s], csnap[s], rsnap[s], plan[s]>>
      BY <2>1, <2>3, <3>1, GoingStill, PlanRemains
    <3>3. SourceListing(s)' = SourceListing(s) /\ plan'[s] = plan[s]
      BY <3>2 DEF SourceListing
    <3>4. OnCourse(s)
      BY <2>1, <2>3, <3>2, <3>3 DEF CourseInv
    <3>5. faults' = 0 => faults = 0
      BY <2>1, FaultsGrow
    <3> QED
      BY <1>1, <1>2, <2>3, <3>2, <3>3, <3>4, <3>5, StaysOnCourse
  <2> QED
    BY <2>2, <2>3
<1> QED
  BY <1>3, <1>4

\* Whatever has gone wrong, as long as a session by itself can still succeed every
\* operation that is over has its effect on the target, a saved file is there until it is
\* deleted, and of the rest of the tree nothing is lost but what lay under a directory that
\* had to give way to a file (executeTransfers, handleFileTransfers).
LEMMA SpecCourseInv == Spec => []CourseInv
  BY InitCourse, NextCourse, InitKept, NextKept, SpecTypeOK, SpecInStep, SpecOrderInv, SpecGoalInv,
     SpecAskInv, PTL DEF Spec

\* Success without a refusal means that the target mirrors the listing of the source if no
\* operation of the plan reads a file an earlier one has overwritten, for any number of
\* paths, any trees, any order of the dictionary, any window, and in a push any faults.
THEOREM SpecMirrorUnlessOvertaken == Spec => []MirrorUnlessOvertaken
<1>1. TypeOK /\ InStep /\ OrderInv /\ CourseInv => MirrorUnlessOvertaken
  <2> SUFFICES ASSUME TypeOK, InStep, OrderInv, CourseInv, NEW s \in Session, Alone(s),
                      cpc[s] = "ok", ~ refused[s], mode[s] = "push" \/ faults = 0,
                      Overtaken(SourceListing(s), plan[s]) = {}
               PROVE  Mirrors(Target(s), SourceListing(s), TargetListing(s))
    BY DEF MirrorUnlessOvertaken
  <2>1. InOrder(s) /\ ~ Opening(s) /\ Going(s)
    BY DEF OrderInv, Opening, Going
  <2>2. OnCourse(s)
    BY <2>1 DEF CourseInv
  <2>3. PlanFor(SourceListing(s), TargetListing(s), plan[s]) /\ Ordered(plan[s])
    BY <2>1, <2>2, PlanIsFor DEF OnCourse
  <2>4. mode[s] \in {"push", "pull"}
    BY OrderTyped
  <2>5. applied[s] = Cardinality(plan[s])
    BY <2>1, <2>4 DEF InOrder, PushInOrder, PullInOrder
  <2>6. HalfDone(s) = {}
    <3>1. mode[s] = "push" => spc[s] \in {"closing", "closed"}
      BY DEF InStep, SessionInStep, LastWord
    <3> QED
      BY <3>1, NothingHalf
  <2>7. FirstOps(plan[s], applied[s]) = plan[s]
    BY <2>3, <2>5, FirstOpsGrow
  <2>8. Course(Target(s), temp[s], SourceListing(s), TargetListing(s), plan[s], plan[s], {},
               faults = 0)
    BY <2>2, <2>6, <2>7 DEF OnCourse
  <2> DEFINE t == Target(s)
             m == temp[s]
             src == SourceListing(s)
             dst == TargetListing(s)
             P == plan[s]
             z == faults = 0
  <2>9. PlanFor(src, dst, P) /\ Course(t, m, src, dst, P, P, {}, z)
    BY <2>3, <2>8
  <2> HIDE DEF t, m, src, dst, P, z
  <2>10. \A p \in Path : IF src[p] # Absent THEN t[p] = src[p]
                         ELSE dst[p] # Absent \/ z => ~ IsFile(t, p)
    BY <2>9, CourseEnds
  <2> USE DEF t, src, dst, z
  <2> QED
    BY <2>10 DEF Mirrors
<1> QED
  BY <1>1, SpecTypeOK, SpecInStep, SpecOrderInv, SpecCourseInv, PTL

-----------------------------------------------------------------------------
(* Pushes side by side: several clients at once, without a directory on    *)
(* either side and without faults, each with files of its own              *)

\* No two sessions have a file in common.
Separate == \A s, t \in Session : s # t => Touched(s) \cap Touched(t) = {}

\* Pushes only, and the served tree has no directory.
OnlyFiles ==
    /\ \A s \in Session : mode[s] = "push" /\ \A q \in TempPlace : temp[s][q] # Dir
    /\ \A p \in Path : served[p] # Dir

At(s, c, h, u, d) == cpc[s] = c /\ spc[s] \in h /\ up[s] = u /\ down[s] = d

\* The conversation of a push in which nothing goes wrong.
Greeting(s) ==
    \/ At(s, "idle", {"none"}, <<>>, <<>>)
    \/ At(s, "awaitOK", {"hello"}, <<Hello("push", ProtocolMajor)>>, <<>>)
    \/ At(s, "awaitOK", {"scan", "metadata"}, <<>>, <<Simple("OK")>>)
    \/ At(s, "scan", {"scan", "metadata"}, <<>>, <<>>)
    \/ At(s, "awaitMetadata", {"scan", "metadata"}, <<Metadata(csnap[s])>>, <<>>)
    \/ At(s, "awaitMetadata", {"loop"}, <<>>, <<Metadata(ssnap[s])>>)

AtWork(s) ==
    /\ cpc[s] \in {"operations", "awaitDone"} /\ spc[s] \in {"loop", "writing", "copying"}
    /\ down[s] = <<>> /\ \A m \in Messages(up[s]) : m.type \in Operating \cup {"DONE"}

Through(s) ==
    \/ At(s, "awaitDone", {"closing", "closed"}, <<>>, <<Simple("DONE")>>)
    \/ At(s, "ok", {"closing", "closed"}, <<>>, <<>>)

Smooth(s) ==
    /\ ~ refused[s] /\ ~ serverErrors[s]
    /\ Greeting(s) \/ AtWork(s) \/ Through(s)

\* Of the paths no other session is about, what the handler has listed is still there.
Fresh(s) ==
    \A p \in Path : (\A t \in Session \ {s} : p \notin Touched(t)) => ssnap[s][p] = served[p]

Prepared(s) ==
    /\ cpc[s] \notin {"idle", "awaitOK", "scan"} => csnap[s] = ListingOf(local[Owner[s]])
    /\ Opening(s) => \A q \in TempPlace : temp[s][q] = Absent
    /\ Opening(s) /\ spc[s] \in {"metadata", "loop"} => Fresh(s)

Underway(s) ==
    ~ Opening(s) =>
        /\ Carrying(s)
        /\ Held(served, temp[s], csnap[s], rsnap[s], plan[s], FirstOps(plan[s], applied[s]),
                HalfDone(s))

Beside(s) == Smooth(s) /\ Prepared(s) /\ Underway(s)

BesideInv == faults = 0 /\ Separate => \A s \in Session : Beside(s)

LEMMA FlatOperations ==
  ASSUME \A q \in Path : Above[q] = {}, NEW t \in Tree, NEW p \in Path
  PROVE  /\ CanMakeParents(t, p) /\ ParentsExist(t, p)
         /\ WithParents(t, p) = t /\ TryWithParents(t, p) = t /\ Pruned(t, p) = t
         /\ Removed(t, p) = [t EXCEPT ![p] = Absent]
         /\ Writable(t, p) <=> t[p] # Dir
         /\ \A from, data : ItemCopied(t, from, data, p) = {[t EXCEPT ![p] = data]}
<1>1. t = [q \in Path |-> t[q]]
  BY DEF Tree
<1>2. CanMakeParents(t, p) /\ ParentsExist(t, p)
  BY DEF CanMakeParents, ParentsExist
<1>3. WithParents(t, p) = t /\ Pruned(t, p) = t
  BY <1>1 DEF WithParents, Pruned
<1>4. Removed(t, p) = [t EXCEPT ![p] = Absent]
  BY <1>1 DEF Removed
<1>5. ASSUME NEW from, NEW data
      PROVE  ItemCopied(t, from, data, p) = {[t EXCEPT ![p] = data]}
  <2>1. CASE data = Dir
    <3> DEFINE Put(w) == [q \in Path |-> IF q = p THEN Dir ELSE IF q \in Below(p) THEN w[q] ELSE t[q]]
    <3>1. Below(p) = {}
      BY DEF Below
    <3>2. [q \in {} |-> Absent] \in Unpacked(t, from, p)
      BY <3>1 DEF Unpacked
    <3>3. \A w : Put(w) = [t EXCEPT ![p] = data]
      BY <1>1, <2>1, <3>1
    <3>4. ItemCopied(t, from, data, p) = {Put(w) : w \in Unpacked(t, from, p)}
      BY <2>1 DEF ItemCopied
    <3> HIDE DEF Put
    <3> QED
      BY <3>2, <3>3, <3>4
  <2>2. CASE data # Dir
    BY <2>2 DEF ItemCopied
  <2> QED
    BY <2>1, <2>2
<1> QED
  BY <1>2, <1>3, <1>4, <1>5 DEF TryWithParents, Writable

\* What there is to put at a place.
Stuff(s) ==
    FileData \cup {Absent} \cup {served[q] : q \in Path} \cup {temp[s][q] : q \in TempPlace}

\* A handler changes the served tree at one place at a time, of those its plan is about.
LEMMA HandlerChanges ==
  ASSUME \A q \in Path : Above[q] = {}, TypeOK, NEW s \in Session, InOrder(s), HandlerStep(s)
  PROVE  /\ \/ UNCHANGED served
            \/ \E p \in Touched(s), v \in Stuff(s) : served' = [served EXCEPT ![p] = v]
         /\ \/ UNCHANGED temp
            \/ \E q \in TempPlace, v \in Stuff(s) : temp' = [temp EXCEPT ![s][q] = v]
<1>1. served \in Tree /\ Torn \in Stuff(s) /\ Absent \in Stuff(s)
  BY DEF TypeOK, TreesTyped, Stuff, FileData
<1>2. \A o \in plan[s] : /\ o.to \in Path => o.to \in Touched(s)
                         /\ o.to \in Path \/ o.to \in TempPlace
  BY PlanTells, OpParts, PlaceCases DEF Touched
<1>3. CASE ReceiveFile(s)
  <2>1. PICK o \in plan[s] : /\ o \in Op /\ Carries(Head(up[s]), o)
                             /\ Head(up[s]).type = "FILE"
    BY <1>3, HandlerTakes
  <2>2. Head(up[s]).path = o.to /\ o.to \in Path
    BY <2>1, OpParts DEF Carries
  <2>3. TryWithParents(served, o.to) = served
    BY <1>1, <2>2, FlatOperations
  <2> QED
    BY <1>1, <1>2, <1>3, <2>2, <2>3 DEF ReceiveFile
<1>4. CASE DeleteFile(s)
  <2>1. PICK o \in plan[s] : /\ o \in Op /\ Carries(Head(up[s]), o)
                             /\ Head(up[s]).type = "DELETE"
    BY <1>4, HandlerTakes
  <2>2. Head(up[s]).path = o.to
    BY <2>1 DEF Carries
  <2>3. CASE o.to \in TempPlace
    BY <1>1, <1>4, <2>2, <2>3 DEF DeleteFile
  <2>4. CASE o.to \notin TempPlace
    <3>1. o.to \in Path
      BY <1>2, <2>4
    <3>2. Removed(served, o.to) = [served EXCEPT ![o.to] = Absent]
          /\ Removed(served, o.to) \in Tree
      BY <1>1, <3>1, FlatOperations, TreeOperations
    <3>3. Pruned(Removed(served, o.to), o.to) = [served EXCEPT ![o.to] = Absent]
      BY <3>1, <3>2, FlatOperations
    <3> QED
      BY <1>1, <1>2, <1>4, <2>2, <2>4, <3>1, <3>3 DEF DeleteFile
  <2> QED
    BY <2>3, <2>4
<1>5. CASE ReceiveCopy(s)
  <2>1. PICK o \in plan[s] : /\ o \in Op /\ Carries(Head(up[s]), o)
                             /\ Head(up[s]).type = "COPY"
    BY <1>5, HandlerTakes
  <2>2. Head(up[s]).to = o.to
    BY <2>1 DEF Carries
  <2>3. o.to \in Path => ReadyForCopy(served, o.to) = [served EXCEPT ![o.to] = Absent]
    BY <1>1, FlatOperations DEF ReadyForCopy
  <2>4. o.to \notin Path => ReadyForCopy(served, o.to) = served
    BY DEF ReadyForCopy
  <2> QED
    BY <1>1, <1>2, <1>5, <2>2, <2>3, <2>4 DEF ReceiveCopy
<1>6. CASE FinishFile(s)
  <2>1. mode[s] = "push" /\ spc[s] = "writing" /\ sjob[s] \in FileMessage
    BY <1>6, OnlyPushesChange DEF FinishFile, TypeOK, JobsTyped
  <2>2. sjob[s].path \in Touched(s) /\ sjob[s].data \in Stuff(s)
    BY <1>2, <2>1, HalfIs DEF FileMessage, Stuff
  <2>3. UNCHANGED temp /\ (UNCHANGED served \/ served' \in Filled(served, sjob[s].path, sjob[s].data))
    BY <1>6 DEF FinishFile
  <2> QED
    BY <1>1, <2>2, <2>3 DEF Filled
<1>7. CASE FinishCopy(s)
  <2>1. PICK o \in plan[s] : sjob[s].from = o.from /\ sjob[s].to = o.to /\ o.act = "copy"
    BY <1>7, OnlyPushesChange, HalfIs DEF FinishCopy
  <2>2. o.from \in Path \/ o.from \in TempPlace
    BY <2>1, PlanTells, OpParts, PlaceCases
  <2>3. StoredAt(served, s, o.from) \in Stuff(s)
    BY <2>2 DEF StoredAt, Stuff
  <2>4. o.to \in Path => \A from, data :
            ItemCopied(served, from, data, o.to) = {[served EXCEPT ![o.to] = data]}
    BY <1>1, FlatOperations
  <2> QED
    BY <1>2, <1>7, <2>1, <2>3, <2>4 DEF FinishCopy
<1>8. CASE ~ (ReceiveFile(s) \/ FinishFile(s) \/ DeleteFile(s) \/ ReceiveCopy(s) \/ FinishCopy(s))
  BY <1>8 DEF HandlerStep, ReceiveHello, ScanServed, ExchangeMetadata, ReceiveFails, SendFile,
              ReceiveLast, ReplySent, ReplyAbandoned, CloseConnection, trees
<1> QED
  BY <1>3, <1>4, <1>5, <1>6, <1>7, <1>8

\* The client of a push changes no tree and nothing its handler keeps.
LEMMA PushClientReads ==
  ASSUME TypeOK, NEW s \in Session, InOrder(s), mode[s] = "push",
         Connect(s) \/ ClientStep(s) \/ ClientDies(s)
  PROVE  /\ UNCHANGED <<local, served, temp, applied, mode, ssnap, sjob, out, refused>>
         /\ ~ Connect(s) => UNCHANGED spc
<1>1. cpc[s] \notin {"awaitFile", "writing", "copying"}
  BY DEF InOrder, PushInOrder
<1>2. CASE ExecuteOperation(s)
  <2>1. PICK o \in todo[s] : \/ Upload(s, o) \/ SendRemote(s, o) \/ RequestFile(s, o)
                             \/ PrepareCopy(s, o) \/ DeleteLocal(s, o)
    BY <1>2 DEF ExecuteOperation
  <2>2. Upload(s, o) \/ SendRemote(s, o)
    BY <2>1 DEF RequestFile, PrepareCopy, DeleteLocal
  <2> QED
    BY <1>2, <2>2 DEF Upload, SendRemote, ClientFails, trees, server, ExecuteOperation, Current,
                      Connect
<1>3. CASE Connect(s)
  BY <1>3 DEF Connect, trees
<1>4. ~ (SkipFile(s) \/ WriteReceivedFile(s) \/ FinishReceivedFile(s) \/ CopyItem(s))
  BY <1>1 DEF SkipFile, WriteReceivedFile, FinishReceivedFile, CopyItem
<1> QED
  BY <1>2, <1>3, <1>4
     DEF ClientStep, ClientDies, ReceiveOK, ScanLocal, ReceiveMetadata, ReceiveUnexpected, SendDone,
         DrainReply, ReceiveDone, ConnectionLost, ClientFails, trees, server

LEMMA InitOnlyFiles ==
  ASSUME Modes = {"push"}, \A sc \in Scenarios : \A p \in Path : sc.served[p] # Dir
  PROVE  Init => OnlyFiles
<1> SUFFICES ASSUME Init PROVE OnlyFiles
  OBVIOUS
<1>1. \A p \in Path : served[p] # Dir
  BY DEF Init
<1> QED
  BY <1>1, EntryAssumption DEF Init, OnlyFiles

LEMMA NextOnlyFiles ==
  ASSUME \A q \in Path : Above[q] = {}
  PROVE  TypeOK /\ OrderInv /\ OnlyFiles /\ [Next]_vars => OnlyFiles'
<1> SUFFICES ASSUME TypeOK, OrderInv, OnlyFiles, [Next]_vars PROVE OnlyFiles'
  OBVIOUS
<1>1. CASE UNCHANGED <<mode, served, temp>>
  BY <1>1 DEF OnlyFiles
<1>2. ASSUME NEW s \in Session, HandlerStep(s)
      PROVE  OnlyFiles'
  <2>1. mode' = mode
    BY <1>2 DEF HandlerStep, ReceiveHello, ScanServed, ExchangeMetadata, ReceiveFails, SendFile,
                ReceiveFile, FinishFile, DeleteFile, ReceiveCopy, FinishCopy, ReceiveLast, ReplySent,
                ReplyAbandoned, CloseConnection, client
  <2>2. \A v \in Stuff(s) : v # Dir
    BY EntryAssumption DEF Stuff, OnlyFiles
  <2>3. served \in Tree /\ temp \in [Session -> [TempPlace -> Entry]] /\ Touched(s) \subseteq Path
    BY DEF TypeOK, TreesTyped, Touched
  <2>4. \/ UNCHANGED served
        \/ \E p \in Touched(s), v \in Stuff(s) : served' = [served EXCEPT ![p] = v]
    BY <1>2, HandlerChanges DEF OrderInv
  <2>5. \/ UNCHANGED temp
        \/ \E q \in TempPlace, v \in Stuff(s) : temp' = [temp EXCEPT ![s][q] = v]
    BY <1>2, HandlerChanges DEF OrderInv
  <2>6. \A p \in Path : served'[p] # Dir
    BY <2>2, <2>3, <2>4 DEF OnlyFiles, Tree
  <2>7. \A t \in Session, q \in TempPlace : temp'[t][q] # Dir
    BY <2>2, <2>3, <2>5 DEF OnlyFiles
  <2> QED
    BY <2>1, <2>6, <2>7 DEF OnlyFiles
<1>3. ASSUME NEW s \in Session, Connect(s) \/ ClientStep(s) \/ ClientDies(s)
      PROVE  OnlyFiles'
  BY <1>1, <1>3, PushClientReads DEF OrderInv, OnlyFiles
<1>4. UNCHANGED vars \/ Quiet \/ ServerCrash => UNCHANGED <<mode, served, temp>>
  BY DEF vars, Quiet, ServerCrash, trees, client
<1> QED
  BY <1>1, <1>2, <1>3, <1>4 DEF Next

\* What a plan is about, it stays about.
LEMMA PlansGrow ==
  ASSUME TypeOK, OrderInv, [Next]_vars, NEW t \in Session
  PROVE  Touched(t) \subseteq Touched(t)'
<1>1. plan'[t] = plan[t] \/ plan[t] = {}
  <2>1. UNCHANGED vars \/ Quiet \/ ServerCrash => plan' = plan
    BY DEF vars, Quiet, ServerCrash, trees
  <2>2. ASSUME NEW s \in Session, Connect(s) \/ ClientStep(s) \/ ClientDies(s) \/ HandlerStep(s)
        PROVE  plan'[t] = plan[t] \/ plan[t] = {}
    <3>1. CASE s # t
      BY <2>2, <3>1, OthersOrder DEF OrderPart
    <3>2. CASE s = t /\ Opening(t)
      BY <3>2 DEF OrderInv, InOrder, Planned
    <3>3. CASE s = t /\ ~ Opening(t)
      <4>1. ~ Connect(s)
        BY <3>3 DEF Connect, Opening
      <4> QED
        BY <2>2, <3>3, <4>1, PlanRemains
    <3> QED
      BY <3>1, <3>2, <3>3
  <2> QED
    BY <2>1, <2>2 DEF Next
<1> QED
  BY <1>1 DEF Touched

LEMMA OthersApart ==
  ASSUME TypeOK, NEW s \in Session, NEW t \in Session \ {s},
         Connect(s) \/ ClientStep(s) \/ ClientDies(s) \/ HandlerStep(s)
  PROVE  UNCHANGED <<ssnap[t], refused[t], serverErrors[t], temp[t]>>
<1>1. /\ ssnap \in [Session -> Listing] /\ refused \in [Session -> BOOLEAN]
      /\ serverErrors \in [Session -> BOOLEAN]
      /\ temp \in [Session -> [TempPlace -> Entry]]
  BY DEF TypeOK, TreesTyped, ClientTyped, ServerTyped
<1>2. CASE UNCHANGED <<ssnap, refused, serverErrors, temp>>
  BY <1>2
<1>3. CASE Connect(s) \/ ClientDies(s)
  BY <1>2, <1>3 DEF Connect, ClientDies, ClientFails, trees, server
<1>4. CASE ExecuteOperation(s)
  <2>1. PICK o \in todo[s] : \/ Upload(s, o) \/ SendRemote(s, o) \/ RequestFile(s, o)
                             \/ PrepareCopy(s, o) \/ DeleteLocal(s, o)
    BY <1>4 DEF ExecuteOperation
  <2>2. CASE Upload(s, o) \/ SendRemote(s, o) \/ RequestFile(s, o)
    BY <1>2, <2>2 DEF Upload, SendRemote, RequestFile, ClientFails, trees, server
  <2>3. CASE PrepareCopy(s, o)
    BY <1>2, <2>3 DEF PrepareCopy, ClientFails, server
  <2>4. CASE DeleteLocal(s, o)
    BY <1>1, <2>4 DEF DeleteLocal, server
  <2> QED
    BY <2>1, <2>2, <2>3, <2>4
<1>5. CASE ReceiveOK(s) \/ ScanLocal(s) \/ ReceiveMetadata(s) \/ ReceiveUnexpected(s)
           \/ SendDone(s) \/ ReceiveDone(s) \/ ConnectionLost(s)
  BY <1>2, <1>5 DEF ReceiveOK, ScanLocal, ReceiveMetadata, ReceiveUnexpected, SendDone, ReceiveDone,
                    ConnectionLost, ClientFails, trees, server
<1>6. CASE SkipFile(s) \/ WriteReceivedFile(s) \/ FinishReceivedFile(s)
  BY <1>2, <1>6 DEF SkipFile, WriteReceivedFile, FinishReceivedFile, ClientFails, trees, server
<1>7. CASE CopyItem(s)
  BY <1>1, <1>7 DEF CopyItem, ClientFails, trees, server
<1>8. CASE DrainReply(s)
  BY <1>1, <1>8 DEF DrainReply, trees, server
<1>9. CASE SendFile(s) \/ ReceiveFile(s) \/ FinishFile(s) \/ ReceiveCopy(s)
  BY <1>1, <1>9 DEF SendFile, ReceiveFile, FinishFile, ReceiveCopy, Refuse, trees, client
<1>10. CASE DeleteFile(s) \/ FinishCopy(s)
  BY <1>1, <1>10 DEF DeleteFile, FinishCopy, Refuse, client
<1>11. CASE \/ ReceiveHello(s) \/ ScanServed(s) \/ ExchangeMetadata(s) \/ ReceiveFails(s)
            \/ ReceiveLast(s) \/ ReplySent(s) \/ ReplyAbandoned(s) \/ CloseConnection(s)
  BY <1>1, <1>11 DEF ReceiveHello, ScanServed, ExchangeMetadata, ReceiveFails, ReceiveLast,
                     ReplySent, ReplyAbandoned, CloseConnection, trees, client
<1> QED
  BY <1>3, <1>4, <1>5, <1>6, <1>7, <1>8, <1>9, <1>10, <1>11 DEF ClientStep, HandlerStep

\* A session is where it was when only places of others have changed.
LEMMA BesideStays ==
  ASSUME TypeOK, NEW t \in Session, InOrder(t), Beside(t), mode[t] = "push",
         UNCHANGED OrderPart(t), UNCHANGED <<ssnap[t], refused[t], serverErrors[t], temp[t], local>>,
         \A u \in Session : Touched(u) \subseteq Touched(u)',
         NEW D, D \cap Touched(t) = {}, \A p \in Path \ D : served'[p] = served[p],
         \A p \in D : \E u \in Session \ {t} : p \in Touched(u)
  PROVE  Beside(t)'
<1>1. /\ mode'[t] = mode[t] /\ cpc'[t] = cpc[t] /\ csnap'[t] = csnap[t] /\ rsnap'[t] = rsnap[t]
      /\ cjob'[t] = cjob[t] /\ spc'[t] = spc[t] /\ sjob'[t] = sjob[t]
      /\ out'[t] = out[t] /\ up'[t] = up[t] /\ down'[t] = down[t] /\ plan'[t] = plan[t]
      /\ applied'[t] = applied[t] /\ ssnap'[t] = ssnap[t] /\ refused'[t] = refused[t]
      /\ serverErrors'[t] = serverErrors[t] /\ temp'[t] = temp[t] /\ local' = local
  BY DEF OrderPart
<1>2. Smooth(t)'
  <2>1. Greeting(t)' <=> Greeting(t)
    BY <1>1 DEF Greeting, At
  <2>2. /\ AtWork(t)' <=> AtWork(t)
        /\ Through(t)' <=> Through(t)
    BY <1>1 DEF AtWork, Through, At
  <2> QED
    BY <1>1, <2>1, <2>2 DEF Beside, Smooth
<1>3. Prepared(t)'
  <2>1. Fresh(t) => Fresh(t)'
    BY <1>1 DEF Fresh
  <2> QED
    BY <1>1, <2>1 DEF Beside, Prepared, Opening
<1>4. Underway(t)'
  <2>1. SUFFICES ASSUME ~ Opening(t)
                 PROVE  /\ Carrying(t)'
                        /\ Held(served, temp[t], csnap[t], rsnap[t], plan[t],
                                FirstOps(plan[t], applied[t]), HalfDone(t))'
    BY <1>1 DEF Underway, Opening
  <2>2. /\ Carrying(t)
        /\ Held(served, temp[t], csnap[t], rsnap[t], plan[t], FirstOps(plan[t], applied[t]),
                HalfDone(t))
    BY <2>1 DEF Beside, Underway
  <2>3. \A p \in Touched(t) : p \in Path /\ served'[p] = served[p]
    BY DEF Touched
  <2>4. spc[t] = "writing" => sjob[t].path \in Touched(t)
    <3>1. \A o \in plan[t] : o.act = "transfer" => o.to \in Touched(t)
      BY PlanTells, OpParts DEF Touched
    <3> QED
      BY <3>1, HalfIs
  <2>5. Carrying(t)'
    <3>1. SourceListing(t)' = SourceListing(t) /\ \A m : Faithful(t, m)' <=> Faithful(t, m)
      BY <1>1, SamePlanFaithful DEF SamePlan
    <3>2. AsListed(t)'
      BY <1>1, <2>2, <3>1 DEF Carrying, AsListed, Source
    <3>3. cpc[t] # "writing"
      BY DEF InOrder, PushInOrder
    <3> QED
      BY <1>1, <2>2, <2>3, <2>4, <3>1, <3>2, <3>3 DEF Carrying
  <2>6. HalfDone(t)' = HalfDone(t)
    BY <1>1, StillHalf
  <2>7. FirstOps(plan[t], applied[t]) \in SUBSET plan[t] /\ HalfDone(t) \in SUBSET plan[t]
    BY DEF FirstOps, HalfDone
  <2>8. \A p \in About(plan[t]) : served'[p] = served[p]
    BY <2>3 DEF About, Touched
  <2>9. Held(served', temp[t], csnap[t], rsnap[t], plan[t], FirstOps(plan[t], applied[t]),
             HalfDone(t))
    BY <2>2, <2>7, <2>8, HeldElsewhere
  <2> QED
    BY <1>1, <2>5, <2>6, <2>9 DEF FirstOps, Pos
<1> QED
  BY <1>2, <1>3, <1>4 DEF Beside

\* The steps of one session are nothing to the others.
LEMMA OthersBeside ==
  ASSUME \A q \in Path : Above[q] = {}, TypeOK, OrderInv, OnlyFiles, [Next]_vars, Separate,
         NEW s \in Session, NEW t \in Session \ {s}, Beside(t),
         Connect(s) \/ ClientStep(s) \/ ClientDies(s) \/ HandlerStep(s)
  PROVE  Beside(t)'
<1>1. InOrder(s) /\ InOrder(t) /\ mode[s] = "push" /\ mode[t] = "push"
  BY DEF OrderInv, OnlyFiles
<1>2. UNCHANGED local /\ \A p \in Path \ Touched(s) : served'[p] = served[p]
  <2>1. CASE HandlerStep(s)
    <3>1. UNCHANGED local
      BY <2>1 DEF HandlerStep, ReceiveHello, ScanServed, ExchangeMetadata, ReceiveFails, SendFile,
             ReceiveFile, FinishFile, DeleteFile, ReceiveCopy, FinishCopy, ReceiveLast, ReplySent,
             ReplyAbandoned, CloseConnection, trees
    <3>2. \/ UNCHANGED served
          \/ \E p \in Touched(s), v \in Stuff(s) : served' = [served EXCEPT ![p] = v]
      BY <1>1, <2>1, HandlerChanges
    <3> QED
      BY <3>1, <3>2 DEF TypeOK, TreesTyped, Tree
  <2>2. CASE ~ HandlerStep(s)
    BY <1>1, <2>2, PushClientReads
  <2> QED
    BY <2>1, <2>2
<1>3. UNCHANGED OrderPart(t) /\ UNCHANGED <<ssnap[t], refused[t], serverErrors[t], temp[t]>>
  BY OthersOrder, OthersApart
<1>4. \A u \in Session : Touched(u) \subseteq Touched(u)'
  BY PlansGrow
<1>5. Touched(s) \cap Touched(t) = {}
  BY DEF Separate
<1> QED
  BY <1>1, <1>2, <1>3, <1>4, <1>5, BesideStays

LEMMA WithoutFault == ASSUME TypeOK, faults' = 0 PROVE ~ Fault
  BY DEF Fault, TypeOK

\* What a handler can do where it stands.
LEMMA HandlerAt ==
  ASSUME NEW s, HandlerStep(s)
  PROVE  /\ spc[s] \notin {"none", "closed"}
         /\ spc[s] = "hello" => ReceiveHello(s) \/ (ReceiveFails(s) /\ up[s] = <<>>)
         /\ spc[s] = "scan" => ScanServed(s)
         /\ spc[s] = "metadata" => ExchangeMetadata(s) \/ (ReceiveFails(s) /\ up[s] = <<>>)
         /\ spc[s] = "loop" =>
               \/ ReceiveFails(s) /\ up[s] = <<>>
               \/ Offered(s) = "REQUEST"
               \/ ReceiveFile(s) \/ DeleteFile(s) \/ ReceiveCopy(s)
               \/ ReceiveLast(s)
         /\ spc[s] = "writing" => FinishFile(s)
         /\ spc[s] = "copying" => FinishCopy(s)
         /\ spc[s] = "closing" => CloseConnection(s)
  BY DEF HandlerStep, ReceiveHello, ScanServed, ExchangeMetadata, ReceiveFails, SendFile, ReceiveFile,
         FinishFile, DeleteFile, ReceiveCopy, FinishCopy, ReceiveLast, ReplySent, ReplyAbandoned,
         CloseConnection, Takes

LEMMA ClientAt ==
  ASSUME NEW s, ClientStep(s)
  PROVE  /\ cpc[s] \notin {"idle", "ok", "failed"}
         /\ \/ ConnectionLost(s)
            \/ cpc[s] = "awaitOK" /\ (ReceiveOK(s) \/ ReceiveUnexpected(s))
            \/ cpc[s] = "scan" /\ ScanLocal(s)
            \/ cpc[s] = "awaitMetadata" /\ (ReceiveMetadata(s) \/ ReceiveUnexpected(s))
            \/ cpc[s] = "operations" /\ (ExecuteOperation(s) \/ SendDone(s))
            \/ cpc[s] = "awaitDone" /\ (DrainReply(s) \/ ReceiveDone(s))
            \/ cpc[s] \in {"awaitFile", "writing", "copying"}
  BY DEF ClientStep, ReceiveOK, ScanLocal, ReceiveMetadata, ReceiveUnexpected, ExecuteOperation,
         Current, SkipFile, WriteReceivedFile, FinishReceivedFile, CopyItem, SendDone, DrainReply,
         ReceiveDone, ConnectionLost, Active, Ended

LEMMA SingleMessage ==
  ASSUME NEW m PROVE <<m>> # <<>> /\ Head(<<m>>) = m /\ Tail(<<m>>) = <<>>
  OBVIOUS

\* An empty channel has nothing to offer, and one message is soon taken.
LEMMA OneMessage ==
  ASSUME NEW s, NEW m
  PROVE  /\ up[s] = <<>> => Offered(s) = "nothing"
         /\ down[s] = <<>> => Arrived(s) = "nothing"
         /\ up[s] = <<m>> => Offered(s) = m.type /\ Head(up[s]) = m /\ Tail(up[s]) = <<>>
         /\ down[s] = <<m>> => Arrived(s) = m.type /\ Head(down[s]) = m /\ Tail(down[s]) = <<>>
  BY SingleMessage DEF Offered, Arrived

LEMMA HandlerGreets ==
  ASSUME TypeOK, NEW s \in Session, Greeting(s), HandlerStep(s), faults' = 0
  PROVE  /\ UNCHANGED <<trees, client, refused>> /\ Greeting(s)'
         /\ spc'[s] \in {"metadata", "loop"} =>
               \/ spc[s] = "metadata" /\ ssnap'[s] = ssnap[s]
               \/ ssnap'[s] = ListingOf(served)
<1>1. ~ Fault
  BY WithoutFault
<1>2. /\ spc \in [Session -> HandlerPC] /\ ssnap \in [Session -> Listing]
      /\ up \in [Session -> Seq(UpMessage)] /\ down \in [Session -> Seq(DownMessage)]
  BY DEF TypeOK, ServerTyped, UpTyped, DownTyped
<1>3. CASE At(s, "idle", {"none"}, <<>>, <<>>)
  BY <1>3, HandlerAt DEF At
<1>4. CASE At(s, "awaitOK", {"hello"}, <<Hello("push", ProtocolMajor)>>, <<>>)
  <2> DEFINE m == Simple("OK")
  <2>1. /\ cpc[s] = "awaitOK" /\ spc[s] = "hello" /\ down[s] = <<>> /\ ~ Ended(s)
        /\ up[s] = <<Hello("push", ProtocolMajor)>>
    BY <1>4 DEF At, Ended
  <2>2. /\ Offered(s) = "HELLO" /\ Head(up[s]).major = ProtocolMajor /\ up[s] # <<>>
        /\ Tail(up[s]) = <<>>
    BY <2>1, OneMessage DEF Hello
  <2>3. ReceiveHello(s)
    BY <2>1, <2>2, HandlerAt
  <2>4. m \in DownMessage /\ Reply(s, m, "scan")
    BY <2>2, <2>3, DownMessages DEF ReceiveHello
  <2>5. UNCHANGED <<trees, client, refused>> /\ up'[s] = <<>>
    BY <1>2, <2>2, <2>3 DEF ReceiveHello, Taken
  <2> HIDE DEF m
  <2>6. down'[s] = <<m>> /\ spc'[s] = "scan"
    BY <2>1, <2>4, ReplyEffect
  <2>7. At(s, "awaitOK", {"scan", "metadata"}, <<>>, <<m>>)'
    BY <2>1, <2>5, <2>6 DEF At, client
  <2> QED
    BY <2>5, <2>6, <2>7 DEF Greeting, m
<1>5. CASE spc[s] = "scan"
  <2>1. /\ ssnap'[s] = ListingOf(served) /\ spc'[s] = "metadata"
        /\ UNCHANGED <<trees, client, refused, up, down>>
    BY <1>1, <1>2, <1>5, HandlerAt DEF ScanServed, Lists, SGoto
  <2>2. cpc' = cpc /\ csnap' = csnap
    BY <2>1 DEF client
  <2>3. Greeting(s)'
    BY <1>5, <2>1, <2>2 DEF Greeting, At
  <2> QED
    BY <2>1, <2>3
<1>6. CASE spc[s] = "metadata"
  <2> DEFINE m == Metadata(ssnap[s])
  <2>1. ~ Ended(s) /\ ~ ReceiveFails(s)
    BY <1>1, <1>6 DEF Greeting, At, ReceiveFails, Ended
  <2>2. ExchangeMetadata(s) /\ up[s] # <<>>
    BY <1>6, <2>1, HandlerAt, OneMessage DEF ExchangeMetadata
  <2>3. At(s, "awaitMetadata", {"scan", "metadata"}, <<Metadata(csnap[s])>>, <<>>)
    BY <1>6, <2>2 DEF Greeting, At
  <2>4. /\ cpc[s] = "awaitMetadata" /\ down[s] = <<>> /\ Offered(s) = "METADATA"
        /\ Tail(up[s]) = <<>>
    BY <2>3, OneMessage DEF At, Metadata
  <2>5. m \in DownMessage /\ Reply(s, m, "loop")
    BY <1>2, <2>2, <2>4, DownMessages DEF ExchangeMetadata
  <2>6. UNCHANGED <<trees, client, refused>> /\ up'[s] = <<>> /\ ssnap' = ssnap
    BY <1>2, <2>2, <2>4 DEF ExchangeMetadata, Taken
  <2> HIDE DEF m
  <2>7. down'[s] = <<m>> /\ spc'[s] = "loop"
    BY <2>1, <2>4, <2>5, ReplyEffect
  <2>8. m = Metadata(ssnap'[s])
    BY <2>6 DEF m
  <2>9. Greeting(s)'
    BY <2>4, <2>6, <2>7, <2>8 DEF Greeting, At, client
  <2> QED
    BY <1>6, <2>6, <2>7, <2>9
<1>7. CASE spc[s] = "loop"
  <2>1. up[s] = <<>> /\ ~ Ended(s) /\ Offered(s) = "nothing"
    BY <1>7, OneMessage DEF Greeting, At, Ended
  <2>2. ~ ReceiveFails(s)
    BY <1>1, <2>1 DEF ReceiveFails
  <2>3. FALSE
    BY <1>7, <2>1, <2>2, HandlerAt DEF ReceiveFile, DeleteFile, ReceiveCopy, ReceiveLast, Takes
  <2> QED
    BY <2>3
<1> QED
  BY <1>3, <1>4, <1>5, <1>6, <1>7 DEF Greeting, At

LEMMA HandlerCloses ==
  ASSUME TypeOK, NEW s \in Session, Through(s), HandlerStep(s)
  PROVE  UNCHANGED <<trees, client, refused>> /\ Through(s)'
<1>1. /\ spc \in [Session -> HandlerPC]
      /\ up \in [Session -> Seq(UpMessage)] /\ down \in [Session -> Seq(DownMessage)]
  BY DEF TypeOK, ServerTyped, UpTyped, DownTyped
<1>2. CloseConnection(s) /\ up[s] = <<>>
  BY HandlerAt DEF Through, At
<1>3. /\ UNCHANGED <<trees, client, refused, down>> /\ up'[s] = <<>> /\ spc'[s] = "closed"
  BY <1>1, <1>2 DEF CloseConnection, SGoto
<1> QED
  BY <1>3 DEF Through, At, client

\* What the plan of a push is for.
LEMMA PushPlanIsFor ==
  ASSUME \A q \in Path : Above[q] = {}, TypeOK, NEW s \in Session, InOrder(s), mode[s] = "push",
         ~ Opening(s), cpc[s] # "failed"
  PROVE  PlanFor(csnap[s], rsnap[s], plan[s]) /\ Ordered(plan[s])
<1>1. csnap[s] \in Listing /\ rsnap[s] \in Listing /\ Flat(csnap[s])
  BY OrderTyped DEF Flat
<1>2. \E rank \in Orders(DestToSource(csnap[s], rsnap[s])) :
          plan[s] = Plan(csnap[s], rsnap[s], rank)
  BY DEF InOrder, Planned, SourceListing, TargetListing
<1> QED
  BY <1>1, <1>2, PlanIsOrdered DEF PlanFor, InOrder

\* The last operation begun, if it is half done.
LEMMA HalfFound ==
  ASSUME TypeOK, NEW s \in Session, InOrder(s), Ordered(plan[s]), NEW o \in plan[s],
         HalfDone(s) = {o}
  PROVE  FirstOps(plan[s], applied[s]) = {x \in plan[s] : x.ord <= o.ord}
  BY HalfIsLast, FirstOpsGrow

\* Every operation finds what it needs.
LEMMA NothingRefused ==
  ASSUME \A q \in Path : Above[q] = {}, TypeOK, NEW s \in Session, InOrder(s), OnlyFiles,
         ~ Opening(s), cpc[s] # "failed", faults' = 0,
         Held(served, temp[s], csnap[s], rsnap[s], plan[s], FirstOps(plan[s], applied[s]),
              HalfDone(s)),
         ReceiveFile(s) \/ FinishFile(s) \/ DeleteFile(s) \/ ReceiveCopy(s) \/ FinishCopy(s)
  PROVE  UNCHANGED <<refused, down, out>> /\ spc'[s] \in {"loop", "writing", "copying"}
<1>1. ~ Fault /\ ~ Fails(FALSE)
  BY WithoutFault DEF Fails
<1>2. /\ mode[s] = "push" /\ served \in Tree /\ temp[s] \in [TempPlace -> Entry]
      /\ spc \in [Session -> HandlerPC] /\ \A p \in Path : served[p] # Dir
  BY DEF OnlyFiles, TypeOK, TreesTyped, ServerTyped
<1>3. PlanFor(csnap[s], rsnap[s], plan[s]) /\ Ordered(plan[s])
  BY <1>2, PushPlanIsFor
<1>4. \A o \in plan[s] : o.to \in Path \/ o.to \in TempPlace
  BY PlanTells, OpParts, PlaceCases
<1>5. CASE ReceiveFile(s)
  <2>1. PICK o \in plan[s] : /\ o \in Op /\ Carries(Head(up[s]), o)
                             /\ Head(up[s]).type = "FILE"
    BY <1>5, HandlerTakes
  <2>2. Head(up[s]).path = o.to /\ o.to \in Path
    BY <2>1, OpParts DEF Carries
  <2>3. Writable(TryWithParents(served, o.to), o.to)
    BY <1>2, <2>2, FlatOperations
  <2> QED
    BY <1>1, <1>2, <1>5, <2>2, <2>3 DEF ReceiveFile, SGoto
<1>6. CASE DeleteFile(s)
  <2>1. PICK o \in plan[s] : /\ o \in Op /\ Carries(Head(up[s]), o)
                             /\ Head(up[s]).type = "DELETE" /\ Pos(plan[s], o) = applied[s]
    BY <1>6, HandlerTakes
  <2>2. Head(up[s]).path = o.to /\ o.act = "delete" /\ HalfDone(s) = {} /\ spc[s] = "loop"
    BY <1>6, <2>1, HandlerTakes DEF Carries
  <2>3. ASSUME o.to \in Path PROVE served[o.to] # Absent
    <3>1. o \notin FirstOps(plan[s], applied[s]) /\ FirstOps(plan[s], applied[s]) \in SUBSET plan[s]
      BY <1>3, <2>1, FirstOpsGrow DEF FirstOps
    <3> QED
      BY <1>3, <2>2, <2>3, <3>1, DeletedIsThere
  <2> QED
    BY <1>1, <1>2, <1>4, <1>6, <2>2, <2>3 DEF DeleteFile
<1>7. CASE ReceiveCopy(s)
  <2>1. CanPrepareCopy(served, Head(up[s]).to)
    BY <1>2, FlatOperations DEF CanPrepareCopy
  <2> QED
    BY <1>1, <1>2, <1>7, <2>1 DEF ReceiveCopy, SGoto
<1>8. CASE FinishFile(s)
  BY <1>1, <1>2, <1>8 DEF FinishFile, SGoto
<1>9. CASE FinishCopy(s)
  <2>1. spc[s] = "copying"
    BY <1>9 DEF FinishCopy
  <2>2. PICK o \in plan[s] : /\ HalfDone(s) = {o} /\ o.act = "copy"
                             /\ sjob[s].from = o.from /\ sjob[s].to = o.to
    BY <1>2, <2>1, HalfIs
  <2>3. FirstOps(plan[s], applied[s]) = {x \in plan[s] : x.ord <= o.ord}
    BY <1>3, <2>2, HalfFound
  <2>4. /\ Serves(IF o.from \in Path THEN served[o.from] ELSE temp[s][o.from],
                  WantedAt(csnap[s], plan[s], o), csnap[s], plan[s])
        /\ o.to \in Path => served[o.to] = Absent
        /\ o.to \in TempPlace => temp[s][o.to] = Absent
    <3>1. Held(served, temp[s], csnap[s], rsnap[s], plan[s], {x \in plan[s] : x.ord <= o.ord}, {o})
      BY <2>2, <2>3
    <3> QED
      BY <1>3, <2>2, <3>1, FindsFile
  <2>5. StoredAt(served, s, o.from) # Absent
    BY <2>4, EntryAssumption DEF StoredAt, Serves
  <2>6. StoredAt(served, s, o.to) = Absent
    BY <1>4, <2>4 DEF StoredAt
  <2>7. CanCopy(served, s, o.from, o.to)
    BY <1>2, <2>5, <2>6, FlatOperations DEF CanCopy
  <2> QED
    BY <1>1, <1>2, <1>9, <2>2, <2>7 DEF FinishCopy, SGoto
<1> QED
  BY <1>5, <1>6, <1>7, <1>8, <1>9

\* What an operation leaves behind.
LEMMA WorkHeld ==
  ASSUME \A q \in Path : Above[q] = {}, TypeOK, NEW s \in Session, InOrder(s), mode[s] = "push",
         ~ Opening(s), cpc[s] # "failed", mode'[s] = "push",
         Held(served, temp[s], csnap[s], rsnap[s], plan[s], FirstOps(plan[s], applied[s]),
              HalfDone(s)),
         Works(s) \/ Rests(s)
  PROVE  Held(served', temp'[s], csnap[s], rsnap[s], plan[s], FirstOps(plan[s], applied'[s]),
              HalfDone(s)')
<1> DEFINE src == csnap[s]
           dst == rsnap[s]
           P == plan[s]
           B == FirstOps(P, applied[s])
           H == HalfDone(s)
           t == served
           m == temp[s]
           C == FirstOps(P, applied'[s])
           G == HalfDone(s)'
           u == served'
           n == temp'[s]
<1>1. /\ PlanFor(src, dst, P) /\ Ordered(P) /\ t \in Tree /\ m \in [TempPlace -> Entry]
      /\ B \in SUBSET P
  BY PushPlanIsFor DEF TypeOK, TreesTyped, FirstOps
<1>2. Target(s) = t /\ Target(s)' = u /\ SourceListing(s) = src
  BY DEF Target, SourceListing
<1>3. ASSUME NEW o \in P, Starts(s, o)
      PROVE  H = {} /\ o \notin B /\ C = B \cup {o}
  BY <1>1, <1>3, FirstOpsGrow DEF Starts
<1>4. \A o \in P : /\ o.to \in Path \/ o.to \in TempPlace
                   /\ o.act = "transfer" => o.to \in Path
                   /\ o.to \in TempPlace => o.to \notin Path
  BY PlanTells, OpParts, PlaceCases, PathsAreNumbers
<1>5. ASSUME NEW o \in P, FillsFile(s, o) \/ CopiesFile(s, o)
      PROVE  /\ H = {o} /\ G = {} /\ C = B /\ o \in B /\ B = {x \in P : x.ord <= o.ord}
  <2>1. H = {o} /\ G = {} /\ C = B
    BY <1>5 DEF FillsFile, CopiesFile
  <2>2. B = {x \in P : x.ord <= o.ord}
    BY <1>1, <2>1, HalfFound
  <2>3. o.ord \in Nat
    BY <1>1 DEF Ordered, Op
  <2> QED
    BY <2>1, <2>2, <2>3
<1>6. ASSUME NEW o \in P
      PROVE  /\ StartsTransfer(s, o) =>
                   /\ Starts(s, o) /\ o.act = "transfer" /\ G = {o} /\ n = m
                   /\ u = [WithParents(t, o.to) EXCEPT ![o.to] = Torn]
             /\ StartsCopy(s, o) =>
                   Starts(s, o) /\ o.act = "copy" /\ G = {o} /\ n = m /\ u = ReadyForCopy(t, o.to)
             /\ DeletesFile(s, o) =>
                   /\ Starts(s, o) /\ o.act = "delete" /\ G = {} /\ n = m /\ o.to \in Path
                   /\ u = Pruned(Removed(t, o.to), o.to)
             /\ DeletesTemp(s, o) =>
                   /\ Starts(s, o) /\ o.act = "delete" /\ G = {} /\ u = t /\ o.to \in TempPlace
                   /\ n = [m EXCEPT ![o.to] = Absent] \/ n = m
             /\ FillsFile(s, o) =>
                   o.act = "transfer" /\ n = m /\ u = [t EXCEPT ![o.to] = src[o.to]]
             /\ CopiesFile(s, o) =>
                   /\ o.act = "copy"
                   /\ LET data == IF o.from \in Path THEN t[o.from] ELSE m[o.from]
                      IN  IF o.to \in Path THEN u \in ItemCopied(t, o.from, data, o.to) /\ n = m
                                           ELSE n = [m EXCEPT ![o.to] = data] /\ u = t
  BY <1>2 DEF StartsTransfer, StartsCopy, DeletesFile, DeletesTemp, FillsFile, CopiesFile, Goal,
              StoredAt
<1>7. Rests(s) => C = B /\ G = H /\ n = m /\ u = t
  BY <1>2 DEF Rests
<1>8. ASSUME NEW o \in P, o.act = "transfer"
      PROVE  src[o.to] \in FileData
  BY <1>1, <1>4, <1>8, PlanPurpose
<1>9. Held(t, m, src, dst, P, B, H) /\ (Works(s) => \E o \in P : \/ StartsTransfer(s, o)
                      \/ StartsCopy(s, o) \/ DeletesFile(s, o) \/ DeletesTemp(s, o)
                      \/ FillsFile(s, o) \/ CopiesFile(s, o))
  BY DEF Works
<1>10. \A o \in P : o.to \in Path => o.to \in About(P)
  BY AboutPlaces
<1>11. About(P) \subseteq Path
  BY DEF About
<1> HIDE DEF src, dst, P, B, H, t, m, C, G, u, n
<1>12. ASSUME NEW o \in P, StartsTransfer(s, o) \/ StartsCopy(s, o)
       PROVE  Held(u, n, src, dst, P, C, G)
  <2>1. CASE o.to \in Path
    <3>1. WithParents(t, o.to) = t /\ Removed(t, o.to) = [t EXCEPT ![o.to] = Absent]
      BY <1>1, <2>1, FlatOperations
    <3>2. u = [t EXCEPT ![o.to] = IF o.act = "transfer" THEN Torn ELSE Absent]
      BY <1>6, <1>12, <2>1, <3>1 DEF ReadyForCopy
    <3>3. /\ u[o.to] = IF o.act = "transfer" THEN Torn ELSE Absent
          /\ \A p \in About(P) : p # o.to => u[p] = t[p]
      BY <1>1, <1>11, <2>1, <3>2 DEF Tree
    <3>4. Held(t, m, src, dst, P, B, {}) /\ o \notin B /\ C = B \cup {o} /\ G = {o} /\ n = m
          /\ o.act # "delete"
      BY <1>3, <1>6, <1>9, <1>12
    <3> QED
      BY <1>1, <2>1, <3>3, <3>4, PlaceOpened
  <2>2. CASE o.to \in TempPlace
    <3>1. u = t /\ o.act = "copy"
      BY <1>4, <1>6, <1>12, <2>2 DEF ReadyForCopy
    <3>2. Held(t, m, src, dst, P, B, {}) /\ o \notin B /\ C = B \cup {o} /\ G = {o} /\ n = m
      BY <1>3, <1>6, <1>9, <1>12
    <3> QED
      BY <1>1, <2>2, <3>1, <3>2, TempOpened
  <2> QED
    BY <1>4, <2>1, <2>2
<1>13. ASSUME NEW o \in P, DeletesFile(s, o)
       PROVE  Held(u, n, src, dst, P, C, G)
  <2>1. o.to \in Path /\ o.act = "delete" /\ u = Pruned(Removed(t, o.to), o.to)
    BY <1>6, <1>13
  <2>2. Removed(t, o.to) = [t EXCEPT ![o.to] = Absent] /\ Removed(t, o.to) \in Tree
    BY <1>1, <2>1, FlatOperations, TreeOperations
  <2>3. u = [t EXCEPT ![o.to] = Absent]
    BY <2>1, <2>2, FlatOperations
  <2>4. u[o.to] = Absent /\ \A p \in About(P) : p # o.to => u[p] = t[p]
    BY <1>1, <1>11, <2>1, <2>3 DEF Tree
  <2>5. Held(t, m, src, dst, P, B, {}) /\ o \notin B /\ C = B \cup {o} /\ G = {} /\ n = m
    BY <1>3, <1>6, <1>9, <1>13
  <2> QED
    BY <1>1, <2>1, <2>4, <2>5, PlaceDeleted
<1>14. ASSUME NEW o \in P, DeletesTemp(s, o)
       PROVE  Held(u, n, src, dst, P, C, G)
  <2>1. /\ Held(t, m, src, dst, P, B, {}) /\ C = B \cup {o} /\ G = {} /\ u = t
        /\ o.act = "delete" /\ o.to \in TempPlace
        /\ n = [m EXCEPT ![o.to] = Absent] \/ n = m
    BY <1>3, <1>6, <1>9, <1>14
  <2> QED
    BY <1>1, <2>1, TempCleared, TempLeft
<1>15. ASSUME NEW o \in P, FillsFile(s, o)
       PROVE  Held(u, n, src, dst, P, C, G)
  <2>1. o.act = "transfer" /\ o.to \in Path /\ n = m /\ u = [t EXCEPT ![o.to] = src[o.to]]
    BY <1>4, <1>6, <1>15
  <2>2. u[o.to] = src[o.to] /\ \A p \in About(P) : p # o.to => u[p] = t[p]
    BY <1>1, <1>11, <2>1 DEF Tree
  <2>3. Serves(u[o.to], src[o.to], src, P)
    BY <1>8, <2>1, <2>2 DEF Serves
  <2>4. Held(t, m, src, dst, P, B, {o}) /\ o \in B /\ C = B /\ G = {} /\ o.act # "delete"
    BY <1>5, <1>9, <1>15, <2>1
  <2>5. Held(u, m, src, dst, P, B, {})
    <3>1. o \in B /\ B \in SUBSET P /\ o.act # "delete" /\ o.to \in Path /\ PlanFor(src, dst, P)
          /\ Held(t, m, src, dst, P, B, {o})
      BY <1>1, <2>1, <2>4
    <3> QED
      BY <2>2, <2>3, <3>1, PlaceFilled
  <2> QED
    BY <2>1, <2>4, <2>5
<1>16. ASSUME NEW o \in P, CopiesFile(s, o)
       PROVE  Held(u, n, src, dst, P, C, G)
  <2> DEFINE data == IF o.from \in Path THEN t[o.from] ELSE m[o.from]
  <2>1. /\ o.act = "copy"
        /\ IF o.to \in Path THEN u = [t EXCEPT ![o.to] = data] /\ n = m
                            ELSE n = [m EXCEPT ![o.to] = data] /\ u = t
    <3>1. /\ o.act = "copy"
          /\ IF o.to \in Path THEN u \in ItemCopied(t, o.from, data, o.to) /\ n = m
                              ELSE n = [m EXCEPT ![o.to] = data] /\ u = t
      BY <1>6, <1>16
    <3>2. o.to \in Path => ItemCopied(t, o.from, data, o.to) = {[t EXCEPT ![o.to] = data]}
      BY <1>1, FlatOperations
    <3> HIDE DEF data
    <3> QED
      BY <3>1, <3>2
  <2>2. Held(t, m, src, dst, P, B, {o}) /\ o \in B /\ C = B /\ G = {} /\ B = {x \in P : x.ord <= o.ord}
    BY <1>5, <1>9, <1>16
  <2>3. Held(t, m, src, dst, P, {x \in P : x.ord <= o.ord}, {o})
    BY <2>2
  <2>4. Serves(data, WantedAt(src, P, o), src, P)
    BY <1>1, <2>1, <2>3, FindsFile
  <2> HIDE DEF data
  <2>5. CASE o.to \in Path
    <3>1. u[o.to] = data /\ n = m /\ \A p \in About(P) : p # o.to => u[p] = t[p]
      BY <1>1, <1>11, <2>1, <2>5 DEF Tree
    <3>2. Serves(u[o.to], src[o.to], src, P)
      BY <2>4, <2>5, <3>1 DEF WantedAt
    <3> QED
      BY <1>1, <2>1, <2>2, <2>5, <3>1, <3>2, PlaceFilled
  <2>6. CASE o.to \in TempPlace
    <3>1. n = [m EXCEPT ![o.to] = data] /\ u = t
      BY <1>4, <2>1, <2>6
    <3> QED
      BY <1>1, <2>1, <2>2, <2>4, <2>6, <3>1, TempFilled
  <2> QED
    BY <1>4, <2>5, <2>6
<1>17. Held(u, n, src, dst, P, C, G)
  BY <1>7, <1>9, <1>12, <1>13, <1>14, <1>15, <1>16
<1> QED
  BY <1>17 DEF src, dst, P, C, G, u, n

\* One of its operations.
LEMMA HandlerWorks ==
  ASSUME \A q \in Path : Above[q] = {}, TypeOK, NEW s \in Session, InOrder(s), OnlyFiles,
         AtWork(s), ~ refused[s], Underway(s), HandlerStep(s), faults' = 0,
         ReceiveFile(s) \/ FinishFile(s) \/ DeleteFile(s) \/ ReceiveCopy(s) \/ FinishCopy(s)
  PROVE  AtWork(s)' /\ ~ refused'[s] /\ Underway(s)' /\ UNCHANGED <<local, client>>
<1>1. /\ ~ Opening(s) /\ cpc[s] # "failed" /\ mode[s] = "push" /\ Carrying(s)
      /\ Held(served, temp[s], csnap[s], rsnap[s], plan[s], FirstOps(plan[s], applied[s]),
              HalfDone(s))
  BY DEF AtWork, Opening, Underway, OnlyFiles
<1>2. UNCHANGED <<refused, down, out>> /\ spc'[s] \in {"loop", "writing", "copying"}
  BY <1>1, NothingRefused
<1>3. UNCHANGED <<local, client>>
  BY DEF ReceiveFile, FinishFile, DeleteFile, ReceiveCopy, FinishCopy, client
<1>4. cpc' = cpc /\ mode' = mode /\ csnap' = csnap /\ rsnap' = rsnap
  BY <1>3 DEF client
<1>5. Moves(s)
  BY <1>1, ReceiveFileStep, FinishFileStep, DeleteFileStep, ReceiveCopyStep, FinishCopyStep
<1>6. Going(s)'
  BY <1>1, <1>2, <1>4 DEF Going
<1>7. Works(s) \/ Rests(s)
  BY <1>1, <1>5, <1>6 DEF Moves
<1>8. plan'[s] = plan[s]
  BY <1>1, PlanRemains
<1>9. Held(served', temp'[s], csnap[s], rsnap[s], plan[s], FirstOps(plan[s], applied'[s]),
           HalfDone(s)')
  BY <1>1, <1>4, <1>7, WorkHeld
<1>10. Messages(up'[s]) \subseteq Messages(up[s])
  <2>1. CASE FinishFile(s) \/ FinishCopy(s)
    BY <2>1 DEF FinishFile, FinishCopy
  <2>2. CASE ReceiveFile(s) \/ DeleteFile(s) \/ ReceiveCopy(s)
    <3>1. Taken(s) /\ Offered(s) # "nothing"
      BY <2>2 DEF ReceiveFile, DeleteFile, ReceiveCopy, Takes
    <3> QED
      BY <3>1, TakenMessages
  <2> QED
    BY <2>1, <2>2
<1>11. Carrying(s)'
  <2>1. \A m \in Messages(up[s]) : m.type # "REQUEST"
    BY DEF AtWork, Operating
  <2> QED
    BY <1>1, <2>1, HandlerCarrying
<1>12. AtWork(s)'
  BY <1>2, <1>4, <1>10 DEF AtWork
<1>13. Held(served, temp[s], csnap[s], rsnap[s], plan[s], FirstOps(plan[s], applied[s]),
            HalfDone(s))'
  BY <1>4, <1>8, <1>9 DEF FirstOps, Pos
<1> QED
  BY <1>2, <1>3, <1>11, <1>12, <1>13 DEF Underway

\* DONE, after the last.
LEMMA HandlerEnds ==
  ASSUME TypeOK, NEW s \in Session, InOrder(s), mode[s] = "push",
         AtWork(s), Underway(s), HandlerStep(s), ReceiveLast(s)
  PROVE  Through(s)' /\ Underway(s)' /\ UNCHANGED <<trees, client, refused>>
<1>1. /\ ~ Opening(s) /\ ~ Ended(s) /\ Carrying(s) /\ spc[s] = "loop" /\ down[s] = <<>>
      /\ Held(served, temp[s], csnap[s], rsnap[s], plan[s], FirstOps(plan[s], applied[s]),
              HalfDone(s))
  BY DEF AtWork, Opening, Ended, Underway, ReceiveLast
<1>2. Taken(s) /\ Offered(s) # "nothing" /\ UNCHANGED <<trees, client, refused>>
  BY DEF ReceiveLast
<1>3. Head(up[s]) \in Messages(up[s]) /\ Head(up[s]).type = Offered(s)
  BY <1>2, TakenMessages
<1>4. Offered(s) = "DONE"
  BY <1>3 DEF AtWork, Operating, ReceiveLast
<1>5. up[s] # <<>> /\ up'[s] = Tail(up[s])
  BY <1>2 DEF Offered, Taken, TypeOK, UpTyped
<1>6. Len(up[s]) >= 1 /\ Head(up[s]) = up[s][1] /\ (Len(up[s]) = 1 => up'[s] = <<>>)
      /\ Len(up[s]) \in Nat
  BY <1>5, UpTail, OrderTyped
<1>7. UpInOrder(s) /\ (cpc[s] = "operations" => "DONE" \notin Types(up[s]))
  BY <1>1 DEF InOrder, ChannelInOrder
<1>8. 1 \in 1..Len(up[s]) /\ up[s][1].type = "DONE"
  BY <1>3, <1>4, <1>6
<1>9. up'[s] = <<>>
  BY <1>6, <1>7, <1>8 DEF UpInOrder
<1>10. cpc[s] = "awaitDone"
  BY <1>7, <1>8 DEF Types, AtWork
<1> DEFINE m == Simple("DONE")
<1>11. m \in DownMessage /\ Reply(s, m, "closing")
  BY <1>4, DownMessages DEF ReceiveLast
<1> HIDE DEF m
<1>12. down'[s] = <<m>> /\ spc'[s] = "closing"
  BY <1>1, <1>11, ReplyEffect
<1>13. Through(s)'
  BY <1>2, <1>9, <1>10, <1>12 DEF Through, At, client, m
<1>14. Carrying(s)'
  <2>1. \A x \in Messages(up[s]) : x.type # "REQUEST"
    BY DEF AtWork, Operating
  <2> QED
    BY <1>1, <2>1, HandlerCarrying
<1>15. HalfDone(s)' = {} /\ HalfDone(s) = {}
  BY <1>1, <1>2, <1>12, NothingHalf DEF client
<1>16. UNCHANGED <<served, temp, csnap, rsnap, plan, applied>>
  BY <1>2 DEF trees, client
<1>17. Held(served, temp[s], csnap[s], rsnap[s], plan[s], FirstOps(plan[s], applied[s]),
            HalfDone(s))'
  BY <1>1, <1>15, <1>16 DEF FirstOps, Pos
<1> QED
  BY <1>2, <1>13, <1>14, <1>17 DEF Underway

LEMMA HandlerAtWork ==
  ASSUME \A q \in Path : Above[q] = {}, TypeOK, NEW s \in Session, InOrder(s), OnlyFiles,
         AtWork(s), ~ refused[s], Underway(s), HandlerStep(s), faults' = 0
  PROVE  (AtWork(s)' \/ Through(s)') /\ ~ refused'[s] /\ Underway(s)' /\ UNCHANGED <<local, client>>
<1>1. ~ ReceiveFails(s)
  BY WithoutFault DEF ReceiveFails, AtWork, Ended
<1>2. Offered(s) # "REQUEST"
  <2>1. ASSUME Offered(s) = "REQUEST" PROVE FALSE
    <3>1. up[s] # <<>>
      BY <2>1 DEF Offered
    <3>2. Head(up[s]) \in Messages(up[s]) /\ Head(up[s]).type = "REQUEST"
      <4>1. up[s] \in Seq(UpMessage)
        BY OrderTyped
      <4> QED
        BY <2>1, <3>1, <4>1 DEF Offered, Messages
    <3> QED
      BY <3>2 DEF AtWork, Operating
  <2> QED
    BY <2>1
<1>3. \/ ReceiveFile(s) \/ FinishFile(s) \/ DeleteFile(s) \/ ReceiveCopy(s) \/ FinishCopy(s)
      \/ ReceiveLast(s)
  BY <1>1, <1>2, HandlerAt DEF AtWork
<1>4. CASE ReceiveLast(s)
  BY <1>4, HandlerEnds DEF OnlyFiles, trees
<1> QED
  BY <1>3, <1>4, HandlerWorks

-----------------------------------------------------------------------------
(* The client's side of it                                                 *)

LEMMA ClientGreets ==
  ASSUME Majors = {ProtocolMajor}, TypeOK, NEW s \in Session, InOrder(s), mode[s] = "push",
         Greeting(s), Connect(s) \/ ClientStep(s), faults' = 0
  PROVE  /\ UNCHANGED serverErrors
         /\ Greeting(s)' \/ (ReceiveMetadata(s) /\ AtWork(s)' /\ rsnap'[s] = ssnap[s] /\ up'[s] = <<>>)
         /\ \/ csnap'[s] = csnap[s] /\ (cpc[s] \in {"idle", "awaitOK", "scan"}
                                           => cpc'[s] \in {"awaitOK", "scan"})
            \/ csnap'[s] = ListingOf(local[Owner[s]])
<1>1. ~ Fault
  BY WithoutFault
<1>2. /\ cpc \in [Session -> ClientPC] /\ csnap \in [Session -> Listing]
      /\ rsnap \in [Session -> Listing]
      /\ up \in [Session -> Seq(UpMessage)] /\ down \in [Session -> Seq(DownMessage)]
      /\ spc \in [Session -> HandlerPC]
  BY DEF TypeOK, ClientTyped, ServerTyped, UpTyped, DownTyped
<1>3. ssnap' = ssnap /\ (~ Connect(s) => spc' = spc)
  BY PushClientReads
<1>4. ~ ConnectionLost(s)
  BY DEF Greeting, At, ConnectionLost
<1>5. CASE Connect(s)
  <2>1. cpc[s] = "idle" /\ At(s, "idle", {"none"}, <<>>, <<>>)
    BY <1>5 DEF Connect, Greeting, At
  <2>2. /\ cpc'[s] = "awaitOK" /\ spc'[s] = "hello" /\ down' = down /\ csnap' = csnap
        /\ up'[s] = <<Hello("push", ProtocolMajor)>> /\ UNCHANGED serverErrors
    BY <1>2, <1>5 DEF Connect, CGoto
  <2>3. At(s, "awaitOK", {"hello"}, <<Hello("push", ProtocolMajor)>>, <<>>)'
    BY <2>1, <2>2 DEF At
  <2> QED
    BY <2>2, <2>3 DEF Greeting
<1>6. CASE ClientStep(s) /\ cpc[s] = "awaitOK"
  <2> DEFINE m == Simple("OK")
  <2>1. At(s, "awaitOK", {"scan", "metadata"}, <<>>, <<m>>) \/ down[s] = <<>>
    BY <1>6 DEF Greeting, At
  <2>2. ReceiveOK(s) \/ ReceiveUnexpected(s)
    BY <1>4, <1>6, ClientAt
  <2>3. Arrived(s) # "nothing"
    BY <1>6, <2>2 DEF ReceiveOK, ReceiveUnexpected
  <2>4. At(s, "awaitOK", {"scan", "metadata"}, <<>>, <<m>>)
    BY <2>1, <2>3, OneMessage
  <2>5. Arrived(s) = "OK" /\ Tail(down[s]) = <<>>
    BY <2>4, OneMessage DEF At, Simple
  <2>6. ReceiveOK(s)
    BY <1>6, <2>2, <2>5 DEF ReceiveUnexpected
  <2>7. /\ cpc'[s] = "scan" /\ down'[s] = <<>> /\ up' = up
        /\ UNCHANGED <<csnap, serverErrors>> /\ spc' = spc
    BY <1>2, <2>5, <2>6 DEF ReceiveOK, Received, CGoto, server
  <2>8. At(s, "scan", {"scan", "metadata"}, <<>>, <<>>)'
    BY <2>4, <2>7 DEF At
  <2> QED
    BY <2>7, <2>8 DEF Greeting
<1>7. CASE ClientStep(s) /\ cpc[s] = "scan"
  <2>1. At(s, "scan", {"scan", "metadata"}, <<>>, <<>>) /\ ScanLocal(s)
    BY <1>4, <1>7, ClientAt DEF Greeting, At
  <2>2. PICK l \in Listing : /\ l = ListingOf(local[Owner[s]]) /\ Sent(s, Metadata(l))
                             /\ csnap' = [csnap EXCEPT ![s] = l] /\ CGoto(s, "awaitMetadata")
                             /\ UNCHANGED <<trees, mode, rsnap, todo, cjob, serverErrors, server, down>>
    BY <1>1, <2>1 DEF ScanLocal, Lists
  <2>3. up'[s] = <<Metadata(l)>>
    BY <1>2, <2>1, <2>2 DEF Sent, At
  <2>4. /\ cpc'[s] = "awaitMetadata" /\ csnap'[s] = l /\ spc' = spc /\ down' = down
        /\ UNCHANGED serverErrors
    BY <1>2, <2>2 DEF CGoto, server
  <2>5. At(s, "awaitMetadata", {"scan", "metadata"}, <<Metadata(csnap[s])>>, <<>>)'
    BY <2>1, <2>3, <2>4 DEF At
  <2> QED
    BY <2>2, <2>4, <2>5 DEF Greeting
<1>8. CASE ClientStep(s) /\ cpc[s] = "awaitMetadata"
  <2> DEFINE m == Metadata(ssnap[s])
  <2>1. At(s, "awaitMetadata", {"loop"}, <<>>, <<m>>) \/ down[s] = <<>>
    BY <1>8 DEF Greeting, At
  <2>2. ReceiveMetadata(s) \/ ReceiveUnexpected(s)
    BY <1>4, <1>8, ClientAt
  <2>3. Arrived(s) # "nothing"
    BY <1>8, <2>2 DEF ReceiveMetadata, ReceiveUnexpected
  <2>4. At(s, "awaitMetadata", {"loop"}, <<>>, <<m>>)
    BY <2>1, <2>3, OneMessage
  <2>5. Arrived(s) = "METADATA" /\ Head(down[s]) = m /\ Tail(down[s]) = <<>>
    BY <2>4, OneMessage DEF At, Metadata
  <2>6. ReceiveMetadata(s)
    BY <1>8, <2>2, <2>5 DEF ReceiveUnexpected
  <2>7. m.listing = ssnap[s]
    BY DEF Metadata
  <2> HIDE DEF m
  <2>8. /\ cpc'[s] = "operations" /\ down'[s] = <<>> /\ up' = up /\ rsnap'[s] = ssnap[s]
        /\ UNCHANGED <<csnap, serverErrors>> /\ spc' = spc
    BY <1>2, <2>5, <2>6, <2>7 DEF ReceiveMetadata, Received, CGoto, server
  <2>9. up'[s] = <<>> /\ spc'[s] = "loop"
    BY <2>4, <2>8 DEF At
  <2>10. AtWork(s)'
    BY <2>8, <2>9, EmptyMessages DEF AtWork
  <2> QED
    BY <1>8, <2>6, <2>8, <2>9, <2>10
<1>9. CASE ClientStep(s) /\ cpc[s] = "idle"
  BY <1>9, ClientAt
<1> QED
  BY <1>5, <1>6, <1>7, <1>8, <1>9 DEF Greeting, At

\* What a push sends leaves it at work.
LEMMA SendsAtWork ==
  ASSUME TypeOK, NEW s \in Session, AtWork(s), NEW m \in UpMessage, Sent(s, m),
         m.type \in Operating \cup {"DONE"}, cpc'[s] \in {"operations", "awaitDone"},
         UNCHANGED <<spc, down>>
  PROVE  AtWork(s)'
  BY SentMessages DEF AtWork

LEMMA ClientAtWork ==
  ASSUME TypeOK, NEW s \in Session, InOrder(s), mode[s] = "push", AtWork(s), Carrying(s),
         csnap[s] = ListingOf(local[Owner[s]]), ClientStep(s), faults' = 0
  PROVE  AtWork(s)' /\ UNCHANGED serverErrors
<1>1. ~ Fault
  BY WithoutFault
<1>2. /\ ~ ConnectionLost(s) /\ Arrived(s) = "nothing" /\ cpc \in [Session -> ClientPC]
  BY OneMessage DEF AtWork, ConnectionLost, TypeOK, ClientTyped
<1>3. cpc[s] = "operations" /\ (ExecuteOperation(s) \/ SendDone(s))
  BY <1>2, ClientAt DEF AtWork, DrainReply, ReceiveDone
<1>4. CASE SendDone(s)
  <2> DEFINE m == Simple("DONE")
  <2>1. m \in UpMessage /\ m.type = "DONE"
    BY UpMessages DEF Simple
  <2>2. Sent(s, m) /\ cpc'[s] = "awaitDone" /\ UNCHANGED <<spc, down, serverErrors>>
    BY <1>2, <1>4 DEF SendDone, CGoto, server
  <2> HIDE DEF m
  <2> QED
    BY <2>1, <2>2, SendsAtWork
<1>5. CASE ExecuteOperation(s)
  <2>1. PICK o \in todo[s] : Upload(s, o) \/ SendRemote(s, o)
    BY <1>5 DEF ExecuteOperation, RequestFile, PrepareCopy, DeleteLocal
  <2>2. o \in plan[s]
    BY <1>3 DEF InOrder, PushInOrder
  <2>3. o \in Op /\ (o.act = "transfer" => csnap[s][o.to] # Absent)
    BY <2>2, TransfersListed DEF SourceListing
  <2>4. /\ o.to \in Place /\ (o.act = "copy" => o.from \in Place)
        /\ (o.act = "transfer" => o.to \in Path)
    BY <2>3, OpParts
  <2>5. CASE Upload(s, o)
    <3> DEFINE t == local[Owner[s]]
               m == File(o.to, t[o.to])
    <3>1. o.to \in Path /\ IsFile(t, o.to)
      BY <2>3, <2>4, <2>5 DEF Upload, ListingOf
    <3>2. /\ Sent(s, m)
          /\ UNCHANGED <<trees, mode, cpc, csnap, rsnap, cjob, serverErrors, server, down>>
      BY <1>1, <2>5, <3>1 DEF Upload, Fails
    <3>3. m \in UpMessage /\ m.type = "FILE"
      BY <3>1, UpMessages DEF File, IsFile
    <3>4. UNCHANGED <<spc, down, serverErrors>> /\ cpc'[s] = "operations"
      BY <1>3, <3>2 DEF server
    <3> HIDE DEF m
    <3> QED
      BY <3>2, <3>3, <3>4, SendsAtWork DEF Operating
  <2>6. CASE SendRemote(s, o)
    <3> DEFINE m == IF o.act = "copy" THEN Copy(o.from, o.to) ELSE Delete(o.to)
    <3>1. m \in UpMessage /\ m.type \in Operating
      BY <2>4, UpMessages DEF Copy, Delete, Operating
    <3>2. Sent(s, m) /\ UNCHANGED <<spc, down, serverErrors>> /\ cpc'[s] = "operations"
      BY <1>3, <2>6 DEF SendRemote, server
    <3> HIDE DEF m
    <3> QED
      BY <3>1, <3>2, SendsAtWork
  <2> QED
    BY <2>1, <2>5, <2>6
<1> QED
  BY <1>3, <1>4, <1>5

LEMMA ClientThrough ==
  ASSUME TypeOK, NEW s \in Session, Through(s), ~ serverErrors[s], ClientStep(s)
  PROVE  Through(s)' /\ UNCHANGED serverErrors
<1> DEFINE m == Simple("DONE")
<1>1. /\ At(s, "awaitDone", {"closing", "closed"}, <<>>, <<m>>)
  BY ClientAt DEF Through, At
<1>2. Arrived(s) = "DONE" /\ Tail(down[s]) = <<>>
  BY <1>1, OneMessage DEF At, Simple
<1>3. ReceiveDone(s)
  BY <1>1, <1>2, ClientAt DEF At, ConnectionLost, DrainReply
<1>4. /\ cpc \in [Session -> ClientPC] /\ down \in [Session -> Seq(DownMessage)]
  BY DEF TypeOK, ClientTyped, DownTyped
<1>5. cpc'[s] = "ok" /\ down'[s] = <<>> /\ UNCHANGED <<up, spc, serverErrors>>
  BY <1>2, <1>3, <1>4 DEF ReceiveDone, CGoto, Received, server
<1> QED
  BY <1>1, <1>5 DEF Through, At

-----------------------------------------------------------------------------
(* What is prepared, and what is under way                                 *)

\* The plan of a push begins with nothing done.
LEMMA WorkBegins ==
  ASSUME \A q \in Path : Above[q] = {}, TypeOK, NEW s \in Session, InOrder(s), InOrder(s)',
         mode[s] = "push", Opening(s), Prepared(s), spc[s] = "loop",
         cpc[s] = "awaitMetadata", ReceiveMetadata(s), AtWork(s)', rsnap'[s] = ssnap[s], up'[s] = <<>>,
         TypeOK', Separate'
  PROVE  Underway(s)'
<1>1. /\ UNCHANGED <<local, served, temp, applied, csnap, mode, spc>>
  BY DEF ReceiveMetadata, server
<1>2. /\ ~ Opening(s)' /\ cpc'[s] # "failed" /\ mode'[s] = "push" /\ spc'[s] = "loop"
      /\ down'[s] = <<>> /\ cpc'[s] # "writing"
  BY <1>1 DEF AtWork, Opening
<1>3. Carrying(s)'
  <2>1. AsListed(s)'
    BY <1>1, <1>2 DEF AsListed, Source, SourceListing, Prepared, ListingOf
  <2> QED
    BY <1>2, <2>1, EmptyMessages DEF Carrying
<1>4. Ordered(plan'[s])
  <2>1. csnap'[s] \in Listing /\ rsnap'[s] \in Listing
    BY DEF TypeOK, ClientTyped
  <2>2. \E rank \in Orders(DestToSource(csnap'[s], rsnap'[s])) :
            plan'[s] = Plan(csnap'[s], rsnap'[s], rank)
    BY <1>2 DEF InOrder, Planned, SourceListing, TargetListing
  <2> QED
    BY <2>1, <2>2, PlanOrdered
<1>5. \A p \in About(plan'[s]) : served[p] = rsnap'[s][p]
  <2>1. SUFFICES ASSUME NEW p \in About(plan'[s]) PROVE ssnap[s][p] = served[p]
    OBVIOUS
  <2>2. p \in Path /\ p \in Touched(s)'
    BY DEF About, Touched
  <2>3. ASSUME NEW t \in Session \ {s} PROVE p \notin Touched(t)
    <3>1. p \notin Touched(t)'
      BY <2>2 DEF Separate
    <3>2. plan'[t] = plan[t]
      BY DEF ReceiveMetadata, TypeOK, TreesTyped
    <3> QED
      BY <3>1, <3>2 DEF Touched
  <2> QED
    BY <2>2, <2>3 DEF Prepared, Fresh
<1>6. \A q \in TempPlace : temp[s][q] = Absent
  BY DEF Prepared
<1>7. Held(served, temp[s], csnap'[s], rsnap'[s], plan'[s], {}, {})
  BY <1>5, <1>6, HeldBegins
<1>8. FirstOps(plan'[s], applied'[s]) = {}
  BY <1>1, <1>4, FirstOpsGrow DEF InOrder, Planned
<1>9. HalfDone(s)' = {}
  BY <1>2, NothingHalf
<1> QED
  BY <1>1, <1>3, <1>7, <1>8, <1>9 DEF Underway, FirstOps, Pos

\* A client's step changes nothing of what its handler does.
LEMMA ClientUnderway ==
  ASSUME TypeOK, NEW s \in Session, InOrder(s), mode[s] = "push", ~ Opening(s), ~ Opening(s)',
         Underway(s), ClientStep(s)
  PROVE  Underway(s)'
<1>1. /\ Carrying(s)
      /\ Held(served, temp[s], csnap[s], rsnap[s], plan[s], FirstOps(plan[s], applied[s]),
              HalfDone(s))
  BY DEF Underway
<1>2. Carrying(s)'
  BY <1>1, ClientCarrying
<1>3. UNCHANGED <<served, temp, applied, sjob>> /\ UNCHANGED spc
  <2>1. ~ Connect(s)
    BY DEF Connect, Opening
  <2> QED
    BY <2>1, PushClientReads
<1>4. UNCHANGED <<mode[s], csnap[s], rsnap[s], plan[s]>>
  BY PlanRemains
<1>5. HalfDone(s)' = HalfDone(s)
  BY <1>3, <1>4, StillHalf
<1> QED
  BY <1>1, <1>2, <1>3, <1>4, <1>5 DEF Underway, FirstOps, Pos

\* While nothing is planned the handler's listing grows old only where others work.
LEMMA StillPrepared ==
  ASSUME TypeOK, NEW s \in Session, Prepared(s), UNCHANGED <<local, served, temp, ssnap>>,
         Opening(s)' => Opening(s) /\ (spc'[s] \in {"metadata", "loop"} => spc[s] \in {"metadata", "loop"}),
         \A t \in Session : Touched(t) \subseteq Touched(t)',
         cpc'[s] \notin {"idle", "awaitOK", "scan"} => csnap'[s] = ListingOf(local[Owner[s]])
  PROVE  Prepared(s)'
<1>1. Fresh(s) => Fresh(s)'
  BY DEF Fresh
<1> QED
  BY <1>1 DEF Prepared

LEMMA ClientBeside ==
  ASSUME \A q \in Path : Above[q] = {}, Majors = {ProtocolMajor},
         TypeOK, TypeOK', NEW s \in Session, InOrder(s), InOrder(s)', mode[s] = "push",
         Beside(s), Separate', Connect(s) \/ ClientStep(s), faults' = 0,
         \A t \in Session : Touched(t) \subseteq Touched(t)'
  PROVE  Beside(s)'
<1>1. Smooth(s) /\ Prepared(s) /\ Underway(s) /\ ~ refused[s] /\ ~ serverErrors[s]
  BY DEF Beside, Smooth
<1>2. UNCHANGED <<local, served, temp, ssnap, refused>> /\ (~ Connect(s) => UNCHANGED spc)
  BY PushClientReads
<1>3. CASE Greeting(s)
  <2>1. /\ UNCHANGED serverErrors
        /\ Greeting(s)' \/ (ReceiveMetadata(s) /\ AtWork(s)' /\ rsnap'[s] = ssnap[s] /\ up'[s] = <<>>)
        /\ \/ csnap'[s] = csnap[s] /\ (cpc[s] \in {"idle", "awaitOK", "scan"}
                                          => cpc'[s] \in {"awaitOK", "scan"})
           \/ csnap'[s] = ListingOf(local[Owner[s]])
    BY <1>3, ClientGreets
  <2>2. Smooth(s)'
    BY <1>1, <1>2, <2>1 DEF Smooth
  <2>3. Opening(s)
    BY <1>3 DEF Greeting, At, Opening
  <2>4. Connect(s) => spc'[s] = "hello"
    BY DEF Connect, TypeOK, ServerTyped
  <2>5. cpc'[s] \notin {"idle", "awaitOK", "scan"} => csnap'[s] = ListingOf(local[Owner[s]])
    BY <1>1, <2>1 DEF Prepared
  <2>6. Prepared(s)'
    BY <1>1, <1>2, <2>3, <2>4, <2>5, StillPrepared
  <2>7. CASE Greeting(s)'
    BY <2>2, <2>6, <2>7 DEF Beside, Underway, Opening, Greeting, At
  <2>8. CASE ReceiveMetadata(s) /\ AtWork(s)' /\ rsnap'[s] = ssnap[s] /\ up'[s] = <<>>
    <3>1. cpc[s] = "awaitMetadata"
      BY <2>8 DEF ReceiveMetadata
    <3>2. spc[s] = "loop"
      <4>1. Arrived(s) # "nothing"
        BY <2>8 DEF ReceiveMetadata
      <4> QED
        BY <1>3, <3>1, <4>1, OneMessage DEF Greeting, At
    <3>3. Underway(s)'
      BY <1>1, <2>3, <2>8, <3>1, <3>2, WorkBegins
    <3> QED
      BY <2>2, <2>6, <3>3 DEF Beside
  <2> QED
    BY <2>1, <2>7, <2>8
<1>4. CASE AtWork(s) \/ Through(s)
  <2>1. /\ ~ Opening(s) /\ cpc[s] \notin {"idle", "awaitOK", "scan"} /\ ~ Connect(s) /\ ClientStep(s)
        /\ cpc[s] # "failed"
    BY <1>4 DEF AtWork, Through, At, Opening, Connect
  <2>2. (AtWork(s)' \/ Through(s)') /\ UNCHANGED serverErrors
    BY <1>1, <1>4, <2>1, ClientAtWork, ClientThrough DEF Prepared, Underway
  <2>3. ~ Opening(s)' /\ csnap'[s] = csnap[s]
    BY <2>1, <2>2, PlanRemains DEF AtWork, Through, At, Opening
  <2>4. Underway(s)'
    BY <1>1, <2>1, <2>3, ClientUnderway
  <2>5. Prepared(s)'
    BY <1>1, <1>2, <2>1, <2>3, StillPrepared DEF Prepared
  <2> QED
    BY <1>1, <1>2, <2>2, <2>4, <2>5 DEF Beside, Smooth
<1> QED
  BY <1>1, <1>3, <1>4 DEF Smooth

LEMMA HandlerBeside ==
  ASSUME \A q \in Path : Above[q] = {}, TypeOK, NEW s \in Session, InOrder(s), OnlyFiles,
         Beside(s), HandlerStep(s), faults' = 0,
         \A t \in Session : Touched(t) \subseteq Touched(t)'
  PROVE  Beside(s)'
<1>1. Smooth(s) /\ Prepared(s) /\ Underway(s) /\ ~ refused[s] /\ ~ serverErrors[s] /\ mode[s] = "push"
  BY DEF Beside, Smooth, OnlyFiles
<1>2. CASE Greeting(s)
  <2>1. /\ UNCHANGED <<trees, client, refused>> /\ Greeting(s)'
        /\ spc'[s] \in {"metadata", "loop"} =>
              \/ spc[s] = "metadata" /\ ssnap'[s] = ssnap[s]
              \/ ssnap'[s] = ListingOf(served)
    BY <1>2, HandlerGreets
  <2>2. UNCHANGED <<local, served, temp, cpc, csnap, serverErrors>>
    BY <2>1 DEF trees, client
  <2>3. /\ Opening(s) /\ Opening(s)'
    BY <1>2, <2>2 DEF Greeting, At, Opening
  <2>4. ASSUME spc'[s] \in {"metadata", "loop"}
        PROVE  Fresh(s)'
    <3>1. CASE spc[s] = "metadata" /\ ssnap'[s] = ssnap[s]
      BY <1>1, <2>2, <2>3, <3>1 DEF Prepared, Fresh
    <3>2. CASE ssnap'[s] = ListingOf(served)
      <4>1. \A p \in Path : ListingOf(served)[p] = served[p]
        BY DEF OnlyFiles, ListingOf, IsFile, TypeOK, TreesTyped, Tree, Entry
      <4> QED
        BY <2>2, <3>2, <4>1 DEF Fresh
    <3> QED
      BY <2>1, <2>4, <3>1, <3>2
  <2>5. Prepared(s)'
    BY <1>1, <2>2, <2>3, <2>4 DEF Prepared
  <2> QED
    BY <1>1, <2>1, <2>2, <2>3, <2>5 DEF Beside, Smooth, Underway
<1>3. CASE AtWork(s)
  <2>1. (AtWork(s)' \/ Through(s)') /\ ~ refused'[s] /\ Underway(s)' /\ UNCHANGED <<local, client>>
    BY <1>1, <1>3, HandlerAtWork
  <2>2. UNCHANGED <<cpc, csnap, serverErrors, local>> /\ ~ Opening(s)' /\ ~ Opening(s)
    BY <1>3, <2>1 DEF client, AtWork, Opening
  <2>3. Prepared(s)'
    BY <1>1, <2>2 DEF Prepared
  <2> QED
    BY <1>1, <2>1, <2>2, <2>3 DEF Beside, Smooth
<1>4. CASE Through(s)
  <2>1. UNCHANGED <<trees, client, refused>> /\ Through(s)'
    BY <1>4, HandlerCloses
  <2>2. UNCHANGED <<local, served, temp, plan, applied, mode, cpc, csnap, rsnap, serverErrors>>
    BY <2>1 DEF trees, client
  <2>3. ~ Opening(s) /\ ~ Opening(s)'
    BY <1>4, <2>2 DEF Through, At, Opening
  <2>4. HalfDone(s) = {} /\ HalfDone(s)' = {}
    BY <1>1, <1>4, <2>1, <2>2, NothingHalf DEF Through, At
  <2>5. Carrying(s)'
    <3>1. up[s] = <<>>
      BY <1>4 DEF Through, At
    <3> QED
      BY <1>1, <2>3, <3>1, EmptyMessages, HandlerCarrying DEF Underway
  <2>6. Underway(s)'
    BY <1>1, <2>2, <2>3, <2>4, <2>5 DEF Underway, FirstOps, Pos
  <2>7. Prepared(s)'
    BY <1>1, <2>2, <2>3 DEF Prepared
  <2> QED
    BY <1>1, <2>1, <2>2, <2>6, <2>7 DEF Beside, Smooth
<1> QED
  BY <1>1, <1>2, <1>3, <1>4 DEF Smooth

LEMMA InitBeside ==
  ASSUME Modes = {"push"}
  PROVE  Init => BesideInv
<1> SUFFICES ASSUME Init, NEW s \in Session PROVE Beside(s)
  BY DEF BesideInv
<1>1. /\ cpc[s] = "idle" /\ spc[s] = "none" /\ up[s] = <<>> /\ down[s] = <<>>
      /\ ~ refused[s] /\ ~ serverErrors[s] /\ \A q \in TempPlace : temp[s][q] = Absent
  BY DEF Init
<1> QED
  BY <1>1 DEF Beside, Smooth, Greeting, At, Prepared, Underway, Opening

LEMMA NextBeside ==
  ASSUME Majors = {ProtocolMajor}, \A p \in Path : Above[p] = {}
  PROVE  /\ TypeOK /\ TypeOK' /\ OrderInv /\ OrderInv' /\ OnlyFiles /\ BesideInv /\ [Next]_vars
         => BesideInv'
<1> SUFFICES ASSUME TypeOK, TypeOK', OrderInv, OrderInv', OnlyFiles, BesideInv, [Next]_vars,
                    faults' = 0, Separate', NEW t \in Session
             PROVE  Beside(t)'
  BY DEF BesideInv
<1>1. \A u \in Session : Touched(u) \subseteq Touched(u)'
  BY PlansGrow
<1>2. Separate
  BY <1>1 DEF Separate
<1>3. InOrder(t) /\ InOrder(t)' /\ mode[t] = "push" /\ ~ Fault
  BY WithoutFault DEF OrderInv, OnlyFiles
<1>4. CASE UNCHANGED vars \/ Quiet
  <2>1. UNCHANGED vars /\ UNCHANGED <<faults, local, served, temp, ssnap, refused, serverErrors>>
    BY <1>4 DEF Quiet, vars, trees, client, server
  <2>2. UNCHANGED OrderPart(t)
    BY <2>1 DEF OrderPart, vars, trees, client, server
  <2>3. Beside(t)
    BY <1>2, <2>1 DEF BesideInv
  <2>4. {} \cap Touched(t) = {} /\ \A p \in Path \ {} : served'[p] = served[p]
    BY <2>1
  <2> QED
    BY <1>1, <1>3, <2>1, <2>2, <2>3, <2>4, BesideStays
<1>5. ASSUME NEW s \in Session, Connect(s) \/ ClientStep(s) \/ ClientDies(s) \/ HandlerStep(s)
      PROVE  Beside(t)'
  <2>1. faults = 0
    BY <1>5, FaultsGrow
  <2>2. Beside(t)
    BY <1>2, <2>1 DEF BesideInv
  <2>3. ~ ClientDies(s)
    BY <1>3 DEF ClientDies
  <2>4. CASE s # t
    BY <1>2, <1>5, <2>2, <2>4, OthersBeside
  <2>5. CASE s = t /\ HandlerStep(s)
    BY <1>1, <1>3, <2>2, <2>5, HandlerBeside
  <2>6. CASE s = t /\ (Connect(s) \/ ClientStep(s))
    BY <1>1, <1>3, <2>2, <2>6, ClientBeside
  <2> QED
    BY <1>5, <2>3, <2>4, <2>5, <2>6
<1>6. ~ ServerCrash
  BY <1>3 DEF ServerCrash
<1> QED
  BY <1>4, <1>5, <1>6 DEF Next

\* Pushes of several clients at once, about different files of trees without a directory: if
\* nothing fails none of them is refused an operation or fails, and one that ends with success
\* (and overtakes none of its own copies) leaves at every path it is about what its client has,
\* whatever the others do meanwhile - the handlers share the served tree and hold no lock.
THEOREM SpecDisjointPushesMirror ==
  ASSUME Modes = {"push"}, Majors = {ProtocolMajor}, \A p \in Path : Above[p] = {},
         \A sc \in Scenarios : \A p \in Path : sc.served[p] # Dir
  PROVE  Spec => []DisjointPushesMirror
<1>1. Init => OnlyFiles
  BY InitOnlyFiles
<1>2. TypeOK /\ OrderInv /\ OnlyFiles /\ [Next]_vars => OnlyFiles'
  BY NextOnlyFiles
<1>3. Init => BesideInv
  BY InitBeside
<1>4. /\ TypeOK /\ TypeOK' /\ OrderInv /\ OrderInv' /\ OnlyFiles /\ BesideInv /\ [Next]_vars
      => BesideInv'
  BY NextBeside
<1>5. TypeOK /\ OrderInv /\ OnlyFiles /\ BesideInv => DisjointPushesMirror
  <2> SUFFICES ASSUME TypeOK, OrderInv, OnlyFiles, BesideInv, faults = 0, Separate,
                      NEW s \in Session
               PROVE  /\ ~ refused[s] /\ cpc[s] # "failed"
                      /\ cpc[s] = "ok" /\ Overtaken(csnap[s], plan[s]) = {}
                         => \A p \in Touched(s) : served[p] = csnap[s][p]
    BY DEF DisjointPushesMirror, Separate
  <2>1. Smooth(s) /\ Underway(s) /\ InOrder(s) /\ mode[s] = "push"
    BY DEF BesideInv, Beside, OrderInv, OnlyFiles
  <2>2. ~ refused[s] /\ cpc[s] # "failed"
    BY <2>1 DEF Smooth, Greeting, AtWork, Through, At
  <2>3. ASSUME cpc[s] = "ok", Overtaken(csnap[s], plan[s]) = {}, NEW p \in Touched(s)
        PROVE  served[p] = csnap[s][p]
    <3>1. ~ Opening(s) /\ spc[s] \in {"closing", "closed"}
      BY <2>1, <2>3 DEF Opening, Smooth, Greeting, AtWork, Through, At
    <3>2. PlanFor(csnap[s], rsnap[s], plan[s]) /\ Ordered(plan[s])
      BY <2>1, <2>2, <3>1, PushPlanIsFor
    <3>3. applied[s] = Cardinality(plan[s]) /\ HalfDone(s) = {}
      BY <2>1, <2>3, <3>1, NothingHalf DEF InOrder, PushInOrder
    <3>4. FirstOps(plan[s], applied[s]) = plan[s]
      BY <3>2, <3>3, FirstOpsGrow
    <3>5. Held(served, temp[s], csnap[s], rsnap[s], plan[s], plan[s], {})
      BY <2>1, <3>1, <3>3, <3>4 DEF Underway
    <3>6. p \in About(plan[s])
      BY DEF About, Touched
    <3> QED
      BY <2>3, <3>2, <3>5, <3>6, HeldEnds
  <2> QED
    BY <2>2, <2>3
<1> QED
  BY <1>1, <1>2, <1>3, <1>4, <1>5, SpecTypeOK, SpecOrderInv, PTL DEF Spec
=============================================================================
