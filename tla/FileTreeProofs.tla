---------------------------- MODULE FileTreeProofs ----------------------------
(* What the operations on a tree make of it is a tree again.               *)
EXTENDS FileTree, TLAPS

LEMMA TreeOperations ==
  ASSUME NEW t \in Tree, NEW p \in Path
  PROVE  /\ WithParents(t, p) \in Tree
         /\ TryWithParents(t, p) \in Tree
         /\ Removed(t, p) \in Tree
         /\ Pruned(t, p) \in Tree
<1>1. WithParents(t, p) \in Tree
  BY DEF WithParents, Tree, Entry
<1>2. TryWithParents(t, p) \in Tree
  BY <1>1 DEF TryWithParents
<1>3. Removed(t, p) \in Tree
  BY DEF Removed, Tree, Entry
<1>4. Pruned(t, p) \in Tree
  BY DEF Pruned, Tree, Entry
<1> QED
  BY <1>1, <1>2, <1>3, <1>4

LEMMA TreeUpdate ==
  ASSUME NEW t \in Tree, NEW p \in Path, NEW e \in Entry
  PROVE  [t EXCEPT ![p] = e] \in Tree
  BY DEF Tree

\* A copy changes its destination and what lies there.
LEMMA CopyOfItem ==
  ASSUME NEW t \in Tree, NEW from, NEW data \in Entry, NEW to \in Path,
         NEW u \in ItemCopied(t, from, data, to)
  PROVE  /\ u \in Tree /\ u[to] = data
         /\ \A q \in Path : q # to /\ to \notin Above[q] => u[q] = t[q]
         /\ data # Dir \/ Below(to) = {} => u = [t EXCEPT ![to] = data]
         /\ data # Torn /\ Whole(t) => Whole(u)
<1>1. CASE data # Dir
  <2>1. u = [t EXCEPT ![to] = data]
    BY <1>1 DEF ItemCopied
  <2> QED
    BY <1>1, <2>1, TreeUpdate DEF Tree, Whole
<1>2. CASE data = Dir
  <2>1. PICK w \in Unpacked(t, from, to) :
           u = [q \in Path |-> IF q = to THEN Dir ELSE IF q \in Below(to) THEN w[q] ELSE t[q]]
    BY <1>2 DEF ItemCopied
  <2>2. \A q \in Path : u[q] = IF q = to THEN Dir ELSE IF q \in Below(to) THEN w[q] ELSE t[q]
    BY <2>1
  <2>3. \A q \in Below(to) : w[q] \in Items(t, from) \cup {Absent}
    BY DEF Unpacked
  <2>4. Items(t, from) \subseteq Content \cup {t[q] : q \in Path}
    BY DEF Items, Below
  <2>5. \A q \in Below(to) : w[q] \in Entry
    BY <2>3, <2>4 DEF Entry, FileData, Tree
  <2>6. u \in Tree
    BY <1>2, <2>1, <2>5 DEF Tree
  <2>7. \A q \in Path : q # to /\ to \notin Above[q] => u[q] = t[q]
    BY <2>2 DEF Below
  <2>8. ASSUME Below(to) = {}
        PROVE  u = [t EXCEPT ![to] = data]
    BY <1>2, <2>1, <2>8 DEF Tree
  <2>9. ASSUME Whole(t)
        PROVE  Whole(u)
    <3>1. Torn \notin Content /\ Absent # Torn /\ Dir # Torn
      BY EntryAssumption DEF FileData
    <3>2. Torn \notin {t[q] : q \in Path}
      BY <2>9 DEF Whole
    <3>3. \A q \in Below(to) : w[q] # Torn
      BY <2>3, <2>4, <3>1, <3>2
    <3> QED
      BY <2>2, <2>9, <3>1, <3>3 DEF Whole
  <2> QED
    BY <1>2, <2>2, <2>6, <2>7, <2>8, <2>9
<1> QED
  BY <1>1, <1>2

LEMMA ListingOfTree ==
  ASSUME NEW t \in Tree
  PROVE  ListingOf(t) \in Listing
  BY DEF ListingOf, Listing, IsFile

LEMMA WhereThingsLie ==
  ASSUME NEW p \in Path
  PROVE  /\ Above[p] \subseteq Path /\ p \notin Above[p]
         /\ \A q \in Above[p] : Above[q] \subseteq Above[p] /\ q < p
  BY AboveAssumption DEF Path

\* Whatever lies under a path lies in a directory, still.
LEMMA RemovedWellFormed ==
  ASSUME NEW t \in Tree, WellFormed(t), NEW p \in Path
  PROVE  WellFormed(Removed(t, p))
<1> SUFFICES ASSUME NEW q \in Path, Removed(t, p)[q] # Absent, NEW r \in Above[q]
             PROVE  Removed(t, p)[r] = Dir
  BY DEF WellFormed
<1>1. q # p /\ p \notin Above[q] /\ t[q] # Absent
  BY DEF Removed
<1>2. r \in Path /\ t[r] = Dir /\ r # p /\ p \notin Above[r]
  BY <1>1, WhereThingsLie DEF WellFormed
<1> QED
  BY <1>2 DEF Removed

LEMMA ExtendedWellFormed ==
  ASSUME NEW t \in Tree, WellFormed(t), NEW p \in Path, ParentsExist(t, p), t[p] # Dir,
         NEW e \in Entry
  PROVE  WellFormed([t EXCEPT ![p] = e])
<1> DEFINE u == [t EXCEPT ![p] = e]
<1> SUFFICES ASSUME NEW q \in Path, u[q] # Absent, NEW r \in Above[q]
             PROVE  u[r] = Dir
  BY DEF WellFormed
<1>1. r \in Path
  BY WhereThingsLie
<1>2. CASE q = p
  BY <1>1, <1>2, WhereThingsLie DEF Tree, ParentsExist
<1>3. CASE q # p
  <2>1. t[q] # Absent
    BY <1>3 DEF Tree
  <2>2. t[r] = Dir /\ r # p
    BY <2>1 DEF WellFormed
  <2> QED
    BY <1>1, <2>2 DEF Tree
<1> QED
  BY <1>2, <1>3

LEMMA WithParentsWellFormed ==
  ASSUME NEW t \in Tree, WellFormed(t), NEW p \in Path
  PROVE  WellFormed(WithParents(t, p))
<1> SUFFICES ASSUME NEW q \in Path, WithParents(t, p)[q] # Absent, NEW r \in Above[q]
             PROVE  WithParents(t, p)[r] = Dir
  BY DEF WellFormed
<1>1. r \in Path
  BY WhereThingsLie
<1>2. CASE q \in Above[p]
  BY <1>1, <1>2, WhereThingsLie DEF WithParents
<1>3. CASE q \notin Above[p]
  BY <1>1, <1>3 DEF WithParents, WellFormed
<1> QED
  BY <1>2, <1>3

LEMMA HousedWellFormed ==
  ASSUME NEW t \in Tree, WellFormed(t), NEW p \in Path
  PROVE  Housed(t, p) \in Tree /\ WellFormed(Housed(t, p))
  BY TreeOperations, WithParentsWellFormed DEF Housed

\* Pruning takes directories over the path, those that hold nothing else.
LEMMA PrunedWellFormed ==
  ASSUME NEW t \in Tree, WellFormed(t), NEW p \in Path
  PROVE  WellFormed(Pruned(t, p))
<1> SUFFICES ASSUME NEW q \in Path, Pruned(t, p)[q] # Absent, NEW r \in Above[q]
             PROVE  Pruned(t, p)[r] = Dir
  BY DEF WellFormed
<1>1. t[q] # Absent /\ r \in Path /\ t[r] = Dir
  BY WhereThingsLie DEF Pruned, WellFormed
<1> SUFFICES ASSUME r \in Above[p] PROVE \E x \in Below(r) \ Above[p] : t[x] # Absent
  BY <1>1 DEF Pruned
<1>2. CASE q \notin Above[p]
  BY <1>1, <1>2 DEF Below
<1>3. CASE q \in Above[p]
  <2>1. PICK x \in Below(q) \ Above[p] : t[x] # Absent
    BY <1>3 DEF Pruned
  <2>2. r \in Above[x]
    BY <2>1, WhereThingsLie DEF Below
  <2> QED
    BY <2>1, <2>2 DEF Below
<1> QED
  BY <1>2, <1>3

\* Deleting what is no directory disturbs no other file, pruning included.
LEMMA DeletedAlone ==
  ASSUME NEW t \in Tree, WellFormed(t), NEW p \in Path, t[p] # Dir,
         NEW u, u = Removed(t, p) \/ (t[p] # Absent /\ u = Pruned(Removed(t, p), p))
  PROVE  /\ u \in Tree /\ WellFormed(u) /\ u[p] = Absent
         /\ \A q \in Path \ {p} : u[q] = t[q] \/ (t[q] = Dir /\ u[q] = Absent)
<1> DEFINE v == Removed(t, p)
<1>1. v \in Tree /\ WellFormed(v) /\ v[p] = Absent
  BY TreeOperations, RemovedWellFormed DEF Removed
<1>2. \A q \in Path \ {p} : v[q] = t[q]
  BY DEF Removed, WellFormed
<1>3. p \notin Above[p] /\ Above[p] \subseteq Path
  BY WhereThingsLie
<1>4. CASE u = v
  BY <1>1, <1>2, <1>4
<1>5. CASE t[p] # Absent /\ u = Pruned(v, p)
  <2>1. \A q \in Above[p] : t[q] = Dir
    BY <1>5 DEF WellFormed
  <2> HIDE DEF v
  <2>2. u \in Tree /\ WellFormed(u)
    BY <1>1, <1>5, TreeOperations, PrunedWellFormed
  <2>3. \A q \in Path : u[q] = v[q] \/ (q \in Above[p] /\ u[q] = Absent)
    BY <1>5 DEF Pruned
  <2> QED
    BY <1>1, <1>2, <1>3, <2>1, <2>2, <2>3
<1> QED
  BY <1>4, <1>5
=============================================================================
