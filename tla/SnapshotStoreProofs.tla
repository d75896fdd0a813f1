-------------------------- MODULE SnapshotStoreProofs --------------------------
(***************************************************************************)
(* What SnapshotStore promises, for any directory, any contents and dates, *)
(* and any number of snapshots, changes and faults.                        *)
(***************************************************************************)
EXTENDS SnapshotStore, FileTreeProofs, WellFoundedInduction

Plain == [Path -> Content \cup {Absent, Dir}]    \* trees without half a file

LEMMA PlainTree == Plain \subseteq Tree
  BY DEF Plain, Tree, Entry, FileData

LEMMA DirectoryRemoved ==
  ASSUME NEW t \in Plain, WellFormed(t), NEW p \in Path
  PROVE  Removed(t, p) \in Plain /\ WellFormed(Removed(t, p))
<1>1. Removed(t, p) \in Plain
  BY DEF Removed, Plain
<1> QED
  BY <1>1, PlainTree, RemovedWellFormed

LEMMA DirectoryExtended ==
  ASSUME NEW t \in Plain, WellFormed(t), NEW p \in Path, ParentsExist(t, p), t[p] # Dir,
         NEW e \in Content \cup {Dir}
  PROVE  [t EXCEPT ![p] = e] \in Plain /\ WellFormed([t EXCEPT ![p] = e])
<1>1. [t EXCEPT ![p] = e] \in Plain
  BY DEF Plain
<1>2. e \in Entry
  BY DEF Entry, FileData
<1> QED
  BY <1>1, <1>2, PlainTree, ExtendedWellFormed

-----------------------------------------------------------------------------
(* Types                                                                   *)

\* TypeOK in parts: what others do to the directory, what a command keeps in memory, and
\* what is in its files.
DirectoryType ==
    /\ tree \in Plain /\ WellFormed(tree)
    /\ date \in [Path -> Dates] /\ hidden \subseteq Path
    /\ versions \in [Path -> SUBSET Attributes]
ScanType ==
    /\ parallel \in BOOLEAN
    /\ stage \in [Path -> {"unlisted", "listed", "hashing", "hashed", "done"}]
    /\ seen \in [Path -> Attributes \cup {None}]
    /\ \A p \in Path : stage[p] = "hashing" => seen[p] # None
    /\ results \in [Path -> FileData \cup {Absent}]
    /\ \A p \in Path : stage[p] = "hashed" => results[p] # Absent
    /\ items \in Tree /\ touched \subseteq Path /\ racing \subseteq Path
    /\ cut \subseteq SUBSET Path
FilesType ==
    /\ cache \in [Path -> CacheRow \cup {None}]
    /\ files \in [target: Database \cup {None}, staging: Database \cup {None}]
    /\ before \in Database \cup {None}
    /\ mode \in {"plain", "atomic"} /\ phase \in {"idle", "scan", "commit", "swap", "open"}
    /\ last \in {"none", "taken", "failed"}
    /\ phase # "idle" => last = "none"
    /\ phase \in {"scan", "commit", "swap"} => files[Into(mode)] # None
BoundsType == runs \in 0..MaxRuns /\ edits \in 0..MaxEdits /\ faults \in 0..MaxFaults

LEMMA TypeParts == TypeOK <=> DirectoryType /\ ScanType /\ FilesType /\ BoundsType
  BY DEF TypeOK, DirectoryType, ScanType, FilesType, BoundsType, Plain

LEMMA TypeNext == DirectoryType' /\ ScanType' /\ FilesType' /\ BoundsType' => TypeOK'
  BY DEF TypeOK, DirectoryType, ScanType, FilesType, BoundsType, Plain

LEMMA AttributesType ==
  ASSUME DirectoryType, NEW p \in Path, IsFile(tree, p)
  PROVE  AttributesOf(p) \in Attributes /\ tree[p] \in Content
<1>1. tree[p] \in Content
  BY EntryAssumption DEF DirectoryType, Plain, IsFile, FileData
<1> QED
  BY <1>1, SizeAssumption, DatesAssumption DEF DirectoryType, AttributesOf, Attributes

LEMMA InitType == Init => TypeOK
<1> SUFFICES ASSUME Init PROVE TypeOK
  OBVIOUS
<1>1. DirectoryType
  <2>1. tree \in Plain /\ WellFormed(tree) /\ date \in [Path -> Dates] /\ hidden = {}
    BY FirstAssumption, DatesAssumption DEF Init, Plain
  <2>2. \A p \in Path : IsFile(tree, p) => AttributesOf(p) \in Attributes
    <3> TAKE p \in Path
    <3> HAVE IsFile(tree, p)
    <3>1. tree[p] \in Content
      BY <2>1, EntryAssumption DEF Plain, IsFile, FileData
    <3> QED
      BY <2>1, <3>1, SizeAssumption, DatesAssumption DEF AttributesOf, Attributes
  <2>3. versions \in [Path -> SUBSET Attributes]
    BY <2>2 DEF Init
  <2> QED
    BY <2>1, <2>3 DEF DirectoryType
<1>2. ScanType
  BY DEF Init, ScanType, Nothing, Tree, Entry
<1>3. FilesType
  BY SavedAssumption DEF Init, FilesType
<1>4. BoundsType
  BY BoundsAssumption DEF Init, BoundsType
<1> QED
  BY <1>1, <1>2, <1>3, <1>4, TypeParts

\* What somebody does in the directory.
LEMMA ChangesType ==
  ASSUME TypeOK, NEW paths \in SUBSET Path, Changes(paths)
  PROVE  ScanType' /\ FilesType' /\ BoundsType'
<1>1. ScanType'
  BY TypeParts DEF Changes, ScanType
<1>2. FilesType'
  BY TypeParts DEF Changes, FilesType, Into
<1>3. BoundsType'
  BY TypeParts, BoundsAssumption DEF Changes, BoundsType
<1> QED
  BY <1>1, <1>2, <1>3

LEMMA WriteFileType ==
  ASSUME TypeOK, NEW p \in Path, NEW c \in Content, NEW d \in Dates, WriteFile(p, c, d)
  PROVE  TypeOK'
<1> DEFINE new == [size |-> Size[c], date |-> d]
<1>1. tree' \in Plain /\ WellFormed(tree')
  BY TypeParts, DirectoryExtended DEF WriteFile, Writable, DirectoryType
<1>2. new \in Attributes
  BY SizeAssumption, DatesAssumption DEF Attributes
<1>3. date' \in [Path -> Dates] /\ hidden' \subseteq Path
  BY TypeParts DEF WriteFile, DirectoryType
<1>4. versions' \in [Path -> SUBSET Attributes]
  BY <1>2, TypeParts DEF WriteFile, DirectoryType
<1>5. DirectoryType'
  BY <1>1, <1>3, <1>4 DEF DirectoryType
<1>6. ScanType' /\ FilesType' /\ BoundsType'
  BY ChangesType DEF WriteFile
<1> QED
  BY <1>5, <1>6, TypeNext

LEMMA RemoveType == ASSUME TypeOK, NEW p \in Path, Remove(p) PROVE TypeOK'
<1>1. DirectoryType'
  BY TypeParts, DirectoryRemoved DEF Remove, DirectoryType
<1>2. ScanType' /\ FilesType' /\ BoundsType'
  BY ChangesType DEF Remove, Below
<1> QED
  BY <1>1, <1>2, TypeNext

LEMMA MakeDirectoryType == ASSUME TypeOK, NEW p \in Path, MakeDirectory(p) PROVE TypeOK'
<1>1. DirectoryType'
  BY TypeParts, DirectoryExtended, EntryAssumption DEF MakeDirectory, DirectoryType
<1>2. ScanType' /\ FilesType' /\ BoundsType'
  BY ChangesType DEF MakeDirectory
<1> QED
  BY <1>1, <1>2, TypeNext

LEMMA DirectoryStays == DirectoryType /\ UNCHANGED directory => DirectoryType'
  BY DEF DirectoryType, directory

LEMMA StartType == ASSUME TypeOK, NEW m \in {"plain", "atomic"}, Start(m) PROVE TypeOK'
<1> DEFINE f == Into(m)
           old == IF m = "atomic" THEN None ELSE files[f]
           fresh == [roots |-> {Root}, items |-> Nothing, whole |-> FALSE]
           rootless == [roots |-> {}, items |-> Nothing, whole |-> FALSE]
<1>0. DirectoryType /\ ScanType /\ FilesType /\ BoundsType
  BY TypeParts
<1>1. DirectoryType'
  BY <1>0, DirectoryStays DEF Start
<1>2. BoundsType'
  BY <1>0, BoundsAssumption DEF Start, NotOpened, BoundsType, Fault
<1>3. /\ Nothing \in Tree /\ Nothing \in [Path -> FileData \cup {Absent}]
      /\ fresh \in Database /\ rootless \in Database /\ f \in {"target", "staging"}
  BY DEF Nothing, Tree, Entry, Database, Into
<1>4. old # None => old \in Database
  BY <1>0 DEF FilesType, Into
<1>5. mode' = m /\ before' = files["target"] /\ cut' = {} /\ UNCHANGED cache /\ phase = "idle"
  BY DEF Start
<1>6. CASE NotOpened(m, old) /\ last' = "failed" /\ UNCHANGED <<phase, scan, items, touched>>
  <2>1. ScanType'
    BY <1>0, <1>5, <1>6 DEF ScanType, scan
  <2>2. files' \in {files, [files EXCEPT !["target"] = rootless]}
    BY <1>6 DEF NotOpened
  <2>3. files' \in [target: Database \cup {None}, staging: Database \cup {None}]
    BY <1>0, <1>3, <2>2 DEF FilesType
  <2>4. FilesType'
    BY <1>0, <1>5, <1>6, <2>3 DEF FilesType
  <2> QED
    BY <1>1, <1>2, <2>1, <2>4, TypeNext
<1>7. CASE /\ Opened(f, old)
           /\ items' = (IF old = None THEN Nothing ELSE old.items)
           /\ phase' = "scan" /\ last' = "none" /\ parallel' \in BOOLEAN
           /\ seen' = [p \in Path |-> None] /\ results' = Nothing /\ racing' = {}
           /\ touched' \in {{}, Path} /\ stage' \in [Path -> {"unlisted", "listed"}]
  <2>3. ScanType'
    BY <1>3, <1>4, <1>5, <1>7 DEF ScanType, Database
  <2>4. (IF old = None THEN fresh ELSE [old EXCEPT !.roots = @ \cup {Root}]) \in Database
    BY <1>3, <1>4 DEF Database
  <2>5. files' \in [target: Database \cup {None}, staging: Database \cup {None}]
        /\ files'[f] # None
    BY <1>0, <1>3, <1>7, <2>4, NoneAssumption DEF FilesType, Opened
  <2>6. FilesType'
    BY <1>0, <1>5, <1>7, <2>5 DEF FilesType, Into
  <2> QED
    BY <1>1, <1>2, <2>3, <2>6, TypeNext
<1>8. ASSUME \/ /\ stage' = [p \in Path |-> IF p \in In({}) /\ tree[p] # Absent
                                              THEN "listed" ELSE "unlisted"]
                /\ touched' = {}
             \/ stage' = [p \in Path |-> "unlisted"] /\ touched' = Path
      PROVE  touched' \in {{}, Path} /\ stage' \in [Path -> {"unlisted", "listed"}]
  BY <1>8
<1> QED
  BY <1>6, <1>7, <1>8 DEF Start

LEMMA InsertedType ==
  ASSUME items \in Tree, NEW p \in Path, NEW e \in Entry
  PROVE  Inserted(p, e) \in Tree
  BY TreeUpdate DEF Inserted

LEMMA ScanDirectoryType == ASSUME TypeOK, NEW p \in Path, ScanDirectory(p) PROVE TypeOK'
<1>0. DirectoryType /\ ScanType /\ FilesType /\ BoundsType
  BY TypeParts
<1>1. DirectoryType'
  BY <1>0, DirectoryStays DEF ScanDirectory
<1>2. items' \in Tree
  BY <1>0, InsertedType DEF ScanDirectory, ScanType, Entry
<1>3. /\ stage' \in [Path -> {"unlisted", "listed", "hashing", "hashed", "done"}]
      /\ \A q \in Path : stage'[q] \in {"hashing", "hashed"} => stage'[q] = stage[q]
  BY <1>0 DEF ScanDirectory, Entered, ScanType
<1>4. ScanType'
  BY <1>0, <1>2, <1>3 DEF ScanDirectory, Entered, ScanType
<1>5. FilesType'
  BY <1>0 DEF ScanDirectory, FilesType, Into
<1>6. BoundsType'
  BY <1>0, BoundsAssumption DEF ScanDirectory, Entered, Fault, BoundsType
<1> QED
  BY <1>1, <1>4, <1>5, <1>6, TypeNext

LEMMA LookType == ASSUME TypeOK, NEW p \in Path, Look(p) PROVE TypeOK'
<1>0. DirectoryType /\ ScanType /\ FilesType /\ BoundsType
  BY TypeParts
<1>1. DirectoryType' /\ FilesType' /\ BoundsType'
  BY <1>0, DirectoryStays DEF Look, FilesType, BoundsType, Into
<1>2. ScanType'
  <2>1. CASE Hit(cache[p], AttributesOf(p))
    <3>1. cache[p].hash \in FileData /\ cache[p].hash # Absent
      BY <1>0, <2>1, EntryAssumption DEF Hit, FilesType, CacheRow
    <3>2. results' = [results EXCEPT ![p] = cache[p].hash] /\ UNCHANGED seen
          /\ stage' = [stage EXCEPT ![p] = "hashed"]
      BY <2>1 DEF Look
    <3> QED
      BY <1>0, <3>1, <3>2 DEF Look, ScanType
  <2>2. CASE ~ Hit(cache[p], AttributesOf(p))
    <3>1. AttributesOf(p) \in Attributes /\ AttributesOf(p) # None
      BY <1>0, AttributesType, NoRowAssumption DEF Look
    <3> QED
      BY <1>0, <2>2, <3>1 DEF Look, ScanType
  <2> QED
    BY <2>1, <2>2
<1> QED
  BY <1>1, <1>2, TypeNext

LEMMA HashFileType == ASSUME TypeOK, NEW p \in Path, HashFile(p) PROVE TypeOK'
<1>0. DirectoryType /\ ScanType /\ FilesType /\ BoundsType
  BY TypeParts
<1>1. PICK h \in {tree[p]} \cup (IF p \in racing THEN {Torn} ELSE {}) :
          cache' = [cache EXCEPT ![p] = Row(p, h)] /\ results' = [results EXCEPT ![p] = h]
  BY DEF HashFile
<1>2. h \in FileData /\ h # Absent
  BY <1>0, AttributesType, EntryAssumption DEF HashFile, FileData
<1>3. seen[p] \in Attributes
  BY <1>0 DEF HashFile, ScanType
<1>4. Floor(seen[p].date) \in Nat
  BY <1>3 DEF Floor, Attributes
<1>5. Row(p, h) \in CacheRow
  BY <1>2, <1>3, <1>4 DEF Row, CacheRow, Attributes
<1>6. DirectoryType' /\ BoundsType'
  BY <1>0, DirectoryStays DEF HashFile, BoundsType
<1>7. FilesType'
  BY <1>0, <1>1, <1>5 DEF HashFile, FilesType, Into
<1>8. ScanType'
  BY <1>0, <1>1, <1>2 DEF HashFile, ScanType
<1> QED
  BY <1>6, <1>7, <1>8, TypeNext

\* An item is inserted, dropped or left out.
LEMMA ProcessedType ==
  ASSUME ScanType, NEW p \in Path, Processed(p), UNCHANGED <<parallel, seen, racing>>,
         items' \in Tree, touched' \subseteq Path, cut' \in {cut, cut \cup {Parent[p]}}
  PROVE  ScanType'
<1>1. Parent[p] \subseteq Path
  BY WhereThingsLie DEF Parent
<1> QED
  BY <1>1 DEF Processed, ScanType

LEMMA InsertType ==
  ASSUME TypeOK, NEW p \in Path, Insert(p) \/ InsertFails(p) \/ Drop(p) PROVE TypeOK'
<1>0. DirectoryType /\ ScanType /\ FilesType /\ BoundsType
  BY TypeParts
<1>1. DirectoryType' /\ FilesType'
  BY <1>0, DirectoryStays DEF Insert, InsertFails, Drop, FilesType, Into
<1>2. BoundsType'
  BY <1>0, BoundsAssumption DEF Insert, InsertFails, Drop, BoundsType, Fault
<1>3. Inserted(p, results[p]) \in Tree
  BY <1>0, InsertedType DEF ScanType, Entry
<1>4. ScanType'
  <2>1. Processed(p) /\ UNCHANGED <<parallel, seen, racing, touched>>
    BY DEF Insert, InsertFails, Drop
  <2>2. items' \in Tree /\ cut' \in {cut, cut \cup {Parent[p]}}
    BY <1>0, <1>3 DEF Insert, InsertFails, Drop, ScanType
  <2> QED
    BY <1>0, <2>1, <2>2, ProcessedType DEF ScanType
<1> QED
  BY <1>1, <1>2, <1>4, TypeNext

LEMMA LeftOutType ==
  ASSUME TypeOK, NEW p \in Path, Vanished(p) \/ PassOver(p) PROVE TypeOK'
<1>0. DirectoryType /\ ScanType /\ FilesType /\ BoundsType
  BY TypeParts
<1>1. DirectoryType' /\ FilesType'
  BY <1>0, DirectoryStays DEF Vanished, PassOver, FilesType, Into
<1>2. BoundsType'
  BY <1>0, BoundsAssumption DEF Vanished, PassOver, BoundsType, Fault
<1>3. /\ Processed(p) /\ UNCHANGED <<parallel, seen, racing, items, cut>>
      /\ touched' \in {touched, touched \cup {p} \cup Below(p)}
  BY DEF Vanished, PassOver
<1>4. touched' \subseteq Path /\ items \in Tree
  BY <1>0, <1>3 DEF ScanType, Below
<1>5. ScanType'
  BY <1>0, <1>3, <1>4, ProcessedType
<1> QED
  BY <1>1, <1>2, <1>5, TypeNext

LEMMA ForgetType ==
  ASSUME ScanType, Forget, UNCHANGED <<touched, cut>>
  PROVE  ScanType'
  BY DEF Forget, ScanType, Nothing, Tree, Entry

LEMMA SaveType ==
  ASSUME TypeOK, Prune \/ Commit \/ ReplaceItem \/ Open
  PROVE  TypeOK'
<1>0. DirectoryType /\ ScanType /\ FilesType /\ BoundsType
  BY TypeParts
<1>1. DirectoryType' /\ BoundsType'
  BY <1>0, DirectoryStays DEF Prune, Commit, ReplaceItem, Open, BoundsType
<1>2. CASE Prune
  BY <1>0, <1>1, <1>2, TypeNext DEF Prune, ScanType, FilesType, Into, scan
<1>3. CASE Commit
  <2>1. files[Into(mode)] \in Database /\ items \in Tree
    BY <1>0, <1>3 DEF Commit, FilesType, ScanType, Into
  <2>2. [files[Into(mode)] EXCEPT !.items = items, !.whole = TRUE] \in Database
    BY <2>1 DEF Database
  <2>3. files' \in [target: Database \cup {None}, staging: Database \cup {None}]
        /\ files'[Into(mode)] # None
    BY <1>0, <1>3, <2>2, NoneAssumption DEF Commit, FilesType, Into
  <2>4. ScanType'
    BY <1>0, <1>3, ForgetType DEF Commit
  <2>5. FilesType'
    BY <1>0, <1>3, <2>3 DEF Commit, FilesType, Into
  <2> QED
    BY <1>1, <2>4, <2>5, TypeNext
<1>4. CASE ReplaceItem
  BY <1>0, <1>1, <1>4, TypeNext DEF ReplaceItem, ScanType, FilesType, scan
<1>5. CASE Open
  <2>1. ScanType'
    BY <1>0, <1>5, ForgetType DEF Open, End
  <2> QED
    BY <1>0, <1>1, <1>5, <2>1, TypeNext DEF Open, End, FilesType
<1> QED
  BY <1>2, <1>3, <1>4, <1>5

LEMMA FailureType == ASSUME TypeOK, GiveUp \/ Crash PROVE TypeOK'
<1>0. DirectoryType /\ ScanType /\ FilesType /\ BoundsType
  BY TypeParts
<1>1. DirectoryType' /\ BoundsType'
  BY <1>0, DirectoryStays, BoundsAssumption DEF GiveUp, Crash, BoundsType, Fault
<1>2. ScanType' /\ phase' = "idle" /\ last' = "failed"
  BY <1>0, ForgetType DEF GiveUp, Crash, End
<1>3. FilesType'
  BY <1>0, <1>2 DEF GiveUp, Crash, FilesType
<1> QED
  BY <1>1, <1>2, <1>3, TypeNext

LEMMA NextType == TypeOK /\ [Next]_vars => TypeOK'
<1> SUFFICES ASSUME TypeOK, [Next]_vars PROVE TypeOK'
  OBVIOUS
<1>1. CASE UNCHANGED vars
  BY <1>1 DEF TypeOK, vars, directory, scan, IsFile, Into
<1>2. CASE \E p \in Path, c \in Content, d \in Dates : WriteFile(p, c, d)
  BY <1>2, WriteFileType
<1>3. CASE \E p \in Path : Remove(p) \/ MakeDirectory(p)
  BY <1>3, RemoveType, MakeDirectoryType
<1>4. CASE \E m \in {"plain", "atomic"} : Start(m)
  BY <1>4, StartType
<1>5. CASE \/ \E p \in Path : ScanDirectory(p) \/ Look(p) \/ HashFile(p)
           \/ \E p \in Path : Insert(p) \/ InsertFails(p) \/ Drop(p) \/ Vanished(p) \/ PassOver(p)
  BY <1>5, ScanDirectoryType, LookType, HashFileType, InsertType, LeftOutType
<1>6. CASE Prune \/ Commit \/ ReplaceItem \/ Open \/ GiveUp \/ Crash
  BY <1>6, SaveType, FailureType
<1> QED
  BY <1>1, <1>2, <1>3, <1>4, <1>5, <1>6 DEF Next

(* The types of every variable, for any directory and any dates: what is   *)
(* hashed was looked at, a command under way has a file it writes to.      *)
THEOREM SpecTypeOK == Spec => []TypeOK
  BY InitType, NextType, PTL DEF Spec

-----------------------------------------------------------------------------
(* The atomic save                                                         *)

\* OldOrNew, and what lies at the staging file until it is moved over the target.
SavingInv ==
    /\ phase = "swap" => mode = "atomic"
    /\ mode = "atomic" /\ phase \in {"scan", "commit", "swap"} =>
          /\ files["target"] = before
          /\ files["staging"] # None /\ files["staging"].roots = {Root}
          /\ phase = "swap" => files["staging"].whole
    /\ OldOrNew

LEMMA SavingInit == Init => SavingInv
  BY DEF Init, SavingInv, OldOrNew

\* What neither writes to a snapshot nor ends a command.
LEMMA SavingStays ==
  ASSUME SavingInv, UNCHANGED <<files, mode, before, last>>,
         phase' = phase \/ (phase = "scan" /\ phase' = "commit")
  PROVE  SavingInv'
  BY DEF SavingInv, OldOrNew

LEMMA SavingNext == TypeOK /\ SavingInv /\ [Next]_vars => SavingInv'
<1> SUFFICES ASSUME TypeOK, SavingInv, [Next]_vars PROVE SavingInv'
  OBVIOUS
<1>0. FilesType
  BY TypeParts
<1>1. CASE UNCHANGED vars
  BY <1>1, SavingStays DEF vars
<1>2. CASE \E p \in Path, c \in Content, d \in Dates : WriteFile(p, c, d)
  BY <1>2, SavingStays DEF WriteFile, Changes
<1>3. CASE \E p \in Path : Remove(p) \/ MakeDirectory(p)
  BY <1>3, SavingStays DEF Remove, MakeDirectory, Changes
<1>4. CASE \/ \E p \in Path : ScanDirectory(p) \/ Look(p) \/ HashFile(p)
           \/ \E p \in Path : Insert(p) \/ InsertFails(p) \/ Drop(p) \/ Vanished(p) \/ PassOver(p)
  BY <1>4, SavingStays
  DEF ScanDirectory, Look, HashFile, Insert, InsertFails, Drop, Vanished, PassOver
<1>5. ASSUME NEW m \in {"plain", "atomic"}, Start(m)
      PROVE  SavingInv'
  <2>1. mode' = m /\ before' = files["target"] /\ phase = "idle"
        /\ phase' \in {"idle", "scan"} /\ last' # "taken"
    BY <1>5 DEF Start
  <2>2. CASE m = "plain"
    BY <2>1, <2>2 DEF SavingInv, OldOrNew
  <2>3. CASE m = "atomic" /\ phase' = "scan"
    <3>1. files' = [files EXCEPT !["staging"] =
                       [roots |-> {Root}, items |-> Nothing, whole |-> FALSE]]
      BY <1>5, <2>1, <2>3 DEF Start, Opened, Into
    <3>2. files'["target"] = files["target"] /\ files'["staging"].roots = {Root}
          /\ files'["staging"] \in Database
      BY <1>0, <3>1 DEF FilesType, Database, Nothing, Tree, Entry
    <3> QED
      BY <2>1, <2>3, <3>2, NoneAssumption DEF SavingInv, OldOrNew
  <2>4. CASE m = "atomic" /\ phase' = "idle"
    <3>1. files' = files
      BY <1>5, <2>4 DEF Start, NotOpened
    <3> QED
      BY <2>1, <2>4, <3>1 DEF SavingInv, OldOrNew
  <2> QED
    BY <2>1, <2>2, <2>3, <2>4
<1>6. CASE Prune
  BY <1>6, SavingStays DEF Prune
<1>7. CASE Commit
  <2>1. CASE mode = "atomic"
    <3> DEFINE s == [files["staging"] EXCEPT !.items = items, !.whole = TRUE]
    <3>1. files' = [files EXCEPT !["staging"] = s] /\ phase = "commit" /\ phase' = "swap"
          /\ UNCHANGED <<mode, before, last>>
      BY <1>7, <2>1 DEF Commit, Into
    <3>2. files["staging"] \in Database /\ files["staging"].roots = {Root}
      BY <1>0, <2>1, <3>1 DEF FilesType, SavingInv
    <3>3. s.roots = {Root} /\ s.whole /\ s # None
      <4>1. items \in Tree
        BY TypeParts DEF ScanType
      <4>2. s \in Database
        BY <3>2, <4>1 DEF Database
      <4> QED
        BY <3>2, <4>2, NoneAssumption DEF Database
    <3>4. files'["staging"] = s /\ files'["target"] = files["target"]
      BY <1>0, <3>1 DEF FilesType
    <3> QED
      BY <2>1, <3>1, <3>3, <3>4 DEF SavingInv, OldOrNew
  <2>2. CASE mode # "atomic"
    BY <1>7, <2>2 DEF Commit, SavingInv, OldOrNew
  <2> QED
    BY <2>1, <2>2
<1>8. CASE ReplaceItem \/ Open
  BY <1>8 DEF ReplaceItem, Open, End, SavingInv, OldOrNew
<1>9. CASE GiveUp \/ Crash
  <2>1. phase # "idle" /\ phase' = "idle" /\ last' = "failed" /\ UNCHANGED <<mode, before>>
    BY <1>9 DEF GiveUp, Crash, End
  <2>2. files'["target"] = files["target"]
    BY <1>0, <1>9 DEF GiveUp, Crash, FilesType
  <2>3. phase \in {"scan", "commit", "swap", "open"} /\ last = "none"
    BY <1>0, <2>1 DEF FilesType
  <2> QED
    BY <2>1, <2>2, <2>3 DEF SavingInv, OldOrNew
<1> QED
  BY <1>1, <1>2, <1>3, <1>4, <1>5, <1>6, <1>7, <1>8, <1>9 DEF Next

(* An atomic save never shows anything but the old file or a complete      *)
(* snapshot of this directory, however it fails and whenever it dies; the  *)
(* latter also where only opening it has failed.                           *)
THEOREM SpecOldOrNew == Spec => []OldOrNew
<1>1. Spec => []TypeOK
  BY SpecTypeOK
<1>2. SavingInv => OldOrNew
  BY DEF SavingInv
<1> QED
  BY <1>1, <1>2, SavingInit, SavingNext, PTL DEF Spec

-----------------------------------------------------------------------------
(* The order of a scan: a directory before what lies in it, each item      *)
(* once; what changes while it is hashed is hashed or done.                *)
OrderInv ==
    /\ \A p \in Path : stage[p] # "unlisted" => \A q \in Above[p] : stage[q] = "done"
    /\ \A p \in racing : stage[p] \in {"hashing", "hashed", "done"}

LEMMA OrderInit == Init => OrderInv
  BY DEF Init, OrderInv

\* What has been listed may only go on, to "hashing", "hashed" or "done".
LEMMA OrderAdvances ==
  ASSUME OrderInv, NEW p \in Path, stage[p] # "unlisted", ScanType,
         NEW s \in {"hashing", "hashed", "done"}, stage' = [stage EXCEPT ![p] = s],
         stage[p] = "done" => stage'[p] = "done", racing' = racing
  PROVE  OrderInv'
<1>1. \A q \in Path : stage[q] = "done" => stage'[q] = "done"
  BY DEF ScanType
<1>2. \A q \in Path : stage'[q] # "unlisted" => stage[q] # "unlisted"
  BY DEF ScanType
<1>3. \A q \in racing : stage'[q] \in {"hashing", "hashed", "done"}
  BY DEF ScanType, OrderInv
<1> QED
  BY <1>1, <1>2, <1>3, AboveAssumption DEF OrderInv

LEMMA ParentsLie ==
  ASSUME NEW p \in Path, NEW q \in Path, p \in In({q})
  PROVE  q \in Above[p] /\ Above[p] = Above[q] \cup {q} /\ q \notin Above[q] /\ p # q
  BY WhereThingsLie DEF In, Parent

LEMMA AtTheRoot ==
  ASSUME NEW p \in Path
  PROVE  p \in In({}) <=> Above[p] = {}
  BY ParentAssumption DEF In, Parent

LEMMA OrderNext == TypeOK /\ OrderInv /\ [Next]_vars => OrderInv'
<1> SUFFICES ASSUME TypeOK, OrderInv, [Next]_vars PROVE OrderInv'
  OBVIOUS
<1>0. ScanType
  BY TypeParts
<1>1. CASE UNCHANGED vars
  BY <1>1 DEF vars, scan, OrderInv
<1>2. ASSUME NEW paths \in SUBSET Path, Changes(paths)
      PROVE  OrderInv'
  BY <1>2 DEF Changes, OrderInv
<1>3. CASE \E p \in Path, c \in Content, d \in Dates : WriteFile(p, c, d)
  BY <1>2, <1>3 DEF WriteFile
<1>4. CASE \E p \in Path : Remove(p) \/ MakeDirectory(p)
  BY <1>2, <1>4 DEF Remove, MakeDirectory, Below
<1>5. CASE \E m \in {"plain", "atomic"} : Start(m)
  <2>1. CASE UNCHANGED scan
    BY <2>1 DEF scan, OrderInv
  <2>2. CASE /\ racing' = {}
             /\ \/ stage' = [p \in Path |-> IF p \in In({}) /\ tree[p] # Absent
                                           THEN "listed" ELSE "unlisted"]
                \/ stage' = [p \in Path |-> "unlisted"]
    BY <2>2, AtTheRoot DEF OrderInv
  <2> QED
    BY <1>5, <2>1, <2>2 DEF Start
<1>6. ASSUME NEW p \in Path, ScanDirectory(p)
      PROVE  OrderInv'
  <2>1. stage[p] = "listed" /\ racing' = racing
    BY <1>6 DEF ScanDirectory
  <2>2. CASE stage' = [stage EXCEPT ![p] = "done"]
    BY <1>0, <2>1, <2>2, OrderAdvances
  <2>3. CASE stage' = [q \in Path |-> IF q \in {r \in In({p}) : tree[r] # Absent} THEN "listed"
                                      ELSE IF q \in {p} THEN "done" ELSE stage[q]]
    <3>1. \A q \in In({p}) : q \in Path /\ stage[q] = "unlisted"
      BY <2>1, ParentsLie DEF OrderInv, In
    <3>2. stage'[p] = "done" /\ \A q \in Path : stage[q] = "done" => stage'[q] = "done"
      BY <2>1, <2>3, <3>1
    <3>3. \A q \in Path : stage[q] \in {"hashing", "hashed", "done"} =>
                            stage'[q] \in {"hashing", "hashed", "done"}
      BY <2>1, <2>3, <3>1
    <3>4. ASSUME NEW q \in Path, stage'[q] # "unlisted", NEW r \in Above[q]
          PROVE  stage'[r] = "done"
      <4>1. r \in Path
        BY WhereThingsLie
      <4>2. CASE q \in In({p})
        <5>1. r = p \/ r \in Above[p]
          BY <4>2, ParentsLie
        <5>2. stage[r] = "done" \/ r = p
          BY <2>1, <5>1 DEF OrderInv
        <5> QED
          BY <3>2, <4>1, <5>2
      <4>3. CASE q \notin In({p})
        <5>1. stage[q] # "unlisted"
          BY <2>1, <2>3, <3>4, <4>3
        <5> QED
          BY <3>2, <4>1, <5>1 DEF OrderInv
      <4> QED
        BY <4>2, <4>3
    <3> QED
      BY <1>0, <2>1, <3>3, <3>4 DEF OrderInv, ScanType
  <2>4. CASE stage' = [q \in Path |-> IF q \in {p} THEN "done" ELSE stage[q]]
    <3>1. stage' = [stage EXCEPT ![p] = "done"]
      BY <1>0, <2>4 DEF ScanType
    <3> QED
      BY <1>0, <2>1, <3>1, OrderAdvances
  <2> QED
    BY <1>6, <2>2, <2>3, <2>4 DEF ScanDirectory, Entered
<1>7. ASSUME NEW p \in Path,
             \/ Look(p) \/ HashFile(p)
             \/ Insert(p) \/ InsertFails(p) \/ Drop(p) \/ Vanished(p) \/ PassOver(p)
      PROVE  OrderInv'
  <2>1. /\ stage[p] \in {"listed", "hashing", "hashed"} /\ racing' = racing
        /\ \E s \in {"hashing", "hashed", "done"} : stage' = [stage EXCEPT ![p] = s]
    BY <1>7 DEF Look, HashFile, Insert, InsertFails, Drop, Vanished, PassOver, Processed
  <2> QED
    BY <1>0, <2>1, OrderAdvances
<1>8. CASE Forget
  BY <1>8 DEF Forget, OrderInv
<1>9. CASE Prune \/ Commit \/ ReplaceItem \/ Open \/ GiveUp \/ Crash
  <2>1. CASE UNCHANGED scan
    BY <2>1 DEF scan, OrderInv
  <2> QED
    BY <1>8, <1>9, <2>1 DEF Prune, Commit, ReplaceItem, Open, GiveUp, Crash, End
<1> QED
  BY <1>1, <1>3, <1>4, <1>5, <1>6, <1>7, <1>9 DEF Next

-----------------------------------------------------------------------------
(* The rows of a snapshot                                                  *)

\* What is listed lies in directories whose rows are there.
RowsInv ==
    /\ RowsFormTree /\ WellFormed(items)
    /\ \A p \in Path : stage[p] # "unlisted" /\ stage[p] # "done" =>
          \A q \in Above[p] : items[q] = Dir

LEMMA NothingFormsTree == WellFormed(Nothing)
  BY WhereThingsLie DEF WellFormed, Nothing

LEMMA RowsInit == Init => RowsInv
<1> SUFFICES ASSUME Init PROVE RowsInv
  OBVIOUS
<1>1. items = Nothing /\ \A p \in Path : stage[p] = "unlisted"
  BY DEF Init
<1>2. RowsFormTree
  <2>1. PICK s \in FirstSaved : files = [target |-> s, staging |-> None]
    BY DEF Init
  <2>2. s # None => WellFormed(s.items)
    BY SavedAssumption
  <2> QED
    BY <2>1, <2>2 DEF RowsFormTree
<1> QED
  BY <1>1, <1>2, NothingFormsTree DEF RowsInv

\* A row of what lies in directories with rows; one that is refused changes nothing.
LEMMA InsertedFormsTree ==
  ASSUME ScanType, RowsInv, NEW p \in Path, stage[p] \in {"listed", "hashing", "hashed"},
         NEW e \in Entry
  PROVE  /\ WellFormed(Inserted(p, e)) /\ Inserted(p, e) \in Tree
         /\ \A q \in Path : items[q] = Dir => Inserted(p, e)[q] = Dir
         /\ items[p] = Absent => Inserted(p, e)[p] = e
<1>1. items \in Tree /\ WellFormed(items) /\ \A q \in Above[p] : items[q] = Dir
  BY DEF ScanType, RowsInv
<1>2. CASE items[p] # Absent
  BY <1>1, <1>2 DEF Inserted
<1>3. CASE items[p] = Absent
  <2>1. Inserted(p, e) = [items EXCEPT ![p] = e]
    BY <1>3 DEF Inserted
  <2>2. WellFormed([items EXCEPT ![p] = e])
    BY <1>1, <1>3, ExtendedWellFormed, EntryAssumption DEF ParentsExist
  <2> QED
    BY <1>1, <1>3, <2>1, <2>2, EntryAssumption, TreeUpdate DEF Tree
<1> QED
  BY <1>2, <1>3

\* What only goes on with an item, and inserts it if anything.
LEMMA RowsStay ==
  ASSUME ScanType, RowsInv, files' = files, WellFormed(items'),
         \A q \in Path : items[q] = Dir => items'[q] = Dir,
         \A q \in Path : stage'[q] \in {"unlisted", "done"}
                         \/ stage[q] \in {"listed", "hashing", "hashed"}
  PROVE  RowsInv'
<1>1. RowsFormTree'
  BY DEF RowsInv, RowsFormTree, WellFormed
<1>2. ASSUME NEW q \in Path, stage'[q] # "unlisted", stage'[q] # "done", NEW r \in Above[q]
      PROVE  items'[r] = Dir
  <2>1. items[r] = Dir
    BY <1>2 DEF RowsInv
  <2> QED
    BY <1>2, <2>1, WhereThingsLie
<1> QED
  BY <1>1, <1>2 DEF RowsInv, WellFormed

LEMMA RowsNext == TypeOK /\ RowsInv /\ [Next]_vars => RowsInv'
<1> SUFFICES ASSUME TypeOK, RowsInv, [Next]_vars PROVE RowsInv'
  OBVIOUS
<1>0. ScanType /\ FilesType
  BY TypeParts
<1>1. CASE UNCHANGED <<files, items, stage>>
  BY <1>1 DEF RowsInv, RowsFormTree, WellFormed
<1>2. CASE UNCHANGED vars
  BY <1>1, <1>2 DEF vars, scan
<1>3. CASE \/ \E p \in Path, c \in Content, d \in Dates : WriteFile(p, c, d)
           \/ \E p \in Path : Remove(p) \/ MakeDirectory(p)
  BY <1>1, <1>3 DEF WriteFile, Remove, MakeDirectory, Changes
\* What a file has after a step: what it had, nothing, or what was inserted.
<1>4. ASSUME \A f \in {"target", "staging"} : files'[f] # None =>
                 \/ \E g \in {"target", "staging"} :
                       files[g] # None /\ files'[f].items = files[g].items
                 \/ files'[f].items \in {items, Nothing}
      PROVE  RowsFormTree'
  BY <1>4, NothingFormsTree DEF RowsInv, RowsFormTree, WellFormed
<1>5. ASSUME NEW m \in {"plain", "atomic"}, Start(m)
      PROVE  RowsInv'
  <2> DEFINE f == Into(m)
             old == IF m = "atomic" THEN None ELSE files[f]
             new == [roots |-> {Root}, items |-> Nothing, whole |-> FALSE]
             rest == [roots |-> {}, items |-> Nothing, whole |-> FALSE]
  <2>1. f \in {"target", "staging"} /\ (old # None => old = files[f] /\ old \in Database)
    BY <1>0, NoneAssumption DEF FilesType, Into
  <2>2. CASE NotOpened(m, old) /\ UNCHANGED <<scan, items>>
    <3>1. files' = files \/ files' = [files EXCEPT !["target"] = rest]
      BY <2>2 DEF NotOpened
    <3>2. \A g \in {"target", "staging"} : files'[g] # None =>
              files'[g] = files[g] \/ files'[g].items = Nothing
      BY <1>0, <3>1 DEF FilesType
    <3>3. RowsFormTree'
      BY <1>4, <3>2
    <3> QED
      BY <2>2, <3>3 DEF scan, RowsInv, WellFormed
  <2>3. CASE /\ Opened(f, old) /\ items' = (IF old = None THEN Nothing ELSE old.items)
             /\ \/ stage' = [p \in Path |-> IF p \in In({}) /\ tree[p] # Absent
                                            THEN "listed" ELSE "unlisted"]
                \/ stage' = [p \in Path |-> "unlisted"]
    <3>1. files' = [files EXCEPT ![f] = IF old = None THEN new
                                        ELSE [old EXCEPT !.roots = @ \cup {Root}]]
      BY <2>3 DEF Opened
    <3>2. old # None => [old EXCEPT !.roots = @ \cup {Root}].items = old.items
      BY <2>1 DEF Database
    <3>3. \A g \in {"target", "staging"} : files'[g] # None =>
              \/ files[g] # None /\ files'[g].items = files[g].items
              \/ files'[g].items = Nothing
      BY <1>0, <2>1, <3>1, <3>2 DEF FilesType
    <3>4. RowsFormTree'
      BY <1>4, <3>3
    <3>5. WellFormed(items')
      BY <2>1, <2>3, NothingFormsTree DEF RowsInv, RowsFormTree
    <3>6. \A p \in Path : stage'[p] # "unlisted" => Above[p] = {}
      BY <2>3, AtTheRoot
    <3> QED
      BY <3>4, <3>5, <3>6 DEF RowsInv, WellFormed
  <2> QED
    BY <1>5, <2>2, <2>3 DEF Start
<1>6. ASSUME NEW p \in Path, ScanDirectory(p)
      PROVE  RowsInv'
  <2>1. /\ stage[p] = "listed" /\ items' = Inserted(p, Dir) /\ files' = files
        /\ Dir \in Entry
    BY <1>6 DEF ScanDirectory, Entry
  <2>2. /\ WellFormed(items') /\ \A q \in Path : items[q] = Dir => items'[q] = Dir
        /\ items[p] = Absent => items'[p] = Dir
    BY <1>0, <2>1, InsertedFormsTree
  <2>3. CASE \/ stage' = [stage EXCEPT ![p] = "done"]
             \/ stage' = [q \in Path |-> IF q \in {p} THEN "done" ELSE stage[q]]
    <3>1. \A q \in Path : stage'[q] = "done" \/ stage'[q] = stage[q]
      BY <1>0, <2>3 DEF ScanType
    <3> QED
      BY <1>0, <2>1, <2>2, <3>1, RowsStay DEF ScanType
  <2>4. CASE /\ items[p] = Absent
             /\ stage' = [q \in Path |-> IF q \in {r \in In({p}) : tree[r] # Absent} THEN "listed"
                                         ELSE IF q \in {p} THEN "done" ELSE stage[q]]
    <3>1. ASSUME NEW q \in Path, stage'[q] # "unlisted", stage'[q] # "done", NEW r \in Above[q]
          PROVE  items'[r] = Dir
      <4>1. r \in Path
        BY WhereThingsLie
      <4>2. CASE q \in In({p})
        <5>1. r = p \/ r \in Above[p]
          BY <4>2, ParentsLie
        <5>2. r # p => items[r] = Dir
          BY <2>1, <5>1 DEF RowsInv
        <5> QED
          BY <2>2, <2>4, <4>1, <5>2
      <4>3. CASE q \notin In({p})
        <5>1. items[r] = Dir
          BY <2>4, <3>1, <4>3 DEF RowsInv
        <5> QED
          BY <2>2, <4>1, <5>1
      <4> QED
        BY <4>2, <4>3
    <3>2. RowsFormTree'
      BY <2>1 DEF RowsInv, RowsFormTree, WellFormed
    <3> QED
      BY <2>2, <3>1, <3>2 DEF RowsInv, WellFormed
  <2> QED
    BY <1>6, <2>3, <2>4 DEF ScanDirectory, Entered
<1>7. ASSUME NEW p \in Path,
             \/ Look(p) \/ HashFile(p)
             \/ Insert(p) \/ InsertFails(p) \/ Drop(p) \/ Vanished(p) \/ PassOver(p)
      PROVE  RowsInv'
  <2>1. /\ stage[p] \in {"listed", "hashing", "hashed"} /\ files' = files
        /\ \E s \in {"hashing", "hashed", "done"} : stage' = [stage EXCEPT ![p] = s]
        /\ items' = items \/ (stage[p] = "hashed" /\ items' = Inserted(p, results[p]))
    BY <1>7 DEF Look, HashFile, Insert, InsertFails, Drop, Vanished, PassOver, Processed
  <2>2. \A q \in Path : stage'[q] \in {"unlisted", "done"}
                         \/ stage[q] \in {"listed", "hashing", "hashed"}
    BY <1>0, <2>1 DEF ScanType
  <2>3. results[p] \in Entry
    BY <1>0 DEF ScanType, Entry
  <2>4. WellFormed(items') /\ \A q \in Path : items[q] = Dir => items'[q] = Dir
    BY <1>0, <2>1, <2>3, InsertedFormsTree DEF RowsInv
  <2> QED
    BY <1>0, <2>1, <2>2, <2>4, RowsStay
<1>8. CASE Prune
  BY <1>1, <1>8 DEF Prune, scan
<1>9. CASE Commit \/ ReplaceItem \/ Open \/ GiveUp \/ Crash
  <2>1. \/ items' = items /\ stage' = stage
        \/ items' = Nothing /\ \A p \in Path : stage'[p] = "unlisted"
    BY <1>9 DEF Commit, ReplaceItem, Open, GiveUp, Crash, End, Forget, scan
  <2>2. RowsFormTree'
    <3>1. CASE Commit
      <4> DEFINE f == Into(mode)
      <4>1. /\ files' = [files EXCEPT ![f] = [@ EXCEPT !.items = items, !.whole = TRUE]]
            /\ f \in {"target", "staging"} /\ files[f] \in Database
        BY <1>0, <3>1 DEF Commit, FilesType, Into
      <4>2. files'[f].items = items
        BY <1>0, <4>1 DEF FilesType, Database
      <4>3. \A g \in {"target", "staging"} : g # f => files'[g] = files[g]
        BY <1>0, <4>1 DEF FilesType
      <4> QED
        BY <1>4, <4>2, <4>3
    <3>2. CASE ReplaceItem
      BY <1>4, <3>2 DEF ReplaceItem
    <3>3. CASE Open \/ Crash
      BY <1>4, <3>3 DEF Open, Crash
    <3>4. CASE GiveUp
      <4>1. \A g \in {"target", "staging"} : files'[g] # None => files'[g] = files[g]
        BY <1>0, <3>4 DEF GiveUp, FilesType
      <4> QED
        BY <1>4, <4>1
    <3> QED
      BY <1>9, <3>1, <3>2, <3>3, <3>4
  <2> QED
    BY <2>1, <2>2, NothingFormsTree DEF RowsInv, WellFormed
<1> QED
  BY <1>2, <1>3, <1>5, <1>6, <1>7, <1>8, <1>9 DEF Next

(* Every row of a snapshot lies in directories that have rows, whatever    *)
(* was refused, dropped, left out or changed while it was taken.           *)
THEOREM SpecRowsFormTree == Spec => []RowsFormTree
<1>1. Spec => []TypeOK
  BY SpecTypeOK
<1>2. RowsInv => RowsFormTree
  BY DEF RowsInv
<1> QED
  BY <1>1, <1>2, RowsInit, RowsNext, PTL DEF Spec

-----------------------------------------------------------------------------
(* The cache                                                               *)

\* No earlier version of a file could pass for the one it has now; what the cache says of
\* it was so of some version; and what is looked at is a version that is still whole.
VersionsOf(p) ==
    IsFile(tree, p) =>
        /\ AttributesOf(p) \in versions[p]
        /\ \A v \in versions[p] : v # AttributesOf(p) => ~ Resembles(AttributesOf(p), v)
RowOf(p) ==
    cache[p] # None =>
        \E v \in versions[p] :
            /\ cache[p].size = v.size /\ cache[p].date = Floor(v.date)
            /\ IsFile(tree, p) /\ AttributesOf(p) = v => cache[p].hash = tree[p]
LookAt(p) ==
    stage[p] = "hashing" =>
        /\ seen[p] \in versions[p]
        /\ IsFile(tree, p) /\ AttributesOf(p) = seen[p] => p \notin racing
CacheInv == \A p \in Path \ hidden : VersionsOf(p) /\ RowOf(p) /\ LookAt(p)

LEMMA RowsTell == TypeOK /\ CacheInv => CacheTrue
<1> SUFFICES ASSUME TypeOK, CacheInv, NEW p \in Path \ hidden, IsFile(tree, p),
                    Hit(cache[p], AttributesOf(p))
             PROVE  cache[p].hash = tree[p]
  BY DEF CacheTrue
<1>0. DirectoryType /\ FilesType
  BY TypeParts
<1>1. PICK v \in versions[p] :
          /\ cache[p].size = v.size /\ cache[p].date = Floor(v.date)
          /\ AttributesOf(p) = v => cache[p].hash = tree[p]
  BY DEF CacheInv, RowOf, Hit
<1>2. v \in Attributes /\ AttributesOf(p) \in Attributes
  BY <1>0, AttributesType DEF DirectoryType
<1>3. \A d \in Nat : Floor(d) \in Nat /\ d - Floor(d) \in 0..1
  BY DEF Floor
<1>4. Resembles(AttributesOf(p), v)
  <2>1. v.date \in Nat /\ AttributesOf(p).date \in Nat
    BY <1>2 DEF Attributes
  <2>2. AttributesOf(p).size = v.size /\ AttributesOf(p).date - Floor(v.date) \in -1..1
    BY <1>1 DEF Hit
  <2>3. \A n, m, f \in Nat : m - f \in 0..1 /\ n - f \in -1..1 => n - m \in -2..1
    OBVIOUS
  <2>4. AttributesOf(p).date - v.date \in -2..1
    BY <1>3, <2>1, <2>2, <2>3
  <2> QED
    BY <2>2, <2>4 DEF Resembles
<1>5. AttributesOf(p) = v
  BY <1>4 DEF CacheInv, VersionsOf
<1> QED
  BY <1>1, <1>5

LEMMA CacheInit == Init => CacheInv
  BY DEF Init, CacheInv, VersionsOf, RowOf, LookAt

\* A path that is let alone, or whose file is gone or gives way to a directory.
LEMMA CacheStays ==
  ASSUME CacheInv, NEW p \in Path \ hidden',
         p \notin hidden, date' = date, versions'[p] = versions[p], cache'[p] = cache[p],
         IsFile(tree, p)' => tree'[p] = tree[p], seen'[p] = seen[p] \/ stage'[p] # "hashing",
         stage'[p] = "hashing" => stage[p] = "hashing",
         IsFile(tree, p)' /\ p \in racing' => p \in racing
  PROVE  VersionsOf(p)' /\ RowOf(p)' /\ LookAt(p)'
<1>1. IsFile(tree, p)' => IsFile(tree, p) /\ AttributesOf(p)' = AttributesOf(p)
  BY DEF IsFile, AttributesOf
<1> QED
  BY <1>1 DEF CacheInv, VersionsOf, RowOf, LookAt

LEMMA CacheNext == TypeOK /\ OrderInv /\ CacheInv /\ [Next]_vars => CacheInv'
<1> SUFFICES ASSUME TypeOK, OrderInv, CacheInv, [Next]_vars, NEW p \in Path \ hidden'
             PROVE  VersionsOf(p)' /\ RowOf(p)' /\ LookAt(p)'
  BY DEF CacheInv
<1>0. DirectoryType /\ ScanType /\ FilesType
  BY TypeParts
<1>1. CASE UNCHANGED vars
  BY <1>1, CacheStays DEF vars, directory, scan
<1>2. ASSUME NEW q \in Path, NEW c \in Content, NEW d \in Dates, WriteFile(q, c, d)
      PROVE  VersionsOf(p)' /\ RowOf(p)' /\ LookAt(p)'
  <2>1. p \notin hidden
    BY <1>2 DEF WriteFile
  <2>2. CASE p # q
    <3>1. tree'[p] = tree[p] /\ date'[p] = date[p] /\ versions'[p] = versions[p]
          /\ cache' = cache /\ seen' = seen /\ stage' = stage
          /\ (p \in racing' => p \in racing)
      BY <1>0, <1>2, <2>2 DEF WriteFile, Changes, DirectoryType, Plain
    <3>2. (IsFile(tree, p)' <=> IsFile(tree, p)) /\ AttributesOf(p)' = AttributesOf(p)
      BY <3>1 DEF IsFile, AttributesOf
    <3> QED
      BY <2>1, <3>1, <3>2 DEF CacheInv, VersionsOf, RowOf, LookAt
  <2>3. CASE p = q
    <3> DEFINE new == [size |-> Size[c], date |-> d]
    <3>1. versions'[p] = versions[p] \cup {new} /\ cache' = cache /\ seen' = seen
          /\ stage' = stage /\ \A old \in versions[p] : ~ Resembles(new, old)
      BY <1>0, <1>2, <2>3 DEF WriteFile, Changes, DirectoryType
    <3>2. AttributesOf(p)' = new
      BY <1>0, <1>2, <2>3 DEF WriteFile, AttributesOf, DirectoryType, Plain
    <3>3. Resembles(new, new)
      BY DatesAssumption DEF Resembles
    <3>4. new \notin versions[p]
      BY <3>1, <3>3
    <3> QED
      BY <2>1, <3>1, <3>2, <3>4 DEF CacheInv, VersionsOf, RowOf, LookAt
  <2> QED
    BY <2>2, <2>3
<1>3. ASSUME NEW q \in Path, Remove(q)
      PROVE  VersionsOf(p)' /\ RowOf(p)' /\ LookAt(p)'
  <2>1. IsFile(tree, p)' => tree'[p] = tree[p] /\ p \notin {q} \cup Below(q)
    BY <1>3, EntryAssumption DEF Remove, Removed, IsFile, Below
  <2> QED
    BY <1>3, <2>1, CacheStays DEF Remove, Changes
<1>4. ASSUME NEW q \in Path, MakeDirectory(q)
      PROVE  VersionsOf(p)' /\ RowOf(p)' /\ LookAt(p)'
  <2>1. IsFile(tree, p)' => tree'[p] = tree[p] /\ p # q
    BY <1>0, <1>4, EntryAssumption DEF MakeDirectory, IsFile, DirectoryType, Plain
  <2> QED
    BY <1>4, <2>1, CacheStays DEF MakeDirectory, Changes
<1>5. ASSUME NEW m \in {"plain", "atomic"}, Start(m)
      PROVE  VersionsOf(p)' /\ RowOf(p)' /\ LookAt(p)'
  <2>1. UNCHANGED scan \/ (racing' = {} /\ stage'[p] \in {"listed", "unlisted"})
    BY <1>5 DEF Start
  <2> QED
    BY <1>5, <2>1, CacheStays DEF Start, directory, scan
<1>6. ASSUME NEW q \in Path, ScanDirectory(q)
      PROVE  VersionsOf(p)' /\ RowOf(p)' /\ LookAt(p)'
  <2>1. stage'[p] = "hashing" => stage[p] = "hashing"
    BY <1>0, <1>6 DEF ScanDirectory, Entered, ScanType
  <2> QED
    BY <1>6, <2>1, CacheStays DEF ScanDirectory, directory
<1>7. ASSUME NEW q \in Path, Look(q)
      PROVE  VersionsOf(p)' /\ RowOf(p)' /\ LookAt(p)'
  <2>1. CASE p = q /\ stage'[p] = "hashing"
    <3>1. seen'[p] = AttributesOf(p) /\ stage[p] = "listed" /\ IsFile(tree, p)
      BY <1>0, <1>7, <2>1 DEF Look, ScanType
    <3>2. p \notin racing /\ UNCHANGED <<tree, date, versions, hidden, racing, cache>>
      BY <1>7, <3>1 DEF OrderInv, Look, directory
    <3>3. AttributesOf(p)' = AttributesOf(p) /\ (IsFile(tree, p)' <=> IsFile(tree, p))
      BY <3>2 DEF AttributesOf, IsFile
    <3> QED
      BY <3>1, <3>2, <3>3 DEF CacheInv, VersionsOf, RowOf, LookAt
  <2>2. CASE ~ (p = q /\ stage'[p] = "hashing")
    <3>1. (stage'[p] = "hashing" => stage[p] = "hashing")
          /\ (seen'[p] = seen[p] \/ stage'[p] # "hashing")
      BY <1>0, <1>7, <2>2 DEF Look, ScanType
    <3> QED
      BY <1>7, <3>1, CacheStays DEF Look, directory
  <2> QED
    BY <2>1, <2>2
<1>8. ASSUME NEW q \in Path, HashFile(q)
      PROVE  VersionsOf(p)' /\ RowOf(p)' /\ LookAt(p)'
  <2>1. (stage'[p] = "hashing" => stage[p] = "hashing" /\ p # q) /\ UNCHANGED <<directory, seen, racing>>
    BY <1>0, <1>8 DEF HashFile, ScanType
  <2>2. CASE p # q
    <3>1. cache'[p] = cache[p]
      BY <1>0, <1>8, <2>2 DEF HashFile, FilesType
    <3> QED
      BY <2>1, <3>1, CacheStays DEF directory
  <2>3. CASE p = q
    <3>1. PICK h \in {tree[p]} \cup (IF p \in racing THEN {Torn} ELSE {}) :
              cache' = [cache EXCEPT ![p] = Row(p, h)]
      BY <1>8, <2>3 DEF HashFile
    <3>2. /\ cache'[p].size = seen[p].size /\ cache'[p].date = Floor(seen[p].date)
          /\ cache'[p].hash = h
      BY <1>0, <3>1 DEF FilesType, Row
    <3>3. /\ p \notin hidden /\ seen[p] \in versions[p]
          /\ IsFile(tree, p) /\ AttributesOf(p) = seen[p] => h = tree[p]
      BY <1>8, <2>1, <2>3, <3>1 DEF HashFile, CacheInv, LookAt, directory
    <3>4. AttributesOf(p)' = AttributesOf(p) /\ (IsFile(tree, p)' <=> IsFile(tree, p))
          /\ tree' = tree /\ versions' = versions
      BY <2>1 DEF AttributesOf, IsFile, directory
    <3> QED
      BY <2>1, <2>3, <3>2, <3>3, <3>4 DEF CacheInv, VersionsOf, RowOf, LookAt
  <2> QED
    BY <2>2, <2>3
<1>9. ASSUME NEW q \in Path,
             Insert(q) \/ InsertFails(q) \/ Drop(q) \/ Vanished(q) \/ PassOver(q)
      PROVE  VersionsOf(p)' /\ RowOf(p)' /\ LookAt(p)'
  <2>1. Processed(q) /\ UNCHANGED <<directory, cache, seen, racing>>
    BY <1>9 DEF Insert, InsertFails, Drop, Vanished, PassOver
  <2>2. stage'[p] = "hashing" => stage[p] = "hashing"
    BY <1>0, <2>1 DEF Processed, ScanType
  <2> QED
    BY <2>1, <2>2, CacheStays DEF directory
<1>10. CASE Prune
  <2>1. p \notin hidden /\ UNCHANGED <<directory, scan>> /\ cache'[p] \in {None, cache[p]}
    BY <1>10 DEF Prune, directory
  <2>2. AttributesOf(p)' = AttributesOf(p) /\ (IsFile(tree, p)' <=> IsFile(tree, p))
    BY <2>1 DEF AttributesOf, IsFile, directory
  <2> QED
    BY <2>1, <2>2 DEF CacheInv, VersionsOf, RowOf, LookAt, directory, scan
<1>11. CASE Commit \/ ReplaceItem \/ Open \/ GiveUp \/ Crash
  <2>1. UNCHANGED scan \/ (racing' = {} /\ stage'[p] = "unlisted")
    BY <1>11 DEF Commit, ReplaceItem, Open, GiveUp, Crash, End, Forget
  <2> QED
    BY <1>11, <2>1, CacheStays DEF Commit, ReplaceItem, Open, GiveUp, Crash, directory, scan
<1> QED
  BY <1>1, <1>2, <1>3, <1>4, <1>5, <1>6, <1>7, <1>8, <1>9, <1>10, <1>11 DEF Next

(* The hash cache never has another file's hash for a file as it is now,   *)
(* whatever changed while it was hashed and however a scan ended, unless   *)
(* the change cannot be told from size and date (HashCache).               *)
THEOREM SpecCacheTrue == Spec => []CacheTrue
<1>1. Spec => []TypeOK
  BY SpecTypeOK
<1>2. TypeOK /\ CacheInv => CacheTrue
  BY RowsTell
<1> QED
  BY <1>1, <1>2, OrderInit, OrderNext, CacheInit, CacheNext, PTL DEF Spec

-----------------------------------------------------------------------------
(* The snapshot                                                            *)

\* There was no row before the scan.
Fresh == mode = "atomic" \/ before = None

\* What was let alone lies in directories that were, and what changed was noticed.
TouchedInv ==
    /\ \A p \in Path \ touched : tree[p] # Absent => Above[p] \cap touched = {}
    /\ racing \subseteq touched

\* A scan: rows are of items done, and true of what was let alone; nothing that was let
\* alone is missed in a directory that is done, or at the root.
ScanTrue(p) ==
    /\ stage[p] # "done" => items[p] = Absent
    /\ p \notin touched =>
          /\ tree[p] # Absent /\ (\A q \in Above[p] : Above[p] = Above[q] \cup {q} => stage[q] = "done")
                => stage[p] # "unlisted"
          /\ stage[p] = "listed" => tree[p] # Absent
          /\ stage[p] \in {"hashing", "hashed"} => IsFile(tree, p)
          /\ stage[p] = "hashed" /\ p \notin hidden => results[p] = tree[p]
          /\ stage[p] = "done" /\ p \notin hidden => Shown(items, p)

\* What is about to be saved, what lies at the staging file, and what is about to be opened.
SavedTrue(p) ==
    p \notin touched \cup hidden =>
        /\ phase = "commit" /\ Fresh => Shown(items, p)
        /\ phase = "swap" => Shown(files["staging"].items, p)
        /\ phase = "open" /\ Fresh => Shown(files["target"].items, p)

SnapshotInv ==
    /\ TouchedInv
    /\ phase = "scan" /\ Fresh => \A p \in Path : ScanTrue(p)
    /\ phase \in {"commit", "swap", "open"} => {} \notin cut
    /\ \A p \in Path : SavedTrue(p)
    /\ SnapshotTrue

LEMMA SnapshotInit == Init => SnapshotInv
  BY DEF Init, SnapshotInv, TouchedInv, SavedTrue, SnapshotTrue

\* The parent is the only directory of which Above tells so.
LEMMA OneParent ==
  ASSUME NEW p \in Path, NEW q \in Above[p], NEW r \in Above[p],
         Above[p] = Above[q] \cup {q}, Above[p] = Above[r] \cup {r}
  PROVE  q = r
<1>1. q \in Path /\ r \in Path
  BY WhereThingsLie
<1>2. CASE q # r
  <2>1. q \in Above[r] /\ r \in Above[q]
    BY <1>2
  <2>2. q < r /\ r < q
    BY <1>1, <2>1, WhereThingsLie
  <2> QED
    BY <1>1, <2>2 DEF Path
<1> QED
  BY <1>2

\* Once nothing is listed or hashing, nothing that was let alone is unlisted.
LEMMA NothingMissed ==
  ASSUME TypeOK, TouchedInv, \A p \in Path : ScanTrue(p), AllProcessed,
         NEW p \in Path \ touched, tree[p] # Absent
  PROVE  stage[p] = "done"
<1> DEFINE Missed == {q \in Path \ touched : tree[q] # Absent /\ stage[q] = "unlisted"}
<1>0. DirectoryType /\ ScanType
  BY TypeParts
<1>1. SUFFICES ASSUME Missed # {} PROVE FALSE
  BY <1>0 DEF AllProcessed, ScanType
<1>2. PICK q \in Missed : \A r \in Missed : ~ (<<r, q>> \in OpToRel(<, Nat))
  <2>1. Missed \subseteq Nat
    BY PathAssumption DEF Path
  <2> HIDE DEF Missed
  <2> QED
    BY <1>1, <2>1, NatLessThanWellFounded, WFMin
<1>3. \A r \in Missed : ~ (r < q)
  <2>1. ASSUME NEW r \in Nat, NEW n \in Nat, r < n PROVE <<r, n>> \in OpToRel(<, Nat)
    <3>1. <<r, n>> \in Nat \X Nat /\ <<r, n>>[1] = r /\ <<r, n>>[2] = n
      OBVIOUS
    <3> QED
      BY <2>1, <3>1, Zenon DEF OpToRel
  <2>2. Missed \subseteq Nat
    BY PathAssumption DEF Path
  <2> HIDE DEF Missed
  <2> QED
    BY <1>2, <2>1, <2>2
<1>4. PICK r \in Above[q] : Above[q] = Above[r] \cup {r} /\ stage[r] # "done"
  BY DEF ScanTrue
<1>5. r \in Path /\ r < q /\ r \notin touched /\ tree[r] = Dir
  BY <1>0, WhereThingsLie DEF TouchedInv, DirectoryType, WellFormed
<1>6. stage[r] = "unlisted"
  BY <1>0, <1>4, <1>5 DEF AllProcessed, ScanType
<1> QED
  BY <1>3, <1>5, <1>6, EntryAssumption

\* Whoever works in the directory: the rest stays as it was.
LEMMA RestStays ==
  ASSUME TypeOK, TouchedInv,
         \/ \E p \in Path, c \in Content, d \in Dates : WriteFile(p, c, d)
         \/ \E p \in Path : Remove(p) \/ MakeDirectory(p)
  PROVE  /\ TouchedInv' /\ touched \subseteq touched' /\ hidden \subseteq hidden'
         /\ \A p \in Path \ touched' : tree'[p] = tree[p]
         /\ UNCHANGED <<files, mode, phase, stage, results, items, before, cut, last>>
<1>0. DirectoryType /\ ScanType
  BY TypeParts
<1>1. ASSUME NEW p \in Path, NEW paths \in SUBSET Path, Changes(paths), p \in paths,
             \A q \in Path \ paths : tree'[q] = tree[q],
             tree[p] = Dir => Below(p) \subseteq paths,
             \A q \in Path : q \in paths => q = p \/ q \in Below(p)
      PROVE  TouchedInv' /\ \A q \in Path \ touched' : tree'[q] = tree[q]
  <2>1. touched' = touched \cup paths /\ racing' \subseteq touched'
    BY <1>1 DEF Changes, TouchedInv
  <2>2. ASSUME NEW q \in Path \ touched', tree'[q] # Absent
        PROVE  Above[q] \cap touched' = {}
    <3>1. tree[q] # Absent /\ q \notin touched /\ q \notin paths
      BY <1>1, <2>1, <2>2
    <3>2. Above[q] \cap touched = {}
      BY <3>1 DEF TouchedInv
    <3>3. p \notin Above[q]
      <4>1. p \in Above[q] => tree[p] = Dir
        BY <1>0, <3>1 DEF DirectoryType, WellFormed
      <4> QED
        BY <1>1, <3>1, <4>1 DEF Below
    <3>4. \A r \in Below(p) : r \notin Above[q]
      BY <3>3, WhereThingsLie DEF Below
    <3> QED
      BY <1>1, <2>1, <3>2, <3>3, <3>4, WhereThingsLie
  <2> QED
    BY <1>1, <2>1, <2>2 DEF TouchedInv
<1>2. ASSUME NEW p \in Path, NEW c \in Content, NEW d \in Dates, WriteFile(p, c, d)
      PROVE  TouchedInv' /\ \A q \in Path \ touched' : tree'[q] = tree[q]
  BY <1>0, <1>1, <1>2 DEF WriteFile, Writable, DirectoryType, Plain
<1>3. ASSUME NEW p \in Path, Remove(p)
      PROVE  TouchedInv' /\ \A q \in Path \ touched' : tree'[q] = tree[q]
  <2>1. \A q \in Path \ ({p} \cup Below(p)) : tree'[q] = tree[q]
    BY <1>3 DEF Remove, Removed, Below
  <2> QED
    BY <1>1, <1>3, <2>1 DEF Remove, Below
<1>4. ASSUME NEW p \in Path, MakeDirectory(p)
      PROVE  TouchedInv' /\ \A q \in Path \ touched' : tree'[q] = tree[q]
  BY <1>0, <1>1, <1>4, EntryAssumption DEF MakeDirectory, DirectoryType, Plain
<1>5. /\ touched \subseteq touched' /\ hidden \subseteq hidden'
      /\ UNCHANGED <<files, mode, phase, stage, results, items, before, cut, last>>
  BY DEF WriteFile, Remove, MakeDirectory, Changes
<1> QED
  BY <1>2, <1>3, <1>4, <1>5

\* An item goes on to be hashed or is done, truly; nothing is missed under it.
LEMMA ItemGoesOn ==
  ASSUME TypeOK, \A p \in Path : ScanTrue(p), NEW q \in Path,
         stage[q] \in {"listed", "hashing", "hashed"}, NEW s \in {"hashing", "hashed", "done"},
         stage' = [stage EXCEPT ![q] = s],
         \A p \in Path \ {q} : items'[p] = items[p] /\ results'[p] = results[p],
         tree' = tree, hidden' = hidden, touched \subseteq touched', cut \subseteq cut',
         s = "done" => \A p \in Path \ touched' : tree[p] # Absent => q \notin Above[p],
         s # "done" => items'[q] = Absent /\ IsFile(tree, q),
         s = "hashed" /\ q \notin touched' \cup hidden => results'[q] = tree[q],
         s = "done" /\ q \notin touched' \cup hidden => Shown(items, q)'
  PROVE  \A p \in Path : ScanTrue(p)'
<1>0. ScanType
  BY TypeParts
<1> TAKE p \in Path
<1>1. CASE p = q
  BY <1>0, <1>1 DEF ScanType, ScanTrue, IsFile
<1>2. CASE p # q
  <2>1. stage'[p] = stage[p] /\ items'[p] = items[p] /\ results'[p] = results[p]
        /\ (IsFile(tree, p)' <=> IsFile(tree, p)) /\ (Shown(items, p) => Shown(items, p)')
    BY <1>0, <1>2 DEF ScanType, IsFile, Shown
  <2>2. ASSUME p \notin touched', tree[p] # Absent,
               \A r \in Above[p] : Above[p] = Above[r] \cup {r} => stage'[r] = "done"
        PROVE  stage[p] # "unlisted"
    <3>1. \A r \in Above[p] : stage'[r] = "done" => stage[r] = "done"
      <4>1. CASE s = "done"
        BY <1>0, <2>2, <4>1, WhereThingsLie DEF ScanType
      <4>2. CASE s # "done"
        BY <1>0, <4>2, WhereThingsLie DEF ScanType
      <4> QED
        BY <4>1, <4>2
    <3> QED
      BY <2>2, <3>1 DEF ScanTrue
  <2> QED
    BY <2>1, <2>2 DEF ScanTrue
<1> QED
  BY <1>1, <1>2

\* A step of the scan that neither saves nor ends anything.
LEMMA ScanStep ==
  ASSUME SnapshotInv, phase = "scan", UNCHANGED <<phase, mode, before, last>>, last = "none",
         TouchedInv', Fresh => \A p \in Path : ScanTrue(p)'
  PROVE  SnapshotInv'
  BY DEF SnapshotInv, SavedTrue, SnapshotTrue, Fresh

\* Passing over only adds what lies under what was passed over.
LEMMA PassedOver ==
  ASSUME TouchedInv, NEW q \in Path, tree' = tree, racing' = racing,
         touched' = touched \cup Below(q) \/ touched' = touched \cup ({q} \cup Below(q))
  PROVE  TouchedInv'
<1>1. racing' \subseteq touched'
  BY DEF TouchedInv
<1>2. ASSUME NEW p \in Path \ touched', tree[p] # Absent
      PROVE  Above[p] \cap touched' = {}
  <2>1. Above[p] \cap touched = {} /\ p \notin Below(q)
    BY <1>2 DEF TouchedInv
  <2>2. q \notin Above[p]
    BY <2>1 DEF Below
  <2>3. Above[p] \cap Below(q) = {}
    BY <2>2, WhereThingsLie DEF Below
  <2> QED
    BY <2>1, <2>2, <2>3
<1> QED
  BY <1>1, <1>2 DEF TouchedInv

LEMMA ScanDirectorySnapshot ==
  ASSUME TypeOK, OrderInv, SnapshotInv, NEW q \in Path, ScanDirectory(q)
  PROVE  SnapshotInv'
<1>0. DirectoryType /\ ScanType /\ FilesType
  BY TypeParts
<1>1. /\ phase = "scan" /\ stage[q] = "listed" /\ tree[q] = Dir
      /\ UNCHANGED <<directory, mode, phase, before, last, racing, results, cut>> /\ last = "none"
      /\ TouchedInv
  BY <1>0 DEF ScanDirectory, FilesType, SnapshotInv
<1>2. items' \in Tree /\ \A p \in Path \ {q} : items'[p] = items[p]
  BY <1>0, InsertedType DEF ScanDirectory, ScanType, Inserted, Entry, Tree
<1>3. CASE /\ UNCHANGED touched
           /\ items[q] = Absent =>
                stage' = [p \in Path |-> IF p \in {r \in In({q}) : tree[r] # Absent} THEN "listed"
                                          ELSE IF p \in {q} THEN "done" ELSE stage[p]]
  <2>1. TouchedInv'
    BY <1>1, <1>3 DEF TouchedInv, directory
  <2>2. ASSUME Fresh
        PROVE  \A p \in Path : ScanTrue(p)'
    <3>1. \A p \in Path : ScanTrue(p)
      BY <1>1, <2>2 DEF SnapshotInv
    <3>2. items[q] = Absent
      BY <1>1, <3>1 DEF ScanTrue
    <3>3. items'[q] = Dir
      BY <1>0, <3>2 DEF ScanDirectory, Inserted, ScanType, Tree
    <3>4. CASE stage' = [p \in Path |-> IF p \in {r \in In({q}) : tree[r] # Absent} THEN "listed"
                                        ELSE IF p \in {q} THEN "done" ELSE stage[p]]
      <4> TAKE p \in Path
      <4>1. CASE p = q
        <5>1. stage'[p] = "done"
          BY <3>4, <4>1, ParentsLie DEF In
        <5> QED
          BY <1>1, <3>3, <4>1, <5>1 DEF ScanTrue, Shown, directory
      <4>2. CASE p \in In({q}) /\ tree[p] # Absent
        <5>1. stage'[p] = "listed" /\ p # q /\ stage[p] = "unlisted"
          BY <1>1, <3>4, <4>2, ParentsLie DEF OrderInv
        <5> QED
          BY <1>1, <1>2, <3>1, <4>2, <5>1 DEF ScanTrue, directory
      <4>3. CASE p # q /\ ~ (p \in In({q}) /\ tree[p] # Absent)
        <5>1. stage'[p] = stage[p] /\ items'[p] = items[p] /\ results' = results
              /\ (IsFile(tree, p)' <=> IsFile(tree, p)) /\ (Shown(items, p) => Shown(items, p)')
          BY <1>1, <1>2, <3>4, <4>3 DEF IsFile, Shown, directory
        <5>2. ASSUME p \notin touched, tree[p] # Absent,
                     \A r \in Above[p] : Above[p] = Above[r] \cup {r} => stage'[r] = "done"
              PROVE  stage[p] # "unlisted"
          <6>1. \A r \in Path : stage'[r] = "done" => stage[r] = "done" \/ r = q
            BY <3>4
          <6>2. CASE q \in Above[p] /\ Above[p] = Above[q] \cup {q}
            <7>1. Parent[p] = {q}
              BY <6>2, OneParent DEF Parent
            <7> QED
              BY <4>3, <5>2, <7>1 DEF In
          <6>3. CASE ~ (q \in Above[p] /\ Above[p] = Above[q] \cup {q})
            <7>1. \A r \in Above[p] : Above[p] = Above[r] \cup {r} => stage[r] = "done"
              BY <5>2, <6>1, <6>3, WhereThingsLie
            <7> QED
              BY <3>1, <5>2, <7>1 DEF ScanTrue
          <6> QED
            BY <6>2, <6>3
        <5> QED
          BY <1>1, <1>3, <3>1, <5>1, <5>2 DEF ScanTrue, directory
      <4> QED
        BY <4>1, <4>2, <4>3
    <3> QED
      BY <1>3, <3>2, <3>4
  <2> QED
    BY <1>1, <2>1, <2>2, ScanStep
<1>4. CASE /\ stage' = [p \in Path |-> IF p \in {q} THEN "done" ELSE stage[p]]
           /\ touched' = touched \cup {p \in Path : {q} \subseteq Above[p]}
  <2>1. {p \in Path : {q} \subseteq Above[p]} = Below(q)
    BY DEF Below
  <2>2. TouchedInv'
    BY <1>1, <1>4, <2>1, PassedOver DEF directory
  <2>3. ASSUME Fresh
        PROVE  \A p \in Path : ScanTrue(p)'
    <3>1. \A p \in Path : ScanTrue(p)
      BY <1>1, <2>3 DEF SnapshotInv
    <3>2. items[q] = Absent
      BY <1>1, <3>1 DEF ScanTrue
    <3>3. items'[q] = Dir
      BY <1>0, <3>2 DEF ScanDirectory, Inserted, ScanType, Tree
    <3>4. stage' = [stage EXCEPT ![q] = "done"]
      BY <1>0, <1>4 DEF ScanType
    <3>5. \A p \in Path \ touched' : q \notin Above[p]
      BY <1>4
    <3> QED
      BY <1>1, <1>2, <1>4, <3>1, <3>3, <3>4, <3>5, ItemGoesOn DEF Shown, directory
  <2> QED
    BY <1>1, <2>2, <2>3, ScanStep
<1> QED
  BY <1>3, <1>4 DEF ScanDirectory, Entered

LEMMA LookSnapshot ==
  ASSUME TypeOK, CacheTrue, SnapshotInv, NEW q \in Path, Look(q)
  PROVE  SnapshotInv'
<1>0. DirectoryType /\ ScanType /\ FilesType
  BY TypeParts
<1>1. /\ phase = "scan" /\ stage[q] = "listed" /\ IsFile(tree, q)
      /\ UNCHANGED <<directory, mode, phase, before, last, touched, racing, items, cut>>
      /\ last = "none" /\ TouchedInv
  BY <1>0 DEF Look, FilesType, SnapshotInv
<1>2. TouchedInv'
  BY <1>1 DEF TouchedInv, directory
<1>3. ASSUME Fresh
      PROVE  \A p \in Path : ScanTrue(p)'
  <2>1. \A p \in Path : ScanTrue(p)
    BY <1>1, <1>3 DEF SnapshotInv
  <2>2. items[q] = Absent
    BY <1>1, <2>1 DEF ScanTrue
  <2>3. CASE Hit(cache[q], AttributesOf(q))
    <3>1. results' = [results EXCEPT ![q] = cache[q].hash] /\ stage' = [stage EXCEPT ![q] = "hashed"]
      BY <2>3 DEF Look
    <3>2. q \notin hidden => results'[q] = tree[q]
      BY <1>0, <1>1, <2>3, <3>1 DEF CacheTrue, ScanType
    <3>3. \A p \in Path \ {q} : results'[p] = results[p]
      BY <1>0, <3>1 DEF ScanType
    <3> QED
      BY <1>1, <2>1, <2>2, <3>1, <3>2, <3>3, ItemGoesOn DEF directory
  <2>4. CASE ~ Hit(cache[q], AttributesOf(q))
    <3>1. results' = results /\ stage' = [stage EXCEPT ![q] = "hashing"]
      BY <2>4 DEF Look
    <3> QED
      BY <1>1, <2>1, <2>2, <3>1, ItemGoesOn DEF directory
  <2> QED
    BY <2>3, <2>4
<1> QED
  BY <1>1, <1>2, <1>3, ScanStep

LEMMA HashFileSnapshot ==
  ASSUME TypeOK, SnapshotInv, NEW q \in Path, HashFile(q)
  PROVE  SnapshotInv'
<1>0. DirectoryType /\ ScanType /\ FilesType
  BY TypeParts
<1>1. /\ phase = "scan" /\ stage[q] = "hashing" /\ IsFile(tree, q)
      /\ UNCHANGED <<directory, mode, phase, before, last, touched, racing, items, cut>>
      /\ last = "none" /\ TouchedInv /\ stage' = [stage EXCEPT ![q] = "hashed"]
  BY <1>0 DEF HashFile, FilesType, SnapshotInv
<1>2. TouchedInv'
  BY <1>1 DEF TouchedInv, directory
<1>3. ASSUME Fresh
      PROVE  \A p \in Path : ScanTrue(p)'
  <2>1. \A p \in Path : ScanTrue(p)
    BY <1>1, <1>3 DEF SnapshotInv
  <2>2. items[q] = Absent
    BY <1>1, <2>1 DEF ScanTrue
  <2>3. PICK h \in {tree[q]} \cup (IF q \in racing THEN {Torn} ELSE {}) :
            results' = [results EXCEPT ![q] = h]
    BY DEF HashFile
  <2>4. q \notin touched => results'[q] = tree[q]
    BY <1>0, <1>1, <2>3 DEF TouchedInv, ScanType
  <2>5. \A p \in Path \ {q} : results'[p] = results[p]
    BY <1>0, <2>3 DEF ScanType
  <2> QED
    BY <1>1, <2>1, <2>2, <2>4, <2>5, ItemGoesOn DEF directory
<1> QED
  BY <1>1, <1>2, <1>3, ScanStep

\* A file's result is written, or it and the rest of its directory are lost.
LEMMA InsertSnapshot ==
  ASSUME TypeOK, SnapshotInv, NEW q \in Path, Insert(q) \/ InsertFails(q) \/ Drop(q)
  PROVE  SnapshotInv'
<1>0. DirectoryType /\ ScanType /\ FilesType
  BY TypeParts
<1>1. /\ phase = "scan" /\ stage[q] = "hashed" /\ Processed(q)
      /\ UNCHANGED <<directory, mode, phase, before, last, touched, racing>>
      /\ last = "none" /\ TouchedInv
  BY <1>0 DEF Insert, InsertFails, Drop, FilesType, SnapshotInv
<1>2. TouchedInv'
  BY <1>1 DEF TouchedInv, directory
<1>3. ASSUME Fresh
      PROVE  \A p \in Path : ScanTrue(p)'
  <2>1. \A p \in Path : ScanTrue(p)
    BY <1>1, <1>3 DEF SnapshotInv
  <2>2. items[q] = Absent /\ (q \notin touched => IsFile(tree, q))
        /\ (q \notin touched \cup hidden => results[q] = tree[q])
    BY <1>1, <2>1 DEF ScanTrue
  <2>3. \A p \in Path \ touched : tree[p] # Absent => q \notin Above[p]
    <3>1. CASE q \in touched
      BY <1>1, <3>1 DEF TouchedInv
    <3>2. CASE q \notin touched
      BY <1>0, <2>2, <3>2, EntryAssumption DEF DirectoryType, WellFormed, IsFile
    <3> QED
      BY <3>1, <3>2
  <2>4. /\ stage' = [stage EXCEPT ![q] = "done"]
        /\ \A p \in Path \ {q} : results'[p] = results[p]
    BY <1>0, <1>1 DEF Processed, ScanType
  <2>5. CASE Insert(q)
    <3>1. items' = [items EXCEPT ![q] = results[q]] /\ cut' = cut
      BY <2>2, <2>5 DEF Insert, Inserted
    <3>2. items'[q] = results[q] /\ \A p \in Path \ {q} : items'[p] = items[p]
      BY <1>0, <3>1 DEF ScanType, Tree
    <3>3. q \notin touched \cup hidden => Shown(items, q)'
      BY <1>1, <2>2, <3>2 DEF Shown, directory
    <3> QED
      BY <1>1, <2>1, <2>3, <2>4, <3>1, <3>2, <3>3, ItemGoesOn DEF directory
  <2>6. CASE InsertFails(q) \/ Drop(q)
    <3>1. items' = items /\ cut \subseteq cut' /\ Parent[q] \in cut'
      BY <2>6 DEF InsertFails, Drop
    <3>2. q \notin touched => Shown(items, q)'
      BY <1>1, <2>2, <3>1 DEF Shown, IsFile, directory
    <3> QED
      BY <1>1, <2>1, <2>3, <2>4, <3>1, <3>2, ItemGoesOn DEF directory
  <2> QED
    BY <2>5, <2>6
<1> QED
  BY <1>1, <1>2, <1>3, ScanStep

LEMMA LeftOutSnapshot ==
  ASSUME TypeOK, SnapshotInv, NEW q \in Path, Vanished(q) \/ PassOver(q)
  PROVE  SnapshotInv'
<1>0. DirectoryType /\ ScanType /\ FilesType
  BY TypeParts
<1>1. /\ phase = "scan" /\ stage[q] \in {"listed", "hashing", "hashed"} /\ Processed(q)
      /\ UNCHANGED <<directory, mode, phase, before, last, racing, items, cut>> /\ last = "none"
      /\ TouchedInv
  BY <1>0 DEF Vanished, PassOver, FilesType, SnapshotInv
<1>2. /\ stage' = [stage EXCEPT ![q] = "done"]
      /\ \A p \in Path \ {q} : results'[p] = results[p]
  BY <1>0, <1>1 DEF Processed, ScanType
<1>3. CASE Vanished(q)
  <2>1. touched' = touched
    BY <1>3 DEF Vanished
  <2>2. TouchedInv'
    BY <1>1, <2>1 DEF TouchedInv, directory
  <2>3. ASSUME Fresh
        PROVE  \A p \in Path : ScanTrue(p)'
    <3>1. \A p \in Path : ScanTrue(p)
      BY <1>1, <2>3 DEF SnapshotInv
    <3>2. q \in touched
      BY <1>3, <3>1 DEF ScanTrue, Vanished
    <3>3. \A p \in Path \ touched : tree[p] # Absent => q \notin Above[p]
      BY <1>1, <3>2 DEF TouchedInv
    <3> QED
      BY <1>1, <1>2, <2>1, <3>1, <3>2, <3>3, ItemGoesOn DEF directory
  <2> QED
    BY <1>1, <2>2, <2>3, ScanStep
<1>4. CASE PassOver(q)
  <2>1. touched' = touched \cup ({q} \cup Below(q))
    BY <1>4 DEF PassOver
  <2>2. TouchedInv'
    BY <1>1, <2>1, PassedOver DEF directory
  <2>3. ASSUME Fresh
        PROVE  \A p \in Path : ScanTrue(p)'
    <3>1. \A p \in Path : ScanTrue(p)
      BY <1>1, <2>3 DEF SnapshotInv
    <3>2. q \in touched' /\ \A p \in Path \ touched' : q \notin Above[p]
      BY <2>1 DEF Below
    <3> QED
      BY <1>1, <1>2, <2>1, <3>1, <3>2, ItemGoesOn DEF directory
  <2> QED
    BY <1>1, <2>2, <2>3, ScanStep
<1> QED
  BY <1>3, <1>4

LEMMA StartSnapshot ==
  ASSUME TypeOK, SnapshotInv, NEW m \in {"plain", "atomic"}, Start(m)
  PROVE  SnapshotInv'
<1>0. ScanType /\ FilesType
  BY TypeParts
<1>1. UNCHANGED directory /\ phase = "idle"
  BY DEF Start
<1>2. CASE last' = "failed" /\ UNCHANGED <<phase, scan, items, touched>>
  BY <1>1, <1>2 DEF SnapshotInv, TouchedInv, SavedTrue, SnapshotTrue, directory, scan
<1>3. CASE /\ phase' = "scan" /\ last' = "none" /\ racing' = {} /\ results' = Nothing
           /\ items' = IF m = "atomic" \/ files["target"] = None THEN Nothing ELSE files["target"].items
           /\ \/ /\ stage' = [p \in Path |-> IF p \in In({}) /\ tree[p] # Absent
                                              THEN "listed" ELSE "unlisted"]
                 /\ touched' = {}
              \/ stage' = [p \in Path |-> "unlisted"] /\ touched' = Path
  <2>1. TouchedInv'
    BY <1>3, WhereThingsLie DEF TouchedInv
  <2>2. ASSUME Fresh', NEW p \in Path
        PROVE  ScanTrue(p)'
    <3>1. items' = Nothing
      BY <1>3, <2>2 DEF Start, Fresh
    <3>2. CASE touched' = Path
      BY <1>3, <3>1, <3>2 DEF ScanTrue, Nothing
    <3>3. CASE /\ stage' = [r \in Path |-> IF r \in In({}) /\ tree[r] # Absent
                                            THEN "listed" ELSE "unlisted"]
      <4>1. ASSUME Above[p] # {}
            PROVE  \E q \in Above[p] : Above[p] = Above[q] \cup {q} /\ stage'[q] # "done"
        BY <3>3, <4>1, ParentAssumption, WhereThingsLie
      <4> QED
        BY <1>1, <3>1, <3>3, <4>1, AtTheRoot DEF ScanTrue, Nothing, directory
    <3> QED
      BY <1>3, <3>2, <3>3
  <2> QED
    BY <1>3, <2>1, <2>2 DEF SnapshotInv, SavedTrue, SnapshotTrue
<1> QED
  BY <1>2, <1>3 DEF Start, Into, scan

LEMMA SaveSnapshot ==
  ASSUME TypeOK, SavingInv, SnapshotInv, Prune \/ Commit \/ ReplaceItem \/ Open
  PROVE  SnapshotInv'
<1>0. DirectoryType /\ ScanType /\ FilesType
  BY TypeParts
<1>1. UNCHANGED <<directory, touched, before, mode, cut>> /\ racing' \in {racing, {}}
  BY DEF Prune, Commit, ReplaceItem, Open, scan, End, Forget
<1>2. TouchedInv'
  BY <1>1 DEF SnapshotInv, TouchedInv, directory
<1>3. \A t \in Tree, p \in Path : Shown(t, p) => Shown(t, p)'
  BY <1>1 DEF Shown, IsFile, directory
<1>4. CASE Prune
  <2>1. phase = "scan" /\ AllProcessed /\ phase' = "commit" /\ last' = last /\ last = "none"
        /\ {} \notin cut /\ UNCHANGED <<items, scan>>
    BY <1>0, <1>4 DEF Prune, FilesType
  <2>2. ASSUME Fresh, NEW p \in Path \ (touched \cup hidden)
        PROVE  Shown(items, p)'
    <3>1. \A q \in Path : ScanTrue(q)
      BY <2>1, <2>2 DEF SnapshotInv
    <3>2. Shown(items, p)
      <4>1. CASE stage[p] = "done"
        BY <2>2, <3>1, <4>1 DEF ScanTrue
      <4>2. CASE stage[p] # "done"
        <5>1. tree[p] = Absent
          BY <2>1, <2>2, <3>1, <4>2, NothingMissed DEF SnapshotInv
        <5> QED
          BY <3>1, <4>2, <5>1 DEF ScanTrue, Shown
      <4> QED
        BY <4>1, <4>2
    <3> QED
      BY <1>1, <2>1, <3>2 DEF Shown, IsFile, directory
  <2> QED
    BY <1>1, <1>2, <2>1, <2>2 DEF SnapshotInv, SavedTrue, SnapshotTrue, Fresh, directory
<1>5. CASE Commit
  <2>1. /\ phase = "commit" /\ last = "none" /\ last' = "none" /\ {} \notin cut
        /\ files' = [files EXCEPT ![Into(mode)] = [@ EXCEPT !.items = items, !.whole = TRUE]]
        /\ phase' = IF mode = "atomic" THEN "swap" ELSE "open"
    BY <1>0, <1>5 DEF Commit, FilesType, SnapshotInv
  <2>2. files[Into(mode)] \in Database
    BY <1>0, <2>1 DEF FilesType, Into
  <2>3. files'[Into(mode)].items = items
    BY <1>0, <2>1, <2>2 DEF FilesType, Into, Database
  <2>4. ASSUME Fresh, NEW p \in Path \ (touched \cup hidden)
        PROVE  Shown(files[Into(mode)].items, p)'
    BY <1>1, <2>1, <2>3, <2>4 DEF SnapshotInv, SavedTrue, Shown, IsFile, Into, directory
  <2> QED
    BY <1>1, <1>2, <2>1, <2>4
    DEF SnapshotInv, SavedTrue, SnapshotTrue, Fresh, Into, directory
<1>6. CASE ReplaceItem
  <2>1. phase = "swap" /\ phase' = "open" /\ last' = "none" /\ files'["target"] = files["staging"]
        /\ {} \notin cut
    BY <1>0, <1>6 DEF ReplaceItem, FilesType, SnapshotInv
  <2>2. ASSUME NEW p \in Path \ (touched \cup hidden)
        PROVE  Shown(files["target"].items, p)'
    BY <1>1, <2>1, <2>2 DEF SnapshotInv, SavedTrue, Shown, IsFile, directory
  <2> QED
    BY <1>1, <1>2, <2>1, <2>2 DEF SnapshotInv, SavedTrue, SnapshotTrue, directory
<1>7. CASE Open
  <2>1. phase = "open" /\ phase' = "idle" /\ files' = files /\ {} \notin cut
    BY <1>7 DEF Open, End, SnapshotInv
  <2>2. ASSUME Fresh, NEW p \in Path \ (touched \cup hidden)
        PROVE  Shown(files["target"].items, p)'
    BY <1>1, <2>1, <2>2 DEF SnapshotInv, SavedTrue, Shown, IsFile, directory
  <2> QED
    BY <1>1, <1>2, <2>1, <2>2 DEF SnapshotInv, SavedTrue, SnapshotTrue, Fresh, directory
<1> QED
  BY <1>4, <1>5, <1>6, <1>7

LEMMA SnapshotNext ==
  TypeOK /\ OrderInv /\ CacheTrue /\ SavingInv /\ SnapshotInv /\ [Next]_vars => SnapshotInv'
<1> SUFFICES ASSUME TypeOK, OrderInv, CacheTrue, SavingInv, SnapshotInv, [Next]_vars
             PROVE  SnapshotInv'
  OBVIOUS
<1>1. CASE UNCHANGED vars
  BY <1>1 DEF vars, directory, scan, SnapshotInv, TouchedInv, ScanTrue, SavedTrue, SnapshotTrue,
              Shown, Fresh, IsFile
<1>2. CASE \/ \E p \in Path, c \in Content, d \in Dates : WriteFile(p, c, d)
           \/ \E p \in Path : Remove(p) \/ MakeDirectory(p)
  <2>1. /\ TouchedInv' /\ touched \subseteq touched' /\ hidden \subseteq hidden'
        /\ \A p \in Path \ touched' : tree'[p] = tree[p]
        /\ UNCHANGED <<files, mode, phase, stage, results, items, before, cut, last>>
    BY <1>2, RestStays DEF SnapshotInv
  <2>2. ASSUME NEW p \in Path, ScanTrue(p)
        PROVE  ScanTrue(p)'
    BY <2>1, <2>2 DEF ScanTrue, Shown, IsFile
  <2>3. \A p \in Path : SavedTrue(p)'
    BY <2>1 DEF SnapshotInv, SavedTrue, Shown, IsFile, Fresh
  <2>4. SnapshotTrue'
    BY <2>1 DEF SnapshotInv, SnapshotTrue, Shown, IsFile
  <2> QED
    BY <2>1, <2>2, <2>3, <2>4 DEF SnapshotInv, Fresh
<1>3. CASE \E m \in {"plain", "atomic"} : Start(m)
  BY <1>3, StartSnapshot
<1>4. CASE \/ \E p \in Path : ScanDirectory(p) \/ Look(p) \/ HashFile(p)
           \/ \E p \in Path : Insert(p) \/ InsertFails(p) \/ Drop(p) \/ Vanished(p) \/ PassOver(p)
  BY <1>4, ScanDirectorySnapshot, LookSnapshot, HashFileSnapshot, InsertSnapshot, LeftOutSnapshot
<1>5. CASE Prune \/ Commit \/ ReplaceItem \/ Open
  BY <1>5, SaveSnapshot
<1>6. CASE GiveUp \/ Crash
  <2>1. phase' = "idle" /\ last' = "failed" /\ racing' = {} /\ UNCHANGED <<directory, touched>>
    BY <1>6 DEF GiveUp, Crash, End, Forget
  <2> QED
    BY <2>1 DEF SnapshotInv, TouchedInv, SavedTrue, SnapshotTrue, directory
<1> QED
  BY <1>1, <1>2, <1>3, <1>4, <1>5, <1>6 DEF Next

(* A snapshot that was taken, atomically or into a new file, shows what    *)
(* was let alone and could be read as it is, whatever happened to the rest *)
(* of the directory meanwhile; it lacks at most files of directories,      *)
(* never of the root, of which an insertion failed in a parallel scan      *)
(* (SnapshotEngine.createSnapshot, processDirectoryContentsParallel).      *)
THEOREM SpecSnapshotTrue == Spec => []SnapshotTrue
<1>1. Spec => []TypeOK
  BY SpecTypeOK
<1>2. Spec => []CacheTrue
  BY SpecCacheTrue
<1>3. SnapshotInv => SnapshotTrue
  BY DEF SnapshotInv
<1> QED
  BY <1>1, <1>2, <1>3, OrderInit, OrderNext, SavingInit, SavingNext, SnapshotInit, SnapshotNext,
     PTL DEF Spec

=============================================================================
