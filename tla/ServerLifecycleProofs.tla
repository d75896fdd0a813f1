------------------------ MODULE ServerLifecycleProofs ------------------------
(***************************************************************************)
(* For any number of connections, descriptors and starts: the server's     *)
(* tables and its group stay in their types; every descriptor and entry    *)
(* has a thread that will see to it, so that a stopped server is clean;    *)
(* and until somebody calls stop a descriptor means one thing to everyone. *)
(***************************************************************************)
EXTENDS ServerLifecycle, FiniteSetTheorems, WellFoundedInduction, TLAPS

-----------------------------------------------------------------------------
(* The invariant                                                           *)

Inside(c) == handler[c] \in {"begin", "working", "untrack", "unbuffer", "close", "leave"}
Counted == {c \in Conn : Inside(c)}

\* The loop of start g holds a connection no handler has yet.
Holding(g) == loop[g] \in {"track", "enter"}

\* A connection is waiting, or held by one loop, or has its handler; every handler is
\* in the group.
OnePlace ==
    /\ clientGroup = Cardinality(Counted)
    /\ \A c \in backlog : handler[c] = "none"
    /\ \A g \in Start : Holding(g) => /\ accepted[g].conn \in Conn /\ accepted[g].fd \in Fd
                                      /\ accepted[g].conn \notin backlog
                                      /\ handler[accepted[g].conn] = "none"
    /\ \A g, h \in Start : Holding(g) /\ Holding(h) /\ g # h
                           => accepted[g].conn # accepted[h].conn
    /\ \A c \in Conn : handler[c] # "none" => handlerFd[c] \in Fd
    /\ \A c \in Conn : fileFd[c] # 0 => handler[c] = "working"

\* Who will close what a descriptor refers to.
Closer(f) ==
    /\ \A g \in Start : desc[f] = listener(g) =>
          g = starts /\ listenerFd = f /\ main \in {"running", "copy", "clients"}
    /\ \A g \in Start : desc[f] = readEnd(g) =>
          g = starts /\ shutdownPipe.readEnd = f /\ main # "idle"
    /\ \A g \in Start : desc[f] = writeEnd(g) =>
          g = starts /\ shutdownPipe.writeEnd = f /\ main # "idle"
    /\ \A c \in Conn : desc[f] = client(c) =>
          \/ Serving(c) /\ handlerFd[c] = f
          \/ \E g \in Start : Holding(g) /\ accepted[g].conn = c /\ accepted[g].fd = f
    /\ \A c \in Conn : desc[f] = file(c) => handler[c] = "working" /\ fileFd[c] = f

\* Who will take a number out of the tables.
Remover(f) ==
    /\ f \in clientFds =>
          \/ \E c \in Conn : handler[c] \in {"begin", "working", "untrack"} /\ handlerFd[c] = f
          \/ \E g \in Start : loop[g] = "enter" /\ accepted[g].fd = f
    /\ connectionBuffers[f] # NoOne =>
          \E c \in Conn : handler[c] \in {"working", "untrack", "unbuffer"} /\ handlerFd[c] = f

Looked == \A f \in Fd : Closer(f) /\ Remover(f)

\* The loops there are.
Begun == \A g \in Start : loop[g] # "none" => g <= starts

\* A server that has not been started, or whose start has failed.
Untouched ==
    /\ main # "running" /\ shutdownPipe = NoPipe /\ toClose = {} /\ clientFds = {}
    /\ backlog = {}
    /\ \A f \in Fd : desc[f] = free
    /\ \A g \in Start : loop[g] = "none"
    /\ \A c \in Conn : handler[c] = "none"

\* A server that serves.
Served ==
    /\ main = "running" /\ starts = 1
    /\ listenerFd \in Fd /\ desc[listenerFd] = listener(1)
    /\ shutdownPipe.readEnd \in Fd /\ desc[shutdownPipe.readEnd] = readEnd(1)
    /\ shutdownPipe.writeEnd \in Fd /\ desc[shutdownPipe.writeEnd] = writeEnd(1)
    /\ \A c \in Conn : Serving(c) => desc[handlerFd[c]] = client(c)
    /\ \A c \in Conn : fileFd[c] # 0 => desc[fileFd[c]] = file(c)
    /\ \A g \in Start : Holding(g) => desc[accepted[g].fd] = client(accepted[g].conn)
    /\ \A c \in Conn : handler[c] \in {"working", "untrack", "unbuffer"}
                       => connectionBuffers[handlerFd[c]] = c

OnlyOwner == starts <= 1 /\ signalled = {} => ~ foreign /\ (Untouched \/ Served)

LifecycleInv == LifecycleTypeOK /\ OnePlace /\ Begun /\ Looked /\ OnlyOwner

-----------------------------------------------------------------------------
(* Descriptors                                                             *)

Less == {ss \in Nat \X Nat : ss[1] < ss[2]}

LEMMA LowestIsIn ==
  ASSUME NEW S \in SUBSET Fd, S # {}
  PROVE  Lowest(S) \in S
<1>1. S \subseteq Nat
  BY LifecycleAssumption DEF Fd
<1>2. IsWellFoundedOn(Less, Nat)
  BY NatLessThanWellFounded DEF Less, OpToRel
<1>3. PICK x \in S : \A y \in S : <<y, x>> \notin Less
  BY <1>1, <1>2, WFMin
<1>4. \A m, n \in Nat : n < m => <<n, m>> \in Less
  BY DEF Less
<1>5. \A y \in S : ~ (y < x)
  BY <1>1, <1>3, <1>4
<1>6. \A y \in S : x <= y
  BY <1>1, <1>5
<1> QED
  BY <1>6 DEF Lowest

LEMMA FreeFds == Free \subseteq Fd /\ \A f \in Free : desc[f] = free
  BY DEF Free

\* Three descriptors startAsync can have.
LEMMA ThreeFree ==
  ASSUME Cardinality(Free) >= 3
  PROVE  LET r == Lowest(Free)
             w == Lowest(Free \ {r})
             l == Lowest(Free \ {r, w})
         IN  r \in Free /\ w \in Free /\ l \in Free /\ r # w /\ r # l /\ w # l
<1> DEFINE r == Lowest(Free)
           w == Lowest(Free \ {r})
           l == Lowest(Free \ {r, w})
<1>1. IsFiniteSet(Free)
  <2>1. IsFiniteSet(Fd)
    BY LifecycleAssumption, FS_Interval DEF Fd
  <2> QED
    BY <2>1, FreeFds, FS_Subset
<1>2. Cardinality(Free) \in Nat
  BY <1>1, FS_CardinalityType
<1>3. Free # {}
  BY FS_EmptySet
<1>4. r \in Free
  BY <1>3, FreeFds, LowestIsIn
<1> HIDE DEF r
<1>5. IsFiniteSet(Free \ {r}) /\ Cardinality(Free \ {r}) = Cardinality(Free) - 1
  BY <1>1, <1>4, FS_RemoveElement
<1>6. Free \ {r} # {}
  <2>1. Cardinality(Free \ {r}) # 0
    BY <1>2, <1>5
  <2> QED
    BY <2>1, FS_EmptySet
<1>7. w \in Free \ {r}
  BY <1>6, FreeFds, LowestIsIn
<1> HIDE DEF w
<1>8. Cardinality((Free \ {r}) \ {w}) = Cardinality(Free \ {r}) - 1
  BY <1>5, <1>7, FS_RemoveElement
<1>9. (Free \ {r}) \ {w} = Free \ {r, w}
  OBVIOUS
<1>10. Free \ {r, w} # {}
  <2>1. Cardinality(Free \ {r, w}) = Cardinality(Free) - 2
    BY <1>2, <1>5, <1>8, <1>9
  <2>2. Cardinality(Free \ {r, w}) # 0
    BY <1>2, <2>1
  <2> QED
    BY <2>2, FS_EmptySet
<1>11. l \in Free \ {r, w}
  BY <1>10, FreeFds, LowestIsIn
<1> QED
  BY <1>4, <1>7, <1>11 DEF r, w, l

\* What closing a descriptor does to the others: nothing.
LEMMA Closes ==
  ASSUME NEW f, NEW mine, Close(f, mine)
  PROVE  /\ desc' = [g \in Fd |-> IF g = f THEN free ELSE desc[g]]
         /\ backlog' \subseteq backlog
         /\ desc[f].kind # "listener" => backlog' = backlog
         /\ foreign' = (foreign \/ desc[f] \notin {mine, free})
<1> DEFINE own == [x \in {f} |-> mine]
<1>1. DOMAIN own = {f} /\ own[f] = mine
  OBVIOUS
<1>2. desc' = [g \in Fd |-> IF g \in {f} THEN free ELSE desc[g]]
  BY <1>1 DEF Close, CloseAll
<1>3. backlog' = IF desc[f].kind = "listener" THEN {} ELSE backlog
  BY <1>1 DEF Close, CloseAll
<1>4. foreign' = (foreign \/ \E g \in DOMAIN own : desc[g] \notin {own[g], free})
  BY DEF Close, CloseAll
<1>5. foreign' = (foreign \/ desc[f] \notin {mine, free})
  BY <1>1, <1>4, Zenon
<1> HIDE DEF own
<1> QED
  BY <1>2, <1>3, <1>5

-----------------------------------------------------------------------------
(* Types                                                                   *)

Referent == {free} \cup {listener(g) : g \in Start} \cup {readEnd(g) : g \in Start}
            \cup {writeEnd(g) : g \in Start} \cup {client(c) : c \in Conn}
            \cup {file(c) : c \in Conn}

\* All of the type invariant but the size of the group.
Typed ==
    /\ desc \in [Fd -> Referent]
    /\ listenerFd \in Fd \cup {invalidSocket} /\ isRunning \in BOOLEAN
    /\ shutdownPipe \in {NoPipe} \cup [readEnd : Fd, writeEnd : Fd]
    /\ clientFds \subseteq Fd
    /\ connectionBuffers \in [Fd -> Conn \cup {NoOne}]
    /\ main \in {"idle", "running", "copy", "clients", "wait"}
    /\ starts \in 0..MaxStarts /\ toClose \subseteq Fd /\ signalled \subseteq Start
    /\ loop \in [Start -> {"none", "begin", "check", "poll", "accept", "track", "enter", "over"}]
    /\ loopPipe \in [Start -> {NoPipe} \cup [readEnd : Fd, writeEnd : Fd]]
    /\ accepted \in [Start -> [conn : Conn \cup {NoOne}, fd : Fd \cup {0}]]
    /\ handler \in [Conn -> {"none", "begin", "working", "untrack", "unbuffer", "close", "leave",
                             "over"}]
    /\ handlerFd \in [Conn -> Fd \cup {0}] /\ fileFd \in [Conn -> Fd \cup {0}]
    /\ backlog \subseteq Conn /\ foreign \in BOOLEAN

LEMMA TypedIsType == LifecycleTypeOK <=> Typed /\ clientGroup \in 0..Cardinality(Conn)
  BY DEF LifecycleTypeOK, Typed, Referent

LEMMA Referents ==
  /\ free \in Referent
  /\ \A g \in Start : listener(g) \in Referent /\ readEnd(g) \in Referent /\ writeEnd(g) \in Referent
  /\ \A c \in Conn : client(c) \in Referent /\ file(c) \in Referent
  BY DEF Referent

LEMMA ClosesTyped ==
  ASSUME Typed, NEW own, CloseAll(own)
  PROVE  desc' \in [Fd -> Referent] /\ backlog' \subseteq Conn /\ foreign' \in BOOLEAN
<1>1. desc' \in [Fd -> Referent]
  BY Referents DEF CloseAll, Typed
<1>2. backlog' \subseteq Conn
  BY DEF CloseAll, Typed
<1> DEFINE wrong == \E f \in DOMAIN own : desc[f] \notin {own[f], free}
<1>3. foreign' = (foreign \/ wrong) /\ foreign \in BOOLEAN
  BY Zenon DEF CloseAll, Typed
<1>4. foreign' \in BOOLEAN
  <2> HIDE DEF wrong
  <2> QED
    BY <1>3
<1> QED
  BY <1>1, <1>2, <1>4

LEMMA StartTyped == Typed /\ StartAsync => Typed'
<1> SUFFICES ASSUME Typed, StartAsync PROVE Typed'
  OBVIOUS
<1> DEFINE r == Lowest(Free)
           w == Lowest(Free \ {r})
           l == Lowest(Free \ {r, w})
<1>1. starts' = starts + 1 /\ starts' \in 0..MaxStarts /\ starts' \in Start
  BY LifecycleAssumption DEF StartAsync, Typed, Start
<1>2. UNCHANGED <<clientFds, connectionBuffers, toClose, signalled, loopPipe, accepted, handler,
                  handlerFd, fileFd, backlog, foreign>>
  BY DEF StartAsync, tables, threads
<1>3. CASE StartSucceeds
  <2>1. r \in Fd /\ w \in Fd /\ l \in Fd
    BY <1>3, ThreeFree, FreeFds DEF StartSucceeds
  <2>2. /\ desc' = [desc EXCEPT ![r] = readEnd(starts'), ![w] = writeEnd(starts'),
                                ![l] = listener(starts')]
        /\ shutdownPipe' = [readEnd |-> r, writeEnd |-> w]
        /\ listenerFd' = l /\ isRunning' = TRUE
        /\ loop' = [loop EXCEPT ![starts'] = "begin"]
        /\ main' = "running"
    BY <1>3 DEF StartSucceeds
  <2> HIDE DEF r, w, l
  <2>3. desc' \in [Fd -> Referent]
    BY <1>1, <2>1, <2>2, Referents DEF Typed
  <2>4. shutdownPipe' \in {NoPipe} \cup [readEnd : Fd, writeEnd : Fd]
    BY <2>1, <2>2 DEF Typed
  <2>5. loop' \in [Start -> {"none", "begin", "check", "poll", "accept", "track", "enter", "over"}]
    BY <1>1, <2>2 DEF Typed
  <2> QED
    BY <1>1, <1>2, <2>1, <2>2, <2>3, <2>4, <2>5 DEF Typed
<1>4. CASE StartFails
  <2>1. listenerFd' \in Fd \cup {invalidSocket} /\ shutdownPipe' \in {shutdownPipe, NoPipe}
    <3>1. Cardinality(Free) >= 3 => ThirdLowest \in Fd
      BY ThreeFree, FreeFds DEF ThirdLowest
    <3> QED
      BY <1>4, <3>1 DEF StartFails, Typed
  <2> QED
    BY <1>1, <1>2, <1>4, <2>1 DEF StartFails, Typed
<1> QED
  BY <1>3, <1>4 DEF StartAsync

LEMMA StopTyped == Typed /\ (StopBegins \/ Stop) => Typed'
<1> SUFFICES ASSUME Typed, StopBegins \/ Stop PROVE Typed'
  OBVIOUS
<1> USE DEF Typed, object, tables, loops, threads
<1>1. CASE StopBegins
  <2>1. shutdownPipe # NoPipe /\ desc[shutdownPipe.writeEnd] = writeEnd(starts) => starts \in Start
    <3> SUFFICES ASSUME shutdownPipe # NoPipe, desc[shutdownPipe.writeEnd] = writeEnd(starts)
                 PROVE  starts \in Start
      OBVIOUS
    <3>1. writeEnd(starts) \in Referent
      OBVIOUS
    <3> QED
      BY <3>1 DEF Referent, free, listener, readEnd, writeEnd, client, file
  <2> QED
    BY <1>1, <2>1 DEF StopBegins
<1>2. CASE StopCopies
  BY <1>2 DEF StopCopies
<1>3. CASE StopClosesClient
  BY <1>3, ClosesTyped DEF StopClosesClient, CloseTracked, Close
<1>4. CASE StopClosesListener
  BY <1>4, ClosesTyped DEF StopClosesListener, Close
<1>5. CASE StopReturns
  BY <1>5, ClosesTyped DEF StopReturns
<1> QED
  BY <1>1, <1>2, <1>3, <1>4, <1>5 DEF Stop

LEMMA LoopTyped ==
  ASSUME Typed, OnePlace, NEW g \in Start, AcceptLoop(g)
  PROVE  Typed'
<1> USE DEF Typed, object, tables, owner, loops, threads, LoopGoto
<1>1. CASE LoopBegins(g)
  BY <1>1 DEF LoopBegins
<1>2. CASE LoopChecks(g)
  BY <1>2 DEF LoopChecks
<1>3. CASE LoopPolls(g)
  BY <1>3 DEF LoopPolls
<1>4. CASE LoopAccepts(g)
  <2>1. CASE Listening /\ Free # {}
    <3>1. PICK c \in backlog :
            /\ accepted' = [accepted EXCEPT ![g] = [conn |-> c, fd |-> Lowest(Free)]]
            /\ desc' = [desc EXCEPT ![Lowest(Free)] = client(c)]
            /\ backlog' = backlog \ {c}
            /\ LoopGoto(g, "track")
      BY <1>4, <2>1 DEF LoopAccepts
    <3>2. Lowest(Free) \in Fd
      BY <2>1, FreeFds, LowestIsIn
    <3> QED
      BY <1>4, <3>1, <3>2, Referents DEF LoopAccepts
  <2>2. CASE ~ (Listening /\ Free # {})
    BY <1>4, <2>2 DEF LoopAccepts
  <2> QED
    BY <2>1, <2>2
<1>5. CASE LoopTracks(g)
  <2>1. accepted[g].fd \in Fd
    BY <1>5 DEF LoopTracks, OnePlace, Holding
  <2> QED
    BY <1>5, <2>1 DEF LoopTracks
<1>6. CASE LoopEnters(g)
  BY <1>6 DEF LoopEnters
<1> QED
  BY <1>1, <1>2, <1>3, <1>4, <1>5, <1>6 DEF AcceptLoop

LEMMA HandlerTyped ==
  ASSUME Typed, NEW c \in Conn, HandlerStep(c) \/ HandlerOpensFile(c) \/ ClientConnects(c)
  PROVE  Typed'
<1> USE DEF Typed, object, tables, owner, loops, threads, HandlerGoto
<1>1. CASE HandlerBegins(c)
  BY <1>1 DEF HandlerBegins
<1>10. CASE HandlerReceives(c)
  BY <1>10 DEF HandlerReceives
<1>2. CASE HandlerOpensFile(c)
  <2>1. Lowest(Free) \in Fd
    BY <1>2, FreeFds, LowestIsIn DEF HandlerOpensFile
  <2> QED
    BY <1>2, <2>1, Referents DEF HandlerOpensFile
<1>3. CASE HandlerClosesFile(c)
  BY <1>3, ClosesTyped DEF HandlerClosesFile, Close
<1>4. CASE HandlerEnds(c)
  BY <1>4 DEF HandlerEnds
<1>5. CASE HandlerUntracks(c)
  BY <1>5 DEF HandlerUntracks
<1>6. CASE HandlerUnbuffers(c)
  BY <1>6 DEF HandlerUnbuffers
<1>7. CASE HandlerCloses(c)
  BY <1>7, ClosesTyped DEF HandlerCloses, Close
<1>8. CASE HandlerLeaves(c)
  BY <1>8 DEF HandlerLeaves
<1>9. CASE ClientConnects(c)
  BY <1>9 DEF ClientConnects
<1> QED
  BY <1>1, <1>2, <1>3, <1>4, <1>5, <1>6, <1>7, <1>8, <1>9, <1>10 DEF HandlerStep

-----------------------------------------------------------------------------
(* One place for every connection                                          *)

LEMMA GroupCounts ==
  /\ IsFiniteSet(Conn) /\ IsFiniteSet(Counted)
  /\ Cardinality(Conn) \in Nat /\ Cardinality(Counted) \in 0..Cardinality(Conn)
<1>1. Counted \subseteq Conn
  BY DEF Counted
<1> QED
  BY <1>1, LifecycleAssumption, FS_Subset, FS_CardinalityType

\* What OnePlace is about does not change, but that fewer wait and loops move about
\* empty-handed.
LEMMA SamePlaces ==
  ASSUME Typed, OnePlace, UNCHANGED <<clientGroup, handler, handlerFd, fileFd, accepted>>,
         backlog' \subseteq backlog,
         \A g \in Start : Holding(g)' => Holding(g)
  PROVE  OnePlace'
<1>1. Counted' = Counted
  BY DEF Counted, Inside
<1> QED
  BY <1>1 DEF OnePlace

LEMMA OwnerOnePlace == Typed /\ OnePlace /\ (StartAsync \/ StopBegins \/ Stop) => OnePlace'
<1> SUFFICES ASSUME Typed, OnePlace, StartAsync \/ StopBegins \/ Stop PROVE OnePlace'
  OBVIOUS
<1> USE DEF object, tables, loops, threads
<1>1. CASE StartAsync
  <2>1. /\ UNCHANGED <<clientGroup, handler, handlerFd, fileFd, accepted, backlog>>
        /\ loop' = loop \/ loop' = [loop EXCEPT ![starts'] = "begin"]
    BY <1>1 DEF StartAsync, StartSucceeds, StartFails
  <2> QED
    BY <2>1, SamePlaces DEF Holding, Typed
<1>2. CASE StopBegins
  BY <1>2, SamePlaces DEF StopBegins, Holding
<1>3. CASE StopCopies
  BY <1>3, SamePlaces DEF StopCopies, Holding
<1>4. CASE StopClosesClient
  BY <1>4, SamePlaces DEF StopClosesClient, CloseTracked, Close, CloseAll, Holding
<1>5. CASE StopClosesListener
  BY <1>5, SamePlaces DEF StopClosesListener, Close, CloseAll, Holding
<1>6. CASE StopReturns
  BY <1>6, SamePlaces DEF StopReturns, CloseAll, Holding
<1> QED
  BY <1>1, <1>2, <1>3, <1>4, <1>5, <1>6 DEF Stop

LEMMA LoopOnePlace ==
  ASSUME Typed, OnePlace, NEW g \in Start, AcceptLoop(g)
  PROVE  OnePlace'
<1> USE DEF object, tables, owner, loops, threads, LoopGoto
<1>1. CASE LoopBegins(g)
  BY <1>1, SamePlaces DEF LoopBegins, Holding, Typed
<1>2. CASE LoopChecks(g)
  BY <1>2, SamePlaces DEF LoopChecks, Holding, Typed
<1>3. CASE LoopPolls(g)
  BY <1>3, SamePlaces DEF LoopPolls, Holding, Typed
<1>4. CASE LoopAccepts(g)
  <2>1. CASE Listening /\ Free # {}
    <3>1. PICK c \in backlog :
            /\ accepted' = [accepted EXCEPT ![g] = [conn |-> c, fd |-> Lowest(Free)]]
            /\ backlog' = backlog \ {c}
            /\ loop' = [loop EXCEPT ![g] = "track"]
      BY <1>4, <2>1 DEF LoopAccepts
    <3>2. Lowest(Free) \in Fd /\ c \in Conn
      BY <2>1, FreeFds, LowestIsIn DEF Typed
    <3>3. UNCHANGED <<clientGroup, handler, handlerFd, fileFd>>
      BY <1>4 DEF LoopAccepts
    <3>4. Counted' = Counted
      BY <3>3 DEF Counted, Inside
    <3>5. /\ accepted'[g] = [conn |-> c, fd |-> Lowest(Free)]
          /\ \A h \in Start : h # g => accepted'[h] = accepted[h] /\ Holding(h)' = Holding(h)
      BY <3>1 DEF Typed, Holding
    <3>6. \A h \in Start : h # g /\ Holding(h)' => accepted[h].conn # c
      BY <3>5 DEF OnePlace
    <3> QED
      BY <3>1, <3>2, <3>3, <3>4, <3>5, <3>6 DEF OnePlace
  <2>2. CASE ~ (Listening /\ Free # {})
    BY <1>4, <2>2, SamePlaces DEF LoopAccepts, Holding, Typed
  <2> QED
    BY <2>1, <2>2
<1>5. CASE LoopTracks(g)
  BY <1>5, SamePlaces DEF LoopTracks, Holding, Typed
<1>6. CASE LoopEnters(g)
  <2> DEFINE c == accepted[g].conn
  <2>1. c \in Conn /\ handler[c] = "none" /\ c \notin backlog /\ accepted[g].fd \in Fd /\ Holding(g)
    BY <1>6 DEF LoopEnters, OnePlace, Holding
  <2>2. /\ handler' = [handler EXCEPT ![c] = "begin"]
        /\ handlerFd' = [handlerFd EXCEPT ![c] = accepted[g].fd]
        /\ loop' = [loop EXCEPT ![g] = "check"]
        /\ clientGroup' = clientGroup + 1
        /\ UNCHANGED <<accepted, fileFd, backlog>>
    BY <1>6 DEF LoopEnters
  <2>3. \A h \in Start : Holding(h)' => h # g /\ Holding(h)
    BY <2>2 DEF Holding, Typed
  <2>4. \A h \in Start : Holding(h)' => accepted[h].conn # c
    BY <2>1, <2>3 DEF OnePlace
  <2> HIDE DEF c
  <2>5. Counted' = Counted \cup {c} /\ c \notin Counted
    BY <2>1, <2>2 DEF Counted, Inside, Typed
  <2>6. clientGroup' = Cardinality(Counted')
    BY <2>2, <2>5, GroupCounts, FS_AddElement DEF OnePlace
  <2>7. \A d \in Conn : d # c => handler'[d] = handler[d] /\ handlerFd'[d] = handlerFd[d]
    BY <2>2 DEF Typed
  <2>8. handlerFd'[c] \in Fd /\ fileFd[c] = 0
    BY <2>1, <2>2 DEF Typed, OnePlace
  <2> QED
    BY <2>1, <2>2, <2>3, <2>4, <2>6, <2>7, <2>8 DEF OnePlace, Typed
<1> QED
  BY <1>1, <1>2, <1>3, <1>4, <1>5, <1>6 DEF AcceptLoop

LEMMA HandlerOnePlace ==
  ASSUME Typed, OnePlace, NEW c \in Conn,
         HandlerStep(c) \/ HandlerOpensFile(c) \/ ClientConnects(c)
  PROVE  OnePlace'
<1> USE DEF object, tables, owner, loops, threads, HandlerGoto
\* A handler that goes on stays in the group.
<1>1. ASSUME handler[c] # "none", UNCHANGED <<clientGroup, handlerFd, accepted, loop>>,
             backlog' \subseteq backlog,
             \A d \in Conn : d # c => handler'[d] = handler[d],
             Inside(c) <=> Inside(c)', handler'[c] # "none",
             \A d \in Conn : fileFd'[d] # 0 => handler'[d] = "working"
      PROVE  OnePlace'
  <2>1. Counted' = Counted
    BY <1>1 DEF Counted, Inside
  <2> QED
    BY <1>1, <2>1 DEF OnePlace, Holding, Typed
<1>2. CASE HandlerBegins(c)
  BY <1>1, <1>2 DEF HandlerBegins, Inside, Typed, OnePlace
<1>11. CASE HandlerReceives(c)
  BY <1>1, <1>11 DEF HandlerReceives, Inside, Typed, OnePlace
<1>3. CASE HandlerOpensFile(c)
  BY <1>1, <1>3 DEF HandlerOpensFile, Inside, Typed, OnePlace
<1>4. CASE HandlerClosesFile(c)
  BY <1>1, <1>4 DEF HandlerClosesFile, Close, CloseAll, Inside, Typed, OnePlace
<1>5. CASE HandlerEnds(c)
  BY <1>1, <1>5 DEF HandlerEnds, Inside, Typed, OnePlace
<1>6. CASE HandlerUntracks(c)
  BY <1>1, <1>6 DEF HandlerUntracks, Inside, Typed, OnePlace
<1>7. CASE HandlerUnbuffers(c)
  BY <1>1, <1>7 DEF HandlerUnbuffers, Inside, Typed, OnePlace
<1>8. CASE HandlerCloses(c)
  BY <1>1, <1>8 DEF HandlerCloses, Close, CloseAll, Inside, Typed, OnePlace
<1>9. CASE HandlerLeaves(c)
  <2>1. /\ handler[c] = "leave" /\ handler' = [handler EXCEPT ![c] = "over"]
        /\ clientGroup' = clientGroup - 1
        /\ UNCHANGED <<handlerFd, fileFd, accepted, loop, backlog>>
    BY <1>9 DEF HandlerLeaves
  <2>2. Counted' = Counted \ {c} /\ c \in Counted
    BY <2>1 DEF Counted, Inside, Typed
  <2>3. clientGroup' = Cardinality(Counted')
    BY <2>1, <2>2, GroupCounts, FS_RemoveElement DEF OnePlace
  <2> QED
    BY <2>1, <2>3 DEF OnePlace, Holding, Typed
<1>10. CASE ClientConnects(c)
  <2>1. Counted' = Counted
    BY <1>10 DEF ClientConnects, Counted, Inside
  <2> QED
    BY <1>10, <2>1 DEF ClientConnects, OnePlace, Holding, Typed
<1> QED
  BY <1>2, <1>3, <1>4, <1>5, <1>6, <1>7, <1>8, <1>9, <1>10, <1>11 DEF HandlerStep

-----------------------------------------------------------------------------
(* Somebody sees to every descriptor and every entry                       *)

LEMMA Kinds ==
  ASSUME NEW x, NEW y
  PROVE  /\ free # listener(x) /\ free # readEnd(x) /\ free # writeEnd(x) /\ free # client(x)
         /\ free # file(x) /\ listener(x) # readEnd(y) /\ listener(x) # writeEnd(y)
         /\ listener(x) # client(y) /\ listener(x) # file(y) /\ readEnd(x) # writeEnd(y)
         /\ readEnd(x) # client(y) /\ readEnd(x) # file(y) /\ writeEnd(x) # client(y)
         /\ writeEnd(x) # file(y) /\ client(x) # file(y)
         /\ (listener(x) = listener(y) \/ readEnd(x) = readEnd(y) \/ writeEnd(x) = writeEnd(y)
             \/ client(x) = client(y) \/ file(x) = file(y)) => x = y
  BY DEF free, listener, readEnd, writeEnd, client, file

\* A descriptor that refers to nothing needs nobody.
LEMMA FreeCloser == \A f \in Fd : desc[f] = free => Closer(f)
  BY Kinds DEF Closer

LEMMA FreeCloserLater == \A f \in Fd : desc'[f] = free => Closer(f)'
  BY Kinds DEF Closer

\* While the threads stay where they are.
LEMMA SameClosers ==
  ASSUME Looked, NEW f \in Fd, desc'[f] \in {desc[f], free},
         UNCHANGED <<handler, handlerFd, fileFd, loop, accepted>>,
         \/ desc'[f] = free
         \/ UNCHANGED <<main, starts, listenerFd, shutdownPipe>>
         \/ /\ \A g \in Start : desc[f] # listener(g) /\ desc[f] # readEnd(g) /\ desc[f] # writeEnd(g)
  PROVE  Closer(f)'
<1>1. CASE desc'[f] = free
  BY <1>1, FreeCloserLater
<1>2. CASE desc'[f] = desc[f]
  BY <1>2, FreeCloserLater DEF Looked, Closer, Holding, Serving
<1> QED
  BY <1>1, <1>2

LEMMA SameRemovers ==
  ASSUME Looked, NEW f \in Fd, UNCHANGED <<clientFds, connectionBuffers, handler, handlerFd, accepted>>,
         \A g \in Start : loop[g] = "enter" => loop'[g] = "enter"
  PROVE  Remover(f)'
  BY DEF Looked, Remover

LEMMA NextBegun ==
  ASSUME Typed, Begun, [Next]_vars
  PROVE  Begun'
<1> USE DEF Begun, Typed, owner, loops, object, tables
<1>1. CASE StartAsync
  <2>1. /\ starts' = starts + 1 /\ starts \in Nat
        /\ loop' = loop \/ loop' = [loop EXCEPT ![starts'] = "begin"]
    BY <1>1, LifecycleAssumption DEF StartAsync, StartSucceeds, StartFails
  <2>2. \A g \in Start : g \in Nat
    BY LifecycleAssumption DEF Start
  <2> QED
    BY <2>1, <2>2
<1>2. CASE StopBegins \/ Stop
  BY <1>2 DEF StopBegins, Stop, StopCopies, StopClosesClient, StopClosesListener, StopReturns
<1>3. ASSUME NEW g \in Start, AcceptLoop(g)
      PROVE  Begun'
  <2>1. /\ loop[g] # "none" /\ UNCHANGED starts
        /\ \A h \in Start : h # g => loop'[h] = loop[h]
    BY <1>3 DEF AcceptLoop, LoopBegins, LoopChecks, LoopPolls, LoopAccepts, LoopTracks, LoopEnters,
                LoopGoto
  <2> QED
    BY <2>1
<1>4. ASSUME NEW c \in Conn, HandlerStep(c) \/ HandlerOpensFile(c) \/ ClientConnects(c)
      PROVE  Begun'
  BY <1>4 DEF HandlerStep, HandlerOpensFile, ClientConnects, HandlerBegins,
              HandlerReceives, HandlerClosesFile, HandlerEnds, HandlerUntracks, HandlerUnbuffers, HandlerCloses, HandlerLeaves
<1>5. CASE UNCHANGED vars
  BY <1>5 DEF vars
<1> QED
  BY <1>1, <1>2, <1>3, <1>4, <1>5 DEF Next

LEMMA StartLooked ==
  ASSUME Typed, OnePlace, Begun, Looked, StartAsync
  PROVE  Looked'
<1> USE DEF object, tables, loops, threads
<1> DEFINE r == Lowest(Free)
           w == Lowest(Free \ {r})
           l == Lowest(Free \ {r, w})
<1>1. starts \in Nat /\ starts' = starts + 1 /\ starts' \in Nat
  BY LifecycleAssumption DEF StartAsync, Typed
<1>2. /\ main = "idle" /\ starts' = starts + 1 /\ starts \in Nat /\ starts' \in Nat
      /\ UNCHANGED <<clientFds, connectionBuffers, accepted, handler, handlerFd, fileFd>>
  BY <1>1 DEF StartAsync
<1> SUFFICES ASSUME NEW f \in Fd PROVE Closer(f)' /\ Remover(f)'
  BY DEF Looked
<1>3. \A g \in Start : desc[f] # listener(g) /\ desc[f] # readEnd(g) /\ desc[f] # writeEnd(g)
  BY <1>2 DEF Looked, Closer
<1>4. CASE StartFails
  BY <1>2, <1>3, <1>4, SameClosers, SameRemovers DEF StartFails
<1>5. CASE StartSucceeds
  <2>0. r \in Free /\ w \in Free /\ l \in Free /\ r # w /\ r # l /\ w # l
    BY <1>5, ThreeFree DEF StartSucceeds
  <2>1. /\ desc' = [desc EXCEPT ![r] = readEnd(starts'), ![w] = writeEnd(starts'),
                                ![l] = listener(starts')]
        /\ shutdownPipe' = [readEnd |-> r, writeEnd |-> w]
        /\ listenerFd' = l /\ main' = "running"
        /\ loop' = [loop EXCEPT ![starts'] = "begin"]
    BY <1>5 DEF StartSucceeds
  <2> HIDE DEF r, w, l
  <2>2. \A g \in Start : loop[g] # "none" => g # starts'
    BY <1>2, LifecycleAssumption DEF Begun, Start
  <2>3. \A g \in Start : Holding(g) => Holding(g)'
    BY <2>1, <2>2 DEF Holding, Typed
  <2>4. Remover(f)'
    BY <1>2, <2>1, <2>2, SameRemovers DEF Typed
  <2>5. DOMAIN desc = Fd /\ r \in Fd /\ w \in Fd /\ l \in Fd
    BY <2>0, FreeFds DEF Typed
  <2>6. CASE f \notin {r, w, l}
    <3>1. desc'[f] = desc[f]
      BY <2>1, <2>5, <2>6
    <3> QED
      BY <1>2, <1>3, <2>3, <2>4, <3>1 DEF Looked, Closer, Serving
  <2>7. CASE f = r
    <3>1. desc'[f] = readEnd(starts')
      BY <2>0, <2>1, <2>5, <2>7
    <3> QED
      BY <2>1, <2>4, <2>7, <3>1, Kinds DEF Closer
  <2>8. CASE f = w
    <3>1. desc'[f] = writeEnd(starts')
      BY <2>0, <2>1, <2>5, <2>8
    <3> QED
      BY <2>1, <2>4, <2>8, <3>1, Kinds DEF Closer
  <2>9. CASE f = l
    <3>1. desc'[f] = listener(starts')
      BY <2>0, <2>1, <2>5, <2>9
    <3> QED
      BY <2>1, <2>4, <2>9, <3>1, Kinds DEF Closer
  <2> QED
    BY <2>6, <2>7, <2>8, <2>9
<1> QED
  BY <1>4, <1>5 DEF StartAsync

LEMMA StopLooked ==
  ASSUME Typed, Looked, StopBegins \/ Stop
  PROVE  Looked'
<1> USE DEF object, tables, loops, threads
<1> SUFFICES ASSUME NEW f \in Fd PROVE Closer(f)' /\ Remover(f)'
  BY DEF Looked
<1>1. UNCHANGED <<clientFds, connectionBuffers, handler, handlerFd, fileFd, loop, accepted>>
  BY DEF StopBegins, Stop, StopCopies, StopClosesClient, StopClosesListener, StopReturns
<1>2. Remover(f)'
  BY <1>1, SameRemovers
<1>3. CASE StopBegins
  BY <1>1, <1>3, <1>2 DEF StopBegins, Looked, Closer, Holding, Serving
<1>4. CASE StopCopies
  BY <1>1, <1>4, <1>2 DEF StopCopies, Looked, Closer, Holding, Serving
<1>5. CASE StopClosesClient
  <2>1. UNCHANGED <<main, starts, listenerFd, shutdownPipe>>
    BY <1>5 DEF StopClosesClient
  <2>2. PICK x \in toClose : CloseTracked(x)
    BY <1>5 DEF StopClosesClient
  <2>3. desc'[f] \in {desc[f], free}
    BY <2>2, Closes DEF CloseTracked
  <2> QED
    BY <1>1, <1>2, <2>1, <2>3, SameClosers
<1>6. CASE StopClosesListener
  <2>1. CASE listenerFd = invalidSocket
    <3>1. \A g \in Start : desc[f] # listener(g)
      BY <2>1, LifecycleAssumption DEF Looked, Closer, Fd, invalidSocket
    <3> QED
      BY <1>1, <1>2, <1>6, <2>1, <3>1 DEF StopClosesListener, Looked, Closer, Holding, Serving
  <2>2. CASE listenerFd # invalidSocket
    <3>1. desc' = [g \in Fd |-> IF g = listenerFd THEN free ELSE desc[g]]
      BY <1>6, <2>2, Closes DEF StopClosesListener
    <3>2. CASE f = listenerFd
      BY <1>2, <3>1, <3>2, FreeCloserLater
    <3>3. CASE f # listenerFd
      BY <1>1, <1>2, <1>6, <3>1, <3>3 DEF StopClosesListener, Looked, Closer, Holding, Serving
    <3> QED
      BY <3>2, <3>3
  <2> QED
    BY <2>1, <2>2
<1>7. CASE StopReturns
  <2>1. /\ desc'[f] \in {desc[f], free}
        /\ f = shutdownPipe.readEnd \/ f = shutdownPipe.writeEnd => desc'[f] = free
    <3>1. CASE shutdownPipe = NoPipe
      BY <1>7, <3>1, LifecycleAssumption DEF StopReturns, Fd, NoPipe
    <3>2. CASE shutdownPipe # NoPipe
      <4>1. desc' = [x \in Fd |-> IF x \in {shutdownPipe.readEnd, shutdownPipe.writeEnd}
                                  THEN free ELSE desc[x]]
        BY <1>7, <3>2 DEF StopReturns, CloseAll
      <4> QED
        BY <4>1
    <3> QED
      BY <3>1, <3>2
  <2>2. CASE desc'[f] = free
    BY <1>2, <2>2, FreeCloserLater
  <2>3. CASE desc'[f] = desc[f] /\ desc'[f] # free
    <3>1. \A g \in Start : desc[f] # listener(g) /\ desc[f] # readEnd(g) /\ desc[f] # writeEnd(g)
      BY <1>7, <2>1, <2>3 DEF Looked, Closer, StopReturns
    <3> QED
      BY <1>1, <1>2, <2>1, <3>1, SameClosers
  <2> QED
    BY <2>1, <2>2, <2>3
<1> QED
  BY <1>3, <1>4, <1>5, <1>6, <1>7 DEF Stop

LEMMA LoopLooked ==
  ASSUME Typed, OnePlace, Looked, NEW g \in Start, AcceptLoop(g)
  PROVE  Looked'
<1> USE DEF object, tables, owner, loops, threads, LoopGoto
<1> SUFFICES ASSUME NEW f \in Fd PROVE Closer(f)' /\ Remover(f)'
  BY DEF Looked
\* A loop that is not taking a connection on.
<1>1. ASSUME ~ Holding(g), UNCHANGED <<desc, object, tables, owner, accepted, threads>>,
             \A h \in Start : h # g => loop'[h] = loop[h]
      PROVE  Closer(f)' /\ Remover(f)'
  BY <1>1 DEF Looked, Closer, Remover, Holding, Serving
<1>2. CASE LoopBegins(g)
  BY <1>1, <1>2 DEF LoopBegins, Holding, Typed
<1>3. CASE LoopChecks(g)
  BY <1>1, <1>3 DEF LoopChecks, Holding, Typed
<1>4. CASE LoopPolls(g)
  BY <1>1, <1>4 DEF LoopPolls, Holding, Typed
<1>5. CASE LoopAccepts(g)
  <2>1. CASE Listening /\ Free # {}
    <3>1. PICK c \in backlog :
            /\ accepted' = [accepted EXCEPT ![g] = [conn |-> c, fd |-> Lowest(Free)]]
            /\ desc' = [desc EXCEPT ![Lowest(Free)] = client(c)]
            /\ loop' = [loop EXCEPT ![g] = "track"]
      BY <1>5, <2>1 DEF LoopAccepts
    <3>2. Lowest(Free) \in Fd /\ c \in Conn
      BY <2>1, FreeFds, LowestIsIn DEF Typed
    <3>3. UNCHANGED <<object, tables, owner, threads>> /\ ~ Holding(g)
      BY <1>5 DEF LoopAccepts, Holding
    <3>4. /\ accepted'[g].conn = c /\ accepted'[g].fd = Lowest(Free) /\ Holding(g)'
          /\ \A h \in Start : h # g => accepted'[h] = accepted[h] /\ loop'[h] = loop[h]
      BY <3>1 DEF Typed, Holding
    <3>5. Remover(f)'
      BY <3>3, <3>4 DEF Looked, Remover, Holding
    <3>6. CASE f = Lowest(Free)
      <4>1. desc'[f] = client(c)
        BY <3>1, <3>2, <3>6 DEF Typed
      <4> QED
        BY <3>4, <3>5, <3>6, <4>1, Kinds DEF Closer
    <3>7. CASE f # Lowest(Free)
      <4>1. desc'[f] = desc[f]
        BY <3>1, <3>7 DEF Typed
      <4> QED
        BY <3>3, <3>4, <3>5, <4>1 DEF Looked, Closer, Holding, Serving
    <3> QED
      BY <3>6, <3>7
  <2>2. CASE ~ (Listening /\ Free # {})
    BY <1>1, <1>5, <2>2 DEF LoopAccepts, Holding, Typed
  <2> QED
    BY <2>1, <2>2
<1>6. CASE LoopTracks(g)
  <2>1. /\ loop[g] = "track" /\ loop' = [loop EXCEPT ![g] = "enter"]
        /\ clientFds' = clientFds \cup {accepted[g].fd}
        /\ UNCHANGED <<desc, object, connectionBuffers, owner, accepted, threads>>
    BY <1>6 DEF LoopTracks
  <2>2. \A h \in Start : loop'[h] = IF h = g THEN "enter" ELSE loop[h]
    BY <2>1 DEF Typed
  <2> QED
    BY <2>1, <2>2 DEF Looked, Closer, Remover, Holding, Serving
<1>7. CASE LoopEnters(g)
  <2> DEFINE c == accepted[g].conn
  <2>1. c \in Conn /\ handler[c] = "none" /\ Holding(g)
    BY <1>7 DEF LoopEnters, OnePlace, Holding
  <2>2. /\ handler' = [handler EXCEPT ![c] = "begin"]
        /\ handlerFd' = [handlerFd EXCEPT ![c] = accepted[g].fd]
        /\ loop' = [loop EXCEPT ![g] = "check"]
        /\ UNCHANGED <<desc, object, clientFds, connectionBuffers, owner, accepted, fileFd>>
    BY <1>7 DEF LoopEnters
  <2>3. /\ handler'[c] = "begin" /\ handlerFd'[c] = accepted[g].fd
        /\ \A d \in Conn : d # c => handler'[d] = handler[d] /\ handlerFd'[d] = handlerFd[d]
        /\ \A h \in Start : h # g => loop'[h] = loop[h]
    BY <2>1, <2>2 DEF Typed
  <2> HIDE DEF c
  <2>4. Remover(f)'
    <3>1. f \in clientFds =>
            \/ \E d \in Conn : handler'[d] \in {"begin", "working", "untrack"} /\ handlerFd'[d] = f
            \/ \E h \in Start : loop'[h] = "enter" /\ accepted'[h].fd = f
      BY <2>1, <2>2, <2>3 DEF Looked, Remover
    <3>2. connectionBuffers[f] # NoOne =>
            \E d \in Conn : handler'[d] \in {"working", "untrack", "unbuffer"} /\ handlerFd'[d] = f
      BY <2>1, <2>3 DEF Looked, Remover
    <3> QED
      BY <2>2, <3>1, <3>2 DEF Remover
  <2>5. ASSUME NEW d \in Conn, desc[f] = client(d)
        PROVE  \/ Serving(d)' /\ handlerFd'[d] = f
               \/ \E h \in Start : Holding(h)' /\ accepted'[h].conn = d /\ accepted'[h].fd = f
    <3>1. \/ Serving(d) /\ handlerFd[d] = f
          \/ \E h \in Start : Holding(h) /\ accepted[h].conn = d /\ accepted[h].fd = f
      BY <2>5 DEF Looked, Closer
    <3>2. CASE Serving(d) /\ handlerFd[d] = f
      BY <2>1, <2>3, <3>2 DEF Serving
    <3>3. CASE \E h \in Start : Holding(h) /\ accepted[h].conn = d /\ accepted[h].fd = f
      <4>1. PICK h \in Start : Holding(h) /\ accepted[h].conn = d /\ accepted[h].fd = f
        BY <3>3
      <4>2. CASE h = g
        BY <2>3, <4>1, <4>2 DEF c, Serving
      <4>3. CASE h # g
        BY <2>2, <2>3, <4>1, <4>3 DEF Holding
      <4> QED
        BY <4>2, <4>3
    <3> QED
      BY <3>1, <3>2, <3>3
  <2>6. \A d \in Conn : desc[f] = file(d) => handler'[d] = "working" /\ fileFd'[d] = f
    BY <2>1, <2>2, <2>3 DEF Looked, Closer
  <2> QED
    BY <2>2, <2>4, <2>5, <2>6 DEF Closer, Looked
<1> QED
  BY <1>2, <1>3, <1>4, <1>5, <1>6, <1>7 DEF AcceptLoop

LEMMA HandlerLooked ==
  ASSUME Typed, OnePlace, Looked, NEW c \in Conn,
         HandlerStep(c) \/ HandlerOpensFile(c) \/ ClientConnects(c)
  PROVE  Looked'
<1> USE DEF object, tables, owner, loops, threads, HandlerGoto
<1> SUFFICES ASSUME NEW f \in Fd PROVE Closer(f)' /\ Remover(f)'
  BY DEF Looked
<1>1. UNCHANGED <<object, owner, loops, handlerFd>>
  BY DEF HandlerStep, HandlerOpensFile, ClientConnects, HandlerBegins,
         HandlerReceives, HandlerClosesFile, HandlerEnds, HandlerUntracks, HandlerUnbuffers, HandlerCloses, HandlerLeaves
<1>2. ASSUME UNCHANGED <<clientFds, connectionBuffers>>,
             \A d \in Conn : \/ handler'[d] = handler[d]
                             \/ handler[d] = "working" /\ handler'[d] = "untrack"
                             \/ handler[d] \notin {"begin", "working", "untrack", "unbuffer"}
      PROVE  Remover(f)'
  BY <1>1, <1>2 DEF Looked, Remover
<1>3. ASSUME UNCHANGED <<desc, fileFd>>,
             \A d \in Conn : \/ handler'[d] = handler[d]
                             \/ handler[d] # "working" /\ (Serving(d) => Serving(d)')
                             \/ fileFd[d] = 0 /\ Serving(d)'
      PROVE  Closer(f)'
  <2>1. f # 0
    BY LifecycleAssumption DEF Fd
  <2> QED
    BY <1>1, <1>3, <2>1 DEF Looked, Closer, Holding, Serving
<1>4. CASE HandlerBegins(c)
  <2>1. /\ handler[c] = "begin" /\ handler' = [handler EXCEPT ![c] = "working"]
        /\ connectionBuffers' = [connectionBuffers EXCEPT ![handlerFd[c]] = c]
        /\ UNCHANGED <<desc, clientFds, fileFd>>
    BY <1>4 DEF HandlerBegins
  <2>2. Closer(f)'
    BY <1>3, <2>1 DEF Serving, Typed
  <2>3. Remover(f)'
    BY <1>1, <2>1 DEF Looked, Remover, Typed
  <2> QED
    BY <2>2, <2>3
<1>13. CASE HandlerReceives(c)
  <2>1. /\ handler[c] = "working" /\ UNCHANGED <<desc, clientFds, handler, fileFd>>
        /\ connectionBuffers' = [connectionBuffers EXCEPT ![handlerFd[c]] = c]
    BY <1>13 DEF HandlerReceives
  <2>2. Closer(f)'
    BY <1>3, <2>1
  <2>3. Remover(f)'
    BY <1>1, <2>1 DEF Looked, Remover, Typed
  <2> QED
    BY <2>2, <2>3
<1>5. CASE HandlerOpensFile(c)
  <2>1. /\ handler[c] = "working" /\ fileFd[c] = 0 /\ Free # {}
        /\ fileFd' = [fileFd EXCEPT ![c] = Lowest(Free)]
        /\ desc' = [desc EXCEPT ![Lowest(Free)] = file(c)]
        /\ UNCHANGED <<clientFds, connectionBuffers, handler>>
    BY <1>5 DEF HandlerOpensFile
  <2>2. Lowest(Free) \in Fd
    BY <2>1, FreeFds, LowestIsIn
  <2>3. fileFd'[c] = Lowest(Free) /\ \A d \in Conn : d # c => fileFd'[d] = fileFd[d]
    BY <2>1 DEF Typed
  <2>4. CASE f = Lowest(Free)
    <3>1. desc'[f] = file(c)
      BY <2>1, <2>2, <2>4 DEF Typed
    <3> QED
      BY <1>2, <2>1, <2>3, <2>4, <3>1, Kinds DEF Closer
  <2>5. CASE f # Lowest(Free)
    <3>1. desc'[f] = desc[f]
      BY <2>1, <2>5 DEF Typed
    <3>2. f # 0
      BY LifecycleAssumption DEF Fd
    <3> QED
      BY <1>1, <1>2, <2>1, <2>3, <3>1, <3>2 DEF Looked, Closer, Holding, Serving
  <2> QED
    BY <2>4, <2>5
<1>6. CASE HandlerClosesFile(c)
  <2>1. /\ Close(fileFd[c], file(c)) /\ fileFd' = [fileFd EXCEPT ![c] = 0]
        /\ UNCHANGED <<clientFds, connectionBuffers, handler>>
    BY <1>6 DEF HandlerClosesFile
  <2>2. desc'[f] = IF f = fileFd[c] THEN free ELSE desc[f]
    BY <2>1, Closes
  <2>3. CASE f = fileFd[c]
    BY <1>2, <2>1, <2>2, <2>3, FreeCloserLater
  <2>4. CASE f # fileFd[c]
    BY <1>1, <1>2, <2>1, <2>2, <2>4 DEF Looked, Closer, Holding, Serving, Typed
  <2> QED
    BY <2>3, <2>4
<1>7. CASE HandlerEnds(c)
  <2>1. /\ handler[c] = "working" /\ fileFd[c] = 0 /\ handler' = [handler EXCEPT ![c] = "untrack"]
        /\ UNCHANGED <<desc, clientFds, connectionBuffers, fileFd>>
    BY <1>7 DEF HandlerEnds
  <2> QED
    BY <1>2, <1>3, <2>1 DEF Serving, Typed
<1>8. CASE HandlerUntracks(c)
  <2>1. /\ handler[c] = "untrack" /\ handler' = [handler EXCEPT ![c] = "unbuffer"]
        /\ clientFds' = clientFds \ {handlerFd[c]}
        /\ UNCHANGED <<desc, connectionBuffers, fileFd>>
    BY <1>8 DEF HandlerUntracks
  <2>2. Closer(f)'
    BY <1>3, <2>1 DEF Serving, Typed
  <2>3. Remover(f)'
    BY <1>1, <2>1 DEF Looked, Remover, Typed
  <2> QED
    BY <2>2, <2>3
<1>9. CASE HandlerUnbuffers(c)
  <2>1. /\ handler[c] = "unbuffer" /\ handler' = [handler EXCEPT ![c] = "close"]
        /\ connectionBuffers' = [connectionBuffers EXCEPT ![handlerFd[c]] = NoOne]
        /\ UNCHANGED <<desc, clientFds, fileFd>>
    BY <1>9 DEF HandlerUnbuffers
  <2>2. Closer(f)'
    BY <1>3, <2>1 DEF Serving, Typed
  <2>3. Remover(f)'
    BY <1>1, <2>1 DEF Looked, Remover, Typed
  <2> QED
    BY <2>2, <2>3
<1>10. CASE HandlerCloses(c)
  <2>1. /\ handler[c] = "close" /\ handler' = [handler EXCEPT ![c] = "leave"]
        /\ Close(handlerFd[c], client(c)) /\ UNCHANGED <<clientFds, connectionBuffers, fileFd>>
    BY <1>10 DEF HandlerCloses
  <2>2. desc'[f] = IF f = handlerFd[c] THEN free ELSE desc[f]
    BY <2>1, Closes
  <2>3. \A d \in Conn : d # c => handler'[d] = handler[d]
    BY <2>1 DEF Typed
  <2>4. Remover(f)'
    BY <1>2, <2>1, <2>3
  <2>5. CASE f = handlerFd[c]
    BY <2>2, <2>4, <2>5, FreeCloserLater
  <2>6. CASE f # handlerFd[c]
    <3>1. \A d \in Conn : desc[f] = client(d) \/ desc[f] = file(d) =>
             d # c \/ \E h \in Start : Holding(h) /\ accepted[h].conn = d /\ accepted[h].fd = f
      BY <2>1, <2>6 DEF Looked, Closer
    <3> QED
      BY <1>1, <2>1, <2>2, <2>3, <2>4, <2>6, <3>1 DEF Looked, Closer, Holding, Serving
  <2> QED
    BY <2>5, <2>6
<1>11. CASE HandlerLeaves(c)
  <2>1. /\ handler[c] = "leave" /\ handler' = [handler EXCEPT ![c] = "over"]
        /\ UNCHANGED <<desc, clientFds, connectionBuffers, fileFd>>
    BY <1>11 DEF HandlerLeaves
  <2> QED
    BY <1>2, <1>3, <2>1 DEF Serving, Typed
<1>12. CASE ClientConnects(c)
  BY <1>1, <1>2, <1>3, <1>12 DEF ClientConnects
<1> QED
  BY <1>4, <1>5, <1>6, <1>7, <1>8, <1>9, <1>10, <1>11, <1>12, <1>13
     DEF HandlerStep

-----------------------------------------------------------------------------
(* One owner per number, until stop is called                              *)

LEMMA UntouchedStarts ==
  ASSUME Typed, OnePlace, ~ foreign, Untouched, StartAsync, starts' <= 1
  PROVE  ~ foreign' /\ (Untouched' \/ Served')
<1> USE DEF object, tables, loops, threads
<1> DEFINE r == Lowest(Free)
           w == Lowest(Free \ {r})
           l == Lowest(Free \ {r, w})
<1>1. starts' = 1
  BY LifecycleAssumption DEF StartAsync, Typed
<1>2. /\ main = "idle"
      /\ UNCHANGED <<clientFds, connectionBuffers, accepted, handler, handlerFd, fileFd, backlog,
                     toClose, foreign>>
  BY DEF StartAsync
<1>3. CASE StartFails
  BY <1>2, <1>3 DEF StartFails, Untouched
<1>4. CASE StartSucceeds
  <2>1. r \in Free /\ w \in Free /\ l \in Free /\ r # w /\ r # l /\ w # l
    BY <1>4, ThreeFree DEF StartSucceeds
  <2>2. /\ desc' = [desc EXCEPT ![r] = readEnd(starts'), ![w] = writeEnd(starts'),
                                ![l] = listener(starts')]
        /\ shutdownPipe' = [readEnd |-> r, writeEnd |-> w]
        /\ listenerFd' = l
        /\ loop' = [loop EXCEPT ![starts'] = "begin"]
        /\ main' = "running"
    BY <1>4 DEF StartSucceeds
  <2> HIDE DEF r, w, l
  <2>3. desc'[r] = readEnd(1) /\ desc'[w] = writeEnd(1) /\ desc'[l] = listener(1)
    BY <1>1, <2>1, <2>2, FreeFds DEF Typed
  <2>4. \A g \in Start : loop'[g] \in {"none", "begin"}
    BY <2>2 DEF Untouched, Typed
  <2>5. \A c \in Conn : handler'[c] = "none" /\ fileFd'[c] = 0
    BY <1>2 DEF Untouched, OnePlace
  <2> QED
    BY <1>1, <1>2, <2>1, <2>2, <2>3, <2>4, <2>5, FreeFds DEF Served, Serving, Holding
<1> QED
  BY <1>3, <1>4 DEF StartAsync

LEMMA UntouchedStops ==
  ASSUME Typed, ~ foreign, Untouched, StopBegins \/ Stop
  PROVE  ~ foreign' /\ Untouched'
<1> USE DEF object, tables, loops, threads
<1>1. UNCHANGED <<clientFds, loop, handler>>
  BY DEF StopBegins, Stop, StopCopies, StopClosesClient, StopClosesListener, StopReturns
<1>2. CASE StopBegins
  BY <1>1, <1>2 DEF StopBegins, Untouched
<1>3. CASE StopCopies
  BY <1>1, <1>3 DEF StopCopies, Untouched
<1>4. CASE StopClosesClient
  BY <1>4 DEF StopClosesClient, Untouched
<1>5. CASE StopClosesListener
  <2>1. CASE listenerFd = invalidSocket
    BY <1>1, <1>5, <2>1 DEF StopClosesListener, Untouched
  <2>2. CASE listenerFd # invalidSocket
    <3>1. /\ desc' = [g \in Fd |-> IF g = listenerFd THEN free ELSE desc[g]]
          /\ backlog' \subseteq backlog
          /\ foreign' = (foreign \/ desc[listenerFd] \notin {listener(starts), free})
      BY <1>5, <2>2, Closes DEF StopClosesListener
    <3>2. desc[listenerFd] = free
      BY <2>2 DEF Untouched, Typed
    <3>3. ~ foreign'
      BY <3>1, <3>2
    <3> QED
      BY <1>1, <1>5, <3>1, <3>3 DEF StopClosesListener, Untouched
  <2> QED
    BY <2>1, <2>2
<1>6. CASE StopReturns
  BY <1>1, <1>6 DEF StopReturns, Untouched
<1> QED
  BY <1>2, <1>3, <1>4, <1>5, <1>6 DEF Stop

\* Nobody else is there to take a step.
LEMMA UntouchedRests ==
  ASSUME Untouched
  PROVE  /\ \A g \in Start : ~ AcceptLoop(g)
         /\ \A c \in Conn : ~ (HandlerStep(c) \/ HandlerOpensFile(c))
         /\ Typed => \A c \in Conn : ~ ClientConnects(c)
<1>1. ASSUME NEW g \in Start, AcceptLoop(g) PROVE FALSE
  BY <1>1 DEF Untouched, AcceptLoop, LoopBegins, LoopChecks, LoopPolls, LoopAccepts, LoopTracks,
              LoopEnters
<1>2. ASSUME NEW c \in Conn, HandlerStep(c) \/ HandlerOpensFile(c) PROVE FALSE
  BY <1>2 DEF Untouched, HandlerStep, HandlerOpensFile, HandlerBegins,
              HandlerReceives, HandlerClosesFile, HandlerEnds, HandlerUntracks, HandlerUnbuffers, HandlerCloses, HandlerLeaves
<1>3. ASSUME Typed, NEW c \in Conn, ClientConnects(c) PROVE FALSE
  <2>1. listenerFd # invalidSocket /\ desc[listenerFd].kind = "listener"
    BY <1>3 DEF ClientConnects, Listening
  <2>2. listenerFd \in Fd
    BY <1>3, <2>1 DEF Typed
  <2> QED
    BY <2>1, <2>2 DEF Untouched, free
<1> QED
  BY <1>1, <1>2, <1>3

LEMMA ServedLoops ==
  ASSUME Typed, OnePlace, ~ foreign, Served, NEW g \in Start, AcceptLoop(g)
  PROVE  ~ foreign' /\ Served'
<1> USE DEF object, tables, owner, loops, threads, LoopGoto
<1>1. CASE LoopBegins(g)
  BY <1>1 DEF LoopBegins, Served, Serving, Holding, Typed
<1>2. CASE LoopChecks(g)
  BY <1>2 DEF LoopChecks, Served, Serving, Holding, Typed
<1>3. CASE LoopPolls(g)
  BY <1>3 DEF LoopPolls, Served, Serving, Holding, Typed
<1>4. CASE LoopAccepts(g)
  <2>1. CASE Listening /\ Free # {}
    <3>1. PICK c \in backlog :
            /\ accepted' = [accepted EXCEPT ![g] = [conn |-> c, fd |-> Lowest(Free)]]
            /\ desc' = [desc EXCEPT ![Lowest(Free)] = client(c)]
            /\ loop' = [loop EXCEPT ![g] = "track"]
      BY <1>4, <2>1 DEF LoopAccepts
    <3>2. Lowest(Free) \in Free
      BY <2>1, FreeFds, LowestIsIn
    <3>3. UNCHANGED <<object, tables, owner, threads, foreign>>
      BY <1>4 DEF LoopAccepts
    <3>4. /\ accepted'[g].conn = c /\ accepted'[g].fd = Lowest(Free)
          /\ \A h \in Start : h # g => accepted'[h] = accepted[h] /\ loop'[h] = loop[h]
      BY <3>1 DEF Typed
    <3>5. desc'[Lowest(Free)] = client(c) /\ \A f : f # Lowest(Free) => desc'[f] = desc[f]
      BY <3>1, <3>2, FreeFds DEF Typed
    <3>6. \A f \in Fd : desc[f] # free => desc'[f] = desc[f]
      BY <3>2, <3>5, FreeFds
    <3>7. /\ \A d \in Conn : Serving(d) => desc'[handlerFd[d]] = client(d)
          /\ \A d \in Conn : fileFd[d] # 0 => desc'[fileFd[d]] = file(d)
      <4>1. \A d \in Conn : Serving(d) => handlerFd[d] \in Fd /\ desc[handlerFd[d]] = client(d)
        BY DEF Served, OnePlace, Serving
      <4>2. \A d \in Conn : fileFd[d] # 0 => fileFd[d] \in Fd /\ desc[fileFd[d]] = file(d)
        BY DEF Served, Typed
      <4> QED
        BY <3>6, <4>1, <4>2, Kinds
    <3>8. \A h \in Start : Holding(h)' => desc'[accepted'[h].fd] = client(accepted'[h].conn)
      <4>1. \A h \in Start : h # g /\ Holding(h)' => /\ accepted[h].fd \in Fd
                                                     /\ desc[accepted[h].fd] = client(accepted[h].conn)
        BY <3>4 DEF Served, OnePlace, Holding
      <4>2. \A h \in Start : h # g /\ Holding(h)' => desc'[accepted[h].fd] = client(accepted[h].conn)
        BY <3>6, <4>1, Kinds
      <4> QED
        BY <3>4, <3>5, <4>2
    <3>9. \A f \in Fd : desc[f] \in {listener(1), readEnd(1), writeEnd(1)} => desc'[f] = desc[f]
      BY <3>6, Kinds
    <3> QED
      BY <3>3, <3>7, <3>8, <3>9 DEF Served, Serving
  <2>2. CASE ~ (Listening /\ Free # {})
    BY <1>4, <2>2 DEF LoopAccepts, Served, Serving, Holding, Typed
  <2> QED
    BY <2>1, <2>2
<1>5. CASE LoopTracks(g)
  BY <1>5 DEF LoopTracks, Served, Serving, Holding, Typed
<1>6. CASE LoopEnters(g)
  <2> DEFINE c == accepted[g].conn
  <2>1. c \in Conn /\ handler[c] = "none" /\ Holding(g)
    BY <1>6 DEF LoopEnters, OnePlace, Holding
  <2>2. /\ handler' = [handler EXCEPT ![c] = "begin"]
        /\ handlerFd' = [handlerFd EXCEPT ![c] = accepted[g].fd]
        /\ loop' = [loop EXCEPT ![g] = "check"]
        /\ UNCHANGED <<desc, object, clientFds, connectionBuffers, owner, accepted, fileFd, foreign>>
    BY <1>6 DEF LoopEnters
  <2>3. /\ handler'[c] = "begin" /\ handlerFd'[c] = accepted[g].fd
        /\ desc[accepted[g].fd] = client(c)
        /\ \A d \in Conn : d # c => handler'[d] = handler[d] /\ handlerFd'[d] = handlerFd[d]
        /\ \A h \in Start : Holding(h)' => Holding(h)
    BY <2>1, <2>2 DEF Typed, Holding, Served
  <2> HIDE DEF c
  <2> QED
    BY <2>1, <2>2, <2>3 DEF Served, Serving
<1> QED
  BY <1>1, <1>2, <1>3, <1>4, <1>5, <1>6 DEF AcceptLoop

LEMMA ServedHandlers ==
  ASSUME Typed, OnePlace, ~ foreign, Served, NEW c \in Conn,
         HandlerStep(c) \/ HandlerOpensFile(c) \/ ClientConnects(c)
  PROVE  ~ foreign' /\ Served'
<1> USE DEF object, tables, owner, loops, threads, HandlerGoto
<1>1. UNCHANGED <<object, owner, loops, handlerFd>>
  BY DEF HandlerStep, HandlerOpensFile, ClientConnects, HandlerBegins,
         HandlerReceives, HandlerClosesFile, HandlerEnds, HandlerUntracks, HandlerUnbuffers, HandlerCloses, HandlerLeaves
\* Two that are served have two numbers.
<1>2. \A d, e \in Conn : Serving(d) /\ Serving(e) /\ d # e => handlerFd[d] # handlerFd[e]
  BY Kinds DEF Served
\* Closing what is one's own.
<1>3. ASSUME NEW f \in Fd, NEW mine, Close(f, mine), desc[f] = mine,
             mine = client(c) \/ mine = file(c), handler[c] # "none",
             UNCHANGED connectionBuffers,
             \A d \in Conn : Serving(d)' => Serving(d) /\ desc[f] # client(d),
             \A d \in Conn : fileFd'[d] # 0 => fileFd'[d] = fileFd[d] /\ desc[f] # file(d),
             \A d \in Conn : handler'[d] \in {"working", "untrack", "unbuffer"} => handler'[d] = handler[d]
      PROVE  ~ foreign' /\ Served'
  <2>1. /\ desc' = [g \in Fd |-> IF g = f THEN free ELSE desc[g]]
        /\ foreign' = (foreign \/ desc[f] \notin {mine, free})
    BY <1>3, Closes
  <2>2. ~ foreign'
    BY <1>3, <2>1
  <2>3. \A g \in Fd : desc[g] # desc[f] => desc'[g] = desc[g]
    BY <2>1
  <2>4. /\ \A d \in Conn : Serving(d)' => desc'[handlerFd[d]] = client(d)
        /\ \A d \in Conn : fileFd'[d] # 0 => desc'[fileFd'[d]] = file(d)
    BY <1>3, <2>3 DEF Served, OnePlace, Serving, Typed
  <2>5. \A h \in Start : Holding(h) => desc'[accepted[h].fd] = client(accepted[h].conn)
    <3> SUFFICES ASSUME NEW h \in Start, Holding(h)
                 PROVE  desc'[accepted[h].fd] = client(accepted[h].conn)
      OBVIOUS
    <3>1. /\ desc[accepted[h].fd] = client(accepted[h].conn) /\ accepted[h].fd \in Fd
          /\ handler[accepted[h].conn] = "none"
      BY DEF Served, OnePlace
    <3>2. client(accepted[h].conn) # mine
      BY <1>3, <3>1, Kinds
    <3> QED
      BY <1>3, <2>3, <3>1, <3>2
  <2>6. \A g \in Fd : desc[g] \in {listener(1), readEnd(1), writeEnd(1)} => desc'[g] = desc[g]
    BY <1>3, <2>3, Kinds
  <2> QED
    BY <1>1, <1>3, <2>2, <2>4, <2>5, <2>6 DEF Served, Holding
<1>4. CASE HandlerBegins(c)
  <2>1. /\ handler[c] = "begin" /\ handler' = [handler EXCEPT ![c] = "working"]
        /\ connectionBuffers' = [connectionBuffers EXCEPT ![handlerFd[c]] = c]
        /\ UNCHANGED <<desc, fileFd, foreign>>
    BY <1>4 DEF HandlerBegins
  <2>2. \A d \in Conn : d # c => handler'[d] = handler[d]
    BY <2>1 DEF Typed
  <2>3. \A d \in Conn : handler'[d] \in {"working", "untrack", "unbuffer"}
                        => connectionBuffers'[handlerFd[d]] = d
    BY <1>2, <2>1, <2>2 DEF Served, Serving, OnePlace, Typed
  <2> QED
    BY <1>1, <2>1, <2>2, <2>3 DEF Served, Serving, Holding
<1>13. CASE HandlerReceives(c)
  <2>1. /\ handler[c] = "working" /\ UNCHANGED <<desc, handler, fileFd, foreign>>
        /\ connectionBuffers' = [connectionBuffers EXCEPT ![handlerFd[c]] = c]
    BY <1>13 DEF HandlerReceives
  <2>2. \A d \in Conn : handler'[d] \in {"working", "untrack", "unbuffer"}
                        => connectionBuffers'[handlerFd[d]] = d
    BY <1>2, <2>1 DEF Served, Serving, OnePlace, Typed
  <2> QED
    BY <1>1, <2>1, <2>2 DEF Served, Serving, Holding
<1>5. CASE HandlerOpensFile(c)
  <2>1. /\ handler[c] = "working" /\ fileFd[c] = 0 /\ Free # {}
        /\ fileFd' = [fileFd EXCEPT ![c] = Lowest(Free)]
        /\ desc' = [desc EXCEPT ![Lowest(Free)] = file(c)]
        /\ UNCHANGED <<connectionBuffers, handler, foreign>>
    BY <1>5 DEF HandlerOpensFile
  <2>2. Lowest(Free) \in Free
    BY <2>1, FreeFds, LowestIsIn
  <2>3. /\ fileFd'[c] = Lowest(Free) /\ \A d \in Conn : d # c => fileFd'[d] = fileFd[d]
        /\ desc'[Lowest(Free)] = file(c)
    BY <2>1, <2>2, FreeFds DEF Typed
  <2>4. \A f \in Fd : desc[f] # free => desc'[f] = desc[f]
    BY <2>1, <2>2, FreeFds DEF Typed
  <2>5. \A d \in Conn : Serving(d) => desc'[handlerFd[d]] = client(d)
    <3>1. \A d \in Conn : Serving(d) => handlerFd[d] \in Fd /\ desc[handlerFd[d]] = client(d)
      BY DEF Served, OnePlace, Serving
    <3> QED
      BY <2>4, <3>1, Kinds
  <2>6. \A d \in Conn : fileFd'[d] # 0 => desc'[fileFd'[d]] = file(d)
    <3>1. \A d \in Conn : fileFd[d] # 0 => fileFd[d] \in Fd /\ desc[fileFd[d]] = file(d)
      BY DEF Served, Typed
    <3> QED
      BY <2>3, <2>4, <3>1, Kinds
  <2>7. \A h \in Start : Holding(h) => desc'[accepted[h].fd] = client(accepted[h].conn)
    <3>1. \A h \in Start : Holding(h) => /\ accepted[h].fd \in Fd
                                        /\ desc[accepted[h].fd] = client(accepted[h].conn)
      BY DEF Served, OnePlace
    <3> QED
      BY <2>4, <3>1, Kinds
  <2>8. \A f \in Fd : desc[f] \in {listener(1), readEnd(1), writeEnd(1)} => desc'[f] = desc[f]
    BY <2>4, Kinds
  <2> QED
    BY <1>1, <2>1, <2>5, <2>6, <2>7, <2>8 DEF Served, Serving, Holding
<1>6. CASE HandlerClosesFile(c)
  <2>1. /\ handler[c] = "working" /\ fileFd[c] # 0 /\ Close(fileFd[c], file(c))
        /\ fileFd' = [fileFd EXCEPT ![c] = 0] /\ UNCHANGED <<connectionBuffers, handler>>
    BY <1>6 DEF HandlerClosesFile
  <2>2. fileFd[c] \in Fd /\ desc[fileFd[c]] = file(c)
    BY <2>1 DEF Served, Typed
  <2>3. \A d \in Conn : fileFd'[d] # 0 => d # c /\ fileFd'[d] = fileFd[d]
    BY <2>1 DEF Typed
  <2> QED
    BY <1>3, <2>1, <2>2, <2>3, Kinds DEF Serving
<1>7. CASE HandlerEnds(c)
  BY <1>1, <1>7 DEF HandlerEnds, Served, Serving, Holding, Typed
<1>8. CASE HandlerUntracks(c)
  BY <1>1, <1>8 DEF HandlerUntracks, Served, Serving, Holding, Typed
<1>9. CASE HandlerUnbuffers(c)
  <2>1. /\ handler[c] = "unbuffer" /\ handler' = [handler EXCEPT ![c] = "close"]
        /\ connectionBuffers' = [connectionBuffers EXCEPT ![handlerFd[c]] = NoOne]
        /\ UNCHANGED <<desc, fileFd, foreign>>
    BY <1>9 DEF HandlerUnbuffers
  <2>2. handler'[c] = "close" /\ \A d \in Conn : d # c => handler'[d] = handler[d]
    BY <2>1 DEF Typed
  <2>3. \A d \in Conn : handler'[d] \in {"working", "untrack", "unbuffer"}
                        => connectionBuffers'[handlerFd[d]] = d
    BY <1>2, <2>1, <2>2 DEF Served, Serving, OnePlace, Typed
  <2> QED
    BY <1>1, <2>1, <2>2, <2>3 DEF Served, Serving, Holding
<1>10. CASE HandlerCloses(c)
  <2>1. /\ handler[c] = "close" /\ handler' = [handler EXCEPT ![c] = "leave"]
        /\ Close(handlerFd[c], client(c)) /\ UNCHANGED <<connectionBuffers, fileFd>>
    BY <1>10 DEF HandlerCloses
  <2>2. handlerFd[c] \in Fd /\ desc[handlerFd[c]] = client(c)
    BY <2>1 DEF Served, Serving, OnePlace
  <2>3. handler'[c] = "leave" /\ \A d \in Conn : d # c => handler'[d] = handler[d]
    BY <2>1 DEF Typed
  <2>4. \A d \in Conn : Serving(d)' => Serving(d) /\ desc[handlerFd[c]] # client(d)
    BY <2>2, <2>3, Kinds DEF Serving
  <2> QED
    BY <1>3, <2>1, <2>2, <2>3, <2>4, Kinds
<1>11. CASE HandlerLeaves(c)
  BY <1>1, <1>11 DEF HandlerLeaves, Served, Serving, Holding, Typed
<1>12. CASE ClientConnects(c)
  BY <1>1, <1>12 DEF ClientConnects, Served, Serving, Holding, Typed
<1> QED
  BY <1>4, <1>5, <1>6, <1>7, <1>8, <1>9, <1>10, <1>11, <1>12, <1>13
     DEF HandlerStep

LEMMA NextOnlyOwner ==
  ASSUME Typed, OnePlace, OnlyOwner, [Next]_vars
  PROVE  OnlyOwner'
<1> SUFFICES ASSUME starts' <= 1, signalled' = {}
             PROVE  ~ foreign' /\ (Untouched' \/ Served')
  BY DEF OnlyOwner
<1>1. starts <= 1 /\ signalled = {}
  <2>1. CASE StartAsync
    BY <2>1, LifecycleAssumption DEF StartAsync, Typed
  <2>2. CASE StopBegins
    BY <2>2, Zenon DEF StopBegins
  <2>3. CASE Stop
    BY <2>3 DEF Stop, StopCopies, StopClosesClient, StopClosesListener, StopReturns
  <2>4. ASSUME NEW g \in Start, AcceptLoop(g) PROVE UNCHANGED owner
    BY <2>4 DEF AcceptLoop, LoopBegins, LoopChecks, LoopPolls, LoopAccepts, LoopTracks, LoopEnters
  <2>5. ASSUME NEW c \in Conn, HandlerStep(c) \/ HandlerOpensFile(c) \/ ClientConnects(c)
        PROVE  UNCHANGED owner
    BY <2>5 DEF HandlerStep, HandlerOpensFile, ClientConnects, HandlerBegins, HandlerReceives,
                HandlerClosesFile, HandlerEnds, HandlerUntracks, HandlerUnbuffers, HandlerCloses,
                HandlerLeaves
  <2>6. CASE UNCHANGED vars
    BY <2>6 DEF vars, owner
  <2> QED
    BY <2>1, <2>2, <2>3, <2>4, <2>5, <2>6 DEF Next, owner
<1>2. ~ foreign /\ (Untouched \/ Served)
  BY <1>1 DEF OnlyOwner
<1>3. CASE Untouched
  <2>1. CASE StartAsync
    BY <1>2, <1>3, <2>1, UntouchedStarts
  <2>2. CASE StopBegins \/ Stop
    BY <1>2, <1>3, <2>2, UntouchedStops
  <2>3. CASE UNCHANGED vars
    BY <1>2, <1>3, <2>3 DEF vars, object, tables, owner, loops, threads, Untouched
  <2> QED
    BY <1>3, <2>1, <2>2, <2>3, UntouchedRests DEF Next
<1>4. CASE Served
  <2>1. ~ StartAsync /\ ~ Stop
    BY <1>4 DEF Served, StartAsync, Stop, StopCopies, StopClosesClient, StopClosesListener,
                StopReturns
  <2>2. ~ StopBegins
    <3>1. shutdownPipe # NoPipe
      BY <1>4, LifecycleAssumption DEF Served, NoPipe, Fd
    <3>2. StopBegins => signalled' = signalled \cup {starts}
      BY <1>4, <3>1 DEF Served, StopBegins
    <3> QED
      BY <3>2
  <2>3. CASE UNCHANGED vars
    BY <1>2, <1>4, <2>3 DEF vars, object, tables, owner, loops, threads, Served, Serving, Holding
  <2> QED
    BY <1>2, <1>4, <2>1, <2>2, <2>3, ServedLoops, ServedHandlers DEF Next
<1> QED
  BY <1>2, <1>3, <1>4

-----------------------------------------------------------------------------
(* The theorems                                                            *)

LEMMA InitInv == Init => LifecycleInv
<1> SUFFICES ASSUME Init PROVE LifecycleInv
  OBVIOUS
<1>1. Typed
  <2>1. /\ desc \in [Fd -> Referent]
        /\ connectionBuffers \in [Fd -> Conn \cup {NoOne}]
    BY Referents DEF Init
  <2>2. /\ loopPipe \in [Start -> {NoPipe} \cup [readEnd : Fd, writeEnd : Fd]]
        /\ accepted \in [Start -> [conn : Conn \cup {NoOne}, fd : Fd \cup {0}]]
    BY DEF Init
  <2>3. starts \in 0..MaxStarts
    BY LifecycleAssumption DEF Init
  <2>4. /\ loop \in [Start -> {"none", "begin", "check", "poll", "accept", "track", "enter", "over"}]
        /\ handler \in [Conn -> {"none", "begin", "working", "untrack", "unbuffer", "close", "leave",
                                 "over"}]
        /\ handlerFd \in [Conn -> Fd \cup {0}] /\ fileFd \in [Conn -> Fd \cup {0}]
    BY DEF Init
  <2>5. /\ listenerFd \in Fd \cup {invalidSocket} /\ isRunning \in BOOLEAN /\ foreign \in BOOLEAN
        /\ shutdownPipe \in {NoPipe} \cup [readEnd : Fd, writeEnd : Fd]
        /\ clientFds \subseteq Fd /\ toClose \subseteq Fd /\ signalled \subseteq Start
        /\ backlog \subseteq Conn /\ main \in {"idle", "running", "copy", "clients", "wait"}
    BY DEF Init
  <2> QED
    BY <2>1, <2>2, <2>3, <2>4, <2>5 DEF Typed
<1>2. Counted = {} /\ Cardinality(Counted) = 0
  <2>1. Counted = {}
    BY DEF Init, Counted, Inside
  <2> QED
    BY <2>1, FS_EmptySet
<1>3. LifecycleTypeOK
  BY <1>1, <1>2, GroupCounts, TypedIsType DEF Init
<1>4. OnePlace
  BY <1>2 DEF Init, OnePlace, Holding
<1>5. Begun
  BY DEF Init, Begun
<1>6. Looked
  BY Kinds DEF Init, Looked, Closer, Remover
<1>7. OnlyOwner
  BY DEF Init, OnlyOwner, Untouched
<1> QED
  BY <1>3, <1>4, <1>5, <1>6, <1>7 DEF LifecycleInv

LEMMA NextInv == LifecycleInv /\ [Next]_vars => LifecycleInv'
<1> SUFFICES ASSUME LifecycleInv, [Next]_vars PROVE LifecycleInv'
  OBVIOUS
<1>1. Typed /\ OnePlace /\ Begun /\ Looked /\ OnlyOwner
  BY TypedIsType DEF LifecycleInv
<1>2. Begun' /\ OnlyOwner'
  BY <1>1, NextBegun, NextOnlyOwner
<1>3. Typed' /\ OnePlace' /\ Looked'
  <2>1. CASE StartAsync \/ StopBegins \/ Stop
    BY <1>1, <2>1, StartTyped, StopTyped, OwnerOnePlace, StartLooked, StopLooked
  <2>2. ASSUME NEW g \in Start, AcceptLoop(g)
        PROVE  Typed' /\ OnePlace' /\ Looked'
    BY <1>1, <2>2, LoopTyped, LoopOnePlace, LoopLooked
  <2>3. ASSUME NEW c \in Conn, ClientConnects(c) \/ HandlerStep(c) \/ HandlerOpensFile(c)
        PROVE  Typed' /\ OnePlace' /\ Looked'
    BY <1>1, <2>3, HandlerTyped, HandlerOnePlace, HandlerLooked
  <2>4. CASE UNCHANGED vars
    BY <1>1, <2>4 DEF vars, object, tables, owner, loops, threads, Typed, OnePlace, Counted,
                      Inside, Holding, Looked, Closer, Remover, Serving
  <2> QED
    BY <2>1, <2>2, <2>3, <2>4 DEF Next
<1>4. clientGroup' \in 0..Cardinality(Conn)
  <2>1. IsFiniteSet(Counted') /\ Counted' \subseteq Conn
    BY LifecycleAssumption, FS_Subset DEF Counted
  <2>2. Cardinality(Counted') \in 0..Cardinality(Conn)
    BY <2>1, LifecycleAssumption, FS_Subset, FS_CardinalityType
  <2> QED
    BY <1>3, <2>2 DEF OnePlace
<1>5. LifecycleTypeOK'
  BY <1>3, <1>4 DEF LifecycleTypeOK, Typed, Referent
<1> QED
  BY <1>2, <1>3, <1>5 DEF LifecycleInv

LEMMA InvHolds == Spec => []LifecycleInv
  BY InitInv, NextInv, PTL DEF Spec

\* The server's tables, its DispatchGroup and its descriptors have their types, the
\* group never counts below zero or above the connections there are (enter in
\* acceptLoop, leave at the end of processClient), for any number of connections,
\* descriptors and calls of startAsync.
THEOREM SpecLifecycleTypeOK == Spec => []LifecycleTypeOK
<1>1. LifecycleInv => LifecycleTypeOK
  BY DEF LifecycleInv
<1> QED
  BY <1>1, InvHolds, PTL

\* A server that is stopped and whose threads are over holds nothing: every
\* descriptor a start, a loop or a handler opened is closed, no number is tracked or
\* has a buffer, and the group is empty (stop, acceptLoop, cleanupClient together).
THEOREM SpecQuietMeansClean == Spec => []QuietMeansClean
<1>1. LifecycleInv => QuietMeansClean
  <2> SUFFICES ASSUME LifecycleInv, main = "idle",
                      \A g \in Start : loop[g] \in {"none", "over"},
                      \A c \in Conn : handler[c] \in {"none", "over"}
               PROVE  /\ \A f \in Fd : desc[f] = free
                      /\ clientFds = {} /\ clientGroup = 0
                      /\ \A f \in Fd : connectionBuffers[f] = NoOne
    BY DEF QuietMeansClean
  <2>1. Typed /\ OnePlace /\ Looked
    BY TypedIsType DEF LifecycleInv
  <2>2. ASSUME NEW f \in Fd
        PROVE  desc[f] = free /\ f \notin clientFds /\ connectionBuffers[f] = NoOne
    <3>1. f \notin clientFds /\ connectionBuffers[f] = NoOne
      BY <2>1 DEF Looked, Remover
    <3>2. desc[f] \in Referent
      BY <2>1 DEF Typed
    <3>3. /\ \A g \in Start : desc[f] # listener(g) /\ desc[f] # readEnd(g) /\ desc[f] # writeEnd(g)
          /\ \A c \in Conn : desc[f] # client(c) /\ desc[f] # file(c)
      BY <2>1 DEF Looked, Closer, Serving, Holding
    <3> QED
      BY <3>1, <3>2, <3>3 DEF Referent
  <2>3. clientFds = {}
    BY <2>1, <2>2 DEF Typed
  <2>4. clientGroup = 0
    <3>1. Counted = {}
      BY DEF Counted, Inside
    <3> QED
      BY <2>1, <3>1, FS_EmptySet DEF OnePlace
  <2> QED
    BY <2>2, <2>3, <2>4
<1> QED
  BY <1>1, InvHolds, PTL

\* Until somebody calls stop a descriptor number means one thing to everybody: it is
\* closed by its owner, forgotten before it can be given out again (cleanupClient), and
\* the buffer filed under it is that of the connection it stands for.
THEOREM SpecOneOwnerPerNumber == Spec => []OneOwnerPerNumber
<1>1. LifecycleInv => OneOwnerPerNumber
  <2> SUFFICES ASSUME LifecycleInv, NeverStopped
               PROVE  /\ ~ foreign
                      /\ \A c \in Conn : Serving(c) => desc[handlerFd[c]] = client(c)
                      /\ \A c \in Conn : handler[c] \in {"working", "untrack"}
                                         => connectionBuffers[handlerFd[c]] = c
                      /\ \A f \in clientFds : \E c \in Conn :
                            desc[f] = client(c) /\ (handler[c] \in {"begin", "working", "untrack"}
                                                    \/ \E g \in Start : accepted[g] = [conn |-> c, fd |-> f]
                                                                        /\ loop[g] = "enter")
    BY DEF OneOwnerPerNumber
  <2>1. Typed /\ OnePlace /\ Looked /\ OnlyOwner
    BY TypedIsType DEF LifecycleInv
  <2>2. ~ foreign /\ (Untouched \/ Served)
    BY <2>1 DEF OnlyOwner, NeverStopped
  <2>3. CASE Untouched
    BY <2>2, <2>3 DEF Untouched, Serving
  <2>4. CASE Served
    <3>1. ASSUME NEW f \in clientFds
          PROVE  \E c \in Conn :
                    desc[f] = client(c) /\ (handler[c] \in {"begin", "working", "untrack"}
                                            \/ \E g \in Start : accepted[g] = [conn |-> c, fd |-> f]
                                                                /\ loop[g] = "enter")
      <4>1. f \in Fd
        BY <2>1 DEF Typed
      <4>2. CASE \E c \in Conn : handler[c] \in {"begin", "working", "untrack"} /\ handlerFd[c] = f
        BY <2>4, <4>2 DEF Served, Serving
      <4>3. CASE \E g \in Start : loop[g] = "enter" /\ accepted[g].fd = f
        <5>1. PICK g \in Start : loop[g] = "enter" /\ accepted[g].fd = f
          BY <4>3
        <5>2. /\ accepted[g].conn \in Conn /\ desc[f] = client(accepted[g].conn)
              /\ accepted[g] = [conn |-> accepted[g].conn, fd |-> f]
          BY <2>1, <2>4, <5>1 DEF Served, OnePlace, Holding, Typed
        <5> QED
          BY <5>1, <5>2
      <4> QED
        BY <2>1, <4>1, <4>2, <4>3 DEF Looked, Remover
    <3> QED
      BY <2>2, <2>4, <3>1 DEF Served
  <2> QED
    BY <2>2, <2>3, <2>4
<1> QED
  BY <1>1, InvHolds, PTL
=============================================================================
