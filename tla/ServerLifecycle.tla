--------------------------- MODULE ServerLifecycle ---------------------------
(***************************************************************************)
(* SyncServer's life: startAsync, stop, the accept loop and the handler    *)
(* threads, the descriptors they open and close, and the tables they       *)
(* share.  What a handler does in between is NetSession's; here it holds   *)
(* its connection, opens a file now and then, and ends.                    *)
(***************************************************************************)
EXTENDS Integers, FiniteSets

CONSTANTS Conn,       \* the connections clients make
          NFds,       \* descriptors the process can have open
          MaxStarts   \* calls of startAsync

ASSUME LifecycleAssumption == NFds \in Nat /\ MaxStarts \in Nat /\ IsFiniteSet(Conn)

Fd == 1..NFds
invalidSocket == 0
Start == 1..MaxStarts
NoPipe == [readEnd |-> 0, writeEnd |-> 0]

\* What a descriptor refers to: nothing, what start g opened, a connection, or a file
\* the handler of a connection has open.
NoOne == 0
free        == [kind |-> "free", of |-> NoOne]
listener(g) == [kind |-> "listener", of |-> g]
readEnd(g)  == [kind |-> "readEnd", of |-> g]
writeEnd(g) == [kind |-> "writeEnd", of |-> g]
client(c)   == [kind |-> "client", of |-> c]
file(c)     == [kind |-> "file", of |-> c]

VARIABLES
    desc,        \* what each descriptor refers to
    listenerFd, isRunning, shutdownPipe, clientFds,
    connectionBuffers,   \* fd -> whose data; no entry is NoOne
    clientGroup,         \* the DispatchGroup's count
    main,        \* where the owner of the server stands
    starts,      \* calls of startAsync so far
    toClose,     \* stop's copy of clientFds
    signalled,   \* the starts whose pipe holds a byte
    loop,        \* start -> where its accept loop stands
    loopPipe,    \* start -> the pipe its loop waits on
    accepted,    \* start -> [conn, fd] the loop is taking on
    handler,     \* connection -> where its handler stands
    handlerFd, fileFd,   \* connection -> its handler's descriptors
    backlog,     \* connections waiting to be accepted
    foreign      \* (history) somebody closed a descriptor that was not its own

object  == <<listenerFd, isRunning, shutdownPipe>>
tables  == <<clientFds, connectionBuffers, clientGroup>>
owner   == <<main, starts, toClose, signalled>>
loops   == <<loop, loopPipe, accepted>>
threads == <<handler, handlerFd, fileFd>>
vars    == <<desc, object, tables, owner, loops, threads, backlog, foreign>>

Init ==
    /\ desc = [f \in Fd |-> free]
    /\ listenerFd = invalidSocket /\ isRunning = FALSE /\ shutdownPipe = NoPipe
    /\ clientFds = {} /\ clientGroup = 0
    /\ connectionBuffers = [f \in Fd |-> NoOne]
    /\ main = "idle" /\ starts = 0 /\ toClose = {} /\ signalled = {}
    /\ loop = [g \in Start |-> "none"]
    /\ loopPipe = [g \in Start |-> NoPipe]
    /\ accepted = [g \in Start |-> [conn |-> NoOne, fd |-> 0]]
    /\ handler = [c \in Conn |-> "none"]
    /\ handlerFd = [c \in Conn |-> 0] /\ fileFd = [c \in Conn |-> 0]
    /\ backlog = {} /\ foreign = FALSE

-----------------------------------------------------------------------------
(* Descriptors: the lowest free number is given out, and close frees       *)
(* whatever the number refers to by then.                                  *)

Free == {f \in Fd : desc[f] = free}
Lowest(S) == CHOOSE f \in S : \A g \in S : f <= g

\* platformClose of the numbers that own maps to what their closer opened under them.
\* With a listener go the connections nobody has accepted.
CloseAll(own) ==
    /\ backlog' = IF \E f \in DOMAIN own : desc[f].kind = "listener" THEN {} ELSE backlog
    /\ desc' = [f \in Fd |-> IF f \in DOMAIN own THEN free ELSE desc[f]]
    /\ foreign' = (foreign \/ \E f \in DOMAIN own : desc[f] \notin {own[f], free})
Close(f, mine) == CloseAll([x \in {f} |-> mine])

\* stop's close of a tracked number, which was some connection's
CloseTracked(f) == Close(f, IF desc[f].kind = "client" THEN desc[f] ELSE free)

-----------------------------------------------------------------------------
(* startAsync.  A step that fails closes what was opened and throws.  Where *)
(* the pipe fails nothing is assigned; where socket() does, listenerFd is   *)
(* invalid; where bind() or listen() does, it keeps the number closed.      *)

StartSucceeds ==
    /\ Cardinality(Free) >= 3
    /\ LET r == Lowest(Free)
           w == Lowest(Free \ {r})
           l == Lowest(Free \ {r, w})
       IN  /\ desc' = [desc EXCEPT ![r] = readEnd(starts'), ![w] = writeEnd(starts'),
                                   ![l] = listener(starts')]
           /\ shutdownPipe' = [readEnd |-> r, writeEnd |-> w]
           /\ listenerFd' = l
    /\ isRunning' = TRUE
    /\ loop' = [loop EXCEPT ![starts'] = "begin"]
    /\ main' = "running"

ThirdLowest ==
    LET r == Lowest(Free)
    IN  Lowest(Free \ {r, Lowest(Free \ {r})})

StartFails ==
    /\ \/ UNCHANGED <<listenerFd, shutdownPipe>>
       \/ listenerFd' = invalidSocket /\ shutdownPipe' = NoPipe
       \/ Cardinality(Free) >= 3 /\ listenerFd' = ThirdLowest /\ shutdownPipe' = NoPipe
    /\ UNCHANGED <<desc, isRunning, loop, main>>

StartAsync ==
    /\ main = "idle" /\ starts < MaxStarts
    /\ starts' = starts + 1
    /\ StartSucceeds \/ StartFails
    /\ UNCHANGED <<tables, toClose, signalled, loopPipe, accepted, threads, backlog, foreign>>

(* stop, step by step                                                      *)

StopBegins ==
    /\ main = "running" \/ (main = "idle" /\ starts > 0)
    /\ main' = "copy"
    /\ isRunning' = FALSE
    /\ signalled' = IF shutdownPipe # NoPipe /\ desc[shutdownPipe.writeEnd] = writeEnd(starts)
                  THEN signalled \cup {starts} ELSE signalled
    /\ UNCHANGED <<desc, listenerFd, shutdownPipe, tables, starts, toClose, loops, threads,
                   backlog, foreign>>

StopCopies ==
    /\ main = "copy" /\ main' = "clients"
    /\ toClose' = clientFds
    /\ UNCHANGED <<desc, object, tables, starts, signalled, loops, threads, backlog, foreign>>

StopClosesClient ==
    /\ main = "clients" /\ toClose # {}
    /\ \E f \in toClose : CloseTracked(f) /\ toClose' = toClose \ {f}
    /\ UNCHANGED <<object, tables, main, starts, signalled, loops, threads>>

StopClosesListener ==
    /\ main = "clients" /\ toClose = {} /\ main' = "wait"
    /\ IF listenerFd # invalidSocket
       THEN Close(listenerFd, listener(starts))
       ELSE UNCHANGED <<desc, foreign, backlog>>
    /\ listenerFd' = invalidSocket
    /\ UNCHANGED <<isRunning, shutdownPipe, tables, starts, toClose, signalled, loops, threads>>

\* (mutant) the pipe is forgotten without being closed
StopReturnsForgetful ==
    /\ main = "wait" /\ clientGroup = 0 /\ main' = "idle"
    /\ shutdownPipe' = NoPipe
    /\ UNCHANGED <<desc, foreign, backlog, listenerFd, isRunning, tables, starts, toClose,
                   signalled, loops, threads>>

StopReturns ==
    /\ main = "wait" /\ clientGroup = 0 /\ main' = "idle"
    /\ IF shutdownPipe # NoPipe
       THEN CloseAll([f \in {shutdownPipe.readEnd, shutdownPipe.writeEnd} |->
                          IF f = shutdownPipe.readEnd THEN readEnd(starts) ELSE writeEnd(starts)])
       ELSE UNCHANGED <<desc, foreign, backlog>>
    /\ shutdownPipe' = NoPipe
    /\ UNCHANGED <<listenerFd, isRunning, tables, starts, toClose, signalled, loops, threads>>

Stopping == main \in {"copy", "clients", "wait"}

-----------------------------------------------------------------------------
(* acceptLoop                                                              *)

LoopGoto(g, l) == loop' = [loop EXCEPT ![g] = l]

LoopBegins(g) ==
    /\ loop[g] = "begin"
    /\ LoopGoto(g, IF shutdownPipe = NoPipe THEN "over" ELSE "check")
    /\ loopPipe' = [loopPipe EXCEPT ![g] = shutdownPipe]
    /\ UNCHANGED <<desc, object, tables, owner, accepted, threads, backlog, foreign>>

LoopChecks(g) ==
    /\ loop[g] = "check"
    /\ LoopGoto(g, IF isRunning THEN "poll" ELSE "over")
    /\ UNCHANGED <<desc, object, tables, owner, loopPipe, accepted, threads, backlog, foreign>>

\* poll reports a number that refers to nothing (POLLNVAL, which the loop does not
\* look at) and may report as readable one that refers to something else by now.
Reused(f, mine) == f # invalidSocket /\ desc[f] \notin {mine, free}
Closed(f) == f # invalidSocket /\ desc[f] = free
Listening == listenerFd # invalidSocket /\ desc[listenerFd].kind = "listener"
Signalled(f) == desc[f].kind = "readEnd" /\ desc[f].of \in signalled

LoopPolls(g) ==
    /\ loop[g] = "poll"
    /\ LET r == loopPipe[g].readEnd
       IN  \/ /\ Signalled(r) \/ Reused(r, readEnd(g)) \/ Closed(r)
              /\ LoopGoto(g, "over")
           \/ /\ ~ Signalled(r)
              /\ \/ Listening /\ backlog # {}
                 \/ listenerFd # invalidSocket /\ desc[listenerFd].kind \in {"client", "file"}
              /\ LoopGoto(g, "accept")
           \/ ~ Signalled(r) /\ (Closed(r) \/ Closed(listenerFd)) /\ LoopGoto(g, "check")
    /\ UNCHANGED <<desc, object, tables, owner, loopPipe, accepted, threads, backlog, foreign>>

\* accept fails, "continue", if descriptors have run out or the number is no listener;
\* on a listener, it blocks until there is a connection to take on.
LoopAccepts(g) ==
    /\ loop[g] = "accept"
    /\ IF Listening /\ Free # {}
       THEN \E c \in backlog :
               /\ accepted' = [accepted EXCEPT ![g] = [conn |-> c, fd |-> Lowest(Free)]]
               /\ desc' = [desc EXCEPT ![Lowest(Free)] = client(c)]
               /\ backlog' = backlog \ {c}
               /\ LoopGoto(g, "track")
       ELSE LoopGoto(g, "check") /\ UNCHANGED <<desc, accepted, backlog>>
    /\ UNCHANGED <<object, tables, owner, loopPipe, threads, foreign>>

LoopTracks(g) ==
    /\ loop[g] = "track" /\ LoopGoto(g, "enter")
    /\ clientFds' = clientFds \cup {accepted[g].fd}
    /\ UNCHANGED <<desc, object, connectionBuffers, clientGroup, owner, loopPipe, accepted,
                   threads, backlog, foreign>>

\* (mutants) a handler is dispatched without enter(); the loop ends with its first client
LoopEntersUncounted(g) ==
    /\ loop[g] = "enter" /\ LoopGoto(g, "check")
    /\ handler' = [handler EXCEPT ![accepted[g].conn] = "begin"]
    /\ handlerFd' = [handlerFd EXCEPT ![accepted[g].conn] = accepted[g].fd]
    /\ UNCHANGED <<desc, object, clientFds, connectionBuffers, clientGroup, owner, loopPipe,
                   accepted, fileFd, backlog, foreign>>

LoopEntersOnce(g) ==
    /\ loop[g] = "enter" /\ LoopGoto(g, "over")
    /\ clientGroup' = clientGroup + 1
    /\ handler' = [handler EXCEPT ![accepted[g].conn] = "begin"]
    /\ handlerFd' = [handlerFd EXCEPT ![accepted[g].conn] = accepted[g].fd]
    /\ UNCHANGED <<desc, object, clientFds, connectionBuffers, owner, loopPipe, accepted,
                   fileFd, backlog, foreign>>

\* clientGroup.enter(), and the handler is dispatched
LoopEnters(g) ==
    /\ loop[g] = "enter" /\ LoopGoto(g, "check")
    /\ clientGroup' = clientGroup + 1
    /\ handler' = [handler EXCEPT ![accepted[g].conn] = "begin"]
    /\ handlerFd' = [handlerFd EXCEPT ![accepted[g].conn] = accepted[g].fd]
    /\ UNCHANGED <<desc, object, clientFds, connectionBuffers, owner, loopPipe, accepted,
                   fileFd, backlog, foreign>>

-----------------------------------------------------------------------------
(* processClient and cleanupClient                                         *)

HandlerGoto(c, l) == handler' = [handler EXCEPT ![c] = l]

HandlerBegins(c) ==
    /\ handler[c] = "begin" /\ HandlerGoto(c, "working")
    /\ connectionBuffers' = [connectionBuffers EXCEPT ![handlerFd[c]] = c]
    /\ UNCHANGED <<desc, object, clientFds, clientGroup, owner, loops, handlerFd, fileFd,
                   backlog, foreign>>

\* receiveMessage files what it has not parsed under the number it was given, whoever
\* that belongs to by then
HandlerReceives(c) ==
    /\ handler[c] = "working" /\ fileFd[c] = 0
    /\ connectionBuffers' = [connectionBuffers EXCEPT ![handlerFd[c]] = c]
    /\ UNCHANGED <<desc, object, clientFds, clientGroup, owner, loops, threads, backlog, foreign>>

\* Data(contentsOf:), write(to:), a directory read in a scan
HandlerOpensFile(c) ==
    /\ handler[c] = "working" /\ fileFd[c] = 0 /\ Free # {}
    /\ fileFd' = [fileFd EXCEPT ![c] = Lowest(Free)]
    /\ desc' = [desc EXCEPT ![Lowest(Free)] = file(c)]
    /\ UNCHANGED <<object, tables, owner, loops, handler, handlerFd, backlog, foreign>>

HandlerClosesFile(c) ==
    /\ handler[c] = "working" /\ fileFd[c] # 0
    /\ Close(fileFd[c], file(c))
    /\ fileFd' = [fileFd EXCEPT ![c] = 0]
    /\ UNCHANGED <<object, tables, owner, loops, handler, handlerFd>>

\* (mutant) the descriptor is closed before its entries are removed (and again after)
HandlerEndsClosing(c) ==
    /\ handler[c] = "working" /\ fileFd[c] = 0 /\ HandlerGoto(c, "untrack")
    /\ Close(handlerFd[c], client(c))
    /\ UNCHANGED <<object, tables, owner, loops, handlerFd, fileFd>>

\* DONE, a failed receive (at the latest after 30 seconds without a message) or a
\* descriptor that is closed.
HandlerEnds(c) ==
    /\ handler[c] = "working" /\ fileFd[c] = 0 /\ HandlerGoto(c, "untrack")
    /\ UNCHANGED <<desc, object, tables, owner, loops, handlerFd, fileFd, backlog, foreign>>

HandlerUntracks(c) ==
    /\ handler[c] = "untrack" /\ HandlerGoto(c, "unbuffer")
    /\ clientFds' = clientFds \ {handlerFd[c]}
    /\ UNCHANGED <<desc, object, connectionBuffers, clientGroup, owner, loops, handlerFd, fileFd,
                   backlog, foreign>>

HandlerUnbuffers(c) ==
    /\ handler[c] = "unbuffer" /\ HandlerGoto(c, "close")
    /\ connectionBuffers' = [connectionBuffers EXCEPT ![handlerFd[c]] = NoOne]
    /\ UNCHANGED <<desc, object, clientFds, clientGroup, owner, loops, handlerFd, fileFd,
                   backlog, foreign>>

HandlerCloses(c) ==
    /\ handler[c] = "close" /\ HandlerGoto(c, "leave")
    /\ Close(handlerFd[c], client(c))
    /\ UNCHANGED <<object, tables, owner, loops, handlerFd, fileFd>>

\* (mutant) leave() is not reached
HandlerLeavesSilently(c) ==
    /\ handler[c] = "leave" /\ HandlerGoto(c, "over")
    /\ UNCHANGED <<desc, object, tables, owner, loops, handlerFd, fileFd, backlog, foreign>>

HandlerLeaves(c) ==
    /\ handler[c] = "leave" /\ HandlerGoto(c, "over")
    /\ clientGroup' = clientGroup - 1
    /\ UNCHANGED <<desc, object, clientFds, connectionBuffers, owner, loops, handlerFd, fileFd,
                   backlog, foreign>>

ClientConnects(c) ==
    /\ Listening /\ handler[c] = "none" /\ c \notin backlog
    /\ \A g \in Start : accepted[g].conn # c
    /\ backlog' = backlog \cup {c}
    /\ UNCHANGED <<desc, object, tables, owner, loops, threads, foreign>>

-----------------------------------------------------------------------------
Stop == StopCopies \/ StopClosesClient \/ StopClosesListener \/ StopReturns

AcceptLoop(g) ==
    LoopBegins(g) \/ LoopChecks(g) \/ LoopPolls(g) \/ LoopAccepts(g) \/ LoopTracks(g)
    \/ LoopEnters(g)

HandlerStep(c) ==
    HandlerBegins(c) \/ HandlerReceives(c) \/ HandlerClosesFile(c) \/ HandlerEnds(c)
    \/ HandlerUntracks(c) \/ HandlerUnbuffers(c) \/ HandlerCloses(c) \/ HandlerLeaves(c)

Next ==
    \/ StartAsync \/ StopBegins \/ Stop
    \/ \E g \in Start : AcceptLoop(g)
    \/ \E c \in Conn : ClientConnects(c) \/ HandlerStep(c) \/ HandlerOpensFile(c)

\* Every thread runs; a handler does not go on for ever, for its client sends DONE
\* or falls silent.  Nobody has to start, stop or connect to a server.
Fairness ==
    /\ WF_vars(Stop)
    /\ \A g \in Start : WF_vars(AcceptLoop(g))
    /\ \A c \in Conn : WF_vars(HandlerBegins(c) \/ HandlerClosesFile(c))
                       /\ SF_vars(HandlerEnds(c))
                       /\ WF_vars(HandlerUntracks(c) \/ HandlerUnbuffers(c) \/ HandlerCloses(c)
                                  \/ HandlerLeaves(c))

Spec == Init /\ [][Next]_vars
FairSpec == Spec /\ Fairness
-----------------------------------------------------------------------------
LifecycleTypeOK ==
    /\ desc \in [Fd -> {free} \cup {listener(g) : g \in Start} \cup {readEnd(g) : g \in Start}
                       \cup {writeEnd(g) : g \in Start} \cup {client(c) : c \in Conn}
                       \cup {file(c) : c \in Conn}]
    /\ listenerFd \in Fd \cup {invalidSocket} /\ isRunning \in BOOLEAN
    /\ shutdownPipe \in {NoPipe} \cup [readEnd : Fd, writeEnd : Fd]
    /\ clientFds \subseteq Fd /\ clientGroup \in 0..Cardinality(Conn)
    /\ connectionBuffers \in [Fd -> Conn \cup {NoOne}]
    /\ main \in {"idle", "running", "copy", "clients", "wait"}
    /\ starts \in 0..MaxStarts /\ toClose \subseteq Fd /\ signalled \subseteq Start
    /\ loop \in [Start -> {"none", "begin", "check", "poll", "accept", "track", "enter", "over"}]
    /\ loopPipe \in [Start -> {NoPipe} \cup [readEnd : Fd, writeEnd : Fd]]
    /\ accepted \in [Start -> [conn : Conn \cup {NoOne}, fd : Fd \cup {0}]]
    /\ handler \in [Conn -> {"none", "begin", "working", "untrack", "unbuffer", "close", "leave",
                             "over"}]
    /\ handlerFd \in [Conn -> Fd \cup {0}] /\ fileFd \in [Conn -> Fd \cup {0}]
    /\ backlog \subseteq Conn /\ foreign \in BOOLEAN

Serving(c) == handler[c] \in {"begin", "working", "untrack", "unbuffer", "close"}
NeverStopped == starts <= 1 /\ main \in {"idle", "running"} /\ signalled = {}

\* As long as nobody has called stop, a descriptor number means one thing to everybody:
\* the number a handler holds is its own connection until the handler closes it, the
\* receive buffer filed under it is that handler's, every tracked number is a connection
\* being taken on or served, and nobody closes what another opened.
\* (cleanupClient forgets the number in clientFds and connectionBuffers before it closes
\* it: the other way round, accept can hand the number out in between.)
OneOwnerPerNumber ==
    NeverStopped =>
        /\ ~ foreign
        /\ \A c \in Conn : Serving(c) => desc[handlerFd[c]] = client(c)
        /\ \A c \in Conn : handler[c] \in {"working", "untrack"}
                           => connectionBuffers[handlerFd[c]] = c
        /\ \A f \in clientFds : \E c \in Conn :
               desc[f] = client(c) /\ (handler[c] \in {"begin", "working", "untrack"}
                                       \/ \E g \in Start : accepted[g] = [conn |-> c, fd |-> f]
                                                           /\ loop[g] = "enter")

\* When the server is stopped and its threads are over, whatever the closes of reused
\* numbers did on the way, it holds nothing: every descriptor is closed (those of a
\* startAsync that failed too), no number is tracked or has a buffer, the group is empty.
QuietMeansClean ==
    (/\ main = "idle"
     /\ \A g \in Start : loop[g] \in {"none", "over"}
     /\ \A c \in Conn : handler[c] \in {"none", "over"})
    => /\ \A f \in Fd : desc[f] = free
       /\ clientFds = {} /\ clientGroup = 0
       /\ \A f \in Fd : connectionBuffers[f] = NoOne

\* stop() returns, however the accept loop and the handlers interleave with it.
StopIsOver == Stopping ~> (main = "idle")

\* A connection somebody makes is taken on, its handler ends, or the listener is closed
\* under it: the accept loop serves every client of a server nobody stops.
EveryClientServed == \A c \in Conn : (c \in backlog) ~> (handler[c] = "over" \/ ~ isRunning)

=============================================================================
