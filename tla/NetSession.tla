----------------------------- MODULE NetSession -----------------------------
(***************************************************************************)
(* diffa push and diffa pull against diffa serve: SyncClient.sync and      *)
(* SyncServer.processClient, one TCP connection per session.               *)
(*                                                                         *)
(* Every session has its own client thread, server handler, pair of FIFO   *)
(* channels and receive buffer (a channel and the buffer behind it are one *)
(* sequence here).  All handlers work on the one served tree, without a    *)
(* lock.  A client's later session is a later run of the command: the      *)
(* handler of an earlier one may still be at work.                         *)
(***************************************************************************)
EXTENDS NetPlan, Sequences

CONSTANTS NSessions, Client,
          Owner,       \* session -> the client that runs it
          Modes,       \* what the commands ask for, of {"push", "pull"}
          Majors,      \* protocol versions the clients speak
          Scenarios,   \* the trees to start from: [local: [Client -> Tree], served: Tree]
          Window,      \* messages one direction of a connection buffers
          MaxFaults    \* bound on the faults injected

Session == 1..NSessions
ProtocolMajor == 2

ASSUME SessionAssumption == NSessions \in Nat \ {0} /\ Owner \in [Session -> Client]
ASSUME ModeAssumption == Modes \subseteq {"push", "pull"} /\ Majors \subseteq Nat
ASSUME ScenarioAssumption ==
    Scenarios \subseteq {sc \in [local: [Client -> Tree], served: Tree] :
        /\ WellFormed(sc.served) /\ Whole(sc.served)
        /\ \A c \in Client : WellFormed(sc.local[c]) /\ Whole(sc.local[c])}
ASSUME BoundAssumption == Window \in Nat \ {0} /\ MaxFaults \in Nat

VARIABLES
    local,    \* client -> its tree
    served,   \* the server's tree
    temp,     \* session -> its .diffa_temp_* files, on the side that is changed
    mode,     \* session -> "push" | "pull"
    cpc,      \* where SyncClient.sync stands
    csnap,    \* localItems
    rsnap,    \* remoteItems, as received
    todo,     \* operations still to execute
    cjob,     \* the operation in progress (pull)
    serverErrors,  \* an ERROR was drained while waiting for DONE
    spc,      \* where the handler stands
    ssnap,    \* the handler's localItems
    sjob,     \* the message in progress
    out,      \* a reply that did not fit in the channel yet, and what follows it
    up, down, \* client -> server, server -> client
    refused,  \* (history) the handler answered an operation with ERROR
    plan,     \* (history) the operations planned
    applied,  \* (history) how many of them were begun on the side that is changed
    faults    \* faults injected so far

trees  == <<local, served, temp, plan, applied>>
client == <<mode, cpc, csnap, rsnap, todo, cjob, serverErrors>>
server == <<spc, ssnap, sjob, out, refused>>
vars   == <<trees, client, server, up, down, faults>>

-----------------------------------------------------------------------------
(* SyncMessage                                                             *)

Hello(m, v)   == [type |-> "HELLO", mode |-> m, major |-> v]
Simple(t)     == [type |-> t]
Metadata(l)   == [type |-> "METADATA", listing |-> l]
Request(p)    == [type |-> "REQUEST", path |-> p]
File(p, d)    == [type |-> "FILE", path |-> p, data |-> d]
Delete(q)     == [type |-> "DELETE", path |-> q]
Copy(a, b)    == [type |-> "COPY", from |-> a, to |-> b]

\* "FRAGMENT" is a message cut short: what follows it is never parsed again.
FileMessage == [type: {"FILE"}, path: Path, data: FileData]
UpMessage == [type: {"HELLO"}, mode: {"push", "pull"}, major: Nat]
             \cup [type: {"DONE"}]
             \cup [type: {"METADATA"}, listing: Listing]
             \cup [type: {"REQUEST"}, path: Path] \cup [type: {"DELETE"}, path: Place]
             \cup FileMessage
             \cup [type: {"COPY"}, from: Place, to: Place]
DownMessage == [type: {"OK", "ERROR", "DONE", "FRAGMENT"}]
               \cup [type: {"METADATA"}, listing: Listing]
               \cup FileMessage

Prefixes(q) == {SubSeq(q, 1, k) : k \in 0..Len(q)}

NoListing == [p \in Path |-> Absent]
NoOp      == [ord |-> 0, act |-> "delete", from |-> 0, to |-> 1]
NoJob     == Simple("DONE")
NoReply   == [message |-> Simple("OK"), next |-> "loop"]

Init ==
    /\ \E sc \in Scenarios : local = sc.local /\ served = sc.served
    /\ temp = [s \in Session |-> [q \in TempPlace |-> Absent]]
    /\ mode \in [Session -> Modes]
    /\ cpc = [s \in Session |-> "idle"]
    /\ csnap = [s \in Session |-> NoListing]
    /\ rsnap = [s \in Session |-> NoListing]
    /\ todo = [s \in Session |-> {}]
    /\ cjob = [s \in Session |-> NoOp]
    /\ serverErrors = [s \in Session |-> FALSE]
    /\ spc = [s \in Session |-> "none"]
    /\ ssnap = [s \in Session |-> NoListing]
    /\ sjob = [s \in Session |-> NoJob]
    /\ out = [s \in Session |-> NoReply]
    /\ up = [s \in Session |-> <<>>]
    /\ down = [s \in Session |-> <<>>]
    /\ refused = [s \in Session |-> FALSE]
    /\ plan = [s \in Session |-> {}]
    /\ applied = [s \in Session |-> 0]
    /\ faults = 0

-----------------------------------------------------------------------------
Ended(s)  == cpc[s] \in {"ok", "failed"}
Active(s) == cpc[s] # "idle" /\ ~ Ended(s)
Serving(s) == spc[s] \notin {"none", "closed"}

Fault == faults < MaxFaults /\ faults' = faults + 1

\* A call that fails when it must, and otherwise only by a disk fault.
Fails(must)  == IF must THEN UNCHANGED faults ELSE Fault
Succeeds(may) == may /\ UNCHANGED faults

\* (mutant) temporary files of the same name for every session
StoredAtShared(t, s, q) == IF q \in Path THEN t[q] ELSE temp[1][q]

\* What place q holds for session s on the side whose tree is t.
StoredAt(t, s, q) == IF q \in Path THEN t[q] ELSE temp[s][q]

(***************************************************************************)
(* copyLocal and the COPY handler alike: make the parents, remove what is  *)
(* at the destination; then, after a moment in which it is gone, copyItem. *)
(***************************************************************************)
ReadyForCopy(t, to) == IF to \in Path THEN Removed(WithParents(t, to), to) ELSE t
CanPrepareCopy(t, to) == to \in Path => CanMakeParents(t, to)

\* copyItem throws if the source is missing or the destination exists.
CanCopy(t, s, from, to) ==
    /\ StoredAt(t, s, from) # Absent
    /\ StoredAt(t, s, to) = Absent
    /\ to \in Path => ParentsExist(t, to)

\* Data.write(to:) ends.  If another writer has put something else there meanwhile the
\* data mixes with that writer's, or has gone to the file that one replaced.
Filled(t, p, d) ==
    IF t[p] = Torn THEN {[t EXCEPT ![p] = d]}
    ELSE IF IsFile(t, p) /\ t[p] # d THEN {t, [t EXCEPT ![p] = d], [t EXCEPT ![p] = Torn]}
    ELSE {t}

-----------------------------------------------------------------------------
(* The client                                                              *)

CanSend(s) == Len(up[s]) < Window
Sent(s, m) == up' = [up EXCEPT ![s] = Append(@, m)]
Arrived(s) == IF down[s] = <<>> THEN "nothing" ELSE Head(down[s]).type
Received(s) == down' = [down EXCEPT ![s] = Tail(@)]
CGoto(s, l) == cpc' = [cpc EXCEPT ![s] = l]

\* sync throws or the process dies: "defer { platformClose(fd) }".  What the
\* handler has not received yet may be lost with the connection.
ClientFails(s) ==
    /\ CGoto(s, "failed")
    /\ todo' = [todo EXCEPT ![s] = {}]
    /\ \E q \in Prefixes(up[s]) : up' = [up EXCEPT ![s] = q]
    /\ down' = [down EXCEPT ![s] = <<>>]
    /\ UNCHANGED <<mode, csnap, rsnap, cjob, serverErrors, server>>

\* connectToHost and HELLO; acceptLoop starts a handler for the connection.
Connect(s) ==
    /\ cpc[s] = "idle"
    /\ \A t \in Session : t < s /\ Owner[t] = Owner[s] => Ended(t)
    /\ \E v \in Majors : up' = [up EXCEPT ![s] = <<Hello(mode[s], v)>>]
    /\ CGoto(s, "awaitOK")
    /\ spc' = [spc EXCEPT ![s] = "hello"]
    /\ UNCHANGED <<trees, mode, csnap, rsnap, todo, cjob, serverErrors, ssnap, sjob, out,
                   refused, down, faults>>

ReceiveOK(s) ==
    /\ cpc[s] = "awaitOK" /\ Arrived(s) = "OK"
    /\ Received(s) /\ CGoto(s, "scan")
    /\ UNCHANGED <<trees, mode, csnap, rsnap, todo, cjob, serverErrors, server, up, faults>>

\* SQLiteSyncSnapshot.create and allFiles: what they pass over is a fault.
Lists(l, t) ==
    \/ l = ListingOf(t) /\ UNCHANGED faults
    \/ Fault /\ \E missed \in Unreadable : l = Listed(t, missed)

\* The local snapshot, and METADATA.  Hashing a file can fail; then create throws.
ScanLocal(s) ==
    /\ cpc[s] = "scan"
    /\ \/ /\ \E l \in Listing : /\ Lists(l, local[Owner[s]])
                                /\ CanSend(s) /\ Sent(s, Metadata(l))
                                /\ csnap' = [csnap EXCEPT ![s] = l]
          /\ CGoto(s, "awaitMetadata")
          /\ UNCHANGED <<trees, mode, rsnap, todo, cjob, serverErrors, server, down>>
       \/ Fault /\ ClientFails(s) /\ UNCHANGED trees

ReceiveMetadata(s) ==
    /\ cpc[s] = "awaitMetadata" /\ Arrived(s) = "METADATA"
    /\ LET remote == Head(down[s]).listing
           src == IF mode[s] = "push" THEN csnap[s] ELSE remote
           dst == IF mode[s] = "push" THEN remote ELSE csnap[s]
       IN  /\ rsnap' = [rsnap EXCEPT ![s] = remote]
           /\ \E rank \in Orders(DestToSource(src, dst)) :
                 plan' = [plan EXCEPT ![s] = Plan(src, dst, rank)]
           /\ todo' = [todo EXCEPT ![s] = plan'[s]]
    /\ Received(s) /\ CGoto(s, "operations")
    /\ UNCHANGED <<local, served, temp, applied, mode, csnap, cjob, serverErrors, server, up, faults>>

\* "guard okMessage.type == .ok", "guard metadataMessage.type == .metadata" and
\* "guard fileMessage.type == .fileData" (which lets ERROR pass)
ReceiveUnexpected(s) ==
    /\ \/ cpc[s] = "awaitOK" /\ Arrived(s) \notin {"nothing", "FRAGMENT", "OK"}
       \/ cpc[s] = "awaitMetadata" /\ Arrived(s) \notin {"nothing", "FRAGMENT", "METADATA"}
       \/ cpc[s] = "awaitFile" /\ Arrived(s) \notin {"nothing", "FRAGMENT", "FILE", "ERROR"}
    /\ ClientFails(s) /\ UNCHANGED <<trees, faults>>

-----------------------------------------------------------------------------
(* executeTransfers: the operations in order, one step each                *)

Current(s, o) ==
    /\ cpc[s] = "operations" /\ o \in todo[s]
    /\ \A x \in todo[s] : o.ord <= x.ord

Advance(s, o) == todo' = [todo EXCEPT ![s] = @ \ {o}]
Begun(s) == applied' = [applied EXCEPT ![s] = @ + 1] /\ UNCHANGED plan

\* case .upload: Data(contentsOf:) throws if the file is not there any more
Upload(s, o) ==
    /\ mode[s] = "push" /\ o.act = "transfer"
    /\ LET t == local[Owner[s]]
       IN  \/ /\ Succeeds(IsFile(t, o.to))
              /\ CanSend(s) /\ Sent(s, File(o.to, t[o.to])) /\ Advance(s, o)
              /\ UNCHANGED <<trees, mode, cpc, csnap, rsnap, cjob, serverErrors, server, down>>
           \/ Fails(~ IsFile(t, o.to)) /\ ClientFails(s) /\ UNCHANGED trees

\* case .copyRemote and the remote .delete: sent, and the reply not awaited
SendRemote(s, o) ==
    /\ mode[s] = "push" /\ o.act # "transfer"
    /\ CanSend(s) /\ Advance(s, o)
    /\ Sent(s, IF o.act = "copy" THEN Copy(o.from, o.to) ELSE Delete(o.to))
    /\ UNCHANGED <<trees, mode, cpc, csnap, rsnap, cjob, serverErrors, server, down, faults>>

\* case .download
RequestFile(s, o) ==
    /\ mode[s] = "pull" /\ o.act = "transfer"
    /\ CanSend(s) /\ Sent(s, Request(o.to)) /\ Advance(s, o)
    /\ CGoto(s, "awaitFile")
    /\ UNCHANGED <<trees, mode, csnap, rsnap, cjob, serverErrors, server, down, faults>>

\* The ERROR that answers a REQUEST is logged; "continue".
SkipFile(s) ==
    /\ cpc[s] = "awaitFile" /\ Arrived(s) = "ERROR"
    /\ Received(s) /\ CGoto(s, "operations") /\ Begun(s)
    /\ UNCHANGED <<local, served, temp, mode, csnap, rsnap, todo, cjob, serverErrors, server, up,
                   faults>>

\* writeReceivedFile: parents, then the write opens and truncates the file
WriteReceivedFile(s) ==
    /\ cpc[s] = "awaitFile" /\ Arrived(s) = "FILE"
    /\ Begun(s)
    /\ LET p == Head(down[s]).path
           t == TryWithParents(local[Owner[s]], p)
       IN  \/ /\ Succeeds(Writable(t, p))
              /\ local' = [local EXCEPT ![Owner[s]] = [t EXCEPT ![p] = Torn]]
              /\ cjob' = [cjob EXCEPT ![s] = Head(down[s])]
              /\ Received(s) /\ CGoto(s, "writing")
              /\ UNCHANGED <<served, temp, mode, csnap, rsnap, todo, serverErrors, server, up>>
           \/ /\ Fails(~ Writable(t, p))
              /\ local' = [local EXCEPT ![Owner[s]] = t]
              /\ ClientFails(s) /\ UNCHANGED <<served, temp>>

\* (mutant) a write that fails is passed over
FinishReceivedFileAnyway(s) ==
    /\ cpc[s] = "writing" /\ CGoto(s, "operations")
    /\ \/ /\ \E t \in Filled(local[Owner[s]], cjob[s].path, cjob[s].data) :
                local' = [local EXCEPT ![Owner[s]] = t]
          /\ UNCHANGED faults
       \/ Fault /\ UNCHANGED local
    /\ UNCHANGED <<served, temp, plan, applied, mode, csnap, rsnap, todo, cjob, serverErrors,
                   server, up, down>>

FinishReceivedFile(s) ==
    /\ cpc[s] = "writing"
    /\ \/ /\ \E t \in Filled(local[Owner[s]], cjob[s].path, cjob[s].data) :
                local' = [local EXCEPT ![Owner[s]] = t]
          /\ CGoto(s, "operations")
          /\ UNCHANGED <<served, temp, plan, applied, mode, csnap, rsnap, todo, cjob, serverErrors,
                         server, up, down, faults>>
       \/ Fault /\ ClientFails(s) /\ UNCHANGED trees

\* case .copyLocal, first half
PrepareCopy(s, o) ==
    /\ mode[s] = "pull" /\ o.act = "copy"
    /\ Begun(s)
    /\ LET t == local[Owner[s]]
       IN  \/ /\ Succeeds(CanPrepareCopy(t, o.to))
              /\ local' = [local EXCEPT ![Owner[s]] = ReadyForCopy(t, o.to)]
              /\ cjob' = [cjob EXCEPT ![s] = o]
              /\ Advance(s, o) /\ CGoto(s, "copying")
              /\ UNCHANGED <<served, temp, mode, csnap, rsnap, serverErrors, server, up, down>>
           \/ /\ Fails(~ CanPrepareCopy(t, o.to)) /\ ClientFails(s)
              /\ UNCHANGED <<local, served, temp>>

\* case .copyLocal, copyItem
CopyItem(s) ==
    /\ cpc[s] = "copying"
    /\ LET t == local[Owner[s]]
           o == cjob[s]
       IN  \/ /\ Succeeds(CanCopy(t, s, o.from, o.to))
              /\ IF o.to \in Path
                 THEN /\ \E u \in ItemCopied(t, o.from, StoredAt(t, s, o.from), o.to) :
                            local' = [local EXCEPT ![Owner[s]] = u]
                      /\ UNCHANGED temp
                 ELSE /\ temp' = [temp EXCEPT ![s][o.to] = StoredAt(t, s, o.from)]
                      /\ UNCHANGED local
              /\ CGoto(s, "operations")
              /\ UNCHANGED <<served, plan, applied, mode, csnap, rsnap, todo, cjob,
                             serverErrors, server, up, down>>
           \/ Fails(~ CanCopy(t, s, o.from, o.to)) /\ ClientFails(s) /\ UNCHANGED trees

\* The local .delete: "try? removeItem", and no pruning of empty directories
DeleteLocal(s, o) ==
    /\ mode[s] = "pull" /\ o.act = "delete"
    /\ Advance(s, o) /\ Begun(s)
    /\ \/ /\ IF o.to \in Path
             THEN local' = [local EXCEPT ![Owner[s]] = Removed(@, o.to)] /\ UNCHANGED temp
             ELSE temp' = [temp EXCEPT ![s][o.to] = Absent] /\ UNCHANGED local
          /\ UNCHANGED faults
       \/ Fault /\ UNCHANGED <<local, temp>>
    /\ UNCHANGED <<served, mode, cpc, csnap, rsnap, cjob, serverErrors, server, up, down>>

-----------------------------------------------------------------------------
\* (mutant) DONE is sent with operations left
SendDoneEarly(s) ==
    /\ cpc[s] = "operations"
    /\ CanSend(s) /\ Sent(s, Simple("DONE")) /\ CGoto(s, "awaitDone")
    /\ UNCHANGED <<trees, mode, csnap, rsnap, todo, cjob, serverErrors, server, down, faults>>

SendDone(s) ==
    /\ cpc[s] = "operations" /\ todo[s] = {}
    /\ CanSend(s) /\ Sent(s, Simple("DONE")) /\ CGoto(s, "awaitDone")
    /\ UNCHANGED <<trees, mode, csnap, rsnap, todo, cjob, serverErrors, server, down, faults>>

\* (mutant) an ERROR is drained and forgotten
DrainReplyForgotten(s) ==
    /\ cpc[s] = "awaitDone" /\ Arrived(s) \notin {"nothing", "FRAGMENT", "DONE"}
    /\ Received(s)
    /\ UNCHANGED <<trees, mode, cpc, csnap, rsnap, todo, cjob, serverErrors, server, up, faults>>

\* Anything that is not DONE is drained; an ERROR is remembered.
DrainReply(s) ==
    /\ cpc[s] = "awaitDone" /\ Arrived(s) \notin {"nothing", "FRAGMENT", "DONE"}
    /\ serverErrors' = [serverErrors EXCEPT ![s] = @ \/ Arrived(s) = "ERROR"]
    /\ Received(s)
    /\ UNCHANGED <<trees, mode, cpc, csnap, rsnap, todo, cjob, server, up, faults>>

ReceiveDone(s) ==
    /\ cpc[s] = "awaitDone" /\ Arrived(s) = "DONE"
    /\ \/ /\ ~ serverErrors[s] /\ CGoto(s, "ok") /\ Received(s)
          /\ UNCHANGED <<mode, csnap, rsnap, todo, cjob, serverErrors, server, up>>
       \/ serverErrors[s] /\ ClientFails(s)
    /\ UNCHANGED <<trees, faults>>

\* The handler has closed: a recv gets EOF once all that came is read, and a
\* send fails, at the latest the second one.
ConnectionLost(s) ==
    /\ Active(s) /\ spc[s] = "closed"
    /\ cpc[s] \in {"scan", "operations"} \/ Arrived(s) \in {"nothing", "FRAGMENT"}
    /\ ClientFails(s) /\ UNCHANGED <<trees, faults>>

\* The process is killed, the connection breaks, or a call takes 30 seconds.
ClientDies(s) == Active(s) /\ Fault /\ ClientFails(s) /\ UNCHANGED trees

ExecuteOperation(s) ==
    \E o \in todo[s] :
        /\ Current(s, o)
        /\ \/ Upload(s, o)
           \/ SendRemote(s, o)
           \/ RequestFile(s, o)
           \/ PrepareCopy(s, o)
           \/ DeleteLocal(s, o)

ClientStep(s) ==
    \/ ReceiveOK(s) \/ ScanLocal(s) \/ ReceiveMetadata(s) \/ ReceiveUnexpected(s)
    \/ ExecuteOperation(s)
    \/ SkipFile(s) \/ WriteReceivedFile(s) \/ FinishReceivedFile(s) \/ CopyItem(s)
    \/ SendDone(s) \/ DrainReply(s) \/ ReceiveDone(s)
    \/ ConnectionLost(s)

-----------------------------------------------------------------------------
(* The handler: processClient, handleSync, handleFileTransfers             *)

SGoto(s, l) == spc' = [spc EXCEPT ![s] = l]
Offered(s) == IF up[s] = <<>> THEN "nothing" ELSE Head(up[s]).type
Taken(s) == up' = [up EXCEPT ![s] = Tail(@)]

Broken(s) == down[s] # <<>> /\ down[s][Len(down[s])].type = "FRAGMENT"
HasRoom(s) == Len(down[s]) < Window

\* sendMessage: blocks while the channel is full; a failure is not reported to
\* the handler, which goes on to next.
Reply(s, m, next) ==
    IF Ended(s) \/ Broken(s)
    THEN SGoto(s, next) /\ UNCHANGED <<down, out>>
    ELSE IF HasRoom(s)
    THEN /\ down' = [down EXCEPT ![s] = Append(@, m)]
         /\ SGoto(s, next) /\ UNCHANGED out
    ELSE /\ out' = [out EXCEPT ![s] = [message |-> m, next |-> next]]
         /\ SGoto(s, "sending") /\ UNCHANGED down

ReplySent(s) ==
    /\ spc[s] = "sending"
    /\ Ended(s) \/ HasRoom(s)
    /\ Reply(s, out[s].message, out[s].next)
    /\ UNCHANGED <<trees, client, ssnap, sjob, refused, up, faults>>

\* (mutants) a send that took a part of the message begins again with the whole; one
\* that timed out is tried again for ever
ReplyBegunAgain(s) ==
    /\ spc[s] = "sending" /\ ~ Ended(s) /\ ~ HasRoom(s)
    /\ down' = [down EXCEPT ![s] = Append(@, Simple("FRAGMENT"))]
    /\ UNCHANGED <<trees, client, server, up, faults>>

ReplyTriedAgain(s) ==
    /\ spc[s] = "sending" /\ ~ Ended(s) /\ ~ HasRoom(s)
    /\ UNCHANGED vars

\* SO_SNDTIMEO has passed with no room: send returns, having taken none of the
\* message or a part of it.
ReplyAbandoned(s) ==
    /\ spc[s] = "sending" /\ ~ Ended(s) /\ ~ HasRoom(s)
    /\ IF cpc[s] = "operations" THEN UNCHANGED faults ELSE Fault
    /\ \/ UNCHANGED down
       \/ down' = [down EXCEPT ![s] = Append(@, Simple("FRAGMENT"))]
    /\ SGoto(s, out[s].next)
    /\ UNCHANGED <<trees, client, ssnap, sjob, out, refused, up>>

\* HELLO with the right magic and major version; ERROR to anything else
ReceiveHello(s) ==
    /\ spc[s] = "hello" /\ Offered(s) # "nothing"
    /\ Taken(s)
    /\ IF Offered(s) = "HELLO" /\ Head(up[s]).major = ProtocolMajor
       THEN Reply(s, Simple("OK"), "scan")
       ELSE Reply(s, Simple("ERROR"), "closing")
    /\ UNCHANGED <<trees, client, ssnap, sjob, refused, faults>>

ScanServed(s) ==
    /\ spc[s] = "scan"
    /\ \/ /\ \E l \in Listing : Lists(l, served) /\ ssnap' = [ssnap EXCEPT ![s] = l]
          /\ SGoto(s, "metadata")
          /\ UNCHANGED <<down, out>>
       \/ Fault /\ Reply(s, Simple("ERROR"), "closing") /\ UNCHANGED ssnap
    /\ UNCHANGED <<trees, client, sjob, refused, up>>

ExchangeMetadata(s) ==
    /\ spc[s] = "metadata" /\ Offered(s) # "nothing"
    /\ Taken(s)
    /\ IF Offered(s) = "METADATA"
       THEN Reply(s, Metadata(ssnap[s]), "loop")
       ELSE Reply(s, Simple("ERROR"), "closing")
    /\ UNCHANGED <<trees, client, ssnap, sjob, refused, faults>>

\* receiveMessage throws: EOF, or 30 seconds without a message.  Before the
\* transfer loop the handler still says what it expected.
ReceiveFails(s) ==
    /\ spc[s] \in {"hello", "metadata", "loop"} /\ up[s] = <<>>
    /\ IF Ended(s) THEN UNCHANGED faults ELSE Fault
    /\ IF spc[s] = "loop" THEN SGoto(s, "closing") /\ UNCHANGED <<down, out>>
       ELSE Reply(s, Simple("ERROR"), "closing")
    /\ UNCHANGED <<trees, client, ssnap, sjob, refused, up>>

Takes(s, t) == spc[s] = "loop" /\ Offered(s) = t /\ Taken(s)

Refuse(s) ==
    /\ Reply(s, Simple("ERROR"), "loop")
    /\ refused' = [refused EXCEPT ![s] = TRUE]

\* sendFile
SendFile(s) ==
    /\ Takes(s, "REQUEST")
    /\ LET p == Head(up[s]).path
       IN  \/ /\ Succeeds(IsFile(served, p))
              /\ Reply(s, File(p, served[p]), "loop")
              /\ UNCHANGED refused
           \/ Fails(~ IsFile(served, p)) /\ Refuse(s)
    /\ UNCHANGED <<trees, client, ssnap, sjob>>

\* receiveFile
ReceiveFile(s) ==
    /\ Takes(s, "FILE") /\ Begun(s)
    /\ LET p == Head(up[s]).path
           t == TryWithParents(served, p)
       IN  \/ /\ Succeeds(Writable(t, p))
              /\ served' = [t EXCEPT ![p] = Torn]
              /\ sjob' = [sjob EXCEPT ![s] = Head(up[s])]
              /\ SGoto(s, "writing")
              /\ UNCHANGED <<down, out, refused>>
           \/ /\ Fails(~ Writable(t, p)) /\ Refuse(s)
              /\ served' = t /\ UNCHANGED sjob
    /\ UNCHANGED <<local, temp, client, ssnap>>

FinishFile(s) ==
    /\ spc[s] = "writing"
    /\ \/ /\ served' \in Filled(served, sjob[s].path, sjob[s].data)
          /\ SGoto(s, "loop")
          /\ UNCHANGED <<down, out, refused, faults>>
       \/ Fault /\ Refuse(s) /\ UNCHANGED served
    /\ UNCHANGED <<local, temp, plan, applied, client, ssnap, sjob, up>>

\* deleteFile: a temporary file under "try?"; else removeItem and the pruning
\* of directories that have become empty
DeleteFile(s) ==
    /\ Takes(s, "DELETE") /\ Begun(s)
    /\ LET q == Head(up[s]).path
       IN  IF q \in TempPlace
           THEN /\ \/ temp' = [temp EXCEPT ![s][q] = Absent] /\ UNCHANGED faults
                   \/ Fault /\ UNCHANGED temp
                /\ UNCHANGED <<served, spc, down, out, refused>>
           ELSE /\ \/ /\ Succeeds(served[q] # Absent)
                      /\ served' = Pruned(Removed(served, q), q)
                      /\ UNCHANGED <<spc, down, out, refused>>
                   \/ Fails(served[q] = Absent) /\ Refuse(s) /\ UNCHANGED served
                /\ UNCHANGED temp
    /\ UNCHANGED <<local, client, ssnap, sjob>>

\* copyFile, up to the removal of the destination
ReceiveCopy(s) ==
    /\ Takes(s, "COPY") /\ Begun(s)
    /\ LET to == Head(up[s]).to
       IN  \/ /\ Succeeds(CanPrepareCopy(served, to))
              /\ served' = ReadyForCopy(served, to)
              /\ sjob' = [sjob EXCEPT ![s] = Head(up[s])]
              /\ SGoto(s, "copying")
              /\ UNCHANGED <<down, out, refused>>
           \/ /\ Fails(~ CanPrepareCopy(served, to)) /\ Refuse(s)
              /\ UNCHANGED <<served, sjob>>
    /\ UNCHANGED <<local, temp, client, ssnap>>

\* copyFile, copyItem
FinishCopy(s) ==
    /\ spc[s] = "copying"
    /\ LET from == sjob[s].from
           to == sjob[s].to
       IN  \/ /\ Succeeds(CanCopy(served, s, from, to))
              /\ IF to \in Path
                 THEN /\ served' \in ItemCopied(served, from, StoredAt(served, s, from), to)
                      /\ UNCHANGED temp
                 ELSE temp' = [temp EXCEPT ![s][to] = StoredAt(served, s, from)] /\ UNCHANGED served
              /\ SGoto(s, "loop")
              /\ UNCHANGED <<down, out, refused>>
           \/ /\ Fails(~ CanCopy(served, s, from, to)) /\ Refuse(s)
              /\ UNCHANGED <<served, temp>>
    /\ UNCHANGED <<local, plan, applied, client, ssnap, sjob, up>>

\* (mutant) the loop goes on after DONE
ReceiveLastAndGoOn(s) ==
    /\ spc[s] = "loop"
    /\ Offered(s) \notin {"nothing", "REQUEST", "FILE", "DELETE", "COPY"}
    /\ Taken(s)
    /\ Reply(s, Simple(IF Offered(s) = "DONE" THEN "DONE" ELSE "ERROR"), "loop")
    /\ UNCHANGED <<trees, client, ssnap, sjob, refused, faults>>

\* case .done, and the default case: ERROR to a type that has no place here
ReceiveLast(s) ==
    /\ spc[s] = "loop"
    /\ Offered(s) \notin {"nothing", "REQUEST", "FILE", "DELETE", "COPY"}
    /\ Taken(s)
    /\ Reply(s, Simple(IF Offered(s) = "DONE" THEN "DONE" ELSE "ERROR"), "closing")
    /\ UNCHANGED <<trees, client, ssnap, sjob, refused, faults>>

\* cleanupClient; closing with data unread resets the connection, and what the
\* client has not received yet may be lost
CloseConnection(s) ==
    /\ spc[s] = "closing"
    /\ SGoto(s, "closed")
    /\ up' = [up EXCEPT ![s] = <<>>]
    /\ \/ UNCHANGED down
       \/ up[s] # <<>> /\ down' = [down EXCEPT ![s] = <<>>]
    /\ UNCHANGED <<trees, client, ssnap, sjob, out, refused, faults>>

HandlerStep(s) ==
    \/ ReceiveHello(s) \/ ScanServed(s) \/ ExchangeMetadata(s) \/ ReceiveFails(s)
    \/ SendFile(s) \/ ReceiveFile(s) \/ FinishFile(s) \/ DeleteFile(s)
    \/ ReceiveCopy(s) \/ FinishCopy(s) \/ ReceiveLast(s)
    \/ ReplySent(s) \/ ReplyAbandoned(s) \/ CloseConnection(s)

\* The server process dies, and every handler with it, wherever it stands.
ServerCrash ==
    /\ Fault
    /\ \E s \in Session : Serving(s)
    /\ spc' = [s \in Session |-> IF Serving(s) THEN "closed" ELSE spc[s]]
    /\ \E lost \in SUBSET Session :
          down' = [s \in Session |-> IF s \in lost /\ Serving(s) THEN <<>> ELSE down[s]]
    /\ UNCHANGED <<trees, client, ssnap, sjob, out, refused, up>>

\* Every command has ended and every handler too.
Quiet ==
    /\ \A s \in Session : Ended(s) /\ ~ Serving(s)
    /\ UNCHANGED vars

Next ==
    \/ \E s \in Session : Connect(s) \/ ClientStep(s) \/ ClientDies(s) \/ HandlerStep(s)
    \/ ServerCrash
    \/ Quiet

\* Every thread is scheduled; commands need not be given.
Fairness == \A s \in Session : WF_vars(ClientStep(s)) /\ WF_vars(HandlerStep(s))

Spec == Init /\ [][Next]_vars
FairSpec == Spec /\ Fairness
-----------------------------------------------------------------------------
(* Types                                                                   *)

ClientPC == {"idle", "awaitOK", "scan", "awaitMetadata", "operations", "awaitFile", "writing",
             "copying", "awaitDone", "ok", "failed"}
HandlerPC == {"none", "hello", "scan", "metadata", "loop", "writing", "copying", "sending",
              "closing", "closed"}
TreesTyped ==
    /\ local \in [Client -> Tree] /\ served \in Tree
    /\ temp \in [Session -> [TempPlace -> Entry]]
    /\ plan \in [Session -> SUBSET Op]
    /\ applied \in [Session -> Nat]

ClientTyped ==
    /\ mode \in [Session -> {"push", "pull"}]
    /\ cpc \in [Session -> ClientPC]
    /\ csnap \in [Session -> Listing] /\ rsnap \in [Session -> Listing]
    /\ todo \in [Session -> SUBSET Op]
    /\ cjob \in [Session -> Op \cup FileMessage]
    /\ serverErrors \in [Session -> BOOLEAN]

ServerTyped ==
    /\ spc \in [Session -> HandlerPC]
    /\ ssnap \in [Session -> Listing]
    /\ sjob \in [Session -> UpMessage]
    /\ out \in [Session -> [message: DownMessage, next: {"scan", "loop", "closing"}]]
    /\ refused \in [Session -> BOOLEAN]

UpTyped ==
    /\ up \in [Session -> Seq(UpMessage)]
    /\ \A s \in Session : Len(up[s]) <= Window

DownTyped ==
    /\ down \in [Session -> Seq(DownMessage)]
    /\ \A s \in Session : \/ Len(down[s]) <= Window
                          \/ Len(down[s]) = Window + 1 /\ Broken(s) /\ spc[s] # "sending"

\* What is half done is of the kind that is done in halves.
JobsTyped ==
    \A s \in Session :
        /\ cpc[s] = "writing" => cjob[s] \in FileMessage
        /\ cpc[s] = "copying" => cjob[s] \in Op /\ cjob[s].act = "copy"
        /\ spc[s] = "writing" => sjob[s] \in FileMessage
        /\ spc[s] = "copying" => sjob[s].type = "COPY"

\* Every variable keeps to its type; a channel never holds more than the window
\* and a message cut short.
TypeOK ==
    /\ TreesTyped /\ ClientTyped /\ ServerTyped /\ UpTyped /\ DownTyped /\ JobsTyped
    /\ faults \in 0..MaxFaults

=============================================================================
