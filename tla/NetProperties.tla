--------------------------- MODULE NetProperties ---------------------------
(***************************************************************************)
(* What SyncClient.sync and SyncServer.processClient together get right,   *)
(* and what the documentation says of them that they do not.               *)
(***************************************************************************)
EXTENDS NetSession

\* A push that reports success had no operation refused by the server, although
\* the replies are not awaited, the channel can overflow and be cut off, and the
\* server drops replies it cannot send (SyncClient.sync, the loop before "Sync
\* complete!").
SuccessMeansApplied ==
    \A s \in Session : mode[s] = "push" /\ cpc[s] = "ok" => ~ refused[s]

Types(q) == {q[i].type : i \in 1..Len(q)}

\* executeTransfers has not begun.
Opening(s) == cpc[s] \in {"idle", "awaitOK", "scan", "awaitMetadata"}

\* Where a handler stands, and what is under way, while the client is at the
\* handshake.
HandshakeInStep(s) ==
    /\ spc[s] \in {"none", "hello", "scan", "metadata", "loop", "sending", "closing", "closed"}
    /\ cpc[s] = "idle" <=> spc[s] = "none"
    /\ spc[s] = "none" => up[s] = <<>> /\ down[s] = <<>>
    /\ spc[s] = "hello" => cpc[s] = "awaitOK" /\ Len(up[s]) = 1 /\ down[s] = <<>>
    /\ spc[s] \in {"scan", "metadata"} =>
          /\ cpc[s] = "awaitOK" => Len(down[s]) = 1 /\ up[s] = <<>>
          /\ cpc[s] = "scan" => down[s] = <<>> /\ up[s] = <<>>
          /\ cpc[s] = "awaitMetadata" => down[s] = <<>> /\ Len(up[s]) = 1
    /\ spc[s] = "loop" => cpc[s] = "awaitMetadata" /\ up[s] = <<>>
    /\ spc[s] = "sending" => out[s].message.type = "ERROR" /\ out[s].next = "closing"
    /\ "METADATA" \in Types(down[s]) =>
          /\ cpc[s] = "awaitMetadata" /\ Len(down[s]) = 1
          /\ spc[s] \in {"loop", "closing", "closed"}
    /\ ~ refused[s]

\* ... and in a push after it: the handler has nothing to say but that something
\* went wrong, and that it is done.
PushInStep(s) ==
    /\ cpc[s] \in {"operations", "awaitDone", "ok"}
    /\ spc[s] \in {"loop", "writing", "copying", "sending", "closing", "closed"}
    /\ Types(down[s]) \subseteq {"ERROR", "DONE", "FRAGMENT"}
    /\ spc[s] = "sending" => out[s].message.type \in {"ERROR", "DONE"} /\ out[s].next # "scan"

\* What is left of a refusal for the client to see.
Evidence(s) ==
    \/ serverErrors[s]
    \/ "ERROR" \in Types(down[s]) \/ "FRAGMENT" \in Types(down[s])
    \/ spc[s] = "sending" /\ out[s].message.type = "ERROR"
    \/ spc[s] = "closed" /\ "DONE" \notin Types(down[s])

DoneIsLast(q) == \A i \in 1..Len(q) : q[i].type = "DONE" => i = Len(q)

\* The DONE of a handler is the last thing it says.
LastWord(s) ==
    /\ DoneIsLast(down[s])
    /\ "DONE" \in Types(down[s]) => spc[s] \in {"closing", "closed"}
    /\ spc[s] = "sending" /\ out[s].message.type = "DONE" => out[s].next = "closing"
    /\ cpc[s] = "ok" => spc[s] \in {"closing", "closed"}

SessionInStep(s) ==
    /\ LastWord(s)
    /\ Opening(s) => HandshakeInStep(s)
    /\ mode[s] = "push" => /\ "REQUEST" \notin Types(up[s])
                           /\ ~ Opening(s) => PushInStep(s)
                           /\ refused[s] => cpc[s] # "ok" /\ Evidence(s)

\* The two ends of a connection agree on how far they are, although neither is
\* told: a handshake never meets an operation, nothing follows DONE, and while a
\* push runs no refusal is lost without a trace (the drain loop at the end of
\* SyncClient.sync relies on all of it).
InStep == \A s \in Session : cpc[s] # "failed" => SessionInStep(s)

\* What the session mirrors, and what it changes.
SourceListing(s) == IF mode[s] = "push" THEN csnap[s] ELSE rsnap[s]
TargetListing(s) == IF mode[s] = "push" THEN rsnap[s] ELSE csnap[s]
Target(s) == IF mode[s] = "push" THEN served ELSE local[Owner[s]]

\* t holds the files that src lists, as listed, and none that only dst lists (none that
\* src does not list, if no listing is short of any).
Mirrors(t, src, dst) ==
    \A p \in Path : IF src[p] # Absent THEN t[p] = src[p]
                    ELSE dst[p] # Absent \/ faults = 0 => ~ IsFile(t, p)

\* No other command has been given: what the session sees is its own doing.
Alone(s) == \A t \in Session \ {s} : cpc[t] = "idle"

\* Success without a refusal means that the target mirrors the listing of the
\* source, provided that no operation of the plan reads a file an earlier one
\* has overwritten (computeOperations, resolveCopyCycles, copyFile and copyLocal
\* together).  A deletion that fails is only noticed by a push.
MirrorUnlessOvertaken ==
    \A s \in Session :
        /\ Alone(s) /\ cpc[s] = "ok" /\ ~ refused[s]
        /\ mode[s] = "push" \/ faults = 0
        /\ Overtaken(SourceListing(s), plan[s]) = {}
        => Mirrors(Target(s), SourceListing(s), TargetListing(s))

\* A file both sides have with the same content is not touched, whatever fails
\* and wherever the session stops.
MatchingKept ==
    \A s \in Session : Alone(s) /\ plan[s] # {} =>
        \A p \in Path : csnap[s][p] = rsnap[s][p] /\ csnap[s][p] # Absent
                        => Target(s)[p] = csnap[s][p]

\* Files both sides have that the target has lost or holds half written.
Holes(s) == {p \in Path : /\ csnap[s][p] # Absent /\ rsnap[s][p] # Absent
                          /\ Target(s)[p] \in {Absent, Torn}}

InProgress(s) ==
    IF mode[s] = "push"
    THEN CASE spc[s] = "writing" -> {sjob[s].path}
           [] spc[s] = "copying" -> {sjob[s].to}
           [] OTHER -> {}
    ELSE CASE cpc[s] = "writing" -> {cjob[s].path}
           [] cpc[s] = "copying" -> {cjob[s].to}
           [] OTHER -> {}

Interrupted(s) == IF mode[s] = "push" THEN spc[s] = "closed" /\ cpc[s] # "ok"
                  ELSE cpc[s] = "failed"

\* An interrupted session (crash of either process, broken connection, full disk)
\* costs the target at most the one file that was being replaced, as long as the
\* server has refused nothing: only the operation in progress has a hole open
\* (removeItem before copyItem, write without .atomic).
OneHoleAtMost ==
    \A s \in Session : Alone(s) /\ plan[s] # {} /\ ~ refused[s] =>
        IF Interrupted(s) THEN Cardinality(Holes(s)) <= 1
        ELSE Holes(s) \subseteq InProgress(s)

\* A command given ends, and so does the handler behind it, in spite of the
\* pipelined operations and the replies nobody reads meanwhile (the client blocked
\* on a full channel, the handler on the other).
EveryCommandEnds == \A s \in Session : Active(s) ~> Ended(s) /\ ~ Serving(s)

\* The paths a session's plan reads or writes on the target.
Touched(s) == {p \in Path : \E o \in plan[s] : p \in {o.from, o.to}}

\* Pushes that run at the same time and touch different files do not disturb each
\* other, though all handlers share the served tree and the temporary directory and
\* none takes a lock: no operation is refused, and each gets its own files across.
DisjointPushesMirror ==
    faults = 0 /\ (\A s, t \in Session : s # t => Touched(s) \cap Touched(t) = {}) =>
        \A s \in Session :
            /\ ~ refused[s] /\ cpc[s] # "failed"
            /\ cpc[s] = "ok" /\ Overtaken(csnap[s], plan[s]) = {}
               => \A p \in Touched(s) : served[p] = csnap[s][p]

\* A copy is planned of a file whose name, on the target, is the name of a directory
\* with files in it: the transfer before it is refused, and it is the directory that
\* is copied.
CopiesDirectory(s) ==
    \E o \in plan[s] : /\ o.act = "copy" /\ o.from \in Path
                       /\ \E p \in Below(o.from) : TargetListing(s)[p] # Absent

\* Where nothing breaks, a command that fails has made enough room for the next
\* one of the same client to succeed: a name that turns from a directory into a
\* file, or back, takes two commands (executeTransfers puts deletions last); it takes
\* a third only if the first has copied a directory.
RetrySucceeds ==
    \A s \in Session : cpc[s] = "failed" /\ faults = 0 =>
        \A t \in Session : t < s /\ Owner[t] = Owner[s] =>
            /\ CopiesDirectory(t)
            /\ \A u \in Session : u < t => Owner[u] # Owner[s]

=============================================================================
