--------------------------- MODULE NetRefinement ---------------------------
(***************************************************************************)
(* One session of NetSession implements SequentialSync: the channels, the  *)
(* pipelining of a push and the loss of what is in flight do not reorder,  *)
(* repeat or skip an operation, and success is only reported at the end.   *)
(***************************************************************************)
EXTENDS NetProperties

\* The operation of session s that is half done.
HalfDone(s) ==
    IF mode[s] = "push"
    THEN CASE spc[s] = "writing" -> {o \in plan[s] : o.act = "transfer" /\ o.to = sjob[s].path}
           [] spc[s] = "copying" -> {o \in plan[s] : /\ o.act = "copy"
                                                     /\ o.from = sjob[s].from /\ o.to = sjob[s].to
                                                     /\ Cardinality({x \in plan[s] : x.ord < o.ord})
                                                        = applied[s] - 1}
           [] OTHER -> {}
    ELSE CASE cpc[s] = "writing" -> {o \in plan[s] : o.act = "transfer" /\ o.to = cjob[s].path}
           [] cpc[s] = "copying" -> {cjob[s]}
           [] OTHER -> {}

Outcome(s) ==
    CASE cpc[s] \in {"idle", "awaitOK", "scan", "awaitMetadata"} -> "planning"
      [] cpc[s] \in {"ok", "failed"} -> cpc[s]
      [] OTHER -> "running"

Pushing(s) == mode[s] = "push"
Refusal(s) == mode[s] = "push" /\ refused[s]
Goal(s)    == IF plan[s] = {} THEN NoListing ELSE SourceListing(s)

Sequential(s) ==
    INSTANCE SequentialSync WITH
        pushing <- Pushing(s),
        tree    <- Target(s),
        tmp     <- temp[s],
        goal    <- Goal(s),
        plan    <- plan[s],
        applied <- applied[s],
        doing   <- HalfDone(s),
        refused <- Refusal(s),
        outcome <- Outcome(s)

\* The network session carries out the plan as a single thread on the target's
\* machine would: in order, each operation at most once, and successfully only to
\* the end (executeTransfers and handleFileTransfers over the two channels).
ImplementsSequential == Sequential(1)!Init /\ [][Sequential(1)!Next]_(Sequential(1)!vars)
=============================================================================
