----------------------------- MODULE TraceExport -----------------------------
(***************************************************************************)
(* The Langfuse exporter: Export puts observations into a bounded channel, *)
(* a flush loop and callers of Flush drain it in batches and send them,    *)
(* each with three attempts, and Close stops the loop and waits for it.    *)
(* Of an observation, what is converted is here: identifiers, type,        *)
(* latency, prompts, level; the fields that are copied are not.            *)
(***************************************************************************)
EXTENDS Integers, FiniteSets, Sequences, SequencesExt

CONSTANTS
    Span,           \* spans, each exported at most once
    Observation,    \* [Span -> observation]: [trace, parent, type, latency, start, end, input, output, failed, level]
    FlushLoop,      \* the goroutines of runFlushLoop, one for each Start
    FlushCaller,    \* callers of Flush
    BatchSize,      \* observations of one request
    ExporterConfig, \* settings: [enabled, keys, hash, prompts, size]
    DefaultSize,    \* the capacity of the channel when none is configured
    MaxExportEvents \* bound of the model: ticks, calls of Flush and cancellations in all

NoSpan == "no span"  \* the empty identifier

ASSUME ExportAssumption ==
    /\ BatchSize \in Nat \ {0} /\ MaxExportEvents \in Nat /\ DefaultSize \in Nat \ {0}
    /\ \A setting \in ExporterConfig : setting.size \in Int
    /\ NoSpan \notin Span /\ \A o \in Span : Observation[o].parent \in Span \cup {NoSpan}
    /\ FlushLoop \cap FlushCaller = {}

VARIABLES
    exportConfig, \* the setting
    channel,      \* the queue
    exported,     \* spans Export was called with
    turnedAway,   \* spans that found the exporter off or the channel full
    exporter,     \* [running, stopped, awaited, closed, panicked]: Close closes stopped
    sender,       \* loops and callers: [pc, all, batch, attempt, canceled]
    received,     \* the observations the service stored
    givenUp,      \* spans whose batch was abandoned
    events        \* ticks, calls of Flush and cancellations so far

exportVars == <<exportConfig, channel, exported, turnedAway, exporter, sender, received, givenUp, events>>

-----------------------------------------------------------------------------
FlushSender == FlushLoop \cup FlushCaller

MaxAttempts == 3

RestingSender == [pc |-> "rest", all |-> FALSE, batch |-> << >>, attempt |-> 0, canceled |-> FALSE]

ExportInit ==
    /\ exportConfig \in ExporterConfig
    /\ channel = << >>
    /\ exported = {}
    /\ turnedAway = {}
    /\ exporter = [running |-> FALSE, stopped |-> FALSE, awaited |-> {}, closed |-> FALSE, panicked |-> FALSE]
    /\ sender = [s \in FlushSender |-> RestingSender]
    /\ received = {}
    /\ givenUp = {}
    /\ events = 0

\* NewLangfuseExporter replaces a size that is not positive.
QueueSize == IF exportConfig.size <= 0 THEN DefaultSize ELSE exportConfig.size

Accepts == exportConfig.enabled /\ exportConfig.keys /\ Len(channel) < QueueSize

\* An exporter that is off, or without its keys, and a full channel drop the
\* observation without an error.
Export(o) ==
    /\ o \notin exported
    /\ exported' = exported \cup {o}
    /\ IF Accepts
       THEN channel' = Append(channel, o) /\ UNCHANGED turnedAway
       ELSE turnedAway' = turnedAway \cup {o} /\ UNCHANGED channel
    /\ UNCHANGED <<exportConfig, exporter, sender, received, givenUp, events>>

\* Start of an exporter that is not running, also of one that was closed.  The
\* loop is added to the wait group after the mutex was released.
Start(l) ==
    /\ ~exporter.running /\ sender[l].pc = "rest"
    /\ exporter' = [exporter EXCEPT !.running = TRUE]
    /\ sender' = [sender EXCEPT ![l].pc = "starting"]
    /\ UNCHANGED <<exportConfig, channel, exported, turnedAway, received, givenUp, events>>

LoopBegins(l) ==
    /\ sender[l].pc = "starting"
    /\ sender' = [sender EXCEPT ![l].pc = "wait"]
    /\ UNCHANGED <<exportConfig, channel, exported, turnedAway, exporter, received, givenUp, events>>

Drains(s, all) == sender' = [sender EXCEPT ![s] = [@ EXCEPT !.pc = "drain", !.all = all, !.batch = << >>]]

CountsEvent == events < MaxExportEvents /\ events' = events + 1

Tick(l) ==
    /\ sender[l].pc = "wait" /\ CountsEvent
    /\ Drains(l, FALSE)
    /\ UNCHANGED <<exportConfig, channel, exported, turnedAway, exporter, received, givenUp>>

\* flushAll when the exporter is closed or the context of the loop is done.
LoopStops(l) ==
    /\ sender[l].pc = "wait" /\ (exporter.stopped \/ sender[l].canceled)
    /\ Drains(l, TRUE)
    /\ UNCHANGED <<exportConfig, channel, exported, turnedAway, exporter, received, givenUp, events>>

Flush(s) ==
    /\ sender[s].pc = "rest" /\ CountsEvent
    /\ Drains(s, FALSE)
    /\ UNCHANGED <<exportConfig, channel, exported, turnedAway, exporter, received, givenUp>>

\* The context of a sender is canceled.
CancelSender(s) ==
    /\ ~sender[s].canceled /\ sender[s].pc \notin {"rest", "over"} /\ CountsEvent
    /\ sender' = [sender EXCEPT ![s].canceled = TRUE]
    /\ UNCHANGED <<exportConfig, channel, exported, turnedAway, exporter, received, givenUp>>

-----------------------------------------------------------------------------
Takes(s) == channel # << >> /\ Len(sender[s].batch) < BatchSize

\* drainBatch receives one observation at a time, beside other senders.
DrainOne(s) ==
    /\ sender[s].pc = "drain" /\ Takes(s)
    /\ channel' = Tail(channel)
    /\ sender' = [sender EXCEPT ![s].batch = Append(@, Head(channel))]
    /\ UNCHANGED <<exportConfig, exported, turnedAway, exporter, received, givenUp, events>>

\* Mutant: one batch is all that is sent at the end.
AfterBatchOver(s) ==
    IF s \in FlushCaller THEN RestingSender
    ELSE [sender[s] EXCEPT !.pc = IF sender[s].all THEN "over" ELSE "wait", !.batch = << >>]

\* After a batch: flushAll drains again, flushBatch returns.
AfterBatch(s) ==
    IF s \in FlushCaller THEN RestingSender
    ELSE [sender[s] EXCEPT !.pc = IF sender[s].all THEN "drain" ELSE "wait", !.batch = << >>]

GivesUp(s) == givenUp' = givenUp \cup ToSet(sender[s].batch)

\* The batch is full or the channel was found empty: there is nothing to
\* send, the first attempt follows, or the batch cannot be encoded.
BatchReady(s) ==
    /\ sender[s].pc = "drain" /\ ~Takes(s)
    /\ IF sender[s].batch = << >>
       THEN /\ sender' = [sender EXCEPT ![s] = IF @.all THEN [@ EXCEPT !.pc = "over"] ELSE AfterBatch(s)]
            /\ UNCHANGED givenUp
       ELSE \/ sender' = [sender EXCEPT ![s] = [@ EXCEPT !.pc = "send", !.attempt = 1]] /\ UNCHANGED givenUp
            \/ sender' = [sender EXCEPT ![s] = AfterBatch(s)] /\ GivesUp(s)
    /\ UNCHANGED <<exportConfig, channel, exported, turnedAway, exporter, received, events>>

\* Identifiers are sequences: a root has the empty one for a parent.
hashString(id) == IF id = << >> THEN << >> ELSE <<"hash">> \o id

Parent(o) == IF Observation[o].parent = NoSpan THEN << >> ELSE <<Observation[o].parent>>

Identifier(id) == IF exportConfig.hash THEN hashString(id) ELSE id

mapObservation(o) ==
    LET obs == Observation[o]
    IN  [id      |-> Identifier(<<o>>),
         parent  |-> Identifier(Parent(o)),
         trace   |-> Identifier(<<obs.trace>>),
         type    |-> CASE obs.type = "generation" -> "GENERATION"
                       [] obs.type = "event" -> "EVENT"
                       [] OTHER -> "SPAN",
         latency |-> IF obs.latency = 0 /\ obs.start # 0 /\ obs.end # 0 THEN obs.end - obs.start ELSE obs.latency,
         input   |-> IF exportConfig.prompts THEN obs.input ELSE << >>,
         output  |-> IF exportConfig.prompts THEN obs.output ELSE << >>,
         level   |-> IF obs.failed THEN "ERROR" ELSE obs.level]

Delivered(s) == received \cup {mapObservation(o) : o \in ToSet(sender[s].batch)}

\* sendRequest: the answer arrives, the request fails, or its answer is lost.
SendRequest(s) ==
    /\ sender[s].pc = "send"
    /\ \/ /\ ~sender[s].canceled
          /\ received' = Delivered(s)
          /\ sender' = [sender EXCEPT ![s] = AfterBatch(s)]
          /\ UNCHANGED givenUp
       \/ /\ received' \in {received} \cup (IF sender[s].canceled THEN {} ELSE {Delivered(s)})
          /\ IF sender[s].attempt < MaxAttempts
             THEN sender' = [sender EXCEPT ![s].pc = "backoff"] /\ UNCHANGED givenUp
             ELSE sender' = [sender EXCEPT ![s] = AfterBatch(s)] /\ GivesUp(s)
    /\ UNCHANGED <<exportConfig, channel, exported, turnedAway, exporter, events>>

\* The pause between two attempts; a canceled context may end it for good.
SendBackoff(s) ==
    /\ sender[s].pc = "backoff"
    /\ \/ sender' = [sender EXCEPT ![s] = [@ EXCEPT !.pc = "send", !.attempt = sender[s].attempt + 1]] /\ UNCHANGED givenUp
       \/ sender[s].canceled /\ sender' = [sender EXCEPT ![s] = AfterBatch(s)] /\ GivesUp(s)
    /\ UNCHANGED <<exportConfig, channel, exported, turnedAway, exporter, received, events>>

-----------------------------------------------------------------------------
\* What Close waits for: what is queued, unless a Start has not yet added its
\* loop to the wait group.
Awaited == IF \E l \in FlushLoop : sender[l].pc = "starting" THEN {} ELSE ToSet(channel)

\* Close of a running exporter.  A closed one that was started again closes
\* its channel a second time, which panics.
Close ==
    /\ exporter.running
    /\ exporter' = IF exporter.stopped THEN [exporter EXCEPT !.running = FALSE, !.panicked = TRUE]
                   ELSE [exporter EXCEPT !.running = FALSE, !.stopped = TRUE, !.awaited = Awaited]
    /\ UNCHANGED <<exportConfig, channel, exported, turnedAway, sender, received, givenUp, events>>

\* Its return after wg.Wait.
CloseReturns ==
    /\ exporter.stopped /\ ~exporter.closed
    /\ \A l \in FlushLoop : sender[l].pc \in {"rest", "starting", "over"}
    /\ exporter' = [exporter EXCEPT !.closed = TRUE]
    /\ UNCHANGED <<exportConfig, channel, exported, turnedAway, sender, received, givenUp, events>>

ExportNext ==
    /\ ~exporter.panicked
    /\ \/ \E o \in Span : Export(o)
       \/ Close \/ CloseReturns
       \/ \E l \in FlushLoop : Start(l) \/ LoopBegins(l) \/ Tick(l) \/ LoopStops(l)
       \/ \E s \in FlushCaller : Flush(s)
       \/ \E s \in FlushSender : CancelSender(s) \/ DrainOne(s) \/ BatchReady(s) \/ SendRequest(s) \/ SendBackoff(s)

ExportSpec == ExportInit /\ [][ExportNext]_exportVars

-----------------------------------------------------------------------------
InBatch == UNION {ToSet(sender[s].batch) : s \in FlushSender}

ReceivedIds == {obs.id : obs \in received}

\* When Close returns, everything the channel held when it was called has been
\* taken out of it, over as many batches as that takes, whoever drains beside
\* the loop and also when the exporter is being started again, unless the
\* context of a loop was canceled (runFlushLoop, flushAll).
ClosedIsDrained ==
    exporter.closed /\ (\A l \in FlushLoop : ~sender[l].canceled) => exporter.awaited \cap ToSet(channel) = {}

\* Whoever drains beside whom: an observation Export accepted is in the
\* channel, in the batch of a sender, stored by the service, or was abandoned
\* after three attempts, a canceled context or with a batch that could not be
\* encoded (drainBatch, sendBatch).
NothingVanishes ==
    \A o \in exported \ turnedAway :
        o \in ToSet(channel) \cup InBatch \cup givenUp \/ mapObservation(o).id \in ReceivedIds

\* What the service stored hangs together as the spans did: the parent of an
\* observation is the id under which that parent is stored, with hashed
\* identifiers as without, however they were batched; and neither prompt nor
\* answer is sent by an exporter that does not record them (mapObservation).
TreeIsKept ==
    \A obs \in received :
        \E o \in exported \ turnedAway :
            /\ obs.id = mapObservation(o).id
            /\ obs.parent = IF Observation[o].parent = NoSpan THEN << >>
                            ELSE mapObservation(Observation[o].parent).id
            /\ obs.input # << >> \/ obs.output # << >> => exportConfig.prompts

\* Every observation is accounted for until Close returns, and what arrives
\* hangs together (Export, Flush, runFlushLoop, Close).
ExportIsAccounted == ClosedIsDrained /\ NothingVanishes /\ TreeIsKept
=============================================================================
