----------------------------- MODULE LogPipeline -----------------------------
(***************************************************************************)
(* The export of log records (orchestrator/src/observability):             *)
(* BoundedLogProcessor with its queue, its single drain and its flush with *)
(* a deadline, and exportBatch, the one owner of retries.  The collector   *)
(* and the network are the environment: a request may arrive late, after   *)
(* the pipeline has given it up, or never.                                 *)
(*                                                                         *)
(* Records are counted, not weighed: the byte limits act as the two below. *)
(***************************************************************************)
EXTENDS Naturals, Sequences, FiniteSets, FiniteSetsExt, SequencesExt

CONSTANTS
    Events,
    QueueLimit,     \* 2048 records, those of the batch in flight included
    BatchLimit,     \* 256 records
    MaxAttempts     \* 3

(* Assumed of the constants, by the modules that check this one.            *)
PipelineAssumption ==
    /\ IsFiniteSet(Events)
    /\ QueueLimit \in Nat \ {0} /\ BatchLimit \in Nat \ {0} /\ MaxAttempts \in Nat \ {0}

VARIABLES
    queue,      \* records waiting, in the order they were offered
    records,    \* the reserved places
    batch,      \* the batch in flight: its records, and whether it was released
    drain,      \* the drain: where it is, its attempt, its signal, the answers it has
    stopped,    \* no more records are taken
    flush,      \* close's flush(deadline): "no", "open" or "done"
    lost,       \* losses by reason
    transit,    \* requests on their way to the collector
    collector,  \* records the collector accepted
    fate        \* history: what became of each record

logVars == <<queue, records, batch, drain, stopped, flush, lost, transit, collector, fate>>

Reasons == {"queue_full", "timeout", "permanent", "shutdown", "mapping", "partial"}
NoBatch == [of |-> {}, released |-> TRUE]
Idle == [pc |-> "idle", attempt |-> 0, aborted |-> FALSE, answer |-> {}]

LogInit ==
    /\ queue = <<>> /\ records = 0 /\ batch = NoBatch /\ drain = Idle
    /\ stopped = FALSE /\ flush = "no"
    /\ lost = [r \in Reasons |-> 0]
    /\ transit = {} /\ collector = {}
    /\ fate = [e \in Events |-> "new"]

-----------------------------------------------------------------------------

(* drain(): one at a time; it starts after the caller's own stack.          *)
Started(d) == IF d.pc = "idle" THEN [d EXCEPT !.pc = "top"] ELSE d

Lose(es, reason) ==
    /\ lost' = [lost EXCEPT ![reason] = @ + Cardinality(es)]
    /\ fate' = [e \in Events |-> IF e \in es THEN reason ELSE fate[e]]

Full == records >= QueueLimit

(* offerEvent and onEmit.  The projection of an event may fail.             *)
Offer(e) ==
    /\ UNCHANGED <<batch, stopped, flush, transit, collector>>
    /\ \/ /\ stopped
          /\ UNCHANGED <<queue, records, drain, lost, fate>>
       \/ /\ ~stopped
          /\ \/ Lose({e}, "mapping")
             \/ Full /\ Lose({e}, "queue_full")
          /\ UNCHANGED <<queue, records, drain>>
       \/ /\ ~stopped /\ ~Full
          /\ queue' = Append(queue, e) /\ records' = records + 1
          /\ fate' = [fate EXCEPT ![e] = "queued"]
          /\ drain' = IF Len(queue') >= BatchLimit THEN Started(drain) ELSE drain
          /\ UNCHANGED lost

Interval ==
    /\ ~stopped /\ drain.pc = "idle" /\ queue # <<>>
    /\ drain' = Started(drain)
    /\ UNCHANGED <<queue, records, batch, stopped, flush, lost, transit, collector, fate>>

(* The head of drain's loop, up to the first attempt to send.               *)
NextBatch ==
    /\ drain.pc = "top"
    /\ IF queue = <<>> \/ drain.aborted
       THEN drain' = Idle /\ UNCHANGED <<queue, batch, transit>>
       ELSE LET n == Min({BatchLimit, Len(queue)}) IN
            /\ batch' = [of |-> ToSet(SubSeq(queue, 1, n)), released |-> FALSE]
            /\ queue' = SubSeq(queue, n + 1, Len(queue))
            /\ transit' = transit \union {batch'.of}
            /\ drain' = [drain EXCEPT !.pc = "wait", !.attempt = 1, !.answer = {}]
    /\ UNCHANGED <<records, stopped, flush, lost, collector, fate>>

(* release: what became of the records of the batch is counted once.  Slip: *)
(* a batch the deadline already gave up is counted again.                   *)
ReleaseAgain(reason, es) ==
    /\ records' = IF records < Cardinality(batch.of) THEN 0 ELSE records - Cardinality(batch.of)
    /\ lost' = IF reason = "acked" THEN lost
               ELSE [lost EXCEPT ![reason] = @ + Cardinality(es)]
    /\ fate' = [e \in Events |-> IF e \in es THEN reason
                                 ELSE IF e \in batch.of THEN "acked" ELSE fate[e]]

Release(reason, es) ==
    IF batch.released THEN UNCHANGED <<records, lost, fate>>
    ELSE /\ records' = records - Cardinality(batch.of)
         /\ lost' = IF reason = "acked" THEN lost
                    ELSE [lost EXCEPT ![reason] = @ + Cardinality(es)]
         /\ fate' = [e \in Events |-> IF e \in es THEN reason
                                      ELSE IF e \in batch.of THEN "acked" ELSE fate[e]]

(* exportBatch returns, and the loop goes round.                            *)
Returns(reason, es) ==
    /\ Release(reason, es)
    /\ batch' = NoBatch /\ drain' = [drain EXCEPT !.pc = "top"]
    /\ UNCHANGED <<queue, stopped, flush, transit, collector>>

(* The collector receives a request, refuses some of its records, and       *)
(* answers whoever still waits for it.                                      *)
Arrive(b) ==
    /\ b \in transit
    /\ transit' = transit \ {b}
    /\ \E refused \in SUBSET b :
          /\ collector' = collector \union (b \ refused)
          /\ drain' = IF drain.pc = "wait" /\ b = batch.of
                      THEN [drain EXCEPT !.answer = {refused}] ELSE drain
    /\ UNCHANGED <<queue, records, batch, stopped, flush, lost, fate>>

(* 200: accepted, or accepted in part.                                      *)
Accepted ==
    /\ drain.pc = "wait" /\ ~drain.aborted
    /\ \E refused \in drain.answer :
           Returns(IF refused = {} THEN "acked" ELSE "partial", refused)

(* Any other answer that is not worth a retry, or one that makes no sense.  *)
Refused ==
    /\ drain.pc = "wait" /\ ~drain.aborted
    /\ Returns("permanent", batch.of)

(* No answer in time, or 429, 502, 503, 504: wait and try again.            *)
Transient ==
    /\ drain.pc = "wait" /\ ~drain.aborted /\ drain.attempt < MaxAttempts
    /\ drain' = [drain EXCEPT !.pc = "backoff", !.answer = {}]
    /\ UNCHANGED <<queue, records, batch, stopped, flush, lost, transit, collector, fate>>

Retry ==
    /\ drain.pc = "backoff" /\ ~drain.aborted
    /\ transit' = transit \union {batch.of}
    /\ drain' = [drain EXCEPT !.pc = "wait", !.attempt = @ + 1]
    /\ UNCHANGED <<queue, records, batch, stopped, flush, lost, collector, fate>>

(* The last attempt fails, or the ten seconds of the batch are over.        *)
GiveUp ==
    /\ drain.pc \in {"wait", "backoff"} /\ ~drain.aborted
    /\ Returns("timeout", batch.of)

(* The signal is aborted under a request or a backoff.                      *)
Aborted ==
    /\ drain.pc \in {"wait", "backoff"} /\ drain.aborted
    /\ Returns("shutdown", batch.of)

(* close(deadline), which flushes.                                          *)
Close ==
    /\ ~stopped
    /\ stopped' = TRUE /\ flush' = "open" /\ drain' = Started(drain)
    /\ UNCHANGED <<queue, records, batch, lost, transit, collector, fate>>

FlushTurns ==
    /\ flush = "open" /\ drain.pc = "idle"
    /\ IF queue = <<>> THEN flush' = "done" /\ UNCHANGED drain
                       ELSE drain' = Started(drain) /\ UNCHANGED flush
    /\ UNCHANGED <<queue, records, batch, stopped, lost, transit, collector, fate>>

(* The deadline: what waits and what is in flight is given up.  A timer     *)
(* never runs while the drain is between two awaits.                        *)
Expire ==
    /\ flush = "open" /\ drain.pc # "top"
    /\ flush' = "done"
    /\ drain' = [drain EXCEPT !.aborted = @ \/ drain.pc # "idle"]
    /\ Lose(ToSet(queue) \union IF batch.released THEN {} ELSE batch.of, "shutdown")
    /\ batch' = [batch EXCEPT !.released = TRUE]
    /\ queue' = <<>> /\ records' = 0
    /\ UNCHANGED <<stopped, transit, collector>>

(* The process exits: requests on the wire may still arrive.                *)
LogsGone ==
    /\ queue' = <<>> /\ records' = 0 /\ batch' = NoBatch /\ drain' = Idle
    /\ stopped' = TRUE /\ flush' = "done"
    /\ fate' = [e \in Events |-> IF fate[e] = "queued" THEN "gone" ELSE fate[e]]
    /\ UNCHANGED <<lost, transit, collector>>

ExportSteps ==
    \/ NextBatch \/ Accepted \/ Refused \/ Transient \/ Retry \/ GiveUp \/ Aborted \/ FlushTurns

LogNext ==
    \/ \E e \in Events : fate[e] = "new" /\ Offer(e)
    \/ ExportSteps \/ Interval \/ Close \/ Expire
    \/ \E b \in transit : Arrive(b)

(* The timers fire and the pipeline's own steps run; nothing is assumed of  *)
(* the collector or of the callers.                                         *)
LogFairness == WF_logVars(ExportSteps) /\ WF_logVars(Interval)

-----------------------------------------------------------------------------

LogTypeOK ==
    /\ queue \in BoundedSeq(Events, QueueLimit) /\ records \in 0..QueueLimit
    /\ batch.of \subseteq Events /\ batch.released \in BOOLEAN
    /\ drain.pc \in {"idle", "top", "wait", "backoff"}
    /\ stopped \in BOOLEAN /\ flush \in {"no", "open", "done"}
    /\ lost \in [Reasons -> Nat] /\ collector \subseteq Events

InFlight == IF batch.released THEN {} ELSE batch.of

(* Whatever the collector does, the records that wait leave the queue: they *)
(* are sent, or counted as lost.                                            *)
BacklogDrains == []<>(queue = <<>>)

(* Every record that was offered is waiting, in flight, acknowledged, or    *)
(* counted as lost for one reason: none vanishes and none is counted twice, *)
(* whatever the deadline, a late answer and the retries do.                 *)
LossesAreExact ==
    /\ records = Len(queue) + Cardinality(InFlight)
    /\ \A r \in Reasons : lost[r] = Cardinality({e \in Events : fate[e] = r})
    /\ \A e \in Events : fate[e] = "queued" <=> e \in ToSet(queue) \union InFlight
==============================================================================
