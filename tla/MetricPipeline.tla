---------------------------- MODULE MetricPipeline ----------------------------
(***************************************************************************)
(* The export of metrics (observability/metric-pipeline.ts): one           *)
(* collection in flight, one pending, and the losses of the log pipeline   *)
(* copied into a counter of the metrics at every collection.               *)
(***************************************************************************)
EXTENDS Naturals

CONSTANT MaxLosses     \* bound on the losses of the log pipeline

VARIABLES
    losses,     \* what the log pipeline reports as dropped
    op,         \* the collection: where it is, its signal, the total it carries
    pending,    \* a collection was asked for
    ctl,        \* the pipeline's controller is aborted
    life,       \* "up", "closing" or "stopped"
    mflush,     \* flush(deadline): "no", "open" or "done"
    seen,       \* previousLogLosses
    counted,    \* the counter of lost log records
    shown,      \* its value in the last export that was acknowledged
    failures    \* exports that failed (up to a bound: dropped is only reported)

metricVars == <<losses, op, pending, ctl, life, mflush, seen, counted, shown, failures>>

Resting == [pc |-> "idle", aborted |-> FALSE, carries |-> 0]

MetricInit ==
    /\ losses = 0 /\ op = Resting /\ pending = FALSE /\ ctl = FALSE /\ life = "up" /\ mflush = "no"
    /\ seen = 0 /\ counted = 0 /\ shown = 0 /\ failures = FALSE

(* collect(): at once if nothing runs, after the collection that does.      *)
Asked == pending' = TRUE /\ op' = IF op.pc = "idle" THEN [op EXCEPT !.pc = "top"] ELSE op

Tick ==
    /\ life = "up" /\ ~pending /\ Asked
    /\ UNCHANGED <<losses, ctl, life, mflush, seen, counted, shown, failures>>

CopyLosses == counted' = counted + (losses - seen) /\ seen' = losses

Collect ==
    /\ op.pc = "top"
    /\ UNCHANGED <<losses, ctl, life, mflush, shown>>
    /\ IF ~pending \/ life = "stopped"
       THEN op' = Resting /\ UNCHANGED <<pending, seen, counted, failures>>
       ELSE /\ pending' = FALSE /\ CopyLosses
            /\ \/ /\ op' = [pc |-> "export", aborted |-> ctl, carries |-> counted']
                  /\ UNCHANGED failures
               \/ op' = op /\ failures' = TRUE        \* the collection fails

Exported(ok) ==
    /\ op.pc = "export" /\ (ok => ~op.aborted)
    /\ op' = [op EXCEPT !.pc = "top"]
    /\ shown' = IF ok THEN op.carries ELSE shown
    /\ failures' = (failures \/ ~ok)
    /\ UNCHANGED <<losses, pending, ctl, life, mflush, seen, counted>>

(* shutdown(deadline): a last collection, under the deadline.               *)
Shutdown ==
    /\ life = "up" /\ Asked
    /\ life' = "closing" /\ mflush' = "open"
    /\ UNCHANGED <<losses, ctl, seen, counted, shown, failures>>

FlushExpires ==
    /\ mflush = "open" /\ ~ctl /\ op.pc # "top"
    /\ pending' = FALSE /\ ctl' = TRUE
    /\ op' = [op EXCEPT !.aborted = op.pc = "export"]
    /\ UNCHANGED <<losses, life, mflush, seen, counted, shown, failures>>

(* The collection flush waited for is over; shutdown then stops.            *)
FlushEnds ==
    /\ mflush = "open" /\ op.pc = "idle"
    /\ mflush' = "done" /\ life' = "stopped" /\ ctl' = TRUE /\ pending' = FALSE
    /\ UNCHANGED <<losses, op, seen, counted, shown, failures>>

(* logs.status() as the log pipeline goes on losing records.                *)
LogsLose ==
    /\ losses < MaxLosses /\ losses' = losses + 1
    /\ UNCHANGED <<op, pending, ctl, life, mflush, seen, counted, shown, failures>>

MetricNext ==
    \/ LogsLose \/ Tick \/ Collect \/ Shutdown \/ FlushExpires \/ FlushEnds
    \/ \E ok \in BOOLEAN : Exported(ok)

-----------------------------------------------------------------------------

(* The counter of lost log records that the metrics publish never runs      *)
(* ahead of the losses, however collections overlap, fail or are repeated.  *)
LossesCountedOnce == shown <= counted /\ counted <= losses
==============================================================================
