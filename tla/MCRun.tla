------------------------------- MODULE MCRun -------------------------------
(***************************************************************************)
(* The session of a worker and what is kept and published of its run,      *)
(* model-checked part by part: the session, a state file, the trail of the *)
(* run's events up to the collector, the log pipeline with more records    *)
(* than the trail has, the metric pipeline, the sessions of a Claude       *)
(* agent, and the readers of the state directory.  A behaviour is a        *)
(* behaviour of one part; the others rest.                                 *)
(***************************************************************************)
EXTENDS Naturals, Sequences

CONSTANTS
    Saves, Migrations,              \* StateFile
    RunEvents, TrailLimit,          \* EventTrail: its events, its queue
    Records, QueueLimit, BatchLimit, MaxAttempts,     \* LogPipeline
    MaxLosses,                      \* MetricPipeline
    MaxTurns, MaxMisses, MaxIdle,   \* WorkerSession
    MaxSpawns, MaxRuns, Strict, NoSession,            \* ClaudeRuntime
    MaxSaves, MaxLines              \* StateReaders

VARIABLES
    part,
    dir, stage, whole, firm, order, disk,
    folder, append, file, short, synced, entry, up,
    queue, records, batch, drain, stopped, flush, lost, transit, collector, fate,
    losses, op, pending, ctl, life, mflush, seen, counted, shown, failures,
    route, pc, turn, misses, idle, caught, p, child, stop, exit, world, hist,
    run, files, fresh, known, place, prepared, mcp, process, reader, result, terminal,
    subscribed, news, told, dropped, cancelled, spawns,
    now, record, current, log, asked

File == INSTANCE StateFile
Trail == INSTANCE EventTrail WITH Events <- RunEvents, QueueLimit <- TrailLimit, BatchLimit <- 1
Logs == INSTANCE LogPipeline WITH Events <- Records
Metrics == INSTANCE MetricPipeline
Worker == INSTANCE WorkerSession
Claude == INSTANCE ClaudeRuntime WITH pc <- place, child <- process, stopped <- cancelled
Readers == INSTANCE StateReaders WITH Runs <- {"older", "newer", "foreign"},
    Spaces <- {"space"}, Legacy <- {"older", "space"}, Foreign <- {"foreign"}, NoRun <- "none",
    Chunk <- 2, MaxScan <- 5, MaxLine <- 3

ASSUME RunAssumption ==
    File!StateFileAssumption /\ Trail!PipelineAssumption /\ Logs!PipelineAssumption
    /\ Worker!SessionAssumption /\ Claude!ClaudeAssumption /\ Readers!ReadersAssumption

fileVars == <<dir, stage, whole, firm, order, disk>>
trailOnly == <<folder, append, file, short, synced, entry, up>>
logVars == <<queue, records, batch, drain, stopped, flush, lost, transit, collector, fate>>
metricVars == <<losses, op, pending, ctl, life, mflush, seen, counted, shown, failures>>
storeVars == <<fileVars, trailOnly, logVars, metricVars>>
workerVars == <<route, pc, turn, misses, idle, caught, p, child, stop, exit, world, hist>>
claudeVars == <<run, files, fresh, known, place, prepared, mcp, process, reader, result,
                terminal, subscribed, news, told, dropped, cancelled, spawns>>
readerVars == <<now, record, current, log, asked>>
vars == <<part, storeVars, workerVars, claudeVars, readerVars>>

Init ==
    /\ part \in {"file", "trail", "logs", "metrics", "worker", "claude", "readers"}
    /\ File!Init /\ (part # "file" => dir = "kept")
    /\ Metrics!MetricInit
    /\ Worker!Init /\ (part # "worker" => route = "codex" /\ world.supported)
    /\ Claude!Init
    /\ Readers!Init
    /\ Trail!TrailInit /\ (part # "trail" => folder = "kept")
    /\ IF part = "trail" THEN Trail!LogInit ELSE Logs!LogInit

Next ==
    \/ /\ part = "file"
       /\ UNCHANGED <<part, trailOnly, logVars, metricVars, workerVars, claudeVars, readerVars>>
       /\ File!Next
    \/ /\ part = "trail"
       /\ UNCHANGED <<part, fileVars, metricVars, workerVars, claudeVars, readerVars>>
       /\ Trail!Next
    \/ /\ part = "logs"
       /\ UNCHANGED <<part, fileVars, trailOnly, metricVars, workerVars, claudeVars, readerVars>>
       /\ Logs!LogNext
    \/ /\ part = "metrics"
       /\ UNCHANGED <<part, fileVars, trailOnly, logVars, workerVars, claudeVars, readerVars>>
       /\ Metrics!MetricNext
    \/ part = "worker" /\ UNCHANGED <<part, storeVars, claudeVars, readerVars>> /\ Worker!Next
    \/ part = "claude" /\ UNCHANGED <<part, storeVars, workerVars, readerVars>> /\ Claude!Next
    \/ part = "readers" /\ UNCHANGED <<part, storeVars, workerVars, claudeVars>> /\ Readers!Next

(* The fairness of the parts, as their modules state it.                    *)
InLogs(Action) == part = "logs" /\ Action
InWorker(Action) == part = "worker" /\ Action
InClaude(Action) == part = "claude" /\ Action

Fairness ==
    /\ WF_logVars(InLogs(Logs!ExportSteps)) /\ WF_logVars(InLogs(Logs!Interval))
    /\ WF_workerVars(InWorker(Worker!Prompt)) /\ WF_workerVars(InWorker(Worker!SignalExit))
    /\ WF_claudeVars(InClaude(Claude!Timeout)) /\ WF_claudeVars(InClaude(Claude!Escalate))
    /\ WF_claudeVars(InClaude(Claude!ClosesWhenKilled))
    /\ WF_claudeVars(InClaude(Claude!RetryWithFreshSession))
    /\ WF_claudeVars(InClaude(Claude!Refused))

Spec == Init /\ [][Next]_vars /\ Fairness

-----------------------------------------------------------------------------
(* The properties of the parts, as their modules state them.                *)

(* What is on the disk is true after a crash: an acknowledged save of a     *)
(* state file and an acknowledged event of the trail survive, no reader     *)
(* sees a file cut short, and the collector knows no event that a crash     *)
(* could take away.  What is shown of runs, workspaces and events is what   *)
(* was there since the reader asked.                                        *)
StoreIsDurable ==
    /\ File!SavesAreDurable /\ []File!ReadsAreWhole
    /\ [](part = "trail" => Trail!AcknowledgedLinesSurvive /\ Trail!ExportedIsDurable)
    /\ [](part = "readers" => Readers!ReadersHold)

(* Records that wait leave the queue, whatever the collector does, and one  *)
(* that is lost is counted once, by the pipeline and by the metrics.        *)
LogsSettle ==
    /\ [](part = "logs" => Logs!LossesAreExact) /\ []Metrics!LossesCountedOnce
    /\ part = "logs" => Logs!BacklogDrains

(* Turns that nobody can vouch for are few: of a run that was superseded    *)
(* one, without an answer of the tracker fewer than the threshold.          *)
TurnsAreFenced == Worker!OneStaleTurn /\ Worker!BlindTurnsBounded


=============================================================================
