---------------------------- MODULE WorkerSession ----------------------------
(***************************************************************************)
(* One worker process (packages/worker): it checks its workspace, starts   *)
(* an agent, takes it through turns, pushes the assigned branch, reports   *)
(* and exits.  The agent is a codex app-server spoken to over stdio, or an *)
(* adapter that runs one child per turn (claude-print, custom).            *)
(*                                                                         *)
(* The worker is one event loop: an action is what runs between two        *)
(* awaits, or one callback (a chunk of the child's output, its exit, a     *)
(* timer, a signal).  An answered await is resumed before the next         *)
(* callback, but after the rest of the chunk that answered it.             *)
(***************************************************************************)
EXTENDS Integers, Sequences, SequencesExt

CONSTANTS
    MaxTurns,       \* SYMPHONY_MAX_TURNS
    MaxMisses,      \* SYMPHONY_REFRESH_FAILURE_THRESHOLD
    MaxIdle         \* SYMPHONY_MAX_NONPRODUCTIVE_TURNS

(* Assumed of the constants, by the modules that check this one.            *)
SessionAssumption ==
    MaxTurns \in Nat /\ MaxMisses \in Nat \ {0} /\ MaxIdle \in Nat \ {0}

VARIABLES
    route,      \* "codex" or "adapter" (resolveWorkerRuntimeRoute)
    pc,         \* where the main flow awaits
    turn,       \* turns with a lease so far
    misses,     \* consecutiveRefreshFailures
    idle,       \* consecutiveNonProductiveTurns
    caught,     \* the error the main flow was thrown, "no" for none
    p,          \* what the callbacks and the main flow share
    child,      \* the agent's process
    stop,       \* shutdown(signal), which runs beside the main flow
    exit,       \* the exit code, "no" while the process lives
    world,      \* the tracker and the scheduler's view of this run
    hist        \* history: what was started, reported and pushed

flow == <<route, pc, turn, misses, idle, caught>>
vars == <<flow, p, child, stop, exit, world, hist>>

Turns == 1..MaxTurns
Told == Turns \union {1}      \* turns the orchestrator is told of
Phases == {"none", "launching_agent", "initializing_session", "streaming_turn", "finishing",
           "succeeded", "failed", "timed_out", "stalled", "canceled_by_reconciliation"}
TerminalPhases == {"succeeded", "failed", "timed_out", "stalled", "canceled_by_reconciliation"}

Requests == {"init", "thread", "start"}       \* awaits of a codex response

Init ==
    /\ route \in {"codex", "adapter"}
    /\ pc = "preflight" /\ turn = 0 /\ misses = 0 /\ idle = 0 /\ caught = "no"
    /\ p = [status |-> "starting", phase |-> "none", class |-> "none",
            reply |-> "none",       \* the outstanding request
            waiting |-> FALSE,      \* turnCompletedResolve is set
            open |-> 0,             \* activeTurnTelemetry: its turn
            input |-> FALSE,        \* userInputRequired
            failed |-> "no",        \* turnTerminalFailurePhase, terminalFailure
            converged |-> FALSE, maxed |-> MaxTurns = 0,
            broken |-> FALSE,       \* protocolFailure
            term |-> FALSE,         \* terminationRequested
            ends |-> [t \in Told |-> 0]]   \* history: end events of a turn
    /\ child = "none" /\ stop = "no" /\ exit = "no"
    /\ world \in [current : {TRUE}, actionable : {TRUE}, supported : BOOLEAN]
    /\ hist = [started |-> {}, blind |-> 0, stale |-> 0, pushed |-> "no"]

Alive == exit = "no"

-----------------------------------------------------------------------------
(* Operators on p: the callbacks of the codex protocol.                     *)


(* emitTurnCompletedEvent, emitTurnFailedEvent for the open turn.           *)
CloseTurn(q) ==
    IF q.open = 0 THEN q ELSE [q EXCEPT !.ends[q.open] = @ + 1, !.open = 0]

ResolveTurn(q) == [q EXCEPT !.waiting = FALSE]

MarkTurnFailure(phase, q) ==
    CloseTurn(ResolveTurn([q EXCEPT !.status = "failed", !.phase = phase, !.failed = phase]))

InputRequired(q) ==
    ResolveTurn(CloseTurn([q EXCEPT !.input = TRUE, !.status = "failed", !.term = TRUE]))

(* failProtocol: only the first failure counts.                             *)
FailProtocol(q) ==
    IF q.broken THEN q
    ELSE LET r == MarkTurnFailure("failed", q) IN
         [r EXCEPT !.broken = TRUE, !.term = TRUE, !.reply = IF @ = "sent" THEN "bad" ELSE @]

(* handleServerMessage and handleAgentEvent.                                *)
HandleMessage(q, m) ==
    CASE m = "reply"      -> IF q.reply = "sent" THEN [q EXCEPT !.reply = "ok"] ELSE q
      [] m = "error"      -> IF q.reply = "sent" THEN [q EXCEPT !.reply = "bad"] ELSE q
      [] m = "completed"  -> ResolveTurn(CloseTurn(q))
      [] m = "failed"     -> MarkTurnFailure("failed", q)
      [] m = "cancelled"  -> MarkTurnFailure("canceled_by_reconciliation", q)
      [] m = "input"      -> InputRequired(q)
      [] m = "violation"  -> [MarkTurnFailure("failed", q) EXCEPT !.term = TRUE]
      [] m = "oversized"  -> FailProtocol(q)

Messages == {"reply", "error", "completed", "failed", "cancelled", "input", "violation", "oversized"}

(* What arrives in one piece: nothing is handled after a broken protocol.   *)
HandleChunk(q, ms) == FoldLeft(LAMBDA r, m : IF r.broken THEN r ELSE HandleMessage(r, m), q, ms)

(* An answer, or the end of a turn, that the main flow has not taken yet.   *)
Answered == pc \in Requests /\ p.reply \in {"ok", "bad"}
Ended == pc = "wait" /\ ~p.waiting
Settled == ~Answered /\ ~Ended

(* requestChildTermination kills the child; a dead one stays dead.          *)
Terminated(q) == IF q.term /\ child = "alive" THEN "signalled" ELSE child

-----------------------------------------------------------------------------
(* startAssignedRun                                                         *)

(* The workspace's identity, the tracker credential, the claude preflight,  *)
(* the codex policy or the launch fails: nothing was started.               *)
StartupFails ==
    /\ Alive /\ pc = "preflight"
    /\ p' = [p EXCEPT !.status = "failed", !.phase = "failed"]
    /\ pc' = "abort"
    /\ UNCHANGED <<route, turn, misses, idle, caught, child, stop, exit, world, hist>>

AbortExit ==
    /\ Alive /\ pc = "abort"
    /\ exit' = "1"
    /\ UNCHANGED <<flow, p, child, stop, world, hist>>

LaunchCodex ==
    /\ Alive /\ pc = "preflight" /\ route = "codex"
    /\ child' = "alive"
    /\ pc' = "init"
    /\ p' = [p EXCEPT !.status = "running", !.phase = "initializing_session", !.reply = "sent"]
    /\ UNCHANGED <<route, turn, misses, idle, caught, stop, exit, world, hist>>

-----------------------------------------------------------------------------
(* The child of a codex session                                             *)

Chunk ==
    /\ Alive /\ route = "codex" /\ Settled
    /\ child \in {"alive", "signalled"}
    /\ \E ms \in BoundedSeq(Messages, 2) : p' = HandleChunk(p, ms)
    /\ p' # p
    /\ child' = Terminated(p')
    /\ UNCHANGED <<flow, stop, exit, world, hist>>

(* The exit handlers of runCodexClientProtocol and startAssignedRun.        *)
ChildExit ==
    /\ Alive /\ route = "codex" /\ Settled
    /\ child \in {"alive", "signalled"}
    /\ child' = "gone"
    /\ LET q == IF ~p.term /\ p.phase \notin TerminalPhases THEN FailProtocol(p) ELSE p IN
       \E clean \in BOOLEAN :
          p' = IF q.phase \in TerminalPhases THEN q
               ELSE [q EXCEPT !.status = IF clean THEN "completed" ELSE "failed",
                              !.phase = IF clean THEN "succeeded" ELSE "failed"]
    /\ UNCHANGED <<flow, stop, exit, world, hist>>

(* A spawn error, or a write to a closed stdin.                             *)
PipeError ==
    /\ Alive /\ route = "codex" /\ Settled /\ child # "none" /\ ~p.broken
    /\ \E spawn \in BOOLEAN :
          p' = LET q == FailProtocol(p) IN
               IF spawn THEN [q EXCEPT !.status = "failed", !.phase = "failed"] ELSE q
    /\ child' = Terminated(p')
    /\ UNCHANGED <<flow, stop, exit, world, hist>>

-----------------------------------------------------------------------------
(* runCodexClientProtocol: one step per await.                              *)

(* The catch block: the open turn is reported, and the branch is pushed.    *)
CaughtPhase(e) ==
    CASE e = "response_timeout" -> "stalled"
      [] e = "turn_timeout"     -> "timed_out"
      [] OTHER                  -> "failed"

Catch(q, e) ==
    /\ caught' = e
    /\ p' = CloseTurn([q EXCEPT !.status = "failed", !.phase = CaughtPhase(e),
                                !.class = IF CaughtPhase(e) = "failed" THEN "error" ELSE "timeout",
                                !.reply = "none"])
    /\ pc' = "push"

(* The adapter's catch block reports the turn it last built telemetry for,  *)
(* whatever was reported of it before.                                      *)
CatchAdapter(q, e) ==
    /\ caught' = e
    /\ p' = [q EXCEPT !.status = "failed", !.phase = "failed", !.class = "error",
                      !.open = IF turn = 0 THEN 1 ELSE turn]
    /\ pc' = "push"

(* Await a response: at once rejected when the protocol is broken.          *)
Request(q) == [q EXCEPT !.reply = IF q.broken THEN "bad" ELSE "sent"]

RequestFails ==
    /\ Alive /\ pc \in Requests /\ p.reply = "bad"
    /\ Catch(p, "error")
    /\ UNCHANGED <<route, turn, misses, idle, child, stop, exit, world, hist>>

ResponseTimeout ==
    /\ Alive /\ pc \in Requests /\ p.reply = "sent"
    /\ Catch(p, "response_timeout")
    /\ UNCHANGED <<route, turn, misses, idle, child, stop, exit, world, hist>>

Initialized ==
    /\ Alive /\ pc = "init" /\ p.reply = "ok"
    /\ p' = Request(p) /\ pc' = "thread"
    /\ UNCHANGED <<route, turn, misses, idle, caught, child, stop, exit, world, hist>>

(* After the loop: how the session ended.                                   *)
Outcome(q) ==
    LET bad == q.input \/ q.failed # "no"
        phase == IF q.converged \/ q.input THEN "failed"
                 ELSE IF q.failed # "no" THEN q.failed ELSE "succeeded"
        class == IF q.input THEN "user-input-required"
                 ELSE IF q.converged THEN "convergence-detected"
                 ELSE IF phase = "canceled_by_reconciliation" THEN "canceled_by_reconciliation"
                 ELSE IF phase = "timed_out" THEN "timeout"
                 ELSE IF q.maxed THEN "max-turns-reached"
                 ELSE IF phase = "succeeded" THEN "completed" ELSE "error"
    IN  [q EXCEPT !.status = IF bad THEN "failed" ELSE "completed", !.phase = phase, !.class = class]

Finish(q) == p' = Outcome(q) /\ pc' = "push"

(* The top of the loop: the first turn asks for its lease at once.          *)
LoopTop(q) ==
    IF turn >= MaxTurns THEN Finish(q)
    ELSE /\ p' = IF route = "codex" THEN [q EXCEPT !.phase = "streaming_turn"]
                 ELSE [q EXCEPT !.failed = "no", !.input = FALSE]
         /\ pc' = IF turn = 0 THEN "lease" ELSE "gate"

(* A response without a thread id ends the protocol, not the process.       *)
ThreadStarted ==
    /\ Alive /\ pc = "thread" /\ p.reply = "ok"
    /\ \/ LoopTop([p EXCEPT !.reply = "none"])
       \/ p' = [p EXCEPT !.reply = "none"] /\ pc' = "stuck"
    /\ UNCHANGED <<route, turn, misses, idle, caught, child, stop, exit, world, hist>>

-----------------------------------------------------------------------------
(* The gates before a turn: turn-lease.ts                                   *)

(* refreshTrackerState: any failed request is "unknown".                    *)
Refresh ==
    {"unknown"} \union
    (IF ~world.supported THEN {"unsupported"}
     ELSE IF world.actionable THEN {"active"} ELSE {"non-actionable"})

MissesAfter(s) == IF s = "unsupported" THEN misses ELSE IF s = "unknown" THEN misses + 1 ELSE 0

FailClosed(n) == n >= MaxMisses

GateAction(s, context) ==
    CASE s = "non-actionable" -> "complete"
      [] s = "unsupported" -> IF context = "convergence" THEN "converge" ELSE "skip"
      [] s = "active" /\ context = "convergence" -> "converge"
      [] s = "unknown" /\ FailClosed(MissesAfter(s)) -> "fail-closed"
      [] s = "unknown" /\ context = "convergence" -> "defer"
      [] OTHER -> "continue"

Throw(e) == IF route = "codex" THEN Catch(p, e) ELSE CatchAdapter(p, e)

Heard(s) == hist' = [hist EXCEPT !.blind = IF s = "unknown" THEN @ + 1 ELSE 0]

(* The refresh between two turns.                                           *)
BetweenTurns ==
    /\ Alive /\ Settled /\ pc = "gate"
    /\ \E s \in Refresh :
          /\ misses' = MissesAfter(s)
          /\ CASE GateAction(s, "between-turn") = "complete" ->
                     Finish(p) /\ UNCHANGED <<caught, hist>>
               [] GateAction(s, "between-turn") = "fail-closed" ->
                     Throw("gate") /\ UNCHANGED hist
               [] OTHER -> pc' = "lease" /\ Heard(s) /\ UNCHANGED <<p, caught>>
    /\ UNCHANGED <<route, turn, idle, child, stop, exit, world>>

(* acquireTurnLease: the scheduler grants a lease of its current run; the   *)
(* answer travels, or is lost.                                              *)
LeaseGranted ==
    /\ Alive /\ Settled /\ pc = "lease" /\ world.current
    /\ pc' = "leased"
    /\ UNCHANGED <<route, turn, misses, idle, caught, p, child, stop, exit, world, hist>>

(* Slip: a lease that is unavailable is done without.                       *)
UnleasedTurn ==
    /\ Alive /\ Settled /\ pc \in {"lease", "leased"}
    /\ IF pc = "lease" THEN pc' = "leased" /\ UNCHANGED <<p, caught>> ELSE Throw("gate")
    /\ UNCHANGED <<route, turn, misses, idle, child, stop, exit, world, hist>>

LeaseFails ==
    /\ Alive /\ Settled /\ pc \in {"lease", "leased"}
    /\ Throw("gate")
    /\ UNCHANGED <<route, turn, misses, idle, child, stop, exit, world, hist>>

Begin(t) ==
    /\ turn' = t
    /\ hist' = [hist EXCEPT !.stale = IF world.current THEN 0 ELSE @ + 1]

(* turn/start is sent.                                                      *)
StartTurn ==
    /\ Alive /\ Settled /\ pc = "leased" /\ route = "codex"
    /\ Begin(turn + 1)
    /\ p' = Request(p) /\ pc' = "start"
    /\ UNCHANGED <<route, misses, idle, caught, child, stop, exit, world>>

(* Its response: the turn is reported as started and waited for.  What the  *)
(* chunk of the response said of the turn has been handled by then.         *)
TurnStarted ==
    /\ Alive /\ pc = "start" /\ p.reply = "ok"
    /\ p' = [p EXCEPT !.reply = "none", !.open = turn, !.waiting = TRUE]
    /\ hist' = [hist EXCEPT !.started = @ \union {turn}]
    /\ pc' = "wait"
    /\ UNCHANGED <<route, turn, misses, idle, caught, child, stop, exit, world>>

SilenceTimeout ==
    /\ Alive /\ pc = "wait" /\ p.waiting
    /\ Catch([p EXCEPT !.term = TRUE], "turn_timeout")
    /\ child' = Terminated([p EXCEPT !.term = TRUE])
    /\ UNCHANGED <<route, turn, misses, idle, stop, exit, world, hist>>

-----------------------------------------------------------------------------
(* After a turn                                                             *)

(* evaluateTurnProgress: a new head is progress, whatever else.             *)
NonProductive(headChanged, repeatedError, treeUnchanged) ==
    ~headChanged /\ (repeatedError \/ treeUnchanged)

TurnOver ==
    /\ Alive /\ pc = "wait" /\ ~p.waiting
    /\ IF p.input \/ p.failed # "no" THEN Finish(p) /\ UNCHANGED idle
       ELSE IF turn >= MaxTurns THEN Finish([p EXCEPT !.maxed = TRUE]) /\ UNCHANGED idle
       ELSE \E head, error, tree \in BOOLEAN :
              /\ idle' = IF NonProductive(head, error, tree) THEN idle + 1 ELSE 0
              /\ IF idle' >= MaxIdle THEN pc' = "confirm" /\ UNCHANGED p ELSE LoopTop(p)
    /\ UNCHANGED <<route, turn, misses, caught, child, stop, exit, world, hist>>

(* The tracker is asked before the session is given up as converged.        *)
ConfirmConvergence ==
    /\ Alive /\ Settled /\ pc = "confirm"
    /\ \E s \in Refresh :
          /\ misses' = MissesAfter(s)
          /\ LET action == GateAction(s, "convergence") IN
             CASE action = "complete" -> Finish(p) /\ UNCHANGED caught
               [] action = "fail-closed" -> Catch(p, "gate")
               [] action = "defer" -> LoopTop(p) /\ UNCHANGED caught
               [] action = "converge" -> Finish([p EXCEPT !.converged = TRUE]) /\ UNCHANGED caught
    /\ UNCHANGED <<route, turn, idle, child, stop, exit, world, hist>>

-----------------------------------------------------------------------------
(* runNonCodexRuntimeAdapterLifecycle                                       *)

(* prepare may throw before the first turn.                                 *)
PrepareAdapter ==
    /\ Alive /\ pc = "preflight" /\ route = "adapter"
    /\ \/ LoopTop([p EXCEPT !.phase = "launching_agent"]) /\ UNCHANGED caught
       \/ CatchAdapter(p, "error")
    /\ UNCHANGED <<route, turn, misses, idle, child, stop, exit, world, hist>>

SpawnTurn ==
    /\ Alive /\ pc = "leased" /\ route = "adapter"
    /\ turn' = turn + 1
    /\ hist' = [hist EXCEPT !.started = @ \union {turn + 1},
                            !.stale = IF world.current THEN 0 ELSE @ + 1]
    /\ p' = [p EXCEPT !.status = "running", !.phase = "streaming_turn"]
    /\ child' = "alive" /\ pc' = "spawn"
    /\ UNCHANGED <<route, misses, idle, caught, stop, exit, world>>

(* handleNonCodexRuntimeEvent, and the lifecycle's own handler: a cancelled *)
(* turn is left to the turn's result.                                       *)
AdapterEvent ==
    /\ Alive /\ pc = "spawn" /\ child = "alive"
    /\ p' \in {[p EXCEPT !.status = "failed", !.failed = "failed", !.input = TRUE],
               [p EXCEPT !.status = "failed", !.failed = "failed"],
               [p EXCEPT !.status = "failed"]}
    /\ UNCHANGED <<flow, child, stop, exit, world, hist>>

(* spawnTurn resolves.  A failed result is reported after the push; a good  *)
(* one at once, even when an event of the turn was a failure.               *)
AdapterTurnEnds ==
    /\ Alive /\ pc = "spawn"
    /\ child' = "gone"
    /\ \/ \E f \in {"failed", "timed_out"} :
             Finish([p EXCEPT !.failed = f, !.input = FALSE, !.open = turn]) /\ UNCHANGED caught
       \/ /\ LET q == [p EXCEPT !.ends[turn] = @ + 1, !.maxed = turn = MaxTurns] IN
             IF q.failed # "no" THEN Finish([q EXCEPT !.open = turn, !.maxed = FALSE])
             ELSE LoopTop(q)
          /\ UNCHANGED caught
       \/ CatchAdapter(p, "error")
    /\ UNCHANGED <<route, turn, misses, idle, stop, exit, world, hist>>

-----------------------------------------------------------------------------
(* Publication and exit                                                     *)

(* recordGitTransportAttempt keeps only two of the phases.                  *)
RecordTransport(q, ok) ==
    IF ok THEN [q EXCEPT !.phase = IF @ \in {"succeeded", "failed"} THEN @ ELSE "none"]
    ELSE [q EXCEPT !.status = "failed", !.phase = "failed", !.class = "error"]

(* trySynchronizeAssignedBranch: on every way out.                          *)
Push ==
    /\ Alive /\ Settled /\ pc = "push"
    /\ \E ok \in BOOLEAN :
          /\ p' = LET q == RecordTransport(p, ok) IN IF route = "adapter" THEN CloseTurn(q) ELSE q
          /\ hist' = [hist EXCEPT !.pushed = IF ok THEN "ok" ELSE "failed"]
    /\ pc' = "flush"
    /\ UNCHANGED <<route, turn, misses, idle, caught, child, stop, exit, world>>

(* The last heartbeat is flushed or given up; the process exits 1.5 s later.*)
Flushed ==
    /\ Alive /\ pc = "flush"
    /\ pc' = "delay"
    /\ UNCHANGED <<route, turn, misses, idle, caught, p, child, stop, exit, world, hist>>

Exit ==
    /\ Alive /\ pc = "delay"
    /\ exit' = IF p.status = "completed" /\ (route = "codex" => caught = "no") THEN "0" ELSE "1"
    /\ UNCHANGED <<flow, p, child, stop, world, hist>>

(* shutdown(signal): the main flow is not stopped.                          *)
Signal ==
    /\ Alive /\ stop = "no"
    /\ stop' = "cancelling"
    /\ p' = [p EXCEPT !.term = @ \/ child # "none"]
    /\ child' = IF child = "alive" THEN "signalled" ELSE child
    /\ UNCHANGED <<flow, exit, world, hist>>

SignalExit ==
    /\ Alive /\ stop = "cancelling"
    /\ exit' = "signal"
    /\ UNCHANGED <<flow, p, child, stop, world, hist>>

(* The scheduler starts another run of the issue; the issue leaves its      *)
(* active states.                                                           *)
Supersede ==
    /\ Alive /\ world.current
    /\ world' = [world EXCEPT !.current = FALSE]
    /\ UNCHANGED <<flow, p, child, stop, exit, hist>>

Retire ==
    /\ Alive /\ world.actionable
    /\ world' = [world EXCEPT !.actionable = FALSE]
    /\ UNCHANGED <<flow, p, child, stop, exit, hist>>

Codex ==
    \/ LaunchCodex \/ Initialized \/ ThreadStarted \/ RequestFails \/ ResponseTimeout
    \/ StartTurn \/ TurnStarted \/ SilenceTimeout \/ TurnOver \/ ConfirmConvergence

Prompt ==
    \/ StartupFails \/ AbortExit \/ Codex
    \/ PrepareAdapter \/ SpawnTurn
    \/ BetweenTurns \/ LeaseGranted \/ LeaseFails
    \/ Flushed \/ Exit

(* What the main flow waits for without a timer: the child of a custom      *)
(* adapter's turn, and git push.                                            *)
Untimed == AdapterTurnEnds \/ Push

Main == Prompt \/ Untimed

Next ==
    \/ Main
    \/ Chunk \/ ChildExit \/ PipeError \/ AdapterEvent
    \/ Signal \/ SignalExit \/ Supersede \/ Retire

Spec == Init /\ [][Next]_vars

(* The event loop takes its turns and every timer fires.  Nothing is        *)
(* assumed of the agent, of the child of an adapter's turn or of git push.  *)
Fairness == WF_vars(Prompt) /\ WF_vars(SignalExit)

FairSpec == Spec /\ Fairness

-----------------------------------------------------------------------------
TypeOK ==
    /\ route \in {"codex", "adapter"}
    /\ pc \in Requests \union {"preflight", "abort", "stuck", "gate", "lease", "leased",
                                "wait", "confirm", "spawn", "push", "flush", "delay"}
    /\ turn \in 0..MaxTurns /\ misses \in 0..MaxMisses /\ idle \in 0..MaxTurns
    /\ caught \in {"no", "error", "gate", "response_timeout", "turn_timeout"}
    /\ p.phase \in Phases /\ p.reply \in {"none", "sent", "ok", "bad"} /\ p.open \in Told \union {0}
    /\ p.waiting => pc = "wait" \/ caught = "turn_timeout"
    /\ child \in {"none", "alive", "signalled", "gone"}
    /\ exit \in {"no", "0", "1", "signal"}

Left == exit \in {"0", "1"}

(* A turn the orchestrator was told has started is reported over by the     *)
(* time the worker leaves on its own: once for codex, whatever races there  *)
(* were between the agent, its exit, the timers and the main flow.          *)
TurnsAreReported ==
    Left => \A t \in hist.started :
                IF route = "codex" THEN p.ends[t] = 1 ELSE p.ends[t] >= 1

(* While the tracker does not answer, fewer turns than the threshold begin. *)
BlindTurnsBounded == hist.blind < MaxMisses

(* A run that was superseded begins one more turn at most: the one whose    *)
(* lease was on its way.                                                    *)
OneStaleTurn == hist.stale <= 1

(* A worker that got past its preflight does not leave without an attempt   *)
(* to publish the branch, and exit code 0 means that the branch was pushed, *)
(* that no turn failed and no input was asked for, unless the turn was also *)
(* cancelled (see CancelledIsNoSuccess).                                    *)
WorkIsPublished ==
    /\ Left => hist.pushed # "no" \/ pc = "abort"
    /\ exit = "0" => /\ hist.pushed = "ok"
                     /\ p.failed # "no" \/ p.input => p.failed = "canceled_by_reconciliation"

(* A session one of whose turns was cancelled does not exit as completed:   *)
(* its phase is terminal, and the child's exit preserves a terminal phase.  *)
CancelledIsNoSuccess == exit = "0" => p.failed # "canceled_by_reconciliation"

(* The worker ends, or waits for ever in one of three places without a      *)
(* timer: an agent that started no thread, the child of an adapter's turn,  *)
(* git push.  Told to stop, it ends there too.                              *)
WorkerEnds ==
    /\ <>~Alive \/ <>[](pc \in {"stuck", "spawn", "push"})
    /\ stop = "cancelling" ~> ~Alive
=============================================================================
