---------------------------- MODULE Orchestrator ----------------------------
(***************************************************************************)
(* The scheduler of packages/orchestrator/src/service.ts for one project:  *)
(* the reconciliation tick, the run and coordination records it keeps on   *)
(* disk, the detached workers it starts, the tracker they all look at, and *)
(* what happens when the daemon dies or stops between two writes.          *)
(*                                                                         *)
(* A tick runs inside runSerialized, so worker leases, tracker-state       *)
(* merges and the next tick wait for it: they are enabled when pc is       *)
(* "idle".  Worker exits, tracker edits, backoff timers, SIGTERM and       *)
(* crashes do not wait.  One action is one durable write with the changes  *)
(* of memory that go with it, so that a crash can fall between any two     *)
(* writes.  `records' and `runs' are the files; `view' is the tick's own   *)
(* issueRecords, written back at a few points and when the tick ends.      *)
(***************************************************************************)
EXTENDS Naturals, FiniteSets

CONSTANTS
    Issues,
    NoIssue,            \* the issue of a run not yet created
    MaxRuns,            \* bound: runs created in one behaviour
    Limits,             \* values of agent.max_concurrent_agents
    MaxFailureRetries,  \* agent.max_failure_retries
    MaxDeferrals,       \* MAX_FINALIZATION_DEFERRALS
    ActiveStates, HandoffStates, TerminalStates,    \* workflow states
    NoState,            \* null, and the state of an issue no longer tracked
    MaxMoves,           \* bound: tracker state changes
    MaxStartFaults,     \* bound: startRun failures
    MaxCrashes,         \* bound: the daemon dies
    MaxStops,           \* bound: the daemon is told to stop (SIGTERM)
    MaxEdits            \* bound: edits of the limit in WORKFLOW.md

States == ActiveStates \union HandoffStates \union TerminalStates
Runs == 1..MaxRuns

ASSUME OrchestratorAssumption ==
    /\ MaxRuns \in Nat /\ Limits \subseteq Nat \ {0} /\ Limits # {}
    /\ MaxFailureRetries \in Nat \ {0} /\ MaxDeferrals \in Nat \ {0}
    /\ MaxMoves \in Nat /\ MaxStartFaults \in Nat
    /\ MaxCrashes \in Nat /\ MaxStops \in Nat /\ MaxEdits \in Nat
    /\ NoState \notin States /\ NoIssue \notin Issues

VARIABLES
    records,    \* durable: issue -> coordination record
    runs,       \* durable: run -> run record
    used,       \* runs created so far
    tracker,    \* issue -> its state in the tracker, NoState when untracked
    worker,     \* run -> its worker process
    tended,     \* the live workers in activeWorkerPids
    elapsed,    \* issues whose retry is due
    grace,      \* runs within TRACKER_PROGRESS_EXIT_GRACE_MS of a confirmation
    request,    \* the one tracker-state request in progress
    pc, view, todo, cands, seen, task,      \* the tick
    stopping,   \* shutdown: "no", "draining", "leave"
    limit,      \* agent.max_concurrent_agents as WORKFLOW.md has it now
    leased,     \* history: issue -> the run that was last granted a lease
    failures,   \* history: issue -> failures since a state change or a success
    moves, faults, crashes, stops, edits

durable == <<records, runs, used>>
world == <<tracker, worker, tended, elapsed, grace, request, limit>>
tick == <<pc, view, todo, cands, seen, task>>
history == <<leased, failures>>
bounds == <<moves, faults, crashes, stops, edits>>
vars == <<durable, world, tick, stopping, history, bounds>>

Claimed == {"claimed", "running", "retry_queued"}
ActiveRun == {"running", "retrying"}
Exits == {"ok", "clean", "bad"}

Record == [state : Claimed \union {"none", "released"}, run : 0..MaxRuns,
           retry : BOOLEAN, count : Nat, supp : States \union {NoState}]

Run == [issue : Issues \union {NoIssue}, status : ActiveRun \union {"unused", "succeeded", "failed", "suppressed"},
        pid : BOOLEAN, st : States \union {NoState},
        conf : States \union {NoState}, defer : Nat]

Task == [kind : {"dispatch", "retry"}, issue : Issues, old : 0..MaxRuns,
         new : 0..MaxRuns, st : States \union {NoState}, before : Record]

NoTask == [kind |-> "none"]
NoRequest == [stage |-> "none"]
NoRecord == [state |-> "none", run |-> 0, retry |-> FALSE, count |-> 0, supp |-> NoState]

Init ==
    /\ records = [i \in Issues |-> NoRecord]
    /\ runs = [r \in Runs |-> [issue |-> NoIssue, status |-> "unused",
                 pid |-> FALSE, st |-> NoState, conf |-> NoState, defer |-> 0]]
    /\ used = 0
    /\ tracker \in [Issues -> ActiveStates]
    /\ worker = [r \in Runs |-> "none"]
    /\ tended = {} /\ elapsed = {} /\ grace = {} /\ request = NoRequest
    /\ pc = "idle" /\ view = records /\ todo = {} /\ cands = {}
    /\ seen = [i \in Issues |-> NoState] /\ task = NoTask
    /\ stopping = "no"
    /\ leased = [i \in Issues |-> 0] /\ failures = [i \in Issues |-> 0]
    /\ moves = 0 /\ faults = 0 /\ crashes = 0 /\ stops = 0
    /\ limit \in Limits /\ edits = 0

-----------------------------------------------------------------------------
(* Reading the files and the processes.                                     *)

Active(i) == {r \in Runs : runs[r].issue = i /\ runs[r].status \in ActiveRun}

(* Slip: the liveness of the recorded process is not probed.                *)
IsRunningUnprobed(r) == runs[r].pid

(* isRunProcessRunning: the recorded process, if one is recorded, is alive. *)
IsRunning(r) == runs[r].pid /\ worker[r] \in {"alive", "stopping"}

(* A claim that occupies a concurrency slot.                                *)
Holds(rec) == rec.state \in Claimed /\ (rec.state = "retry_queued" => rec.run # 0)

(* isDueRetryReservation                                                    *)
DueReservation(i) ==
    view[i].state = "retry_queued" /\ view[i].run # 0 /\ view[i].retry /\ i \in elapsed

(* Slip: due reservations, ours among them, are counted.                    *)
HasRetrySlotCountingDue(r) ==
    Cardinality({i \in Issues : Holds(view[i])}) + 1 <= limit

(* Slip: the run that asks is not counted.                                  *)
HasRetrySlotUncounted(r) ==
    Cardinality({i \in Issues : Holds(view[i]) /\ ~DueReservation(i)}) <= limit

(* hasRetryDispatchSlot: due reservations do not count, our own counts once. *)
HasRetrySlot(r) ==
    LET counted == {i \in Issues : Holds(view[i]) /\ ~DueReservation(i)}
        ours == \E i \in counted : view[i].run = r
    IN  Cardinality(counted) + (IF ours THEN 0 ELSE 1) <= limit

(* Slip: one claim too many.                                                *)
SlotsLeftInclusive == Cardinality({i \in Issues : Holds(view[i])}) <= limit

(* availableSlots, less the dispatches of this tick.                        *)
SlotsLeft == Cardinality({i \in Issues : Holds(view[i])}) < limit

(* Slip: one failure too many.                                              *)
SuppressedLate(rec, st) == rec.count > MaxFailureRetries /\ rec.supp = st

(* isFailureRetrySuppressedIssue                                            *)
Suppressed(rec, st) == rec.count >= MaxFailureRetries /\ rec.supp = st

Room == used < MaxRuns

(* Slip: the pid is retired without the signal.                             *)
SignalNothing(r) == UNCHANGED worker /\ tended' = tended \ {r}

(* signalRunProcess: SIGTERM to a running worker, whose pid is retired.     *)
Signal(r) ==
    /\ worker' = IF IsRunning(r) THEN [worker EXCEPT ![r] = "stopping"] ELSE worker
    /\ tended' = tended \ {r}

SaveRun(r, status) ==
    runs' = [runs EXCEPT ![r] = [@ EXCEPT !.status = status, !.pid = FALSE]]

(* releaseIssueOrchestration                                                *)
Release(v, i, reset) ==
    [v EXCEPT ![i] = [state |-> "released", run |-> 0, retry |-> FALSE,
                      count |-> IF reset THEN 0 ELSE @.count,
                      supp |-> IF reset THEN NoState ELSE @.supp]]

Queue(v, i, r) ==
    [v EXCEPT ![i] = [@ EXCEPT !.state = "retry_queued", !.run = r, !.retry = TRUE]]

(* Slip: currentRunId is not cleared when a start fails.                    *)
FailKeepingRun(v, i, r, n, st) ==
    [v EXCEPT ![i] =
        IF n >= MaxFailureRetries
        THEN [state |-> "released", run |-> 0, retry |-> FALSE, count |-> n, supp |-> st]
        ELSE [@ EXCEPT !.state = "retry_queued", !.run = IF r = 0 THEN @ ELSE r,
                       !.retry = TRUE, !.count = n]]

(* A failed attempt at the count n: another retry, or, with the budget      *)
(* spent, a release suppressed at the state st.                             *)
Spent(n) == n >= MaxFailureRetries

Fail(v, i, r, n, st) ==
    [v EXCEPT ![i] =
        IF Spent(n)
        THEN [state |-> "released", run |-> 0, retry |-> FALSE, count |-> n, supp |-> st]
        ELSE [@ EXCEPT !.state = "retry_queued", !.run = r, !.retry = TRUE, !.count = n]]

CountFailure(i) ==
    failures' = [failures EXCEPT ![i] = IF @ > MaxFailureRetries THEN @ ELSE @ + 1]

KeepTick == UNCHANGED <<cands, seen, task, stopping>>
KeepWorld == UNCHANGED <<tracker, grace, request, limit, leased, bounds>>

-----------------------------------------------------------------------------
(* The tick starts: records and runs are loaded, and an issue whose current *)
(* run is not active is given one that is (selectCurrentRunsForReconciliation). *)

Stray(i) == Active(i) # {} /\ records[i].run \notin Active(i)

Preferred(i) ==
    LET live == {r \in Active(i) : IsRunning(r)} IN IF live # {} THEN live ELSE Active(i)

Select(i, r) ==
    [records[i] EXCEPT
        !.run = r,
        !.state = IF @ # "none" THEN @
                  ELSE IF IsRunning(r) \/ runs[r].status # "retrying"
                       THEN "running" ELSE "retry_queued"]

StartTick ==
    /\ pc = "idle" /\ stopping = "no"
    /\ \E pick \in [Issues -> 0..MaxRuns] :
          /\ \A i \in Issues : IF Stray(i) THEN pick[i] \in Preferred(i) ELSE pick[i] = 0
          /\ view' = [i \in Issues |-> IF Stray(i) THEN Select(i, pick[i]) ELSE records[i]]
    /\ records' = view'
    /\ todo' = UNION {Active(i) : i \in Issues}
    /\ pc' = "reconcile"
    /\ KeepTick /\ KeepWorld /\ UNCHANGED <<runs, used, worker, tended, elapsed, failures>>

(* sortRunsForReconciliation: due retries after everything else.            *)
DueRun(r) == runs[r].status = "retrying" /\ runs[r].issue \in elapsed

(* The tick turns to the run r, of the issue i, and is done with it.        *)
Take(r, i) ==
    /\ pc = "reconcile" /\ r \in todo /\ runs[r].issue = i
    /\ DueRun(r) => \A s \in todo : DueRun(s)
    /\ todo' = todo \ {r}

(* Slip: a run whose worker lives is taken for current.                     *)
CurrentIfRunning(r, i) == view[i].run \in {0, r} \/ IsRunning(r)

Current(r, i) == view[i].run \in {0, r}

-----------------------------------------------------------------------------
(* reconcileRun                                                             *)

(* Another run is current: this one is stopped and fails.                   *)
ReconcileSuperseded(r, i) ==
    /\ Take(r, i) /\ ~Current(r, i)
    /\ Signal(r) /\ SaveRun(r, "failed")
    /\ KeepTick /\ KeepWorld /\ UNCHANGED <<pc, view, records, used, elapsed, failures>>

(* The worker runs and is not stalled: the record is brought in line.       *)
ReconcileAlive(r, i) ==
    /\ Take(r, i) /\ Current(r, i) /\ IsRunning(r)
    /\ runs' = [runs EXCEPT ![r].status = "running"]
    /\ view' = [view EXCEPT ![i] = [@ EXCEPT !.state = "running", !.run = r, !.retry = FALSE]]
    /\ KeepTick /\ KeepWorld
    /\ UNCHANGED <<pc, records, used, worker, tended, elapsed, failures>>

(* The worker is gone, or it is stalled and gets SIGTERM: either way the    *)
(* attempt is over, and a stalled worker has left no result.                *)
Ended(r, i) ==
    /\ Take(r, i) /\ Current(r, i) /\ runs[r].status = "running"
    /\ Signal(r)

Result(r) == IF worker[r] \in Exits THEN worker[r] ELSE "clean"

(* A worker that reports success after a transition it confirmed: the       *)
(* tracker is read once more (classifyCurrentTrackerProgress).              *)
Finalizing(r) == Result(r) = "ok" /\ runs[r].conf # NoState

ReadsActive(i) == tracker[i] \in ActiveStates

(* Slip: the claim is not released.                                         *)
CompleteUnreleased(r, i) ==
    /\ Ended(r, i) /\ Finalizing(r)
    /\ tracker[i] # NoState /\ ~ReadsActive(i)
    /\ SaveRun(r, "succeeded")
    /\ failures' = [failures EXCEPT ![i] = 0]
    /\ KeepTick /\ KeepWorld /\ UNCHANGED <<pc, view, records, used, elapsed>>

(* decideFinalizationDisposition "complete": the state read is not active.  *)
Complete(r, i) ==
    /\ Ended(r, i) /\ Finalizing(r)
    /\ tracker[i] # NoState /\ ~ReadsActive(i)
    /\ SaveRun(r, "succeeded")
    /\ view' = Release(view, i, TRUE)
    /\ failures' = [failures EXCEPT ![i] = 0]
    /\ KeepTick /\ KeepWorld /\ UNCHANGED <<pc, records, used, elapsed>>

(* The read failed or found no item: wait for a later tick.                 *)
DeferFinalization(r, i) ==
    /\ Ended(r, i) /\ Finalizing(r) /\ runs[r].defer + 1 < MaxDeferrals
    /\ runs' = [runs EXCEPT ![r] = [@ EXCEPT !.defer = runs[r].defer + 1, !.pid = FALSE]]
    /\ KeepTick /\ KeepWorld /\ UNCHANGED <<pc, view, records, used, elapsed, failures>>

EndRun(r, status) ==
    runs' = [runs EXCEPT ![r] = [@ EXCEPT !.status = status, !.pid = FALSE, !.defer = 0]]

(* planCompletedRunRetry, a failure: an abnormal exit, deferrals spent, or  *)
(* an issue that classifyRetryKind cannot confirm to be actionable.         *)
FailedAttempt(r, i) ==
    LET n == view[i].count + 1 IN
    /\ Ended(r, i)
    /\ Finalizing(r) => ReadsActive(i) \/ runs[r].defer + 1 >= MaxDeferrals
    /\ EndRun(r, IF Spent(n) THEN "suppressed" ELSE "retrying")
    /\ view' = Fail(view, i, r, n, runs[r].st)
    /\ elapsed' = elapsed \ {i}
    /\ CountFailure(i)
    /\ KeepTick /\ KeepWorld /\ UNCHANGED <<pc, records, used>>

(* planCompletedRunRetry, a continuation: the worker ended normally and the *)
(* issue is still actionable.                                               *)
Continue(r, i) ==
    /\ Ended(r, i) /\ Result(r) # "bad" /\ ReadsActive(i)
    /\ EndRun(r, "retrying")
    /\ view' = Queue(view, i, r)
    /\ elapsed' = elapsed \ {i}
    /\ KeepTick /\ KeepWorld /\ UNCHANGED <<pc, records, used, failures>>

-----------------------------------------------------------------------------
(* A retrying run (resolveRetryRestartAction and what follows it).          *)

RetryWaits(r, i) ==
    /\ Take(r, i) /\ Current(r, i) /\ runs[r].status = "retrying"
    /\ i \notin elapsed \/ ~Room
    /\ KeepTick /\ KeepWorld
    /\ UNCHANGED <<pc, view, records, runs, used, worker, tended, elapsed, failures>>

RetryFires(r, i) ==
    /\ Take(r, i) /\ Current(r, i) /\ runs[r].status = "retrying"
    /\ i \in elapsed /\ Room

(* requeueRetryingRun: the tracker could not be read, which is charged as a *)
(* failed attempt.                                                          *)
RetryUnconfirmed(r, i) ==
    LET n == view[i].count + 1 IN
    /\ RetryFires(r, i)
    /\ SaveRun(r, IF Spent(n) THEN "suppressed" ELSE "retrying")
    /\ view' = Fail(view, i, r, n, runs[r].st)
    /\ elapsed' = elapsed \ {i}
    /\ CountFailure(i)
    /\ KeepTick /\ KeepWorld /\ UNCHANGED <<pc, records, used, worker, tended>>

(* releaseRetryingRun: the issue is gone, terminal or no longer a candidate. *)
RetryReleased(r, i) ==
    /\ RetryFires(r, i) /\ ~ReadsActive(i)
    /\ LET st == IF tracker[i] = NoState THEN runs[r].st ELSE tracker[i] IN
       runs' = [runs EXCEPT ![r] = [@ EXCEPT !.status = "suppressed", !.pid = FALSE, !.st = st]]
    /\ view' = Release(view, i, FALSE)
    /\ KeepTick /\ KeepWorld
    /\ UNCHANGED <<pc, records, used, worker, tended, elapsed, failures>>

(* requeueRetryingRun for want of a slot: no failure, no backoff.  A record *)
(* without a retry entry (a crash lost it) gets a new due time.             *)
RetryNoSlot(r, i) ==
    /\ RetryFires(r, i) /\ ReadsActive(i) /\ ~HasRetrySlot(r)
    /\ SaveRun(r, "retrying")
    /\ view' = Queue(view, i, r)
    /\ elapsed' = IF view[i].retry THEN elapsed ELSE elapsed \ {i}
    /\ KeepTick /\ KeepWorld /\ UNCHANGED <<pc, records, used, worker, tended, failures>>

(* Slip: the old run stays active.                                          *)
SupersedeNothing(r) == UNCHANGED runs

(* restartRun: the old run becomes terminal before a new one is created.    *)
Supersede(r) == SaveRun(r, "failed")

Restart(r, i) ==
    /\ RetryFires(r, i) /\ ReadsActive(i) /\ HasRetrySlot(r)
    /\ Supersede(r)
    /\ task' = [kind |-> "retry", issue |-> i, old |-> r, new |-> 0,
                 st |-> tracker[i], before |-> view[i]]
    /\ pc' = "start"
    /\ KeepWorld
    /\ UNCHANGED <<view, records, used, worker, tended, elapsed, failures, cands, seen, stopping>>

-----------------------------------------------------------------------------
(* startRun, shared by a dispatch and a restart.                            *)

Back == IF task.kind = "retry" THEN "reconcile" ELSE "dispatch"

(* The daemon's shutdown is looked at once, before the workspace is made.   *)
EnterStart ==
    /\ pc = "start" /\ stopping = "no"
    /\ pc' = "prepare"
    /\ KeepTick /\ KeepWorld
    /\ UNCHANGED <<durable, worker, tended, elapsed, view, todo, failures>>

(* onPrepared saves the new run, without a process, then the records.       *)
Prepare ==
    /\ pc = "prepare"
    /\ used' = used + 1
    /\ runs' = [runs EXCEPT ![used + 1] =
                   [issue |-> task.issue, status |-> "running", pid |-> FALSE,
                    st |-> task.st, conf |-> NoState, defer |-> 0]]
    /\ view' = [view EXCEPT ![task.issue] =
                   [@ EXCEPT !.state = "running", !.run = used + 1, !.retry = FALSE]]
    /\ task' = [task EXCEPT !.new = used + 1]
    /\ pc' = "publish"
    /\ KeepWorld
    /\ UNCHANGED <<records, worker, tended, elapsed, todo, cands, seen, stopping, failures>>

Publish ==
    /\ pc = "publish"
    /\ records' = view
    /\ pc' = "spawn"
    /\ KeepTick /\ KeepWorld
    /\ UNCHANGED <<runs, used, worker, tended, elapsed, view, todo, failures>>

Spawn ==
    /\ pc = "spawn"
    /\ worker' = [worker EXCEPT ![task.new] = "alive"]
    /\ tended' = tended \union {task.new}
    /\ pc' = "record"
    /\ KeepTick /\ KeepWorld /\ UNCHANGED <<durable, elapsed, view, todo, failures>>

(* spawn reports its error later and returns a child without a pid.         *)
SpawnNothing ==
    /\ pc = "spawn"
    /\ faults < MaxStartFaults /\ faults' = faults + 1
    /\ pc' = "record"
    /\ KeepTick
    /\ UNCHANGED <<durable, world, view, todo, history, moves, crashes, stops, edits>>

(* The pid is saved, with the records, and the tick goes on.                *)
RecordStart ==
    /\ pc = "record"
    /\ runs' = [runs EXCEPT ![task.new].pid = worker[task.new] # "none"]
    /\ records' = view
    /\ task' = NoTask
    /\ pc' = Back
    /\ KeepWorld
    /\ UNCHANGED <<used, worker, tended, elapsed, view, todo, cands, seen, stopping, failures>>

(* startRun throws: because the daemon is stopping, before onPrepared, or   *)
(* at the spawn.  The attempt is charged (handleRestartRunFailure, the      *)
(* catch of the dispatch loop); an error that cannot be retried spends the  *)
(* whole budget.  A dispatch counts from the record it had before its       *)
(* claim, and from zero without a retry entry there.                        *)
PriorCount ==
    IF task.kind = "retry" THEN view[task.issue].count
    ELSE IF task.before.retry THEN task.before.count ELSE 0

FailureState == IF task.kind = "retry" THEN runs[task.old].st ELSE task.st

StartFails ==
    /\ pc \in {"start", "prepare", "spawn"}
    /\ IF pc = "start" /\ stopping # "no" THEN UNCHANGED faults
       ELSE faults < MaxStartFaults /\ faults' = faults + 1
    /\ \E n \in {PriorCount + 1, MaxFailureRetries} :
          /\ runs' = [r \in Runs |->
                IF r = task.new THEN [runs[r] EXCEPT !.status = IF Spent(n) THEN "suppressed" ELSE "failed"]
                ELSE IF r = task.old /\ Spent(n) THEN [runs[r] EXCEPT !.status = "suppressed"]
                ELSE runs[r]]
          /\ view' = LET v == Fail(view, task.issue, 0, n, FailureState)
                     IN IF task.kind = "dispatch" /\ ~Spent(n)
                        THEN [v EXCEPT ![task.issue].supp = task.before.supp] ELSE v
    /\ elapsed' = elapsed \ {task.issue}
    /\ CountFailure(task.issue)
    /\ pc' = "unstart"
    /\ KeepTick
    /\ UNCHANGED <<records, used, tracker, worker, tended, grace, request, limit, todo,
                    leased, moves, crashes, stops, edits>>

SaveFailedStart ==
    /\ pc = "unstart"
    /\ records' = view
    /\ task' = NoTask
    /\ pc' = Back
    /\ KeepWorld
    /\ UNCHANGED <<runs, used, worker, tended, elapsed, view, todo, cands, seen, stopping, failures>>

(* WorkerCredentialMissingError, before onPrepared: nothing is charged.  A  *)
(* restart is requeued and a dispatch gets its old retry entry back.        *)
CredentialMissing ==
    LET i == task.issue IN
    /\ pc = "prepare"
    /\ faults < MaxStartFaults /\ faults' = faults + 1
    /\ IF task.kind = "retry"
       THEN /\ SaveRun(task.old, "retrying")
            /\ view' = Queue(view, i, task.old)
            /\ elapsed' = IF task.before.retry THEN elapsed ELSE elapsed \ {i}
            /\ UNCHANGED records
       ELSE /\ view' = [view EXCEPT ![i] =
                  [@ EXCEPT !.state = IF task.before.retry THEN "retry_queued" ELSE "released",
                            !.run = 0, !.retry = task.before.retry]]
            /\ records' = view'
            /\ UNCHANGED <<runs, elapsed>>
    /\ task' = NoTask
    /\ pc' = Back
    /\ UNCHANGED <<used, tracker, worker, tended, grace, request, limit, todo, cands, seen,
                    stopping, history, moves, crashes, stops, edits>>

-----------------------------------------------------------------------------
(* The poll: every run reconciled, the tracker's states are read, and the   *)
(* active runs take over theirs.  A failed poll goes straight to the save.  *)

PollFails ==
    /\ pc = "reconcile" /\ todo = {}
    /\ pc' = "save"
    /\ KeepTick /\ KeepWorld
    /\ UNCHANGED <<durable, worker, tended, elapsed, view, todo, failures>>

Poll ==
    /\ pc = "reconcile" /\ todo = {}
    /\ seen' = tracker
    /\ runs' = [r \in Runs |->
          IF runs[r].status \in ActiveRun /\ tracker[runs[r].issue] # NoState
          THEN [runs[r] EXCEPT !.st = tracker[runs[r].issue]] ELSE runs[r]]
    /\ cands' = {i \in Issues : tracker[i] \in ActiveStates /\ ~Holds(view[i])}
    /\ pc' = "dispatch"
    /\ KeepWorld
    /\ UNCHANGED <<records, used, worker, tended, elapsed, view, todo, task, stopping, failures>>

-----------------------------------------------------------------------------
(* The dispatch loop over the candidates, in an order the data decides.     *)

Dispatchable(i) ==
    /\ i \in cands
    /\ view[i].retry => i \in elapsed
    /\ ~Suppressed(view[i], seen[i])

(* Slip: a queued retry is claimed like a free issue.                       *)
ClaimedAnew(rec, st) ==
    [state |-> "claimed", run |-> 0, retry |-> FALSE,
     count |-> IF rec.supp # st THEN 0 ELSE rec.count,
     supp |-> IF rec.supp # st THEN NoState ELSE rec.supp]

(* isFailureRetryRearmedForState: unless the budget was spent at this very  *)
(* state, the count starts again.                                           *)
ClaimedRecord(rec, st) ==
    LET rearmed == rec.supp # st IN
    [state |-> IF rec.state = "retry_queued" THEN "retry_queued" ELSE "claimed",
     run |-> 0, retry |-> FALSE,
     count |-> IF rearmed THEN 0 ELSE rec.count,
     supp |-> IF rearmed THEN NoState ELSE rec.supp]

(* The claim is saved before the run is made.                               *)
Claim(i) ==
    /\ pc = "dispatch" /\ stopping = "no" /\ SlotsLeft /\ Room
    /\ Dispatchable(i)
    /\ view' = [view EXCEPT ![i] = ClaimedRecord(view[i], seen[i])]
    /\ records' = view'
    /\ cands' = cands \ {i}
    /\ task' = [kind |-> "dispatch", issue |-> i, old |-> 0, new |-> 0,
                 st |-> seen[i], before |-> view[i]]
    /\ pc' = "start"
    /\ KeepWorld
    /\ UNCHANGED <<runs, used, worker, tended, elapsed, todo, seen, stopping, failures>>

DispatchDone ==
    /\ pc = "dispatch"
    /\ stopping # "no" \/ ~SlotsLeft \/ ~Room \/ ~\E i \in cands : Dispatchable(i)
    /\ cands' = {i \in Issues : view[i].state \in Claimed}
    /\ pc' = "settle"
    /\ KeepWorld
    /\ UNCHANGED <<durable, worker, tended, elapsed, view, todo, seen, task, stopping, failures>>

-----------------------------------------------------------------------------
(* The last loop of the tick: claims whose issue the poll did not show as a *)
(* candidate.  The run looked at is the active one, or the current one      *)
(* whatever its status.                                                     *)

LastRun(i) == IF Active(i) # {} THEN Active(i) ELSE {view[i].run} \ {0}

(* shouldAwaitTrackerProgressExit                                           *)
Awaited(i) == \E r \in LastRun(i) : runs[r].conf = seen[i] /\ r \in grace

Settle(i) ==
    /\ pc = "settle" /\ i \in cands
    /\ cands' = cands \ {i}
    /\ KeepWorld
    /\ UNCHANGED <<pc, records, used, elapsed, todo, seen, task, stopping>>

(* Still a candidate, or in its grace; or untracked, and the state refresh  *)
(* failed or there is no process to stop.                                   *)
SettleSkips(i) ==
    /\ Settle(i)
    /\ \/ seen[i] \in ActiveStates
       \/ seen[i] # NoState /\ Awaited(i)
       \/ seen[i] = NoState /\ (Active(i) # {} \/ \A r \in LastRun(i) : ~runs[r].pid)
    /\ UNCHANGED <<runs, view, worker, tended, failures>>

SettleUnused(i) ==
    /\ Settle(i)
    /\ seen[i] \notin ActiveStates \union {NoState} /\ LastRun(i) = {}
    /\ view' = Release(view, i, FALSE)
    /\ UNCHANGED <<runs, worker, tended, failures>>

(* The worker is stopped.  A run that had itself confirmed the terminal     *)
(* state has succeeded; any other is suppressed.                            *)
Confirmed(r, i) == seen[i] \in TerminalStates /\ runs[r].conf = seen[i]

SettleSucceeds(i, r) ==
    /\ Settle(i)
    /\ seen[i] # NoState /\ ~Awaited(i) /\ r \in LastRun(i) /\ Confirmed(r, i)
    /\ Signal(r) /\ SaveRun(r, "succeeded")
    /\ view' = Release(view, i, TRUE)
    /\ failures' = [failures EXCEPT ![i] = 0]

SettleSuppresses(i, r) ==
    /\ Settle(i)
    /\ seen[i] \notin ActiveStates /\ r \in LastRun(i)
    /\ IF seen[i] = NoState THEN runs[r].pid ELSE ~Awaited(i) /\ ~Confirmed(r, i)
    /\ Signal(r) /\ SaveRun(r, "suppressed")
    /\ view' = Release(view, i, FALSE)
    /\ UNCHANGED failures

SettleDone ==
    /\ pc = "settle" /\ cands = {}
    /\ pc' = "save"
    /\ KeepTick /\ KeepWorld
    /\ UNCHANGED <<durable, worker, tended, elapsed, view, todo, failures>>

(* The tick ends by saving its records.                                     *)
EndTick ==
    /\ pc = "save"
    /\ records' = view
    /\ pc' = "idle" /\ seen' = [i \in Issues |-> NoState]
    /\ KeepWorld
    /\ UNCHANGED <<runs, used, worker, tended, elapsed, view, todo, cands, task, stopping, failures>>

-----------------------------------------------------------------------------
(* Workers, serialized with the tick.                                       *)

KeepAll == UNCHANGED <<durable, tick, stopping, failures, faults, edits>>

(* Slip: any run of a running issue.                                        *)
MayWorkUnfenced(r) == records[runs[r].issue].state = "running"

(* The run is current: it may hold leases and ask for transitions.          *)
MayWork(r) ==
    LET rec == records[runs[r].issue] IN rec.state = "running" /\ rec.run = r

(* acquireWorkerTurnLease: granted to the current run of a running issue.   *)
AcquireLease(r) ==
    /\ pc = "idle" /\ worker[r] \in {"alive", "stopping"} /\ MayWork(r)
    /\ leased' = [leased EXCEPT ![runs[r].issue] = r]
    /\ KeepAll /\ UNCHANGED <<world, moves, crashes, stops>>

(* requestTrackerState: a worker asks for a transition, which is authorized *)
(* now, carried out by the provider at some time, and merged later into the *)
(* run as it is by then.  With the bound on moves spent none is asked for.  *)
RequestState(r, to) ==
    /\ pc = "idle" /\ worker[r] = "alive" /\ request = NoRequest
    /\ MayWork(r) /\ runs[r].status \in ActiveRun /\ moves < MaxMoves
    /\ request' = [stage |-> "sent", run |-> r, to |-> to]
    /\ KeepAll
    /\ UNCHANGED <<tracker, worker, tended, elapsed, grace, limit, leased, moves, crashes, stops>>

(* Every change of an issue's state re-arms its failure budget.             *)
MoveTo(i, s) ==
    /\ moves < MaxMoves /\ tracker[i] # s
    /\ moves' = moves + 1
    /\ tracker' = [tracker EXCEPT ![i] = s]
    /\ failures' = [failures EXCEPT ![i] = 0]

ProviderApplies ==
    /\ request.stage = "sent" /\ tracker[runs[request.run].issue] # NoState
    /\ MoveTo(runs[request.run].issue, request.to)
    /\ request' = [request EXCEPT !.stage = "applied"]
    /\ UNCHANGED <<durable, tick, stopping, worker, tended, elapsed, grace, limit, leased,
                    faults, crashes, stops, edits>>

(* The call fails, or its answer is lost.                                   *)
RequestFails ==
    /\ request.stage \in {"sent", "applied"}
    /\ request' = NoRequest
    /\ KeepAll
    /\ UNCHANGED <<tracker, worker, tended, elapsed, grace, limit, leased, moves, crashes, stops>>

MergeState ==
    LET r == request.run
        confirms == request.to \notin ActiveStates
    IN
    /\ pc = "idle" /\ request.stage = "applied"
    /\ runs' = [runs EXCEPT ![r].st = request.to, ![r].conf = IF confirms THEN request.to ELSE @]
    /\ grace' = IF confirms THEN grace \union {r} ELSE grace
    /\ request' = NoRequest
    /\ UNCHANGED <<records, used, tracker, worker, tended, elapsed, limit, tick, stopping, history, bounds>>

(* A worker exits, with success reported, without, or abnormally; one told  *)
(* to stop dies of the signal.                                              *)
WorkerExits(r) ==
    /\ \E e \in Exits :
          /\ \/ worker[r] = "alive"
             \/ worker[r] = "stopping" /\ e = "bad"
          /\ worker' = [worker EXCEPT ![r] = e]
    /\ tended' = tended \ {r}
    /\ KeepAll
    /\ UNCHANGED <<tracker, elapsed, grace, request, limit, leased, moves, crashes, stops>>

-----------------------------------------------------------------------------
(* The rest of the world.  Timers are read when a tick runs, so letting     *)
(* them expire between ticks loses nothing.                                 *)

TrackerMove(i, s) ==
    /\ MoveTo(i, s)
    /\ UNCHANGED <<durable, tick, stopping, worker, tended, elapsed, grace, request,
                    limit, leased, faults, crashes, stops, edits>>

RetryElapses(i) ==
    /\ pc = "idle" /\ i \notin elapsed
    /\ records[i].retry \/ \E r \in Active(i) : runs[r].status = "retrying"
    /\ elapsed' = elapsed \union {i}
    /\ KeepAll
    /\ UNCHANGED <<tracker, worker, tended, grace, request, limit, leased, moves, crashes, stops>>

GraceEnds(r) ==
    /\ pc = "idle" /\ r \in grace
    /\ grace' = grace \ {r}
    /\ KeepAll
    /\ UNCHANGED <<tracker, worker, tended, elapsed, request, limit, leased, moves, crashes, stops>>

(* WORKFLOW.md is edited.  A tick resolves it once.                         *)
EditLimit(n) ==
    /\ pc = "idle" /\ edits < MaxEdits /\ limit # n
    /\ limit' = n /\ edits' = edits + 1
    /\ UNCHANGED <<durable, tick, stopping, tracker, worker, tended, elapsed, grace, request,
                    history, moves, faults, crashes, stops>>

(* The daemon starts again from its files; detached workers live on.        *)
Reload ==
    /\ pc' = "idle" /\ view' = records /\ todo' = {} /\ cands' = {}
    /\ seen' = [i \in Issues |-> NoState] /\ task' = NoTask
    /\ request' = NoRequest /\ tended' = {} /\ stopping' = "no"
    /\ UNCHANGED <<durable, tracker, worker, elapsed, grace, limit, history, moves, faults, edits>>

Crash ==
    /\ crashes < MaxCrashes /\ crashes' = crashes + 1
    /\ Reload /\ UNCHANGED stops

(* shutdown: the workers known at this moment get SIGTERM; without any, the *)
(* process exits at once, wherever the tick is.  Otherwise it waits, for 10 *)
(* seconds at most, and kills what is left.                                 *)
Shutdown ==
    /\ stopping = "no" /\ stops < MaxStops /\ stops' = stops + 1
    /\ worker' = [r \in Runs |-> IF r \in tended THEN "stopping" ELSE worker[r]]
    /\ stopping' = IF tended = {} THEN "leave" ELSE "draining"
    /\ UNCHANGED <<durable, tick, tracker, tended, elapsed, grace, request, limit, history,
                    moves, faults, crashes, edits>>

Drained ==
    /\ stopping = "draining"
    /\ worker' = [r \in Runs |-> IF r \in tended THEN "bad" ELSE worker[r]]
    /\ tended' = {}
    /\ stopping' = "leave"
    /\ UNCHANGED <<durable, tick, tracker, elapsed, grace, request, limit, history, bounds>>

Leave == stopping = "leave" /\ Reload /\ UNCHANGED <<crashes, stops>>

-----------------------------------------------------------------------------
ReconcileRun(r, i) ==
    \/ ReconcileSuperseded(r, i) \/ ReconcileAlive(r, i)
    \/ Complete(r, i) \/ DeferFinalization(r, i) \/ FailedAttempt(r, i) \/ Continue(r, i)
    \/ RetryWaits(r, i) \/ RetryUnconfirmed(r, i) \/ RetryReleased(r, i)
    \/ RetryNoSlot(r, i) \/ Restart(r, i)

StartRun ==
    \/ EnterStart \/ Prepare \/ Publish \/ Spawn \/ SpawnNothing \/ RecordStart
    \/ StartFails \/ SaveFailedStart \/ CredentialMissing

SettleIssue(i) ==
    \/ SettleSkips(i) \/ SettleUnused(i)
    \/ \E r \in Runs : SettleSucceeds(i, r) \/ SettleSuppresses(i, r)

Tick ==
    \/ StartTick
    \/ \E r \in Runs, i \in Issues : ReconcileRun(r, i)
    \/ PollFails \/ Poll
    \/ \E i \in Issues : Claim(i) \/ SettleIssue(i)
    \/ DispatchDone \/ StartRun \/ SettleDone \/ EndTick

Workers ==
    \/ \E r \in Runs : AcquireLease(r) \/ WorkerExits(r)
    \/ \E r \in Runs, s \in States : RequestState(r, s)
    \/ ProviderApplies \/ RequestFails \/ MergeState

World ==
    \/ \E i \in Issues, s \in States \union {NoState} : TrackerMove(i, s)
    \/ \E i \in Issues : RetryElapses(i)
    \/ \E r \in Runs : GraceEnds(r)
    \/ \E n \in Limits : EditLimit(n)
    \/ Crash \/ Shutdown \/ Drained \/ Leave

Next == Tick \/ Workers \/ World

Spec == Init /\ [][Next]_vars

(* The poll loop keeps ticking, the tracker answers now and then, timers    *)
(* fire and a stopping daemon leaves; nothing is assumed of the workers.    *)
Fairness ==
    /\ WF_vars(Tick) /\ SF_vars(Poll) /\ WF_vars(Drained \/ Leave)
    /\ \A i \in Issues : WF_vars(RetryElapses(i))
    /\ \A r \in Runs : WF_vars(GraceEnds(r))

FairSpec == Spec /\ Fairness

-----------------------------------------------------------------------------
TypeOK ==
    /\ records \in [Issues -> Record]
    /\ runs \in [Runs -> Run]
    /\ used \in 0..MaxRuns
    /\ tracker \in [Issues -> States \union {NoState}]
    /\ worker \in [Runs -> {"none", "alive", "stopping"} \union Exits]
    /\ tended \in SUBSET Runs /\ elapsed \in SUBSET Issues /\ grace \in SUBSET Runs
    /\ request \in {NoRequest} \union
          [stage : {"sent", "applied"}, run : Runs, to : States]
    /\ pc \in {"idle", "reconcile", "start", "prepare", "publish", "spawn", "record",
                "unstart", "dispatch", "settle", "save"}
    /\ view \in [Issues -> Record]
    /\ todo \in SUBSET Runs /\ cands \in SUBSET Issues
    /\ seen \in [Issues -> States \union {NoState}]
    /\ task \in {NoTask} \union Task
    /\ stopping \in {"no", "draining", "leave"}
    /\ leased \in [Issues -> 0..MaxRuns] /\ failures \in [Issues -> Nat]
    /\ moves \in Nat /\ faults \in Nat /\ crashes \in Nat /\ stops \in Nat
    /\ limit \in Limits /\ edits \in Nat

(* An issue never has two active runs, whatever dies between two writes: a  *)
(* second would be restarted by every tick and multiply (service.ts:5662).  *)
AtMostOneActiveRun ==
    \A r, s \in Runs :
        runs[r].status \in ActiveRun /\ runs[s].status \in ActiveRun
            /\ runs[r].issue = runs[s].issue => r = s

(* The lifecycle of the coordination records: every change of state is one  *)
(* assertIssueOrchestrationTransition allows (it would throw and abort each *)
(* tick from then on), and a claim is on disk before a run is made under it. *)
Lifecycle == INSTANCE IssueLifecycle WITH
    state <- [i \in Issues |-> view[i].state],
    saved <- [i \in Issues |-> records[i].state]

ImplementsLifecycle == Lifecycle!Spec

(* Claims that occupy a slot never exceed the configured concurrency, as    *)
(* long as it is not lowered under them.                                    *)
WithinConcurrency == edits = 0 => Cardinality({i \in Issues : Holds(view[i])}) <= limit

(* Neither do the workers, which is what the limit is for.  A daemon that   *)
(* died may have left one that it does not know of.                         *)
AgentsWithinConcurrency ==
    edits = 0 /\ crashes = 0 /\ stops = 0
        => Cardinality({r \in Runs : worker[r] = "alive"}) <= limit

(* The slots and the agents in them are within the limit.                   *)
WithinLimit == WithinConcurrency /\ AgentsWithinConcurrency

(* And a limit lowered meanwhile holds from the next start on: with it, no  *)
(* more issues are under way than the limit now in force allows.            *)
StartsWithinLimit ==
    [][pc' = "start" /\ pc # "start" =>
          Cardinality({task'.issue} \union
              {i \in Issues : view'[i].state \in {"claimed", "running"}}) <= limit]_vars

(* Once a run has been granted a lease, no older run of its issue is.       *)
LeasesMoveForward == [][\A i \in Issues : leased'[i] >= leased[i]]_vars

(* A second worker is not started for an issue while one runs that nobody   *)
(* has told to stop.                                                        *)
NoSecondWorker ==
    \A r, s \in Runs :
        worker[r] = "alive" /\ worker[s] = "alive" /\ runs[r].issue = runs[s].issue => r = s

(* Between ticks, a claim that occupies a slot has an active current run.   *)
Backed(i) == records[i].run \in Active(i)
ClaimsAreBacked == pc = "idle" => \A i \in Issues : Holds(records[i]) => Backed(i)

(* Two active runs of one issue, left by two daemons that ran on the        *)
(* project at once (ProjectLock), do not outlive the reconciliation of the  *)
(* runs: one is left, and no other worker of a daemon that is left alone    *)
(* (service.ts:4486, 3896).                                                 *)
ReconcileLeavesOne == pc = "reconcile" /\ todo = {} => AtMostOneActiveRun /\ NoSecondWorker

(* Does not hold.  When the current one of two is over before the other is  *)
(* reconciled, that one is left active without a claim, and the dispatch    *)
(* that follows may start a run beside it (service.ts:3896, 1761).          *)
DispatchLeavesOne == pc = "dispatch" => AtMostOneActiveRun /\ NoSecondWorker

(* A run that succeeded is not judged again.                                *)
SuccessIsFinal ==
    [][\A r \in Runs : runs[r].status = "succeeded" => runs'[r].status = "succeeded"]_vars

(* The failure budget: an issue that has failed max_failure_retries times   *)
(* since its tracker state last changed, or since a success, starts no run. *)
BudgetHolds ==
    [][\A i \in Issues : failures[i] >= MaxFailureRetries =>
          \A r \in Runs : runs'[r].issue = i => runs[r].issue = i]_vars

(* A run whose worker ended, or never started, does not stay "running".     *)
EndedRunsSettle ==
    \A r \in Runs :
        pc = "idle" /\ runs[r].status = "running" /\ worker[r] \notin {"alive", "stopping"}
            ~> runs[r].status # "running"

(* A retry that is due is acted on: restarted, released, failed or put off. *)
(* (One without a run waits for ever once its issue is no longer tracked.)  *)
RetriesFire ==
    \A i \in Issues :
        records[i].state = "retry_queued" /\ i \in elapsed /\ Room
            ~> \/ records[i].state # "retry_queued" \/ i \notin elapsed
               \/ tracker[i] = NoState \/ ~Room

(* A claim without an active run is recovered: retried or released.         *)
StrandedClaimsRecover ==
    \A i \in Issues : Holds(records[i]) /\ ~Backed(i) ~> Backed(i) \/ ~Holds(records[i])
=============================================================================
