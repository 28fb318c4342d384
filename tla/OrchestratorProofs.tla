------------------------- MODULE OrchestratorProofs -------------------------
(* What holds of the scheduler for any number of issues, runs, workflow     *)
(* states, failures, crashes and stops: an issue has one active run; hence  *)
(* leases move forward, the slots in use stay within the limit, the records *)
(* keep to their lifecycle, and a daemon that is left alone starts no       *)
(* second worker, strands no claim and judges no success again.             *)
EXTENDS MCOrchestrator, FiniteSetTheorems, TLAPS

SomeState == States \union {NoState}
Records == [Issues -> Record]

-----------------------------------------------------------------------------
(* The helpers that write coordination records write well-formed ones, and  *)
(* only the record of the issue they are about.                             *)

LEMMA ReleaseOne ==
    ASSUME NEW v \in Records, NEW i \in Issues, NEW reset \in BOOLEAN
    PROVE  /\ Release(v, i, reset) \in Records
           /\ \A j \in Issues : j # i => Release(v, i, reset)[j] = v[j]
  BY OrchestratorAssumption DEF Release, Records, Record, Claimed

LEMMA QueueOne ==
    ASSUME NEW v \in Records, NEW i \in Issues, NEW r \in 0..MaxRuns
    PROVE  /\ Queue(v, i, r) \in Records
           /\ Queue(v, i, r)[i].state = "retry_queued"
           /\ Queue(v, i, r)[i].run = r
           /\ \A j \in Issues : j # i => Queue(v, i, r)[j] = v[j]
  BY OrchestratorAssumption DEF Queue, Records, Record, Claimed

LEMMA SetOne ==
    ASSUME NEW v \in Records, NEW i \in Issues, NEW state \in Claimed \union {"none", "released"},
           NEW r \in 0..MaxRuns, NEW retry \in BOOLEAN
    PROVE  LET w == [v EXCEPT ![i] = [@ EXCEPT !.state = state, !.run = r, !.retry = retry]] IN
           /\ w \in Records
           /\ w[i].state = state /\ w[i].run = r
           /\ \A j \in Issues : j # i => w[j] = v[j]
  BY OrchestratorAssumption DEF Records, Record, Claimed

LEMMA FailOne ==
    ASSUME NEW v \in Records, NEW i \in Issues, NEW r \in 0..MaxRuns,
           NEW n \in Nat, NEW st \in SomeState
    PROVE  /\ Fail(v, i, r, n, st) \in Records
           /\ ~Spent(n) => /\ Fail(v, i, r, n, st)[i].state = "retry_queued"
                           /\ Fail(v, i, r, n, st)[i].run = r
           /\ \A j \in Issues : j # i => Fail(v, i, r, n, st)[j] = v[j]
<1>1. CASE Spent(n)
  <2> DEFINE e == [state |-> "released", run |-> 0, retry |-> FALSE, count |-> n, supp |-> st]
  <2>1. e \in Record
    BY OrchestratorAssumption DEF Record, SomeState
  <2>2. Fail(v, i, r, n, st) = [v EXCEPT ![i] = e]
    BY <1>1 DEF Fail
  <2> HIDE DEF e
  <2> QED
    BY <1>1, <2>1, <2>2 DEF Records
<1>2. CASE ~Spent(n)
  <2> DEFINE e == [v[i] EXCEPT !.state = "retry_queued", !.run = r, !.retry = TRUE, !.count = n]
  <2>1. e \in Record /\ e.state = "retry_queued" /\ e.run = r
    BY DEF Records, Record, Claimed
  <2>2. Fail(v, i, r, n, st) = [v EXCEPT ![i] = e]
    BY <1>2 DEF Fail
  <2> HIDE DEF e
  <2> QED
    BY <2>1, <2>2 DEF Records
<1> QED
  BY <1>1, <1>2

-----------------------------------------------------------------------------
(* The ways a run record is written, one at a time.                         *)

Status == ActiveRun \union {"unused", "succeeded", "failed", "suppressed"}

LEMMA SaveRunOne ==
    ASSUME runs \in [Runs -> Run], NEW r \in Runs, NEW status \in Status, SaveRun(r, status)
    PROVE  /\ runs' \in [Runs -> Run]
           /\ runs'[r].status = status /\ runs'[r].issue = runs[r].issue
           /\ \A s \in Runs : s # r => runs'[s] = runs[s]
<1> DEFINE run == [runs[r] EXCEPT !.status = status, !.pid = FALSE]
<1>1. run \in Run /\ run.status = status /\ run.issue = runs[r].issue
  BY DEF Run, Status
<1>2. runs' = [runs EXCEPT ![r] = run]
  BY DEF SaveRun
<1> HIDE DEF run
<1> QED
  BY <1>1, <1>2

LEMMA EndRunOne ==
    ASSUME runs \in [Runs -> Run], NEW r \in Runs, NEW status \in Status, EndRun(r, status)
    PROVE  /\ runs' \in [Runs -> Run]
           /\ runs'[r].status = status /\ runs'[r].issue = runs[r].issue
           /\ \A s \in Runs : s # r => runs'[s] = runs[s]
<1> DEFINE run == [runs[r] EXCEPT !.status = status, !.pid = FALSE, !.defer = 0]
<1>1. run \in Run /\ run.status = status /\ run.issue = runs[r].issue
  BY DEF Run, Status
<1>2. runs' = [runs EXCEPT ![r] = run]
  BY DEF EndRun
<1> HIDE DEF run
<1> QED
  BY <1>1, <1>2

LEMMA PidOne ==
    ASSUME runs \in [Runs -> Run], NEW r \in Runs, NEW b \in BOOLEAN,
           runs' = [runs EXCEPT ![r].pid = b]
    PROVE  /\ runs' \in [Runs -> Run]
           /\ \A s \in Runs : runs'[s].issue = runs[s].issue /\ runs'[s].status = runs[s].status
<1> DEFINE run == [runs[r] EXCEPT !.pid = b]
<1>1. run \in Run /\ run.issue = runs[r].issue /\ run.status = runs[r].status
  BY DEF Run
<1>2. runs' = [runs EXCEPT ![r] = run]
  OBVIOUS
<1> HIDE DEF run
<1> QED
  BY <1>1, <1>2

LEMMA DeferOne ==
    ASSUME runs \in [Runs -> Run], NEW r \in Runs, NEW d \in Nat,
           runs' = [runs EXCEPT ![r] = [@ EXCEPT !.defer = d, !.pid = FALSE]]
    PROVE  /\ runs' \in [Runs -> Run]
           /\ \A s \in Runs : runs'[s].issue = runs[s].issue /\ runs'[s].status = runs[s].status
<1> DEFINE run == [runs[r] EXCEPT !.defer = d, !.pid = FALSE]
<1>1. run \in Run /\ run.issue = runs[r].issue /\ run.status = runs[r].status
  BY DEF Run
<1>2. runs' = [runs EXCEPT ![r] = run]
  OBVIOUS
<1> HIDE DEF run
<1> QED
  BY <1>1, <1>2

LEMMA SuppressOne ==
    ASSUME runs \in [Runs -> Run], NEW r \in Runs, NEW st \in SomeState,
           runs' = [runs EXCEPT ![r] = [@ EXCEPT !.status = "suppressed", !.pid = FALSE, !.st = st]]
    PROVE  /\ runs' \in [Runs -> Run]
           /\ runs'[r].status = "suppressed" /\ runs'[r].issue = runs[r].issue
           /\ \A s \in Runs : s # r => runs'[s] = runs[s]
<1> DEFINE run == [runs[r] EXCEPT !.status = "suppressed", !.pid = FALSE, !.st = st]
<1>1. run \in Run /\ run.status = "suppressed" /\ run.issue = runs[r].issue
  BY DEF Run, SomeState
<1>2. runs' = [runs EXCEPT ![r] = run]
  OBVIOUS
<1> HIDE DEF run
<1> QED
  BY <1>1, <1>2

LEMMA SignalType ==
    ASSUME TypeOK, NEW r \in Runs, Signal(r)
    PROVE  /\ worker' \in [Runs -> {"none", "alive", "stopping"} \union Exits]
           /\ tended' \in SUBSET Runs
  BY DEF Signal, TypeOK

-----------------------------------------------------------------------------
(* What the tick remembers between the steps of a start: the task, and that *)
(* a run may still be created.                                              *)

Starting == {"start", "prepare", "publish", "spawn", "record", "unstart"}

Midway ==
    /\ pc \in Starting => task \in Task
    /\ pc \in {"start", "prepare"} => used < MaxRuns /\ task.new = 0
    /\ pc \in {"publish", "spawn", "record"} => task.new \in Runs
    /\ pc \in Starting /\ task.kind = "retry" =>
          task.old \in Runs /\ runs[task.old].issue = task.issue
    /\ \A r \in Runs : runs[r].status \in ActiveRun => runs[r].issue \in Issues

Typed == TypeOK /\ Midway

LEMMA TypedInit == Init => Typed
  BY OrchestratorAssumption
  DEF Init, Typed, TypeOK, Midway, Starting, Records, Record, Run, Runs, NoRecord, NoTask,
      NoRequest, States, ActiveRun, Exits

(* What every reconciliation of a run other than a restart does.            *)
Reconciled(r) ==
    /\ runs' \in [Runs -> Run]
    /\ \A s \in Runs : runs'[s].issue = runs[s].issue /\ (s # r => runs'[s].status = runs[s].status)
    /\ view' \in Records
    /\ worker' \in [Runs -> {"none", "alive", "stopping"} \union Exits]
    /\ tended' \in SUBSET Runs /\ elapsed' \in SUBSET Issues /\ failures' \in [Issues -> Nat]
    /\ UNCHANGED <<pc, records, used>> /\ KeepTick /\ KeepWorld

LEMMA ReconciledTyped ==
    ASSUME Typed, NEW r \in Runs, NEW i \in Issues, Take(r, i), Reconciled(r)
    PROVE  Typed'
<1> USE DEF Typed, Reconciled, Take, KeepTick, KeepWorld, bounds
<1>1. TypeOK'
  BY DEF TypeOK, Records
<1>2. Midway'
  BY DEF Midway, Starting, TypeOK
<1> QED
  BY <1>1, <1>2

LEMMA CountFailureType ==
    ASSUME TypeOK, NEW i \in Issues, CountFailure(i)
    PROVE  failures' \in [Issues -> Nat]
  BY OrchestratorAssumption DEF TypeOK, CountFailure

Judges(r, i) ==
    \/ ReconcileSuperseded(r, i) \/ ReconcileAlive(r, i)
    \/ Complete(r, i) \/ DeferFinalization(r, i) \/ FailedAttempt(r, i) \/ Continue(r, i)
    \/ RetryWaits(r, i) \/ RetryUnconfirmed(r, i) \/ RetryReleased(r, i) \/ RetryNoSlot(r, i)

LEMMA ReconcileShape ==
    ASSUME Typed, NEW r \in Runs, NEW i \in Issues, Judges(r, i)
    PROVE  Take(r, i) /\ Reconciled(r)
<1>a. /\ runs \in [Runs -> Run] /\ view \in Records /\ TypeOK
      /\ elapsed \in SUBSET Issues /\ failures \in [Issues -> Nat]
      /\ worker \in [Runs -> {"none", "alive", "stopping"} \union Exits] /\ tended \in SUBSET Runs
  BY DEF Typed, TypeOK, Records
<1>b. /\ view[i] \in Record /\ view[i].count + 1 \in Nat
      /\ runs[r].st \in SomeState /\ r \in 0..MaxRuns
      /\ \A n : (IF Spent(n) THEN "suppressed" ELSE "retrying") \in Status
      /\ {"failed", "succeeded", "retrying"} \subseteq Status
  BY <1>a, OrchestratorAssumption DEF Records, Record, Run, SomeState, Runs, Status, ActiveRun
<1> USE DEF Reconciled
<1>1. ASSUME ReconcileSuperseded(r, i) PROVE Take(r, i) /\ Reconciled(r)
  BY <1>1, <1>a, <1>b, SaveRunOne, SignalType DEF ReconcileSuperseded
<1>2. ASSUME ReconcileAlive(r, i) PROVE Take(r, i) /\ Reconciled(r)
  <2>1. runs' \in [Runs -> Run] /\ \A s \in Runs : runs'[s].issue = runs[s].issue /\ (s # r => runs'[s] = runs[s])
    BY <1>2, <1>a DEF ReconcileAlive, Run, ActiveRun
  <2>2. view' \in Records
    BY <1>2, <1>a, <1>b DEF ReconcileAlive, Records, Record, Claimed
  <2> QED
    BY <1>2, <1>a, <2>1, <2>2 DEF ReconcileAlive
<1>3. ASSUME Complete(r, i) PROVE Take(r, i) /\ Reconciled(r)
  <2>1. failures' \in [Issues -> Nat]
    BY <1>3, <1>a DEF Complete
  <2> QED
    BY <1>3, <1>a, <1>b, <2>1, SaveRunOne, SignalType, ReleaseOne DEF Complete, Ended
<1>4. ASSUME DeferFinalization(r, i) PROVE Take(r, i) /\ Reconciled(r)
  <2>1. runs' \in [Runs -> Run] /\ \A s \in Runs : runs'[s].issue = runs[s].issue /\ runs'[s].status = runs[s].status
    <3>1. runs[r].defer + 1 \in Nat
      BY <1>a DEF Run
    <3> QED
      BY <1>4, <1>a, <3>1, DeferOne DEF DeferFinalization
  <2> QED
    BY <1>4, <1>a, <2>1, SignalType DEF DeferFinalization, Ended
<1>5. ASSUME FailedAttempt(r, i) PROVE Take(r, i) /\ Reconciled(r)
  BY <1>5, <1>a, <1>b, EndRunOne, SignalType, FailOne, CountFailureType DEF FailedAttempt, Ended
<1>6. ASSUME Continue(r, i) PROVE Take(r, i) /\ Reconciled(r)
  BY <1>6, <1>a, <1>b, EndRunOne, SignalType, QueueOne DEF Continue, Ended
<1>7. ASSUME RetryWaits(r, i) PROVE Take(r, i) /\ Reconciled(r)
  BY <1>7, <1>a DEF RetryWaits
<1>8. ASSUME RetryUnconfirmed(r, i) PROVE Take(r, i) /\ Reconciled(r)
  BY <1>8, <1>a, <1>b, SaveRunOne, FailOne, CountFailureType DEF RetryUnconfirmed, RetryFires
<1>9. ASSUME RetryReleased(r, i) PROVE Take(r, i) /\ Reconciled(r)
  <2>1. tracker[i] \in SomeState
    BY DEF Typed, TypeOK, SomeState
  <2>2. runs' \in [Runs -> Run] /\ \A s \in Runs : runs'[s].issue = runs[s].issue /\ (s # r => runs'[s] = runs[s])
    BY <1>9, <1>a, <1>b, <2>1, SuppressOne DEF RetryReleased
  <2> QED
    BY <1>9, <1>a, <2>2, ReleaseOne DEF RetryReleased, RetryFires
<1>10. ASSUME RetryNoSlot(r, i) PROVE Take(r, i) /\ Reconciled(r)
  BY <1>10, <1>a, <1>b, SaveRunOne, QueueOne DEF RetryNoSlot, RetryFires
<1> QED
  BY <1>1, <1>2, <1>3, <1>4, <1>5, <1>6, <1>7, <1>8, <1>9, <1>10 DEF Judges

LEMMA RestartTyped ==
    ASSUME Typed, NEW r \in Runs, NEW i \in Issues, Restart(r, i)
    PROVE  /\ Typed'
           /\ runs'[r].status = "failed"
           /\ \A s \in Runs : runs'[s].issue = runs[s].issue /\ (s # r => runs'[s] = runs[s])
<1>1. SaveRun(r, "failed") /\ Take(r, i) /\ used < MaxRuns
  BY OrchestratorAssumption DEF Restart, RetryFires, Supersede, Room, Typed, TypeOK
<1>2. /\ runs' \in [Runs -> Run] /\ runs'[r].status = "failed"
      /\ \A s \in Runs : runs'[s].issue = runs[s].issue /\ (s # r => runs'[s] = runs[s])
  BY <1>1, SaveRunOne DEF Typed, TypeOK, Status
<1>3. task' \in Task /\ task'.new = 0 /\ task'.old = r
  <2>1. tracker[i] \in States
    BY OrchestratorAssumption DEF Restart, RetryFires, ReadsActive, States
  <2>2. view[i] \in Record /\ r \in 0..MaxRuns
    BY DEF Typed, TypeOK, Runs
  <2> QED
    BY <2>1, <2>2, OrchestratorAssumption DEF Restart, Task
<1>4. TypeOK'
  BY <1>1, <1>2, <1>3 DEF Restart, KeepWorld, bounds, Take, Typed, TypeOK
<1>5. Midway'
  BY <1>1, <1>2, <1>3 DEF Restart, Typed, Midway, Starting, Take
<1> QED
  BY <1>2, <1>4, <1>5 DEF Typed

LEMMA ReconcileTyped ==
    ASSUME Typed, NEW r \in Runs, NEW i \in Issues, ReconcileRun(r, i)
    PROVE  Typed'
  BY ReconcileShape, ReconciledTyped, RestartTyped DEF ReconcileRun, Judges

LEMMA BeginTyped == ASSUME Typed, StartTick PROVE Typed'
<1>1. view' \in Records
  <2> SUFFICES ASSUME NEW i \in Issues, NEW r \in 0..MaxRuns
               PROVE  Select(i, r) \in Record
    BY DEF StartTick, Records, Typed, TypeOK
  <2> QED
    <3> DEFINE s == IF records[i].state # "none" THEN records[i].state
                    ELSE IF IsRunning(r) \/ runs[r].status # "retrying"
                         THEN "running" ELSE "retry_queued"
    <3>1. records[i] \in Record
      BY DEF Typed, TypeOK
    <3>2. s \in Claimed \union {"none", "released"}
      BY <3>1 DEF Record, Claimed
    <3>3. Select(i, r) = [records[i] EXCEPT !.run = r, !.state = s]
      BY DEF Select
    <3> HIDE DEF s
    <3> QED
      BY <3>1, <3>2, <3>3 DEF Record
<1>2. todo' \in SUBSET Runs
  BY DEF StartTick, Active
<1>3. TypeOK'
  BY <1>1, <1>2 DEF StartTick, Typed, TypeOK, KeepTick, KeepWorld, bounds, Records
<1>4. Midway'
  BY DEF StartTick, Typed, Midway, Starting
<1> QED
  BY <1>3, <1>4 DEF Typed

(* The record that a start that failed leaves of its issue.                 *)
LEMMA PriorCountType == ASSUME Typed, pc \in Starting PROVE PriorCount + 1 \in Nat
  BY DEF PriorCount, Typed, TypeOK, Midway, Task, Record

LEMMA FailureStateType == ASSUME Typed, pc \in Starting PROVE FailureState \in SomeState
  BY OrchestratorAssumption
  DEF FailureState, Typed, TypeOK, Midway, Task, Run, SomeState, States

LEMMA StartTyped == ASSUME Typed, StartRun PROVE Typed'
<1> USE OrchestratorAssumption DEF Typed, KeepTick, KeepWorld, world, tick, history, bounds, durable
<1>1. ASSUME EnterStart PROVE Typed'
  <2>1. TypeOK'
    BY <1>1 DEF EnterStart, TypeOK
  <2>2. Midway'
    BY <1>1 DEF EnterStart, Midway, Starting
  <2> QED
    BY <2>1, <2>2
<1>2. ASSUME Prepare PROVE Typed'
  <2>1. task \in Task /\ used + 1 \in Runs
    BY <1>2 DEF Prepare, Midway, Starting, TypeOK, Runs
  <2>2. runs' \in [Runs -> Run]
    BY <1>2, <2>1 DEF Prepare, TypeOK, Run, Task, ActiveRun
  <2>3. view' \in Records
    <3>1. view \in Records /\ task.issue \in Issues /\ used + 1 \in 0..MaxRuns /\ "running" \in Claimed
      BY <2>1 DEF TypeOK, Records, Task, Runs, Claimed
    <3> QED
      BY <1>2, <3>1, SetOne DEF Prepare
  <2>4. task' \in Task /\ task'.new = used + 1 /\ task'.old = task.old /\ task'.kind = task.kind
    BY <1>2, <2>1 DEF Prepare, Task, Runs
  <2>5. TypeOK'
    <3>1. used' \in 0..MaxRuns
      BY <1>2, <2>1 DEF Prepare, Runs
    <3> QED
      BY <1>2, <2>2, <2>3, <2>4, <3>1 DEF Prepare, TypeOK, Records
  <2>6. Midway'
    BY <1>2, <2>1, <2>4 DEF Prepare, Midway, Starting, TypeOK, Task, Run
  <2> QED
    BY <2>5, <2>6
<1>3. ASSUME Publish PROVE Typed'
  <2>1. TypeOK'
    BY <1>3 DEF Publish, TypeOK
  <2>2. Midway'
    BY <1>3 DEF Publish, Midway, Starting
  <2> QED
    BY <2>1, <2>2
<1>4. ASSUME Spawn PROVE Typed'
  <2>1. TypeOK'
    BY <1>4 DEF Spawn, TypeOK, Midway
  <2>2. Midway'
    BY <1>4 DEF Spawn, Midway, Starting
  <2> QED
    BY <2>1, <2>2
<1>5. ASSUME SpawnNothing PROVE Typed'
  <2>1. TypeOK'
    BY <1>5 DEF SpawnNothing, TypeOK
  <2>2. Midway'
    BY <1>5 DEF SpawnNothing, Midway, Starting
  <2> QED
    BY <2>1, <2>2
<1>6. ASSUME RecordStart PROVE Typed'
  <2>1. runs' \in [Runs -> Run] /\ \A s \in Runs : runs'[s].issue = runs[s].issue /\ runs'[s].status = runs[s].status
    <3>1. task.new \in Runs /\ runs \in [Runs -> Run] /\ (worker[task.new] # "none") \in BOOLEAN
      BY <1>6 DEF RecordStart, Midway, TypeOK
    <3> QED
      BY <1>6, <3>1, PidOne DEF RecordStart
  <2>2. TypeOK'
    BY <1>6, <2>1 DEF RecordStart, TypeOK, Back
  <2>3. Midway'
    BY <1>6, <2>1 DEF RecordStart, Midway, Starting, Back
  <2> QED
    BY <2>2, <2>3
<1>7. ASSUME StartFails PROVE Typed'
  <2>1. pc \in Starting
    BY <1>7 DEF StartFails, Starting
  <2>2. PICK n \in {PriorCount + 1, MaxFailureRetries} :
          /\ runs' = [r \in Runs |->
                IF r = task.new THEN [runs[r] EXCEPT !.status = IF Spent(n) THEN "suppressed" ELSE "failed"]
                ELSE IF r = task.old /\ Spent(n) THEN [runs[r] EXCEPT !.status = "suppressed"]
                ELSE runs[r]]
          /\ view' = LET v == Fail(view, task.issue, 0, n, FailureState)
                     IN IF task.kind = "dispatch" /\ ~Spent(n)
                        THEN [v EXCEPT ![task.issue].supp = task.before.supp] ELSE v
    BY <1>7 DEF StartFails
  <2>3. n \in Nat /\ FailureState \in SomeState /\ task \in Task
    BY <2>1, <2>2, PriorCountType, FailureStateType DEF Midway
  <2>4. task.issue \in Issues /\ task.before \in Record
    BY <2>3 DEF Task
  <2>5. runs' \in [Runs -> Run]
        /\ \A s \in Runs : runs'[s].issue = runs[s].issue /\ (runs'[s].status \in ActiveRun => runs[s].status \in ActiveRun)
    BY <2>2 DEF TypeOK, Run, ActiveRun
  <2>6. Fail(view, task.issue, 0, n, FailureState) \in Records
    <3>1. view \in Records /\ 0 \in 0..MaxRuns
      BY DEF TypeOK, Records
    <3> QED
      BY <2>3, <2>4, <3>1, FailOne
  <2>7. view' \in Records
    BY <2>2, <2>4, <2>6 DEF Records, Record
  <2>8. failures' \in [Issues -> Nat]
    BY <1>7, <2>4, CountFailureType DEF StartFails
  <2>9. TypeOK'
    BY <1>7, <2>5, <2>7, <2>8 DEF StartFails, TypeOK, Records
  <2>10. Midway'
    BY <1>7, <2>1, <2>5 DEF StartFails, Midway, Starting
  <2> QED
    BY <2>9, <2>10
<1>8. ASSUME SaveFailedStart PROVE Typed'
  <2>1. TypeOK'
    BY <1>8 DEF SaveFailedStart, TypeOK, Back
  <2>2. Midway'
    BY <1>8 DEF SaveFailedStart, Midway, Starting, Back
  <2> QED
    BY <2>1, <2>2
<1>9. ASSUME CredentialMissing PROVE Typed'
  <2>1. task \in Task /\ task.issue \in Issues /\ task.before \in Record
    BY <1>9 DEF CredentialMissing, Midway, Starting, Task
  <2>2. CASE task.kind = "retry"
    <3>1. task.old \in Runs /\ task.old \in 0..MaxRuns
      BY <1>9, <2>1, <2>2 DEF CredentialMissing, Midway, Starting, Task
    <3>2. runs' \in [Runs -> Run] /\ \A s \in Runs : runs'[s].issue = runs[s].issue
      BY <1>9, <2>2, <3>1, SaveRunOne DEF CredentialMissing, TypeOK, Status, ActiveRun
    <3>3. view' \in Records
      <4>1. view \in Records
        BY DEF TypeOK, Records
      <4> QED
        BY <1>9, <2>1, <2>2, <3>1, <4>1, QueueOne DEF CredentialMissing
    <3>4. elapsed' \in SUBSET Issues
      BY <1>9, <2>2 DEF CredentialMissing, TypeOK
    <3>5. TypeOK'
      BY <1>9, <2>2, <3>2, <3>3, <3>4 DEF CredentialMissing, TypeOK, Records, Back
    <3>6. Midway'
      BY <1>9, <2>1, <2>2, <3>1, <3>2, SaveRunOne
         DEF CredentialMissing, Midway, Starting, Back, TypeOK, Status, ActiveRun
    <3> QED
      BY <3>5, <3>6
  <2>3. CASE task.kind # "retry"
    <3>1. view' \in Records
      <4> DEFINE s == IF task.before.retry THEN "retry_queued" ELSE "released"
      <4>1. /\ view \in Records /\ task.before.retry \in BOOLEAN /\ 0 \in 0..MaxRuns
            /\ s \in Claimed \union {"none", "released"}
        BY <2>1 DEF TypeOK, Records, Record, Claimed
      <4>2. view' = [view EXCEPT ![task.issue] =
                        [@ EXCEPT !.state = s, !.run = 0, !.retry = task.before.retry]]
        BY <1>9, <2>3 DEF CredentialMissing
      <4> HIDE DEF s
      <4> QED
        BY <2>1, <4>1, <4>2, SetOne
    <3>2. TypeOK'
      BY <1>9, <2>3, <3>1 DEF CredentialMissing, TypeOK, Records, Back
    <3>3. Midway'
      BY <1>9, <2>3 DEF CredentialMissing, Midway, Starting, Back
    <3> QED
      BY <3>2, <3>3
  <2> QED
    BY <2>2, <2>3
<1> QED
  BY <1>1, <1>2, <1>3, <1>4, <1>5, <1>6, <1>7, <1>8, <1>9 DEF StartRun

LEMMA DispatchTyped ==
    ASSUME Typed, PollFails \/ Poll \/ DispatchDone \/ \E i \in Issues : Claim(i)
    PROVE  Typed'
<1> USE OrchestratorAssumption DEF Typed, KeepTick, KeepWorld, world, tick, history, bounds, durable
<1>1. ASSUME PollFails PROVE Typed'
  <2>1. TypeOK'
    BY <1>1 DEF PollFails, TypeOK
  <2>2. Midway'
    BY <1>1 DEF PollFails, Midway, Starting
  <2> QED
    BY <2>1, <2>2
<1>2. ASSUME Poll PROVE Typed'
  <2>1. \A r \in Runs : runs[r].status \in ActiveRun => tracker[runs[r].issue] \in SomeState
    BY DEF Midway, TypeOK, SomeState
  <2>2. runs' \in [Runs -> Run] /\ \A r \in Runs : runs'[r].issue = runs[r].issue /\ runs'[r].status = runs[r].status
    <3> SUFFICES ASSUME NEW r \in Runs
                 PROVE  runs'[r] \in Run /\ runs'[r].issue = runs[r].issue /\ runs'[r].status = runs[r].status
      BY <1>2 DEF Poll
    <3>1. runs'[r] = IF runs[r].status \in ActiveRun /\ tracker[runs[r].issue] # NoState
                     THEN [runs[r] EXCEPT !.st = tracker[runs[r].issue]] ELSE runs[r]
      BY <1>2 DEF Poll
    <3>2. \A st \in SomeState : LET new == [runs[r] EXCEPT !.st = st] IN
             new \in Run /\ new.issue = runs[r].issue /\ new.status = runs[r].status
      BY DEF TypeOK, Run, SomeState
    <3> QED
      BY <2>1, <3>1, <3>2 DEF TypeOK
  <2>3. TypeOK'
    BY <1>2, <2>2 DEF Poll, TypeOK
  <2>4. Midway'
    BY <1>2, <2>2 DEF Poll, Midway, Starting
  <2> QED
    BY <2>3, <2>4
<1>3. ASSUME NEW i \in Issues, Claim(i) PROVE Typed'
  <2>1. seen[i] \in SomeState /\ view[i] \in Record
    BY DEF TypeOK, SomeState
  <2>2. ClaimedRecord(view[i], seen[i]) \in Record
    BY <2>1 DEF ClaimedRecord, Record, Claimed
  <2>3. view' \in Records
    BY <1>3, <2>2 DEF Claim, TypeOK, Records
  <2>4. task' \in Task /\ task'.new = 0 /\ task'.kind = "dispatch"
    BY <1>3, <2>1 DEF Claim, Task, SomeState
  <2>5. TypeOK'
    BY <1>3, <2>3, <2>4 DEF Claim, TypeOK, Records
  <2>6. Midway'
    BY <1>3, <2>4 DEF Claim, Midway, Starting, Room, TypeOK
  <2> QED
    BY <2>5, <2>6
<1>4. ASSUME DispatchDone PROVE Typed'
  <2>1. TypeOK'
    BY <1>4 DEF DispatchDone, TypeOK
  <2>2. Midway'
    BY <1>4 DEF DispatchDone, Midway, Starting
  <2> QED
    BY <2>1, <2>2
<1> QED
  BY <1>1, <1>2, <1>3, <1>4

LEMMA SettleTyped ==
    ASSUME Typed, SettleDone \/ EndTick \/ \E i \in Issues : SettleIssue(i)
    PROVE  Typed'
<1> USE OrchestratorAssumption DEF Typed, KeepTick, KeepWorld, Settle, world, tick, history, bounds, durable
<1>1. ASSUME NEW i \in Issues, SettleSkips(i) PROVE Typed'
  <2>1. TypeOK'
    BY <1>1 DEF SettleSkips, TypeOK
  <2>2. Midway'
    BY <1>1 DEF SettleSkips, Midway, Starting
  <2> QED
    BY <2>1, <2>2
<1>2. ASSUME NEW i \in Issues, SettleUnused(i) PROVE Typed'
  <2>1. view' \in Records
    BY <1>2, ReleaseOne DEF SettleUnused, TypeOK, Records
  <2>2. TypeOK'
    BY <1>2, <2>1 DEF SettleUnused, TypeOK, Records
  <2>3. Midway'
    BY <1>2 DEF SettleUnused, Midway, Starting
  <2> QED
    BY <2>2, <2>3
<1>3. ASSUME NEW i \in Issues, NEW r \in Runs, NEW status \in {"succeeded", "suppressed"}, NEW reset \in BOOLEAN,
             Settle(i), Signal(r), SaveRun(r, status), view' = Release(view, i, reset),
             failures' \in [Issues -> Nat]
      PROVE  Typed'
  <2>1. view' \in Records
    BY <1>3, ReleaseOne DEF TypeOK, Records
  <2>2. /\ runs' \in [Runs -> Run]
        /\ \A s \in Runs : runs'[s].issue = runs[s].issue
              /\ (runs'[s].status \in ActiveRun => runs[s].status \in ActiveRun)
    BY <1>3, SaveRunOne DEF TypeOK, Status, ActiveRun
  <2>3. worker' \in [Runs -> {"none", "alive", "stopping"} \union Exits] /\ tended' \in SUBSET Runs
    BY <1>3, SignalType
  <2>4. TypeOK'
    BY <1>3, <2>1, <2>2, <2>3 DEF TypeOK, Records
  <2>5. Midway'
    BY <1>3, <2>2 DEF Midway, Starting
  <2> QED
    BY <2>4, <2>5
<1>4. ASSUME NEW i \in Issues, NEW r \in Runs, SettleSucceeds(i, r) PROVE Typed'
  <2>1. failures' \in [Issues -> Nat]
    BY <1>4 DEF SettleSucceeds, TypeOK
  <2> QED
    BY <1>3, <1>4, <2>1 DEF SettleSucceeds
<1>5. ASSUME NEW i \in Issues, NEW r \in Runs, SettleSuppresses(i, r) PROVE Typed'
  <2>1. failures' \in [Issues -> Nat]
    BY <1>5 DEF SettleSuppresses, TypeOK
  <2> QED
    BY <1>3, <1>5, <2>1 DEF SettleSuppresses
<1>6. ASSUME SettleDone PROVE Typed'
  <2>1. TypeOK'
    BY <1>6 DEF SettleDone, TypeOK
  <2>2. Midway'
    BY <1>6 DEF SettleDone, Midway, Starting
  <2> QED
    BY <2>1, <2>2
<1>7. ASSUME EndTick PROVE Typed'
  <2>1. TypeOK'
    BY <1>7 DEF EndTick, TypeOK
  <2>2. Midway'
    BY <1>7 DEF EndTick, Midway, Starting
  <2> QED
    BY <2>1, <2>2
<1> QED
  BY <1>1, <1>2, <1>4, <1>5, <1>6, <1>7 DEF SettleIssue

LEMMA ExceptType ==
    ASSUME NEW S, NEW T, NEW f \in [S -> T], NEW x, NEW y \in T
    PROVE  [f EXCEPT ![x] = y] \in [S -> T]
  OBVIOUS

LEMMA WorkersTyped == ASSUME Typed, Workers PROVE Typed'
<1> USE OrchestratorAssumption DEF Typed, KeepAll, world, tick, history, bounds, durable
<1>1. ASSUME NEW r \in Runs, AcquireLease(r) PROVE Typed'
  <2>1. TypeOK'
    <3>1. leased' \in [Issues -> 0..MaxRuns]
      <4>1. r \in 0..MaxRuns
        BY DEF Runs
      <4>2. leased \in [Issues -> 0..MaxRuns] /\ leased' = [leased EXCEPT ![runs[r].issue] = r]
        BY <1>1 DEF AcquireLease, TypeOK
      <4> QED
        BY <4>1, <4>2, ExceptType
    <3> QED
      BY <1>1, <3>1 DEF AcquireLease, TypeOK
  <2>2. Midway'
    BY <1>1 DEF AcquireLease, Midway, Starting
  <2> QED
    BY <2>1, <2>2
<1>2. ASSUME NEW r \in Runs, WorkerExits(r) PROVE Typed'
  <2>1. TypeOK'
    BY <1>2 DEF WorkerExits, TypeOK
  <2>2. Midway'
    BY <1>2 DEF WorkerExits, Midway, Starting
  <2> QED
    BY <2>1, <2>2
<1>3. ASSUME NEW r \in Runs, NEW s \in States, RequestState(r, s) PROVE Typed'
  <2>1. TypeOK'
    BY <1>3 DEF RequestState, TypeOK
  <2>2. Midway'
    BY <1>3 DEF RequestState, Midway, Starting
  <2> QED
    BY <2>1, <2>2
<1>4. ASSUME ProviderApplies PROVE Typed'
  <2>1. /\ request \in [stage : {"sent", "applied"}, run : Runs, to : States]
        /\ request' = [request EXCEPT !.stage = "applied"]
    BY <1>4 DEF ProviderApplies, TypeOK, NoRequest
  <2>2. request' \in [stage : {"sent", "applied"}, run : Runs, to : States]
    BY <2>1
  <2>3. request.to \in States
    BY <2>1
  <2>4. /\ tracker' \in [Issues -> States \union {NoState}]
        /\ failures' \in [Issues -> Nat] /\ moves' \in Nat
    <3>1. MoveTo(runs[request.run].issue, request.to)
      BY <1>4 DEF ProviderApplies
    <3> QED
      <4>1. tracker' \in [Issues -> States \union {NoState}]
        BY <2>3, <3>1, ExceptType DEF MoveTo, TypeOK
      <4>2. failures' \in [Issues -> Nat]
        BY <3>1, ExceptType DEF MoveTo, TypeOK
      <4> QED
        BY <3>1, <4>1, <4>2 DEF MoveTo, TypeOK
  <2>5. TypeOK'
    BY <1>4, <2>2, <2>4 DEF ProviderApplies, TypeOK
  <2>6. Midway'
    BY <1>4 DEF ProviderApplies, Midway, Starting
  <2> QED
    BY <2>5, <2>6
<1>5. ASSUME RequestFails PROVE Typed'
  <2>1. TypeOK'
    BY <1>5 DEF RequestFails, TypeOK
  <2>2. Midway'
    BY <1>5 DEF RequestFails, Midway, Starting
  <2> QED
    BY <2>1, <2>2
<1>6. ASSUME MergeState PROVE Typed'
  <2>1. request.run \in Runs /\ request.to \in States
    BY <1>6 DEF MergeState, TypeOK, NoRequest
  <2>2. runs' \in [Runs -> Run] /\ \A r \in Runs : runs'[r].issue = runs[r].issue /\ runs'[r].status = runs[r].status
    BY <1>6, <2>1 DEF MergeState, TypeOK, Run
  <2>3. TypeOK'
    BY <1>6, <2>1, <2>2 DEF MergeState, TypeOK
  <2>4. Midway'
    BY <1>6, <2>2 DEF MergeState, Midway, Starting
  <2> QED
    BY <2>3, <2>4
<1> QED
  BY <1>1, <1>2, <1>3, <1>4, <1>5, <1>6 DEF Workers

LEMMA WorldTyped == ASSUME Typed, World PROVE Typed'
<1> USE OrchestratorAssumption DEF Typed, KeepAll, world, tick, history, bounds, durable
<1>1. ASSUME NEW i \in Issues, NEW s \in States \union {NoState}, TrackerMove(i, s) PROVE Typed'
  <2>1. TypeOK'
    BY <1>1 DEF TrackerMove, MoveTo, TypeOK
  <2>2. Midway'
    BY <1>1 DEF TrackerMove, Midway, Starting
  <2> QED
    BY <2>1, <2>2
<1>2. ASSUME NEW i \in Issues, RetryElapses(i) PROVE Typed'
  <2>1. TypeOK'
    BY <1>2 DEF RetryElapses, TypeOK
  <2>2. Midway'
    BY <1>2 DEF RetryElapses, Midway, Starting
  <2> QED
    BY <2>1, <2>2
<1>3. ASSUME NEW r \in Runs, GraceEnds(r) PROVE Typed'
  <2>1. TypeOK'
    BY <1>3 DEF GraceEnds, TypeOK
  <2>2. Midway'
    BY <1>3 DEF GraceEnds, Midway, Starting
  <2> QED
    BY <2>1, <2>2
<1>4. ASSUME NEW n \in Limits, EditLimit(n) PROVE Typed'
  <2>1. TypeOK'
    BY <1>4 DEF EditLimit, TypeOK
  <2>2. Midway'
    BY <1>4 DEF EditLimit, Midway, Starting
  <2> QED
    BY <2>1, <2>2
<1>5. ASSUME Crash \/ Leave PROVE Typed'
  <2>1. TypeOK'
    BY <1>5 DEF Crash, Leave, Reload, TypeOK
  <2>2. Midway'
    BY <1>5 DEF Crash, Leave, Reload, Midway, Starting
  <2> QED
    BY <2>1, <2>2
<1>6. ASSUME Shutdown \/ Drained PROVE Typed'
  <2>1. TypeOK'
    BY <1>6 DEF Shutdown, Drained, TypeOK, Exits
  <2>2. Midway'
    BY <1>6 DEF Shutdown, Drained, Midway, Starting
  <2> QED
    BY <2>1, <2>2
<1> QED
  BY <1>1, <1>2, <1>3, <1>4, <1>5, <1>6 DEF World

LEMMA TypedNext == Typed /\ [Next]_vars => Typed'
<1> SUFFICES ASSUME Typed, [Next]_vars PROVE Typed'
  OBVIOUS
<1>1. CASE UNCHANGED vars
  <2>1. TypeOK'
    BY <1>1 DEF Typed, TypeOK, vars, world, tick, history, bounds, durable
  <2>2. Midway'
    BY <1>1 DEF Typed, Midway, vars, tick, durable
  <2> QED
    BY <2>1, <2>2 DEF Typed
<1>2. CASE Tick
  BY <1>2, BeginTyped, ReconcileTyped, DispatchTyped, SettleTyped, StartTyped DEF Tick
<1> QED
  BY <1>1, <1>2, WorkersTyped, WorldTyped DEF Next

(* Every reachable state of the scheduler is well typed; in particular no   *)
(* run number, count or task is used outside its range.                     *)
THEOREM OrchestratorTypeCorrect == Spec => []TypeOK
<1>1. Typed => TypeOK
  BY DEF Typed
<1> QED
  BY TypedInit, TypedNext, <1>1, PTL DEF Spec

-----------------------------------------------------------------------------
(* Why an issue has one active run at most.  Between ticks every active run *)
(* is that of a claimed record, which survives crashes; during a tick it is *)
(* the current run of its issue in the records of the tick.  A start finds  *)
(* no active run of its issue: a dispatch because the candidates had no     *)
(* claim when they were polled, a restart because it has ended its own.     *)

IsActive(r) == runs[r].status \in ActiveRun

Owned(r) == view[runs[r].issue].state \in Claimed /\ view[runs[r].issue].run = r

Dispatching == pc = "dispatch" \/ (pc \in Starting /\ task.kind = "dispatch")

Ownership ==
    /\ \A r \in Runs : IsActive(r) =>
          /\ records[runs[r].issue].state \in Claimed
          /\ pc # "idle" => Owned(r)
          /\ r <= used
          /\ \A s \in Runs : IsActive(s) /\ runs[s].issue = runs[r].issue => s = r
    /\ \A r \in todo : IsActive(r)
    /\ pc = "idle" => view = records
    /\ pc \in {"idle", "settle", "save"} \/ Dispatching => todo = {}

Readiness ==
    /\ pc \in {"start", "prepare"} =>
          /\ Active(task.issue) = {}
          /\ records[task.issue].state \in Claimed
          /\ task.old <= used
          /\ task.kind = "dispatch" => task.issue \notin cands
    /\ pc \in {"publish", "spawn", "record"} =>
          task.new \in Active(task.issue) /\ task.new \notin todo
    /\ Dispatching => \A i \in cands : Active(i) = {}

OneRun == Ownership /\ Readiness

LEMMA OneRunInit == Init => OneRun
  BY DEF Init, OneRun, Ownership, Readiness, IsActive, ActiveRun, Dispatching, Starting

(* A run reconciled is over, or is still the current run of its issue.      *)
LEMMA ReconciledOwned ==
    ASSUME Typed, OneRun, NEW r \in Runs, NEW i \in Issues, Take(r, i), Reconciled(r),
           \A j \in Issues : j # i => view'[j] = view[j],
           IsActive(r)' => view'[i].state \in Claimed /\ view'[i].run = r
    PROVE  OneRun'
<1>1. /\ pc = "reconcile" /\ pc' = "reconcile" /\ records' = records /\ used' = used
      /\ todo' = todo \ {r} /\ IsActive(r) /\ runs[r].issue = i
  BY DEF Take, Reconciled, OneRun, Ownership
<1>2. \A s \in Runs : runs'[s].issue = runs[s].issue /\ (IsActive(s)' => IsActive(s))
  BY <1>1 DEF Reconciled, IsActive
<1>3. \A s \in Runs : IsActive(s)' => Owned(s)'
  <2> SUFFICES ASSUME NEW s \in Runs, IsActive(s)' PROVE Owned(s)'
    OBVIOUS
  <2>1. CASE s = r
    BY <1>1, <1>2, <2>1 DEF Owned
  <2>2. CASE s # r
    BY <1>1, <1>2, <2>2 DEF Owned, OneRun, Ownership, Typed, Midway, IsActive
  <2> QED
    BY <2>1, <2>2
<1>4. Ownership'
  <2>1. \A s \in todo' : IsActive(s)'
    BY <1>1 DEF Reconciled, IsActive, OneRun, Ownership, Typed, TypeOK
  <2> QED
    BY <1>1, <1>2, <1>3, <2>1 DEF OneRun, Ownership, Dispatching, Starting
<1>5. Readiness'
  BY <1>1 DEF Readiness, Dispatching, Starting
<1> QED
  BY <1>4, <1>5 DEF OneRun

LEMMA ReconcileOwned ==
    ASSUME Typed, OneRun, NEW r \in Runs, NEW i \in Issues, ReconcileRun(r, i)
    PROVE  OneRun'
<1>t. Take(r, i)
  BY DEF ReconcileRun, ReconcileSuperseded, ReconcileAlive, Complete, DeferFinalization,
         FailedAttempt, Continue, Ended, RetryWaits, RetryUnconfirmed, RetryReleased,
         RetryNoSlot, Restart, RetryFires
<1>a. /\ runs \in [Runs -> Run] /\ view \in Records /\ runs[r].issue = i /\ IsActive(r)
      /\ view[i].count + 1 \in Nat /\ runs[r].st \in SomeState /\ r \in 0..MaxRuns
      /\ {"failed", "succeeded", "retrying", "suppressed"} \subseteq Status
      /\ {"running", "retry_queued"} \subseteq Claimed
      /\ {"failed", "succeeded", "suppressed"} \cap ActiveRun = {}
  <2>1. view[i] \in Record /\ runs[r] \in Run
    BY DEF Typed, TypeOK
  <2> QED
    BY <1>t, <2>1, OrchestratorAssumption
       DEF Take, Typed, TypeOK, Records, Record, Run, SomeState, Runs, Status, ActiveRun,
           OneRun, Ownership, Claimed
<1>c. Owned(r)
  BY <1>t, <1>a DEF OneRun, Ownership, Take
<1> DEFINE Judged == /\ \A j \in Issues : j # i => view'[j] = view[j]
                     /\ IsActive(r)' => view'[i].state \in Claimed /\ view'[i].run = r
<1>d. ASSUME Judges(r, i), Judged PROVE OneRun'
  BY <1>d, ReconcileShape, ReconciledOwned
<1>1. ASSUME ReconcileSuperseded(r, i) PROVE Judged
  BY <1>1, <1>a, <1>c DEF ReconcileSuperseded, Current, Owned
<1>2. ASSUME ReconcileAlive(r, i) PROVE Judged
  <2> DEFINE rec == [view[i] EXCEPT !.state = "running", !.run = r, !.retry = FALSE]
  <2>1. rec.state = "running" /\ rec.run = r
    BY <1>a DEF Records, Record
  <2>2. view' = [view EXCEPT ![i] = rec]
    BY <1>2, <1>a DEF ReconcileAlive
  <2> HIDE DEF rec
  <2>3. /\ view'[i] = rec
        /\ \A j \in Issues : j # i => view'[j] = view[j]
    BY <1>a, <2>2 DEF Records
  <2> QED
    BY <1>a, <2>1, <2>3
<1>3. ASSUME Complete(r, i) PROVE Judged
  <2>1. SaveRun(r, "succeeded") /\ view' = Release(view, i, TRUE)
    BY <1>3 DEF Complete
  <2>2. ~IsActive(r)'
    BY <1>a, <2>1, SaveRunOne DEF IsActive
  <2> QED
    BY <1>a, <2>1, <2>2, ReleaseOne
<1>4. ASSUME DeferFinalization(r, i) PROVE Judged
  BY <1>4, <1>a, <1>c DEF DeferFinalization, Owned
<1>5. ASSUME FailedAttempt(r, i) PROVE Judged
  <2> DEFINE n == view[i].count + 1
  <2>1. EndRun(r, IF Spent(n) THEN "suppressed" ELSE "retrying") /\ view' = Fail(view, i, r, n, runs[r].st)
    BY <1>5 DEF FailedAttempt
  <2>2. CASE Spent(n)
    BY <1>a, <2>1, <2>2, EndRunOne, FailOne DEF IsActive
  <2>3. CASE ~Spent(n)
    BY <1>a, <2>1, <2>3, FailOne
  <2> QED
    BY <2>2, <2>3
<1>6. ASSUME Continue(r, i) PROVE Judged
  BY <1>6, <1>a, QueueOne DEF Continue
<1>7. ASSUME RetryWaits(r, i) PROVE Judged
  BY <1>7, <1>a, <1>c DEF RetryWaits, Owned
<1>8. ASSUME RetryUnconfirmed(r, i) PROVE Judged
  <2> DEFINE n == view[i].count + 1
  <2>1. SaveRun(r, IF Spent(n) THEN "suppressed" ELSE "retrying") /\ view' = Fail(view, i, r, n, runs[r].st)
    BY <1>8 DEF RetryUnconfirmed
  <2>2. CASE Spent(n)
    BY <1>a, <2>1, <2>2, SaveRunOne, FailOne DEF IsActive
  <2>3. CASE ~Spent(n)
    BY <1>a, <2>1, <2>3, FailOne
  <2> QED
    BY <2>2, <2>3
<1>9. ASSUME RetryReleased(r, i) PROVE Judged
  <2>1. tracker[i] \in SomeState
    BY DEF Typed, TypeOK, SomeState
  <2> QED
    <3>1. ~IsActive(r)'
      BY <1>9, <1>a, <2>1, SuppressOne DEF RetryReleased, IsActive
    <3>2. view' = Release(view, i, FALSE)
      BY <1>9 DEF RetryReleased
    <3> QED
      BY <1>a, <3>1, <3>2, ReleaseOne
<1>10. ASSUME RetryNoSlot(r, i) PROVE Judged
  BY <1>10, <1>a, QueueOne DEF RetryNoSlot
<1>11. ASSUME Restart(r, i) PROVE OneRun'
  <2>1. /\ runs'[r].status = "failed"
        /\ \A s \in Runs : runs'[s].issue = runs[s].issue /\ (s # r => runs'[s] = runs[s])
    BY <1>11, RestartTyped
  <2>2. /\ pc' = "start" /\ UNCHANGED <<view, records, used>> /\ todo' = todo \ {r}
        /\ task'.issue = i /\ task'.kind = "retry" /\ pc = "reconcile"
    BY <1>11, <1>t DEF Restart, Take
  <2>3. \A s \in Runs : IsActive(s)' <=> IsActive(s) /\ s # r
    BY <1>a, <2>1 DEF IsActive
  <2>4. Ownership'
    BY <2>1, <2>2, <2>3, <1>a DEF OneRun, Ownership, Owned, Dispatching, Starting, Typed, TypeOK
  <2>5. Active(i)' = {}
    BY <2>1, <2>3, <1>a DEF Active, IsActive, OneRun, Ownership
  <2>6. records[i].state \in Claimed
    BY <1>a DEF OneRun, Ownership
  <2>7. Readiness'
    <3>1. task'.old <= used'
      BY <1>11, <1>a DEF Restart, OneRun, Ownership
    <3> QED
      BY <2>2, <2>5, <2>6, <3>1 DEF Readiness, Dispatching, Starting, Active
  <2> QED
    BY <2>4, <2>7 DEF OneRun
<1> QED
  BY <1>d, <1>1, <1>2, <1>3, <1>4, <1>5, <1>6, <1>7, <1>8, <1>9, <1>10, <1>11 DEF ReconcileRun, Judges

(* A run that is active but not current becomes the current one.            *)
LEMMA BeginOwned == ASSUME Typed, OneRun, StartTick PROVE OneRun'
<1>1. PICK pick \in [Issues -> 0..MaxRuns] :
        /\ \A i \in Issues : IF Stray(i) THEN pick[i] \in Preferred(i) ELSE pick[i] = 0
        /\ view' = [i \in Issues |-> IF Stray(i) THEN Select(i, pick[i]) ELSE records[i]]
  BY DEF StartTick
<1>2. /\ pc = "idle" /\ pc' = "reconcile" /\ records' = view' /\ UNCHANGED <<runs, used>>
      /\ todo' = UNION {Active(i) : i \in Issues}
  BY DEF StartTick
<1>3. \A r \in Runs : IsActive(r) => Owned(r)'
  <2> SUFFICES ASSUME NEW r \in Runs, IsActive(r) PROVE Owned(r)'
    OBVIOUS
  <2> DEFINE i == runs[r].issue
  <2>1. i \in Issues /\ records[i] \in Record /\ records[i].state \in Claimed /\ Active(i) = {r}
    BY DEF Typed, TypeOK, Midway, IsActive, OneRun, Ownership, Active
  <2>2. view'[i] = IF Stray(i) THEN Select(i, pick[i]) ELSE records[i]
    BY <1>1, <2>1
  <2>3. CASE Stray(i)
    <3>1. pick[i] = r
      BY <1>1, <2>1, <2>3 DEF Preferred
    <3>2. Select(i, r).state \in Claimed /\ Select(i, r).run = r
      BY <2>1 DEF Select, Record, Claimed
    <3> QED
      BY <1>2, <2>2, <2>3, <3>1, <3>2 DEF Owned
  <2>4. CASE ~Stray(i)
    BY <1>2, <2>1, <2>2, <2>4 DEF Stray, Owned
  <2> QED
    BY <2>3, <2>4
<1>4. Ownership'
  <2>1. \A r \in todo' : IsActive(r)'
    BY <1>2 DEF Active, IsActive
  <2>2. \A r \in Runs : IsActive(r)' => records'[runs'[r].issue].state \in Claimed
    BY <1>2, <1>3 DEF Owned, IsActive
  <2> QED
    BY <1>2, <1>3, <2>1, <2>2 DEF OneRun, Ownership, IsActive, Dispatching, Starting
<1>5. Readiness'
  BY <1>2 DEF Readiness, Dispatching, Starting
<1> QED
  BY <1>4, <1>5 DEF OneRun

(* Nothing about the run records and the tick changes but what is not about *)
(* ownership.                                                               *)
LEMMA OneRunKept ==
    ASSUME TypeOK, OneRun, UNCHANGED <<pc, view, records, used, todo, cands, task>>,
           \A r \in Runs : runs'[r].issue = runs[r].issue /\ runs'[r].status = runs[r].status
    PROVE  OneRun'
<1>1. \A r \in Runs : (IsActive(r)' <=> IsActive(r)) /\ (Owned(r)' <=> Owned(r))
  BY DEF IsActive, Owned
<1>2. \A i : Active(i)' = Active(i)
  BY DEF Active
<1>3. Dispatching' <=> Dispatching
  BY DEF Dispatching
<1>4. Ownership'
  BY <1>1, <1>3 DEF OneRun, Ownership, TypeOK
<1>5. Readiness'
  BY <1>2, <1>3 DEF OneRun, Readiness
<1> QED
  BY <1>4, <1>5 DEF OneRun

(* The poll finds nothing to dispatch where a run is active.                *)
LEMMA DispatchOwned ==
    ASSUME Typed, OneRun, PollFails \/ Poll \/ DispatchDone \/ \E i \in Issues : Claim(i)
    PROVE  OneRun'
<1>1. ASSUME PollFails PROVE OneRun'
  <2>1. \A r \in Runs : (IsActive(r)' <=> IsActive(r)) /\ (Owned(r)' <=> Owned(r))
    BY <1>1 DEF PollFails, KeepTick, durable, IsActive, Owned
  <2> QED
    BY <1>1, <2>1 DEF PollFails, KeepTick, durable, Typed, TypeOK, OneRun, Ownership, Readiness,
                      Dispatching, Starting
<1>2. ASSUME Poll PROVE OneRun'
  <2>1. /\ pc = "reconcile" /\ todo = {} /\ pc' = "dispatch"
        /\ UNCHANGED <<view, records, used, todo, task>>
        /\ cands' = {i \in Issues : tracker[i] \in ActiveStates /\ ~Holds(view[i])}
    BY <1>2 DEF Poll
  <2>2. \A r \in Runs : runs'[r].issue = runs[r].issue /\ runs'[r].status = runs[r].status
    <3> SUFFICES ASSUME NEW r \in Runs
                 PROVE  runs'[r].issue = runs[r].issue /\ runs'[r].status = runs[r].status
      OBVIOUS
    <3>1. runs'[r] = IF runs[r].status \in ActiveRun /\ tracker[runs[r].issue] # NoState
                     THEN [runs[r] EXCEPT !.st = tracker[runs[r].issue]] ELSE runs[r]
      BY <1>2 DEF Poll
    <3>2. \A st : [runs[r] EXCEPT !.st = st].issue = runs[r].issue
                   /\ [runs[r] EXCEPT !.st = st].status = runs[r].status
      BY DEF Typed, TypeOK, Run
    <3> QED
      BY <3>1, <3>2
  <2>3. \A r \in Runs : (IsActive(r)' <=> IsActive(r)) /\ (Owned(r)' <=> Owned(r))
    BY <2>1, <2>2 DEF IsActive, Owned
  <2>4. \A i \in cands' : Active(i)' = {}
    <3> SUFFICES ASSUME NEW i \in cands', NEW r \in Active(i)' PROVE FALSE
      OBVIOUS
    <3>1. r \in Runs /\ IsActive(r) /\ runs[r].issue = i /\ Owned(r)
      BY <2>1, <2>2, <2>3 DEF Active, IsActive, OneRun, Ownership
    <3>2. Holds(view[i])
      BY <3>1 DEF Owned, Holds, Runs
    <3> QED
      BY <2>1, <3>2
  <2>5. Ownership'
    BY <2>1, <2>2, <2>3 DEF OneRun, Ownership, Dispatching, Starting
  <2>6. Readiness'
    BY <2>1, <2>4 DEF Readiness, Dispatching, Starting
  <2> QED
    BY <2>5, <2>6 DEF OneRun
<1>3. ASSUME DispatchDone PROVE OneRun'
  <2>1. \A r \in Runs : (IsActive(r)' <=> IsActive(r)) /\ (Owned(r)' <=> Owned(r))
    BY <1>3 DEF DispatchDone, KeepWorld, durable, IsActive, Owned
  <2> QED
    BY <1>3, <2>1 DEF DispatchDone, KeepWorld, durable, Typed, TypeOK, OneRun, Ownership, Readiness,
                      Dispatching, Starting
<1>4. ASSUME NEW i \in Issues, Claim(i) PROVE OneRun'
  <2>1. /\ pc = "dispatch" /\ pc' = "start" /\ i \in cands /\ cands' = cands \ {i}
        /\ UNCHANGED <<runs, used, todo>> /\ records' = view'
        /\ view' = [view EXCEPT ![i] = ClaimedRecord(view[i], seen[i])]
        /\ task'.issue = i /\ task'.kind = "dispatch"
    BY <1>4 DEF Claim, Dispatchable
  <2>2. Active(i) = {} /\ \A j \in cands : Active(j) = {}
    BY <2>1 DEF OneRun, Readiness, Dispatching
  <2>3. view'[i].state \in Claimed /\ \A j \in Issues : j # i => view'[j] = view[j]
    BY <2>1 DEF Typed, TypeOK, ClaimedRecord, Claimed
  <2>4. \A r \in Runs : IsActive(r) => Owned(r)' /\ records'[runs[r].issue].state \in Claimed
    <3> SUFFICES ASSUME NEW r \in Runs, IsActive(r)
                 PROVE  Owned(r)' /\ records'[runs[r].issue].state \in Claimed
      OBVIOUS
    <3>1. runs[r].issue # i /\ runs[r].issue \in Issues /\ Owned(r)
      BY <2>1, <2>2 DEF Active, IsActive, Typed, Midway, OneRun, Ownership
    <3> QED
      BY <2>1, <2>3, <3>1 DEF Owned
  <2>5. Ownership'
    BY <2>1, <2>4 DEF OneRun, Ownership, IsActive, Dispatching, Starting
  <2>6. Readiness'
    <3>1. task'.old <= used'
      BY <1>4, <2>1 DEF Claim, Typed, TypeOK
    <3> QED
      BY <2>1, <2>2, <2>3, <3>1 DEF Readiness, Dispatching, Starting, Active
  <2> QED
    BY <2>5, <2>6 DEF OneRun
<1> QED
  BY <1>1, <1>2, <1>3, <1>4

(* A settled issue is released together with its run.                       *)
LEMMA SettleOwned ==
    ASSUME Typed, OneRun, SettleDone \/ EndTick \/ \E i \in Issues : SettleIssue(i)
    PROVE  OneRun'
<1>1. ASSUME SettleDone PROVE OneRun'
  <2>1. \A r \in Runs : (IsActive(r)' <=> IsActive(r)) /\ (Owned(r)' <=> Owned(r))
    BY <1>1 DEF SettleDone, KeepTick, durable, IsActive, Owned
  <2> QED
    BY <1>1, <2>1 DEF SettleDone, KeepTick, durable, Typed, TypeOK, OneRun, Ownership, Readiness,
                      Dispatching, Starting
<1>2. ASSUME EndTick PROVE OneRun'
  <2>1. \A r \in Runs : (IsActive(r)' <=> IsActive(r)) /\ (IsActive(r) => Owned(r))
    BY <1>2 DEF EndTick, IsActive, OneRun, Ownership
  <2> QED
    BY <1>2, <2>1 DEF EndTick, Typed, TypeOK, OneRun, Ownership, Readiness, Owned,
                      Dispatching, Starting
<1>3. ASSUME NEW i \in Issues, Settle(i), \A j \in Issues : j # i => view'[j] = view[j],
             \A r \in Runs : /\ runs'[r].issue = runs[r].issue
                             /\ IsActive(r)' => IsActive(r)
                             /\ IsActive(r)' /\ runs[r].issue = i => view'[i] = view[i]
      PROVE  OneRun'
  <2>1. pc = "settle" /\ pc' = "settle" /\ UNCHANGED <<records, used, todo>>
    BY <1>3 DEF Settle
  <2>2. todo = {}
    BY <2>1 DEF OneRun, Ownership
  <2>3. \A r \in Runs : IsActive(r)' => Owned(r)'
    <3> SUFFICES ASSUME NEW r \in Runs, IsActive(r)' PROVE Owned(r)'
      OBVIOUS
    <3>1. IsActive(r) /\ runs'[r].issue = runs[r].issue
      BY <1>3 DEF IsActive
    <3>2. runs[r].issue \in Issues /\ Owned(r)
      BY <2>1, <3>1 DEF OneRun, Ownership, Typed, Midway, IsActive
    <3>3. view'[runs[r].issue] = view[runs[r].issue]
      BY <1>3, <3>2 DEF IsActive
    <3> QED
      BY <3>1, <3>2, <3>3 DEF Owned
  <2>4. Ownership'
    <3>1. ASSUME NEW r \in Runs, IsActive(r)'
          PROVE  /\ records'[runs'[r].issue].state \in Claimed
                 /\ r <= used'
                 /\ \A s \in Runs : IsActive(s)' /\ runs'[s].issue = runs'[r].issue => s = r
      BY <1>3, <2>1, <3>1 DEF OneRun, Ownership, IsActive
    <3> QED
      BY <2>1, <2>2, <2>3, <3>1 DEF Ownership
  <2>5. Readiness'
    BY <2>1 DEF Readiness, Dispatching, Starting
  <2> QED
    BY <2>4, <2>5 DEF OneRun
<1>4. ASSUME NEW i \in Issues, SettleSkips(i) PROVE OneRun'
  <2>1. Settle(i) /\ UNCHANGED <<runs, view>>
    BY <1>4 DEF SettleSkips
  <2> QED
    BY <1>3, <2>1 DEF IsActive
<1>5. ASSUME NEW i \in Issues, SettleUnused(i) PROVE OneRun'
  <2>1. Settle(i) /\ UNCHANGED runs /\ view' = Release(view, i, FALSE) /\ LastRun(i) = {}
    BY <1>5 DEF SettleUnused
  <2>2. \A r \in Runs : IsActive(r) => runs[r].issue # i
    BY <2>1 DEF LastRun, Active, IsActive
  <2>3. \A j \in Issues : j # i => view'[j] = view[j]
    <3>1. view \in Records
      BY DEF Typed, TypeOK, Records
    <3> QED
      BY <2>1, <3>1, ReleaseOne
  <2> QED
    BY <1>3, <2>1, <2>2, <2>3 DEF IsActive
<1>6. ASSUME NEW i \in Issues, NEW r \in Runs, SettleSucceeds(i, r) \/ SettleSuppresses(i, r)
      PROVE  OneRun'
  <2>1. Settle(i) /\ r \in LastRun(i)
    BY <1>6 DEF SettleSucceeds, SettleSuppresses
  <2>2. PICK status \in {"succeeded", "suppressed"}, reset \in BOOLEAN :
          SaveRun(r, status) /\ view' = Release(view, i, reset)
    BY <1>6 DEF SettleSucceeds, SettleSuppresses
  <2>3. /\ runs'[r].status = status /\ runs'[r].issue = runs[r].issue
        /\ \A s \in Runs : s # r => runs'[s] = runs[s]
    BY <2>2, SaveRunOne DEF Typed, TypeOK, Status
  <2>4. \A s \in Runs : /\ runs'[s].issue = runs[s].issue
                        /\ IsActive(s)' => IsActive(s) /\ s # r
    BY <2>2, <2>3 DEF IsActive, ActiveRun
  <2>5. \A s \in Runs : IsActive(s)' => runs[s].issue # i
    <3> SUFFICES ASSUME NEW s \in Runs, IsActive(s)', runs[s].issue = i PROVE FALSE
      OBVIOUS
    <3>1. s \in Active(i) /\ s # r
      BY <2>4 DEF Active, IsActive, ActiveRun
    <3>2. r \in Active(i)
      BY <2>1, <3>1 DEF LastRun
    <3> QED
      BY <3>1, <3>2 DEF Active, IsActive, OneRun, Ownership
  <2>6. \A j \in Issues : j # i => view'[j] = view[j]
    BY <2>2, ReleaseOne DEF Typed, TypeOK, Records
  <2> QED
    BY <1>3, <2>1, <2>4, <2>5, <2>6
<1> QED
  BY <1>1, <1>2, <1>4, <1>5, <1>6 DEF SettleIssue

(* A start makes its run active when its issue has no other, and if it      *)
(* fails takes it back.                                                     *)
LEMMA StartOwned == ASSUME Typed, OneRun, StartRun PROVE OneRun'
<1> USE DEF KeepTick, KeepWorld, durable, world, tick
<1>1. ASSUME EnterStart \/ Spawn \/ SpawnNothing PROVE OneRun'
  <2>1. /\ UNCHANGED <<runs, view, records, used, todo, cands, task>>
        /\ \/ pc = "start" /\ pc' = "prepare"
           \/ pc = "spawn" /\ pc' = "record"
    BY <1>1 DEF EnterStart, Spawn, SpawnNothing
  <2>2. \A r \in Runs : (IsActive(r)' <=> IsActive(r)) /\ (Owned(r)' <=> Owned(r))
    BY <2>1 DEF IsActive, Owned
  <2>3. Ownership'
    BY <2>1, <2>2 DEF OneRun, Ownership, Typed, TypeOK, Dispatching, Starting
  <2>4. Readiness'
    BY <2>1 DEF OneRun, Readiness, Active, Dispatching, Starting
  <2> QED
    BY <2>3, <2>4 DEF OneRun
<1>2. ASSUME Prepare PROVE OneRun'
  <2>0. task \in Task /\ task.issue \in Issues /\ used + 1 \in Runs
    <3>1. pc = "prepare" /\ task \in Task /\ used < MaxRuns /\ used \in 0..MaxRuns
      BY <1>2 DEF Prepare, Typed, TypeOK, Midway, Starting
    <3> QED
      BY <3>1, OrchestratorAssumption DEF Task, Runs
  <2>1. PICK n \in Runs, i \in Issues :
          /\ n = used + 1 /\ i = task.issue
          /\ pc = "prepare" /\ pc' = "publish" /\ used' = n /\ UNCHANGED <<records, todo, cands>>
    BY <1>2, <2>0 DEF Prepare
  <2>2. task'.issue = i /\ task'.kind = task.kind /\ task'.new = n
    BY <1>2, <2>0, <2>1 DEF Prepare, Task
  <2>3. /\ runs'[n].issue = i /\ IsActive(n)'
        /\ \A r \in Runs : r # n => runs'[r] = runs[r]
    BY <1>2, <2>1 DEF Prepare, Typed, TypeOK, IsActive, ActiveRun
  <2>4. /\ view'[i].state = "running" /\ view'[i].run = n
        /\ \A j \in Issues : j # i => view'[j] = view[j]
    <3>1. view[i] \in Record /\ view \in Records
      BY <2>1 DEF Typed, TypeOK, Records
    <3> DEFINE rec == [view[i] EXCEPT !.state = "running", !.run = n, !.retry = FALSE]
    <3>2. rec.state = "running" /\ rec.run = n
      BY <3>1 DEF Record
    <3>3. view' = [view EXCEPT ![i] = rec]
      BY <1>2, <2>1 DEF Prepare
    <3> HIDE DEF rec
    <3> QED
      BY <2>1, <3>1, <3>2, <3>3 DEF Records
  <2>5. ~IsActive(n) /\ \A r \in Runs : IsActive(r) => runs[r].issue # i /\ r < n
    <3>1. \A r \in Runs : IsActive(r) => r <= used
      BY DEF OneRun, Ownership
    <3>2. \A r \in Runs : IsActive(r) => runs[r].issue # i
      BY <2>1 DEF OneRun, Readiness, Active, IsActive
    <3>3. used \in Nat /\ Runs \subseteq Nat
      BY OrchestratorAssumption DEF Typed, TypeOK, Runs
    <3> QED
      BY <2>1, <3>1, <3>2, <3>3
  <2>6. records[i].state \in Claimed
    BY <2>1 DEF OneRun, Readiness
  <2>7. \A r \in Runs : r # n => /\ (IsActive(r)' <=> IsActive(r)) /\ runs'[r].issue = runs[r].issue
                                 /\ IsActive(r) => Owned(r)' /\ r <= used'
    <3> SUFFICES ASSUME NEW r \in Runs, r # n
                 PROVE  /\ (IsActive(r)' <=> IsActive(r)) /\ runs'[r].issue = runs[r].issue
                        /\ IsActive(r) => Owned(r)' /\ r <= used'
      OBVIOUS
    <3>1. (IsActive(r)' <=> IsActive(r)) /\ runs'[r].issue = runs[r].issue
      BY <2>3 DEF IsActive
    <3>2. ASSUME IsActive(r) PROVE Owned(r)' /\ r <= used'
      <4>1. runs[r].issue \in Issues /\ runs[r].issue # i /\ Owned(r) /\ r < n
        BY <2>1, <2>5, <3>2 DEF OneRun, Ownership, Typed, Midway, IsActive
      <4>2. r \in Nat /\ n \in Nat
        BY <2>1, OrchestratorAssumption DEF Runs
      <4> QED
        BY <2>1, <2>4, <3>1, <4>1, <4>2 DEF Owned
    <3> QED
      BY <3>1, <3>2
  <2>8. Owned(n)' /\ n <= used'
    BY <2>1, <2>3, <2>4, OrchestratorAssumption DEF Owned, Claimed, Runs
  <2>9. n \notin todo
    BY <2>5 DEF OneRun, Ownership
  <2>10. Ownership'
    <3>1. \A r \in Runs : IsActive(r)' => records'[runs'[r].issue].state \in Claimed
      BY <2>1, <2>3, <2>6, <2>7 DEF OneRun, Ownership
    <3>2. \A r \in Runs : IsActive(r)' => Owned(r)' /\ r <= used'
      BY <2>7, <2>8
    <3>3. \A r, s \in Runs : IsActive(r)' /\ IsActive(s)' /\ runs'[s].issue = runs'[r].issue => s = r
      BY <2>3, <2>5, <2>7 DEF OneRun, Ownership
    <3>4. \A r \in todo' : IsActive(r)'
      BY <2>1, <2>7, <2>9 DEF OneRun, Ownership, Typed, TypeOK
    <3> QED
      BY <2>1, <2>2, <3>1, <3>2, <3>3, <3>4 DEF OneRun, Ownership, Dispatching, Starting
  <2>11. Readiness'
    <3>1. n \in Active(i)' /\ n \notin todo'
      BY <2>1, <2>3, <2>9 DEF Active, IsActive
    <3>2. ASSUME Dispatching', NEW j \in cands' PROVE Active(j)' = {}
      <4>1. Dispatching /\ j \in cands /\ task.kind = "dispatch"
        BY <2>1, <2>2, <3>2 DEF Dispatching, Starting
      <4>2. j # i /\ Active(j) = {}
        BY <2>1, <4>1 DEF OneRun, Readiness
      <4> QED
        BY <2>3, <2>7, <4>2 DEF Active, IsActive
    <3> QED
      BY <2>1, <2>2, <3>1, <3>2 DEF Readiness, Active
  <2> QED
    BY <2>10, <2>11 DEF OneRun
<1>3. ASSUME Publish PROVE OneRun'
  <2>1. /\ pc = "publish" /\ pc' = "spawn" /\ UNCHANGED <<runs, view, used, todo, cands, task>>
        /\ records' = view
    BY <1>3 DEF Publish
  <2>2. \A r \in Runs : IsActive(r) => records'[runs[r].issue].state \in Claimed
    BY <2>1 DEF OneRun, Ownership, Owned
  <2>3. \A r \in Runs : (IsActive(r)' <=> IsActive(r)) /\ (Owned(r)' <=> Owned(r))
    BY <2>1 DEF IsActive, Owned
  <2>4. Ownership'
    BY <2>1, <2>2, <2>3 DEF OneRun, Ownership, Typed, TypeOK, Dispatching, Starting
  <2>5. Readiness'
    BY <2>1 DEF OneRun, Readiness, Active, Dispatching, Starting
  <2> QED
    BY <2>4, <2>5 DEF OneRun
<1>4. ASSUME RecordStart \/ SaveFailedStart PROVE OneRun'
  <2>1. /\ pc \in {"record", "unstart"} /\ pc' = Back /\ UNCHANGED <<view, used, todo, cands>>
        /\ records' = view
    BY <1>4 DEF RecordStart, SaveFailedStart
  <2>2. \A r \in Runs : runs'[r].issue = runs[r].issue /\ runs'[r].status = runs[r].status
    <3>1. CASE RecordStart
      <4>1. PICK n \in Runs, b \in BOOLEAN : runs' = [runs EXCEPT ![n].pid = b]
        BY <3>1 DEF RecordStart, Typed, Midway
      <4> QED
        BY <4>1, PidOne DEF Typed, TypeOK
    <3>2. CASE SaveFailedStart
      BY <3>2 DEF SaveFailedStart
    <3> QED
      BY <1>4, <3>1, <3>2
  <2>3. /\ task.kind \in {"dispatch", "retry"}
        /\ task.kind = "dispatch" => Dispatching /\ pc' = "dispatch"
        /\ task.kind = "retry" => pc' = "reconcile"
    BY <2>1 DEF Typed, Midway, Starting, Task, Dispatching, Back
  <2>4. \A r \in Runs : (IsActive(r)' <=> IsActive(r)) /\ (Owned(r)' <=> Owned(r))
    BY <2>1, <2>2 DEF IsActive, Owned
  <2>5. \A r \in Runs : IsActive(r) => Owned(r) /\ records'[runs[r].issue].state \in Claimed
    BY <2>1 DEF OneRun, Ownership, Owned
  <2>6. Ownership'
    BY <2>1, <2>2, <2>3, <2>4, <2>5 DEF OneRun, Ownership, Typed, TypeOK, Dispatching, Starting
  <2>7. Readiness'
    BY <2>1, <2>2, <2>3 DEF OneRun, Readiness, Active, Dispatching, Starting
  <2> QED
    BY <2>6, <2>7 DEF OneRun
<1>5. ASSUME StartFails PROVE OneRun'
  <2>1. /\ pc \in {"start", "prepare", "spawn"} /\ pc' = "unstart"
        /\ UNCHANGED <<records, used, todo, cands, task>>
    BY <1>5 DEF StartFails
  <2>2. PICK n \in {PriorCount + 1, MaxFailureRetries} :
          /\ runs' = [r \in Runs |->
                IF r = task.new THEN [runs[r] EXCEPT !.status = IF Spent(n) THEN "suppressed" ELSE "failed"]
                ELSE IF r = task.old /\ Spent(n) THEN [runs[r] EXCEPT !.status = "suppressed"]
                ELSE runs[r]]
          /\ view' = LET v == Fail(view, task.issue, 0, n, FailureState)
                     IN IF task.kind = "dispatch" /\ ~Spent(n)
                        THEN [v EXCEPT ![task.issue].supp = task.before.supp] ELSE v
    BY <1>5 DEF StartFails
  <2>3. n \in Nat /\ FailureState \in SomeState /\ task \in Task /\ task.issue \in Issues
    BY <2>1, <2>2, PriorCountType, FailureStateType, OrchestratorAssumption
       DEF Typed, Midway, Starting, Task
  <2>4. \A j \in Issues : j # task.issue => view'[j] = view[j]
    <3>1. /\ Fail(view, task.issue, 0, n, FailureState) \in Records
          /\ \A j \in Issues : j # task.issue => Fail(view, task.issue, 0, n, FailureState)[j] = view[j]
      <4>1. view \in Records /\ 0 \in 0..MaxRuns
        BY OrchestratorAssumption DEF Typed, TypeOK, Records
      <4> QED
        BY <2>3, <4>1, FailOne
    <3> QED
      BY <2>2, <3>1 DEF Records
  <2>5. \A r \in Runs : /\ runs'[r].issue = runs[r].issue
                        /\ IsActive(r)' => IsActive(r) /\ r # task.new
    BY <2>2 DEF Typed, TypeOK, Run, IsActive, ActiveRun
  <2>6. \A r \in Runs : IsActive(r) => r = task.new \/ runs[r].issue # task.issue
    BY <2>1 DEF OneRun, Ownership, Readiness, Active, IsActive
  <2>7. \A r \in todo : r \in Runs /\ IsActive(r) /\ r # task.new /\ r # task.old
    <3> SUFFICES ASSUME NEW r \in todo PROVE r \in Runs /\ IsActive(r) /\ r # task.new /\ r # task.old
      OBVIOUS
    <3>1. r \in Runs /\ IsActive(r)
      BY DEF Typed, TypeOK, OneRun, Ownership
    <3>2. r # task.new
      BY <2>1, <3>1, OrchestratorAssumption DEF OneRun, Readiness, Typed, Midway, Runs
    <3>3. task.kind = "retry"
      BY <2>1, <2>3 DEF OneRun, Ownership, Dispatching, Starting, Task
    <3> QED
      BY <2>1, <2>6, <3>1, <3>2, <3>3 DEF Typed, Midway, Starting
  <2>8. \A r \in todo : IsActive(r)'
    BY <2>2, <2>7 DEF IsActive
  <2>9. \A r \in Runs : IsActive(r)' => Owned(r)'
    <3> SUFFICES ASSUME NEW r \in Runs, IsActive(r)' PROVE Owned(r)'
      OBVIOUS
    <3>1. IsActive(r) /\ runs[r].issue # task.issue /\ runs'[r].issue = runs[r].issue
      BY <2>5, <2>6
    <3>2. runs[r].issue \in Issues /\ Owned(r)
      BY <2>1, <3>1 DEF Typed, Midway, IsActive, OneRun, Ownership
    <3> QED
      BY <2>4, <3>1, <3>2 DEF Owned
  <2>10. Ownership'
    BY <2>1, <2>5, <2>8, <2>9 DEF OneRun, Ownership, Dispatching, Starting
  <2>11. Readiness'
    <3>1. ASSUME Dispatching', NEW j \in cands' PROVE Active(j)' = {}
      <4>1. Active(j) = {}
        BY <2>1, <3>1 DEF OneRun, Readiness, Dispatching, Starting
      <4> QED
        BY <2>5, <4>1 DEF Active, IsActive
    <3> QED
      BY <2>1, <3>1 DEF Readiness
  <2> QED
    BY <2>10, <2>11 DEF OneRun
<1>6. ASSUME CredentialMissing, task.kind = "retry" PROVE OneRun'
  <2>1. PICK q \in Runs, i \in Issues :
          /\ q = task.old /\ i = task.issue /\ runs[q].issue = i
          /\ pc = "prepare" /\ pc' = "reconcile" /\ UNCHANGED <<records, used, todo, cands>>
          /\ SaveRun(q, "retrying") /\ view' = Queue(view, i, q)
    BY <1>6 DEF CredentialMissing, Back, Typed, Midway, Starting, Task
  <2>2. /\ runs'[q].issue = i /\ IsActive(q)'
        /\ \A r \in Runs : r # q => runs'[r] = runs[r]
    BY <2>1, SaveRunOne DEF Typed, TypeOK, IsActive, ActiveRun, Status
  <2>3. /\ view'[i].state \in Claimed /\ view'[i].run = q
        /\ \A j \in Issues : j # i => view'[j] = view[j]
    <3>1. view \in Records /\ q \in 0..MaxRuns
      BY OrchestratorAssumption DEF Typed, TypeOK, Records, Runs
    <3> QED
      BY <2>1, <3>1, QueueOne DEF Claimed
  <2>4. records[i].state \in Claimed /\ \A r \in Runs : IsActive(r) => runs[r].issue # i
    BY <2>1 DEF OneRun, Readiness, Active, IsActive
  <2>5. q <= used
    BY <2>1 DEF OneRun, Readiness
  <2>6. \A r \in Runs : r # q => /\ (IsActive(r)' <=> IsActive(r))
                                  /\ runs'[r].issue = runs[r].issue
    BY <2>2 DEF IsActive
  <2>7. \A r \in Runs : IsActive(r)' => Owned(r)'
    <3> SUFFICES ASSUME NEW r \in Runs, IsActive(r)' PROVE Owned(r)'
      OBVIOUS
    <3>1. CASE r = q
      BY <2>2, <2>3, <3>1 DEF Owned
    <3>2. CASE r # q
      BY <2>1, <2>3, <2>4, <2>6, <3>2 DEF OneRun, Ownership, Owned, Typed, Midway, IsActive
    <3> QED
      BY <3>1, <3>2
  <2>8. Ownership'
    <3>1. \A r \in Runs : IsActive(r)' => records'[runs'[r].issue].state \in Claimed /\ r <= used'
      BY <2>1, <2>2, <2>4, <2>5, <2>6 DEF OneRun, Ownership
    <3>2. \A r, s \in Runs : IsActive(r)' /\ IsActive(s)' /\ runs'[s].issue = runs'[r].issue => s = r
      BY <2>2, <2>4, <2>6 DEF OneRun, Ownership
    <3>3. \A r \in todo' : IsActive(r)'
      BY <2>1, <2>2, <2>6 DEF OneRun, Ownership, Typed, TypeOK
    <3> QED
      BY <2>1, <2>7, <3>1, <3>2, <3>3 DEF Ownership, Dispatching, Starting
  <2>9. Readiness'
    BY <2>1 DEF Readiness, Dispatching, Starting
  <2> QED
    BY <2>8, <2>9 DEF OneRun
<1>7. ASSUME CredentialMissing, task.kind # "retry" PROVE OneRun'
  <2>1. PICK i \in Issues :
          /\ i = task.issue /\ Dispatching
          /\ pc = "prepare" /\ pc' = "dispatch" /\ UNCHANGED <<runs, used, todo, cands>>
          /\ records' = view' /\ \A j \in Issues : j # i => view'[j] = view[j]
    BY <1>7 DEF CredentialMissing, Back, Typed, TypeOK, Midway, Starting, Task, Dispatching
  <2>2. \A r \in Runs : IsActive(r) => runs[r].issue # i /\ runs[r].issue \in Issues /\ Owned(r)
    BY <2>1 DEF OneRun, Ownership, Readiness, Active, IsActive, Typed, Midway
  <2>3. \A r \in Runs : IsActive(r) => Owned(r)' /\ records'[runs[r].issue].state \in Claimed
    BY <2>1, <2>2 DEF Owned
  <2>4. todo = {}
    BY <2>1 DEF OneRun, Ownership
  <2>5. Ownership'
    BY <2>1, <2>3, <2>4 DEF OneRun, Ownership, IsActive
  <2>6. Readiness'
    BY <2>1 DEF OneRun, Readiness, Active, Dispatching, Starting
  <2> QED
    BY <2>5, <2>6 DEF OneRun
<1> QED
  BY <1>1, <1>2, <1>3, <1>4, <1>5, <1>6, <1>7 DEF StartRun

(* Workers, the tracker, timers and a restart leave the statuses alone.     *)
LEMMA OthersOwned == ASSUME Typed, OneRun, Workers \/ World PROVE OneRun'
<1> USE DEF KeepAll, durable, tick
<1>1. ASSUME MergeState PROVE OneRun'
  <2>1. request.run \in Runs
    BY <1>1 DEF MergeState, Typed, TypeOK, NoRequest
  <2>2. \A s \in Runs : runs'[s].issue = runs[s].issue /\ runs'[s].status = runs[s].status
    BY <1>1, <2>1 DEF MergeState, Typed, TypeOK, Run
  <2> QED
    BY <1>1, <2>2, OneRunKept DEF MergeState, Typed
<1>2. ASSUME Crash \/ Leave PROVE OneRun'
  <2>1. /\ pc' = "idle" /\ view' = records /\ todo' = {} /\ UNCHANGED <<records, runs, used>>
    BY <1>2 DEF Crash, Leave, Reload
  <2>2. Ownership'
    BY <2>1 DEF OneRun, Ownership, IsActive, Dispatching, Starting
  <2>3. Readiness'
    BY <2>1 DEF Readiness, Dispatching, Starting
  <2> QED
    BY <2>2, <2>3 DEF OneRun
<1>3. ASSUME UNCHANGED <<durable, tick>> PROVE OneRun'
  BY <1>3, OneRunKept DEF Typed
<1>4. ASSUME Workers, ~MergeState PROVE UNCHANGED <<durable, tick>>
  BY <1>4 DEF Workers, AcquireLease, WorkerExits, RequestState, ProviderApplies, RequestFails
<1>5. ASSUME World, ~Crash, ~Leave PROVE UNCHANGED <<durable, tick>>
  BY <1>5 DEF World, TrackerMove, RetryElapses, GraceEnds, EditLimit, Shutdown, Drained
<1> QED
  BY <1>1, <1>2, <1>3, <1>4, <1>5

LEMMA OneRunNext == Typed /\ OneRun /\ [Next]_vars => OneRun'
<1> SUFFICES ASSUME Typed, OneRun, [Next]_vars PROVE OneRun'
  OBVIOUS
<1>1. CASE UNCHANGED vars
  BY <1>1, OneRunKept DEF Typed, vars, durable, tick
<1>2. CASE Tick
  BY <1>2, BeginOwned, ReconcileOwned, DispatchOwned, SettleOwned, StartOwned DEF Tick
<1> QED
  BY <1>1, <1>2, OthersOwned DEF Next

(* An issue never has two active runs: not when a restart, a dispatch and   *)
(* their failures follow each other in a tick, and not when the daemon dies *)
(* between any two of their writes (service.ts:5662, 1875, 4486).           *)
THEOREM OneActiveRun == Spec => []AtMostOneActiveRun
<1>1. Init => Typed /\ OneRun
  BY TypedInit, OneRunInit
<1>2. (Typed /\ OneRun) /\ [Next]_vars => (Typed /\ OneRun)'
  BY TypedNext, OneRunNext
<1>3. Typed /\ OneRun => AtMostOneActiveRun
  BY DEF OneRun, Ownership, IsActive, AtMostOneActiveRun
<1> QED
  BY <1>1, <1>2, <1>3, PTL DEF Spec

-----------------------------------------------------------------------------
(* What the steps of the tick do to the records, the runs and the workers,  *)
(* as far as these properties tell apart.                                   *)

(* Nothing of this is touched by a step of the reconciliation.              *)
Aside == <<cands, stopping, limit, edits, leased, crashes, stops>>

LEMMA BeginEffect ==
    ASSUME Typed, OneRun, StartTick
    PROVE  /\ pc = "idle" /\ pc' = "reconcile" /\ view = records /\ records' = view'
           /\ UNCHANGED <<runs, used, task, worker>> /\ UNCHANGED Aside
           /\ \A i \in Issues : /\ view'[i].state = view[i].state
                                /\ view'[i] = view[i] \/ view'[i].run \in Active(i)
<1>1. PICK pick \in [Issues -> 0..MaxRuns] :
        /\ \A i \in Issues : IF Stray(i) THEN pick[i] \in Preferred(i) ELSE pick[i] = 0
        /\ view' = [i \in Issues |-> IF Stray(i) THEN Select(i, pick[i]) ELSE records[i]]
  BY DEF StartTick
<1>2. /\ pc = "idle" /\ pc' = "reconcile" /\ view = records /\ records' = view'
      /\ UNCHANGED <<runs, used, task, worker>> /\ UNCHANGED Aside
  BY DEF StartTick, KeepTick, KeepWorld, bounds, Aside, OneRun, Ownership
<1>3. ASSUME NEW i \in Issues
      PROVE  /\ view'[i].state = view[i].state
             /\ view'[i] = view[i] \/ view'[i].run \in Active(i)
  <2>1. view'[i] = IF Stray(i) THEN Select(i, pick[i]) ELSE records[i]
    BY <1>1
  <2>2. records[i] \in Record
    BY DEF Typed, TypeOK
  <2>3. CASE Stray(i)
    <3>1. pick[i] \in Active(i)
      BY <1>1, <2>3 DEF Preferred
    <3>2. records[i].state \in Claimed
      BY <3>1 DEF Active, OneRun, Ownership, IsActive
    <3>3. Select(i, pick[i]).run = pick[i] /\ Select(i, pick[i]).state = records[i].state
      BY <2>2, <3>2 DEF Select, Record, Claimed
    <3> QED
      BY <1>2, <2>1, <2>3, <3>1, <3>3
  <2>4. CASE ~Stray(i)
    BY <1>2, <2>1, <2>4
  <2> QED
    BY <2>3, <2>4
<1> QED
  BY <1>2, <1>3

(* A run that is not the current one of its issue is over.  Another stays   *)
(* active, or it is over and the issue is released.                         *)
Judged(r, i) ==
    \/ ~Current(r, i) /\ view' = view /\ ~IsActive(r)'
    \/ /\ Current(r, i) /\ IsActive(r)' /\ view'[i].run \in {r, view[i].run}
       /\ view'[i].state \in {view[i].state, "running", "retry_queued"}
    \/ Current(r, i) /\ ~IsActive(r)' /\ view'[i].run = 0 /\ view'[i].state = "released"

(* The current run of a claimed issue stays that, or it is over.            *)
Judgement(r, i) ==
    \/ /\ IsActive(r)' /\ view'[i].run = r
       /\ view'[i].state \in {view[i].state, "running", "retry_queued"}
    \/ ~IsActive(r)' /\ view'[i].run = 0 /\ view'[i].state = "released"

LEMMA ReleaseTo ==
    ASSUME NEW v \in Records, NEW i \in Issues, NEW reset \in BOOLEAN
    PROVE  Release(v, i, reset)[i].run = 0 /\ Release(v, i, reset)[i].state = "released"
  BY DEF Release, Records

LEMMA FailTo ==
    ASSUME NEW v \in Records, NEW i \in Issues, NEW r \in 0..MaxRuns, NEW n, NEW st, Spent(n)
    PROVE  Fail(v, i, r, n, st)[i].run = 0 /\ Fail(v, i, r, n, st)[i].state = "released"
  BY DEF Fail, Records

LEMMA JudgedEffect ==
    ASSUME Typed, NEW r \in Runs, NEW i \in Issues, IsActive(r), Judges(r, i)
    PROVE  /\ pc = "reconcile" /\ runs[r].issue = i /\ r \in todo /\ todo' = todo \ {r}
           /\ UNCHANGED <<pc, records, used, task>> /\ UNCHANGED Aside
           /\ \A s \in Runs : runs'[s].issue = runs[s].issue
           /\ \A s \in Runs : s # r => runs'[s] = runs[s]
           /\ \A j \in Issues : j # i => view'[j] = view[j]
           /\ Judged(r, i)
<1>t. Take(r, i) /\ Reconciled(r)
  BY ReconcileShape
<1>a. /\ runs \in [Runs -> Run] /\ view \in Records /\ runs[r].issue = i /\ IsActive(r)
      /\ view[i].count + 1 \in Nat /\ runs[r].st \in SomeState /\ r \in 0..MaxRuns
      /\ {"failed", "succeeded", "retrying", "suppressed"} \subseteq Status
      /\ {"failed", "succeeded", "suppressed"} \cap ActiveRun = {}
      /\ {"running", "retrying"} \subseteq ActiveRun
  <2>1. /\ view[i] \in Record /\ runs[r] \in Run
        /\ runs \in [Runs -> Run] /\ view \in Records
    BY DEF Typed, TypeOK, Records
  <2>2. runs[r].issue = i /\ IsActive(r)
    BY <1>t DEF Take
  <2>3. view[i].count + 1 \in Nat /\ runs[r].st \in SomeState
    BY <2>1 DEF Record, Run, SomeState
  <2>4. r \in 0..MaxRuns
    BY OrchestratorAssumption DEF Runs
  <2> QED
    BY <2>1, <2>2, <2>3, <2>4 DEF Status, ActiveRun
<1>b. pc = "reconcile" /\ r \in todo /\ todo' = todo \ {r}
  BY <1>t DEF Take
<1>c. UNCHANGED <<pc, records, used, task>> /\ UNCHANGED Aside
  BY <1>t DEF Reconciled, KeepTick, KeepWorld, bounds, Aside
<1>d. \A s \in Runs : runs'[s].issue = runs[s].issue
  BY <1>t DEF Reconciled
<1>e. \/ ReconcileAlive(r, i) \/ Complete(r, i) \/ DeferFinalization(r, i) \/ FailedAttempt(r, i)
      \/ Continue(r, i) \/ RetryWaits(r, i) \/ RetryUnconfirmed(r, i) \/ RetryReleased(r, i)
      \/ RetryNoSlot(r, i)
      => Current(r, i)
  BY DEF ReconcileAlive, Complete, DeferFinalization, FailedAttempt, Continue, RetryWaits,
         RetryUnconfirmed, RetryReleased, RetryNoSlot, Ended, RetryFires
<1> DEFINE Effect == /\ \A s \in Runs : s # r => runs'[s] = runs[s]
                     /\ \A j \in Issues : j # i => view'[j] = view[j]
                     /\ Judged(r, i)
<1>1. ASSUME ReconcileSuperseded(r, i) PROVE Effect
  <2>1. SaveRun(r, "failed") /\ view' = view /\ ~Current(r, i)
    BY <1>1 DEF ReconcileSuperseded
  <2>2. ~IsActive(r)' /\ \A s \in Runs : s # r => runs'[s] = runs[s]
    BY <1>a, <2>1, SaveRunOne DEF IsActive
  <2> QED
    BY <2>1, <2>2 DEF Judged
<1>2. ASSUME ReconcileAlive(r, i) PROVE Effect
  <2> DEFINE rec == [view[i] EXCEPT !.state = "running", !.run = r, !.retry = FALSE]
  <2>1. rec.state = "running" /\ rec.run = r
    BY <1>a DEF Records, Record
  <2>2. view' = [view EXCEPT ![i] = rec]
    BY <1>2, <1>a DEF ReconcileAlive
  <2> HIDE DEF rec
  <2>3. /\ view'[i] = rec
        /\ \A j \in Issues : j # i => view'[j] = view[j]
    BY <1>a, <2>2 DEF Records
  <2>4. IsActive(r)' /\ \A s \in Runs : s # r => runs'[s] = runs[s]
    BY <1>2, <1>a DEF ReconcileAlive, Run, IsActive
  <2> QED
    BY <1>2, <1>e, <2>1, <2>3, <2>4 DEF Judged
<1>3. ASSUME Complete(r, i) PROVE Effect
  <2>1. SaveRun(r, "succeeded") /\ view' = Release(view, i, TRUE)
    BY <1>3 DEF Complete
  <2>2. ~IsActive(r)' /\ \A s \in Runs : s # r => runs'[s] = runs[s]
    BY <1>a, <2>1, SaveRunOne DEF IsActive
  <2> QED
    BY <1>3, <1>a, <1>e, <2>1, <2>2, ReleaseOne, ReleaseTo DEF Judged
<1>4. ASSUME DeferFinalization(r, i) PROVE Effect
  <2>1. /\ runs' = [runs EXCEPT ![r] = [@ EXCEPT !.defer = runs[r].defer + 1, !.pid = FALSE]]
        /\ view' = view
    BY <1>4 DEF DeferFinalization
  <2>2. /\ runs'[r].status = runs[r].status
        /\ \A s \in Runs : s # r => runs'[s] = runs[s]
    BY <1>a, <2>1 DEF Run
  <2> QED
    BY <1>4, <1>a, <1>e, <2>1, <2>2 DEF Judged, IsActive
<1>5. ASSUME NEW n \in Nat, EndRun(r, IF Spent(n) THEN "suppressed" ELSE "retrying")
                \/ SaveRun(r, IF Spent(n) THEN "suppressed" ELSE "retrying"),
             view' = Fail(view, i, r, n, runs[r].st), Current(r, i)
      PROVE  Effect
  <2>1. /\ runs'[r].status = IF Spent(n) THEN "suppressed" ELSE "retrying"
        /\ \A s \in Runs : s # r => runs'[s] = runs[s]
    BY <1>a, <1>5, EndRunOne, SaveRunOne
  <2>2. \A j \in Issues : j # i => view'[j] = view[j]
    BY <1>a, <1>5, FailOne
  <2>3. CASE Spent(n)
    BY <1>a, <1>5, <2>1, <2>2, <2>3, FailTo DEF Judged, IsActive
  <2>4. CASE ~Spent(n)
    BY <1>a, <1>5, <2>1, <2>2, <2>4, FailOne DEF Judged, IsActive
  <2> QED
    BY <2>3, <2>4
<1>6. ASSUME FailedAttempt(r, i) \/ RetryUnconfirmed(r, i) PROVE Effect
  BY <1>5, <1>6, <1>a, <1>e DEF FailedAttempt, RetryUnconfirmed
<1>7. ASSUME EndRun(r, "retrying") \/ SaveRun(r, "retrying"), view' = Queue(view, i, r), Current(r, i)
      PROVE  Effect
  <2>1. IsActive(r)' /\ \A s \in Runs : s # r => runs'[s] = runs[s]
    BY <1>a, <1>7, EndRunOne, SaveRunOne DEF IsActive
  <2> QED
    BY <1>a, <1>7, <2>1, QueueOne DEF Judged
<1>8. ASSUME Continue(r, i) \/ RetryNoSlot(r, i) PROVE Effect
  BY <1>7, <1>8, <1>e DEF Continue, RetryNoSlot
<1>9. ASSUME RetryWaits(r, i) PROVE Effect
  BY <1>9, <1>a, <1>e DEF RetryWaits, Judged, IsActive
<1>10. ASSUME RetryReleased(r, i) PROVE Effect
  <2>1. tracker[i] \in SomeState
    BY DEF Typed, TypeOK, SomeState
  <2>2. /\ runs'[r].status = "suppressed"
        /\ \A s \in Runs : s # r => runs'[s] = runs[s]
        /\ view' = Release(view, i, FALSE)
    BY <1>10, <1>a, <2>1, SuppressOne DEF RetryReleased
  <2> QED
    BY <1>10, <1>a, <1>e, <2>2, ReleaseOne, ReleaseTo DEF Judged, IsActive
<1>11. Effect
  BY <1>1, <1>2, <1>3, <1>4, <1>6, <1>8, <1>9, <1>10 DEF Judges
<1> QED
  BY <1>a, <1>b, <1>c, <1>d, <1>11

LEMMA ReconcileEffect ==
    ASSUME Typed, OneRun, NEW r \in Runs, NEW i \in Issues, Judges(r, i)
    PROVE  /\ pc = "reconcile" /\ runs[r].issue = i /\ IsActive(r) /\ Owned(r)
           /\ UNCHANGED <<pc, records, used, task>> /\ UNCHANGED Aside
           /\ \A s \in Runs : runs'[s].issue = runs[s].issue
           /\ \A s \in Runs : s # r => runs'[s] = runs[s]
           /\ \A j \in Issues : j # i => view'[j] = view[j]
           /\ Judgement(r, i)
<1>1. IsActive(r)
  BY ReconcileShape DEF Take, OneRun, Ownership
<1>2. Owned(r) /\ view[i].run = r
  BY <1>1, JudgedEffect DEF OneRun, Ownership, Owned
<1> QED
  BY <1>1, <1>2, JudgedEffect DEF Judged, Judgement, Current

LEMMA RestartedEffect ==
    ASSUME Typed, NEW r \in Runs, NEW i \in Issues, Restart(r, i)
    PROVE  /\ pc = "reconcile" /\ pc' = "start" /\ runs[r].issue = i /\ Current(r, i)
           /\ r \in todo /\ todo' = todo \ {r}
           /\ IsActive(r) /\ runs[r].status = "retrying" /\ runs'[r].status = "failed"
           /\ UNCHANGED <<view, records, used, worker>> /\ UNCHANGED Aside
           /\ \A s \in Runs : runs'[s].issue = runs[s].issue
           /\ \A s \in Runs : s # r => runs'[s] = runs[s]
           /\ task'.kind = "retry" /\ task'.issue = i /\ task'.old = r /\ task'.new = 0
           /\ HasRetrySlot(r)
<1>1. Take(r, i) /\ runs[r].status = "retrying" /\ Current(r, i)
  BY DEF Restart, RetryFires
<1> QED
  BY <1>1, RestartTyped DEF Restart, Take, KeepWorld, bounds, Aside, IsActive, ActiveRun

LEMMA RestartEffect ==
    ASSUME Typed, OneRun, NEW r \in Runs, NEW i \in Issues, Restart(r, i)
    PROVE  /\ pc = "reconcile" /\ pc' = "start" /\ runs[r].issue = i /\ Owned(r)
           /\ IsActive(r) /\ runs[r].status = "retrying" /\ runs'[r].status = "failed"
           /\ UNCHANGED <<view, records, used, worker>> /\ UNCHANGED Aside
           /\ \A s \in Runs : runs'[s].issue = runs[s].issue
           /\ \A s \in Runs : s # r => runs'[s] = runs[s]
           /\ task'.kind = "retry" /\ task'.issue = i /\ task'.old = r /\ task'.new = 0
           /\ HasRetrySlot(r)
<1>1. Owned(r)
  BY RestartedEffect DEF OneRun, Ownership
<1> QED
  BY <1>1, RestartedEffect

(* The starts: a new run, the latest of all, under the task's claim.        *)
LEMMA PreparedEffect ==
    ASSUME Typed, Prepare
    PROVE  LET n == used + 1 IN
           /\ pc = "prepare" /\ pc' = "publish" /\ used' = n /\ n \in Runs /\ n > used
           /\ task \in Task /\ task.issue \in Issues
           /\ task'.issue = task.issue /\ task'.kind = task.kind
           /\ task'.old = task.old /\ task'.new = n
           /\ UNCHANGED <<records, worker>> /\ UNCHANGED Aside
           /\ runs'[n].issue = task.issue /\ runs'[n].status = "running"
           /\ \A s \in Runs : s # n => runs'[s] = runs[s]
           /\ view'[task.issue].state = "running" /\ view'[task.issue].run = n
           /\ \A j \in Issues : j # task.issue => view'[j] = view[j]
<1>1. /\ task \in Task /\ task.issue \in Issues /\ used + 1 \in Runs /\ used + 1 > used /\ used \in Nat
  <2>1. pc = "prepare" /\ task \in Task /\ used < MaxRuns /\ used \in 0..MaxRuns
    BY DEF Prepare, Typed, TypeOK, Midway, Starting
  <2> QED
    BY <2>1, OrchestratorAssumption DEF Task, Runs
<1>2. /\ runs'[used + 1].issue = task.issue /\ runs'[used + 1].status = "running"
      /\ \A s \in Runs : s # used + 1 => runs'[s] = runs[s]
  BY <1>1 DEF Prepare, Typed, TypeOK
<1>3. /\ view'[task.issue].state = "running" /\ view'[task.issue].run = used + 1
      /\ \A j \in Issues : j # task.issue => view'[j] = view[j]
  <2> DEFINE rec == [view[task.issue] EXCEPT !.state = "running", !.run = used + 1, !.retry = FALSE]
  <2>1. view \in [Issues -> Record] /\ view' = [view EXCEPT ![task.issue] = rec]
    BY DEF Prepare, Typed, TypeOK
  <2>2. rec.state = "running" /\ rec.run = used + 1
    BY <1>1, <2>1 DEF Record
  <2> HIDE DEF rec
  <2> QED
    BY <1>1, <2>1, <2>2
<1>4. /\ task'.issue = task.issue /\ task'.kind = task.kind /\ task'.old = task.old
      /\ task'.new = used + 1
  BY <1>1 DEF Prepare, Task
<1> QED
  BY <1>1, <1>2, <1>3, <1>4 DEF Prepare, KeepWorld, bounds, Aside

LEMMA PrepareEffect ==
    ASSUME Typed, OneRun, Prepare
    PROVE  LET n == used + 1 IN
           /\ pc = "prepare" /\ pc' = "publish" /\ used' = n /\ n \in Runs /\ n > used
           /\ task \in Task /\ task.issue \in Issues
           /\ task'.issue = task.issue /\ task'.kind = task.kind
           /\ task'.old = task.old /\ task'.new = n
           /\ UNCHANGED <<records, worker>> /\ UNCHANGED Aside
           /\ runs'[n].issue = task.issue /\ runs'[n].status = "running" /\ ~IsActive(n)
           /\ \A s \in Runs : s # n => runs'[s] = runs[s]
           /\ view'[task.issue].state = "running" /\ view'[task.issue].run = n
           /\ \A j \in Issues : j # task.issue => view'[j] = view[j]
<1>1. used \in Nat
  BY DEF Typed, TypeOK
<1>2. ~IsActive(used + 1)
  BY <1>1, PreparedEffect DEF OneRun, Ownership
<1> QED
  BY <1>2, PreparedEffect

(* A start that fails ends its run, if it has one, and gives up the claim   *)
(* or leaves a retry without a run.                                         *)
LEMMA StartFailsEffect ==
    ASSUME Typed, StartFails
    PROVE  /\ pc \in {"start", "prepare", "spawn"} /\ pc' = "unstart"
           /\ task \in Task /\ task.issue \in Issues
           /\ UNCHANGED <<records, used, task, worker>> /\ UNCHANGED Aside
           /\ \A s \in Runs : /\ runs'[s].issue = runs[s].issue
                              /\ runs'[s].status \in {runs[s].status, "failed", "suppressed"}
                              /\ s \notin {task.new, task.old} => runs'[s] = runs[s]
           /\ task.new \in Runs => ~IsActive(task.new)'
           /\ view'[task.issue].run = 0 /\ view'[task.issue].state \in {"retry_queued", "released"}
           /\ \A j \in Issues : j # task.issue => view'[j] = view[j]
<1>1. /\ pc \in {"start", "prepare", "spawn"} /\ pc' = "unstart"
      /\ UNCHANGED <<records, used, task, worker>> /\ UNCHANGED Aside
  BY DEF StartFails, KeepTick, Aside
<1>2. PICK n \in {PriorCount + 1, MaxFailureRetries} :
        /\ runs' = [r \in Runs |->
              IF r = task.new THEN [runs[r] EXCEPT !.status = IF Spent(n) THEN "suppressed" ELSE "failed"]
              ELSE IF r = task.old /\ Spent(n) THEN [runs[r] EXCEPT !.status = "suppressed"]
              ELSE runs[r]]
        /\ view' = LET v == Fail(view, task.issue, 0, n, FailureState)
                   IN IF task.kind = "dispatch" /\ ~Spent(n)
                      THEN [v EXCEPT ![task.issue].supp = task.before.supp] ELSE v
  BY DEF StartFails
<1>3. n \in Nat /\ FailureState \in SomeState /\ task \in Task /\ task.issue \in Issues
  BY <1>1, <1>2, PriorCountType, FailureStateType, OrchestratorAssumption
     DEF Typed, Midway, Starting, Task
<1>4. \A s \in Runs : /\ runs'[s].issue = runs[s].issue
                      /\ runs'[s].status \in {runs[s].status, "failed", "suppressed"}
                      /\ s \notin {task.new, task.old} => runs'[s] = runs[s]
  BY <1>2 DEF Typed, TypeOK, Run
<1>5. task.new \in Runs => ~IsActive(task.new)'
  <2> SUFFICES ASSUME NEW new \in Runs, new = task.new PROVE runs'[new].status \notin ActiveRun
    BY <1>1 DEF IsActive
  <2> DEFINE status == IF Spent(n) THEN "suppressed" ELSE "failed"
  <2>1. runs'[new] = [runs[new] EXCEPT !.status = status] /\ runs[new] \in Run
    BY <1>2 DEF Typed, TypeOK
  <2>2. status \in {"suppressed", "failed"}
    OBVIOUS
  <2> HIDE DEF status
  <2> QED
    BY <2>1, <2>2 DEF Run, ActiveRun
<1> DEFINE v == Fail(view, task.issue, 0, n, FailureState)
<1>6. view \in Records /\ 0 \in 0..MaxRuns
  BY OrchestratorAssumption DEF Typed, TypeOK, Records
<1>7. /\ v \in Records /\ v[task.issue].run = 0 /\ v[task.issue].state \in {"retry_queued", "released"}
      /\ \A j \in Issues : j # task.issue => v[j] = view[j]
  BY <1>3, <1>6, FailOne, FailTo
<1>8. /\ view'[task.issue].run = v[task.issue].run /\ view'[task.issue].state = v[task.issue].state
      /\ \A j \in Issues : j # task.issue => view'[j] = v[j]
  <2>1. view' = v \/ view' = [v EXCEPT ![task.issue] = [@ EXCEPT !.supp = task.before.supp]]
    BY <1>2
  <2> HIDE DEF v
  <2> QED
    BY <1>3, <1>7, <2>1 DEF Records, Record
<1> QED
  BY <1>1, <1>3, <1>4, <1>5, <1>7, <1>8

(* Without a credential a restart takes its old run back, and a dispatch    *)
(* its claim.                                                               *)
LEMMA CredentialEffect ==
    ASSUME Typed, CredentialMissing
    PROVE  /\ pc = "prepare" /\ task \in Task /\ task.issue \in Issues
           /\ UNCHANGED <<used, worker>> /\ UNCHANGED Aside
           /\ \A s \in Runs : runs'[s].issue = runs[s].issue
           /\ \A s \in Runs : s # task.old => runs'[s] = runs[s]
           /\ \A j \in Issues : j # task.issue => view'[j] = view[j]
           /\ \/ /\ task.kind = "retry" /\ task.old \in Runs /\ runs[task.old].issue = task.issue
                 /\ pc' = "reconcile" /\ UNCHANGED records
                 /\ runs'[task.old].status = "retrying"
                 /\ view'[task.issue].state = "retry_queued" /\ view'[task.issue].run = task.old
              \/ /\ task.kind = "dispatch" /\ pc' = "dispatch" /\ records' = view' /\ UNCHANGED runs
                 /\ view'[task.issue].state \in {"retry_queued", "released"}
                 /\ view'[task.issue].run = 0
<1>1. /\ pc = "prepare" /\ task \in Task /\ task.issue \in Issues /\ task.before \in Record
      /\ task.kind \in {"dispatch", "retry"}
      /\ runs \in [Runs -> Run] /\ view \in Records
  BY DEF CredentialMissing, Typed, TypeOK, Midway, Starting, Task, Records
<1>2. UNCHANGED <<used, worker>> /\ UNCHANGED Aside
  BY DEF CredentialMissing, history, Aside
<1>3. CASE task.kind = "retry"
  <2>1. /\ task.old \in Runs /\ runs[task.old].issue = task.issue /\ task.old \in 0..MaxRuns
        /\ SaveRun(task.old, "retrying") /\ view' = Queue(view, task.issue, task.old)
        /\ pc' = "reconcile" /\ UNCHANGED records
    BY <1>1, <1>3 DEF CredentialMissing, Back, Typed, Midway, Starting, Runs
  <2>2. "retrying" \in Status
    BY DEF Status, ActiveRun
  <2> QED
    BY <1>1, <1>2, <1>3, <2>1, <2>2, SaveRunOne, QueueOne
<1>4. CASE task.kind = "dispatch"
  <2> DEFINE s == IF task.before.retry THEN "retry_queued" ELSE "released"
  <2>1. /\ s \in {"retry_queued", "released"} /\ s \in Claimed \union {"none", "released"}
        /\ task.before.retry \in BOOLEAN /\ 0 \in 0..MaxRuns
    BY <1>1, OrchestratorAssumption DEF Record, Claimed
  <2>2. /\ view' = [view EXCEPT ![task.issue] =
                       [@ EXCEPT !.state = s, !.run = 0, !.retry = task.before.retry]]
        /\ records' = view' /\ pc' = "dispatch" /\ UNCHANGED runs
    BY <1>4 DEF CredentialMissing, Back
  <2> HIDE DEF s
  <2>3. /\ view'[task.issue].state = s /\ view'[task.issue].run = 0
        /\ \A j \in Issues : j # task.issue => view'[j] = view[j]
    <3> DEFINE rec == [view[task.issue] EXCEPT !.state = s, !.run = 0, !.retry = task.before.retry]
    <3>1. rec.state = s /\ rec.run = 0
      BY <1>1 DEF Records, Record
    <3>2. view' = [view EXCEPT ![task.issue] = rec]
      BY <2>2
    <3> HIDE DEF rec
    <3> QED
      BY <1>1, <3>1, <3>2 DEF Records
  <2> QED
    BY <1>1, <1>2, <1>4, <2>1, <2>2, <2>3
<1> QED
  BY <1>1, <1>3, <1>4

LEMMA ClaimEffect ==
    ASSUME Typed, NEW i \in Issues, Claim(i)
    PROVE  /\ pc = "dispatch" /\ pc' = "start" /\ i \in cands /\ cands' = cands \ {i} /\ SlotsLeft
           /\ UNCHANGED <<runs, used, worker, stopping, limit, edits, leased, crashes, stops>>
           /\ task'.kind = "dispatch" /\ task'.issue = i /\ task'.old = 0 /\ task'.new = 0
           /\ records' = view'
           /\ view'[i].run = 0
           /\ view'[i].state = IF view[i].state = "retry_queued" THEN "retry_queued" ELSE "claimed"
           /\ \A j \in Issues : j # i => view'[j] = view[j]
  BY DEF Claim, Dispatchable, ClaimedRecord, KeepWorld, bounds, Typed, TypeOK

LEMMA PollEffect ==
    ASSUME Typed, Poll
    PROVE  /\ pc = "reconcile" /\ pc' = "dispatch" /\ todo = {}
           /\ UNCHANGED <<view, records, used, task, worker, stopping, limit, edits, leased, crashes, stops>>
           /\ \A i \in cands' : i \in Issues /\ ~Holds(view[i])
           /\ \A r \in Runs : /\ runs'[r].issue = runs[r].issue
                              /\ runs'[r].status = runs[r].status /\ runs'[r].pid = runs[r].pid
<1>1. ASSUME NEW r \in Runs
      PROVE  /\ runs'[r].issue = runs[r].issue
             /\ runs'[r].status = runs[r].status /\ runs'[r].pid = runs[r].pid
  <2>1. runs'[r] = IF runs[r].status \in ActiveRun /\ tracker[runs[r].issue] # NoState
                   THEN [runs[r] EXCEPT !.st = tracker[runs[r].issue]] ELSE runs[r]
    BY DEF Poll
  <2> QED
    BY <2>1 DEF Typed, TypeOK, Run
<1> QED
  BY <1>1 DEF Poll, KeepWorld, bounds

(* The last loop releases the issue it turns to and ends its run, or does   *)
(* nothing.                                                                 *)
LEMMA SettleEffect ==
    ASSUME Typed, NEW i \in Issues, SettleIssue(i)
    PROVE  /\ pc = "settle" /\ i \in cands /\ cands' = cands \ {i}
           /\ UNCHANGED <<pc, records, used, task, stopping, limit, edits, leased, crashes, stops>>
           /\ \A s \in Runs : runs'[s].issue = runs[s].issue
           /\ \A j \in Issues : j # i => view'[j] = view[j]
           /\ \/ UNCHANGED <<view, runs, worker>>
              \/ /\ view'[i].run = 0 /\ view'[i].state = "released"
                 /\ \/ LastRun(i) = {} /\ UNCHANGED <<runs, worker>>
                    \/ \E r \in LastRun(i) \cap Runs :
                          /\ Signal(r) /\ ~IsActive(r)'
                          /\ \A s \in Runs : s # r => runs'[s] = runs[s]
<1> USE DEF Settle, KeepWorld, bounds
<1>0. view \in Records /\ runs \in [Runs -> Run]
  BY DEF Typed, TypeOK, Records
<1>1. ASSUME SettleSkips(i) PROVE UNCHANGED <<view, runs, worker>> /\ Settle(i)
  BY <1>1 DEF SettleSkips
<1>2. ASSUME SettleUnused(i)
      PROVE  /\ Settle(i) /\ view' = Release(view, i, FALSE)
             /\ LastRun(i) = {} /\ UNCHANGED <<runs, worker>>
  BY <1>2 DEF SettleUnused
<1>3. ASSUME NEW r \in Runs, SettleSucceeds(i, r) \/ SettleSuppresses(i, r)
      PROVE  \E reset \in BOOLEAN, status \in {"succeeded", "suppressed"} :
                /\ Settle(i) /\ r \in LastRun(i) /\ Signal(r) /\ SaveRun(r, status)
                /\ view' = Release(view, i, reset)
  BY <1>3 DEF SettleSucceeds, SettleSuppresses
<1>4. ASSUME NEW r \in Runs, NEW status \in {"succeeded", "suppressed"}, SaveRun(r, status)
      PROVE  /\ ~IsActive(r)'
             /\ \A s \in Runs : runs'[s].issue = runs[s].issue
             /\ \A s \in Runs : s # r => runs'[s] = runs[s]
  BY <1>0, <1>4, SaveRunOne DEF Status, IsActive, ActiveRun
<1>5. CASE SettleSkips(i)
  BY <1>1, <1>5
<1>6. CASE SettleUnused(i)
  <2>1. /\ view'[i].run = 0 /\ view'[i].state = "released"
        /\ \A j \in Issues : j # i => view'[j] = view[j]
    <3>1. view \in Records /\ view' = Release(view, i, FALSE) /\ FALSE \in BOOLEAN
      BY <1>0, <1>2, <1>6
    <3> QED
      BY <3>1, ReleaseOne, ReleaseTo
  <2> QED
    BY <1>2, <1>6, <2>1
<1>7. ASSUME NEW r \in Runs, SettleSucceeds(i, r) \/ SettleSuppresses(i, r)
      PROVE  /\ Settle(i) /\ view'[i].run = 0 /\ view'[i].state = "released"
             /\ \A j \in Issues : j # i => view'[j] = view[j]
             /\ r \in LastRun(i) /\ Signal(r) /\ ~IsActive(r)'
             /\ \A s \in Runs : runs'[s].issue = runs[s].issue
             /\ \A s \in Runs : s # r => runs'[s] = runs[s]
  BY <1>0, <1>3, <1>4, <1>7, ReleaseOne, ReleaseTo
<1> QED
  BY <1>5, <1>6, <1>7 DEF SettleIssue

(* Steps that write what the tick has in memory, or move it on.             *)
Quiet ==
    \/ EnterStart \/ Publish \/ Spawn \/ SpawnNothing \/ RecordStart \/ SaveFailedStart
    \/ PollFails \/ DispatchDone \/ SettleDone \/ EndTick

LEMMA QuietEffect ==
    ASSUME Typed, Quiet
    PROVE  /\ UNCHANGED <<view, used, todo, stopping, limit, edits, leased, crashes, stops>>
           /\ records' \in {records, view} /\ pc # "idle"
           /\ \A r \in Runs : runs'[r].issue = runs[r].issue /\ runs'[r].status = runs[r].status
           /\ pc' \in Starting => pc \in Starting /\ task' = task
           /\ pc' \in {"start", "prepare"} => pc = "start" /\ records' = records
           /\ Dispatching' => Dispatching /\ cands' = cands
           /\ pc' = "settle" => \A i \in cands' : i \in Issues /\ view[i].state \in Claimed
<1> USE DEF KeepTick, KeepWorld, durable, world, history, bounds, Starting, Dispatching, Back
<1>1. CASE RecordStart
  <2>1. PICK n \in Runs, b \in BOOLEAN : runs' = [runs EXCEPT ![n].pid = b]
    BY <1>1 DEF RecordStart, Typed, Midway
  <2>2. \A r \in Runs : runs'[r].issue = runs[r].issue /\ runs'[r].status = runs[r].status
    BY <2>1, PidOne DEF Typed, TypeOK
  <2> QED
    BY <1>1, <2>2 DEF RecordStart, Typed, Midway, Task
<1>2. CASE EnterStart \/ Publish \/ Spawn \/ SpawnNothing
  BY <1>2 DEF EnterStart, Publish, Spawn, SpawnNothing
<1>3. CASE SaveFailedStart
  BY <1>3 DEF SaveFailedStart, Typed, Midway, Task
<1>4. CASE PollFails \/ DispatchDone \/ SettleDone \/ EndTick
  BY <1>4 DEF PollFails, DispatchDone, SettleDone, EndTick
<1> QED
  BY <1>1, <1>2, <1>3, <1>4 DEF Quiet

(* Workers, the tracker, timers, an edit and a signal to stop.              *)
Others ==
    \/ (Workers \/ World) /\ ~Crash /\ ~Leave
    \/ UNCHANGED vars

Uninterrupted == crashes = 0 /\ stops = 0

LEMMA OthersEffect ==
    ASSUME Typed, Others
    PROVE  /\ UNCHANGED <<pc, view, records, used, todo, cands, task>>
           /\ \A r \in Runs : /\ runs'[r].issue = runs[r].issue
                              /\ runs'[r].status = runs[r].status /\ runs'[r].pid = runs[r].pid
           /\ leased' = leased \/ \E r \in Runs : AcquireLease(r)
           /\ edits' = 0 => edits = 0 /\ limit' = limit
           /\ Uninterrupted' => Uninterrupted /\ (stopping = "no" => stopping' = "no")
           /\ \A r \in Runs : worker'[r] = "alive" => worker[r] = "alive"
<1> USE DEF KeepAll, durable, world, tick, history, bounds, Uninterrupted
<1>0. /\ edits \in Nat /\ crashes \in Nat /\ stops \in Nat
      /\ worker \in [Runs -> {"none", "alive", "stopping"} \union Exits]
  BY DEF Typed, TypeOK
<1>1. CASE MergeState
  <2>1. request.run \in Runs
    BY <1>1 DEF MergeState, Typed, TypeOK, NoRequest
  <2>2. \A s \in Runs : /\ runs'[s].issue = runs[s].issue
                        /\ runs'[s].status = runs[s].status /\ runs'[s].pid = runs[s].pid
    BY <1>1, <2>1 DEF MergeState, Typed, TypeOK, Run
  <2> QED
    BY <1>1, <2>2 DEF MergeState
<1>2. CASE \E r \in Runs : AcquireLease(r)
  BY <1>2 DEF AcquireLease
<1>3. ASSUME NEW r \in Runs, WorkerExits(r)
      PROVE  /\ UNCHANGED <<durable, tick, stopping, limit, edits, leased, crashes, stops>>
             /\ \A s \in Runs : worker'[s] = "alive" => worker[s] = "alive"
  BY <1>0, <1>3 DEF WorkerExits, Exits
<1>4. CASE \/ \E r \in Runs, s \in States : RequestState(r, s)
           \/ ProviderApplies \/ RequestFails
  BY <1>4 DEF RequestState, ProviderApplies, RequestFails, MoveTo
<1>5. CASE \/ \E i \in Issues, s \in States \union {NoState} : TrackerMove(i, s)
           \/ \E i \in Issues : RetryElapses(i)
           \/ \E r \in Runs : GraceEnds(r)
           \/ \E n \in Limits : EditLimit(n)
  BY <1>0, <1>5 DEF TrackerMove, MoveTo, RetryElapses, GraceEnds, EditLimit
<1>6. CASE Shutdown \/ Drained
  BY <1>0, <1>6 DEF Shutdown, Drained
<1>7. CASE UNCHANGED vars
  BY <1>7 DEF vars
<1> QED
  BY <1>1, <1>2, <1>3, <1>4, <1>5, <1>6, <1>7 DEF Others, Workers, World

(* The daemon starts again: after it died, or after it was told to stop.    *)
LEMMA ReloadEffect ==
    ASSUME Typed, Crash \/ Leave
    PROVE  /\ pc' = "idle" /\ view' = records /\ stopping' = "no"
           /\ UNCHANGED <<records, runs, used, worker, limit, edits, leased>>
           /\ Uninterrupted' => Uninterrupted /\ stopping = "leave"
  BY DEF Crash, Leave, Reload, durable, history, Uninterrupted, Typed, TypeOK

LEMMA NextCases ==
    ASSUME [Next]_vars
    PROVE  \/ StartTick
           \/ \E r \in Runs, i \in Issues : Judges(r, i)
           \/ \E r \in Runs, i \in Issues : Restart(r, i)
           \/ Prepare \/ StartFails \/ CredentialMissing
           \/ \E i \in Issues : Claim(i)
           \/ Poll
           \/ \E i \in Issues : SettleIssue(i)
           \/ Quiet \/ Others \/ Crash \/ Leave
  BY DEF Next, Tick, StartRun, ReconcileRun, Judges, Quiet, Others

-----------------------------------------------------------------------------
(* A record names no run, or a run of its own issue.                        *)

Named(rec, i) == rec.run # 0 => rec.run <= used /\ runs[rec.run].issue = i

Naming == \A i \in Issues : Named(view[i], i) /\ Named(records[i], i)

LEMMA Numbers ==
    ASSUME Typed
    PROVE  /\ used \in Nat /\ used <= MaxRuns /\ Runs \subseteq Nat /\ MaxRuns \in Nat
           /\ \A r \in Nat : r \in Runs <=> r # 0 /\ r <= MaxRuns
           /\ \A i \in Issues : /\ view[i] \in Record /\ records[i] \in Record
                                /\ view[i].run \in Nat /\ records[i].run \in Nat /\ leased[i] \in Nat
  BY OrchestratorAssumption DEF Typed, TypeOK, Runs, Record

LEMMA NamingInit == Init => Naming
  BY DEF Init, Naming, Named, NoRecord

LEMMA NamingKept ==
    ASSUME Typed, Naming, \A r \in Runs : runs'[r].issue = runs[r].issue, used' = used,
           NEW i \in Issues, \A j \in Issues : j # i => view'[j] = view[j],
           records' \in {records, view, view'},
           \/ view'[i].run \in {0, view[i].run}
           \/ view'[i].run \in Runs /\ view'[i].run <= used /\ runs[view'[i].run].issue = i
    PROVE  Naming'
<1>1. \A r \in Nat : r # 0 /\ r <= used => r \in Runs
  BY Numbers
<1>2. ASSUME NEW j \in Issues
      PROVE  /\ Named(view[j], j)'
             /\ view[j].run # 0 => view[j].run <= used' /\ runs'[view[j].run].issue = j
             /\ records[j].run # 0 => records[j].run <= used' /\ runs'[records[j].run].issue = j
  <2>1. Named(view[j], j) /\ Named(records[j], j) /\ view[j].run \in Nat /\ records[j].run \in Nat
    BY Numbers DEF Naming
  <2> QED
    BY <1>1, <2>1 DEF Named
<1> QED
  BY <1>2 DEF Naming, Named

LEMMA NamingNext == ASSUME Typed, OneRun, Naming, [Next]_vars PROVE Naming'
<1>0. \A r \in Runs : IsActive(r) => r <= used
  BY DEF OneRun, Ownership
<1>1. CASE StartTick
  <2>1. ASSUME NEW i \in Issues PROVE Named(view[i], i)'
    <3>1. view'[i] = view[i] \/ (view'[i].run \in Runs /\ runs[view'[i].run].issue = i /\ view'[i].run <= used)
      BY <1>0, <1>1, BeginEffect DEF Active, IsActive
    <3> QED
      BY <1>1, <3>1, BeginEffect DEF Naming, Named
  <2> QED
    BY <1>1, <2>1, BeginEffect DEF Naming, Named
<1>2. ASSUME NEW r \in Runs, NEW i \in Issues, Judges(r, i) PROVE Naming'
  BY <1>0, <1>2, ReconcileEffect, NamingKept DEF Judgement
<1>3. ASSUME NEW r \in Runs, NEW i \in Issues, Restart(r, i) PROVE Naming'
  BY <1>3, RestartEffect, NamingKept
<1>4. CASE Prepare
  <2> DEFINE n == used + 1
  <2>1. /\ used' = n /\ n \in Runs /\ n > used /\ records' = records
        /\ runs'[n].issue = task.issue /\ \A s \in Runs : s # n => runs'[s] = runs[s]
        /\ view'[task.issue].run = n /\ \A j \in Issues : j # task.issue => view'[j] = view[j]
    BY <1>4, PrepareEffect
  <2>2. \A r \in Nat : r # 0 /\ r <= used => r \in Runs /\ r # n /\ r <= n
    BY <2>1, Numbers
  <2>3. ASSUME NEW i \in Issues PROVE Named(view[i], i)' /\ Named(records[i], i)'
    <3>1. Named(view[i], i) /\ Named(records[i], i) /\ view[i].run \in Nat /\ records[i].run \in Nat
      BY Numbers DEF Naming
    <3>2. Named(records[i], i)'
      BY <2>1, <2>2, <3>1 DEF Named
    <3>3. CASE i = task.issue
      BY <2>1, <3>2, <3>3 DEF Named
    <3>4. CASE i # task.issue
      BY <2>1, <2>2, <3>1, <3>2, <3>4 DEF Named
    <3> QED
      BY <3>3, <3>4
  <2> QED
    BY <2>3 DEF Naming
<1>5. CASE StartFails
  BY <1>5, StartFailsEffect, NamingKept
<1>6. CASE CredentialMissing
  <2>1. task.kind = "retry" => task.old <= used
    BY <1>6, CredentialEffect DEF OneRun, Readiness
  <2> QED
    BY <1>6, <2>1, CredentialEffect, NamingKept
<1>7. ASSUME NEW i \in Issues, Claim(i) PROVE Naming'
  BY <1>7, ClaimEffect, NamingKept
<1>8. ASSUME NEW i \in Issues, SettleIssue(i) PROVE Naming'
  BY <1>8, SettleEffect, NamingKept
<1>9. CASE Poll \/ Quiet \/ Others \/ Crash \/ Leave
  <2>1. /\ used' = used /\ \A r \in Runs : runs'[r].issue = runs[r].issue
        /\ view' \in {view, records} /\ records' \in {records, view}
    BY <1>9, PollEffect, QuietEffect, OthersEffect, ReloadEffect
  <2>2. \A r \in Nat : r # 0 /\ r <= used => r \in Runs
    BY Numbers
  <2>3. ASSUME NEW i \in Issues
        PROVE  /\ view[i].run # 0 => view[i].run <= used' /\ runs'[view[i].run].issue = i
               /\ records[i].run # 0 => records[i].run <= used' /\ runs'[records[i].run].issue = i
    BY <2>1, <2>2, Numbers DEF Naming, Named
  <2> QED
    BY <2>1, <2>3 DEF Naming, Named
<1> QED
  BY <1>1, <1>2, <1>3, <1>4, <1>5, <1>6, <1>7, <1>8, <1>9, NextCases

-----------------------------------------------------------------------------
(* Leases: a run that may hold one is the latest of its issue that ever     *)
(* may, since an active run is no older than the run any record names.      *)

Fencing ==
    /\ \A i \in Issues :
          /\ leased[i] <= used
          /\ view[i].state = "running" => leased[i] <= view[i].run
          /\ records[i].state = "running" => leased[i] <= records[i].run
    /\ \A r \in Runs : IsActive(r) =>
          leased[runs[r].issue] <= r /\ records[runs[r].issue].run <= r
    /\ pc \in {"start", "prepare"} /\ task.kind = "retry" =>
          leased[task.issue] <= task.old /\ records[task.issue].run <= task.old

LEMMA FencingInit == Init => Fencing
  BY DEF Init, Fencing, NoRecord, IsActive, ActiveRun

(* Steps that create no run and grant no lease.                             *)
LEMMA FencingKept ==
    ASSUME Typed, Fencing, leased' = leased, used' = used,
           \A r \in Runs : runs'[r].issue = runs[r].issue /\ (IsActive(r)' => IsActive(r)),
           records' = records \/ (records' = view' /\ \A r \in Runs : IsActive(r)' => Owned(r)'),
           \A i \in Issues : view'[i].state = "running" =>
               \/ view'[i] = view[i] \/ view'[i] = records[i]
               \/ view'[i].run \in Runs /\ IsActive(view'[i].run) /\ runs[view'[i].run].issue = i,
           pc' \in {"start", "prepare"} /\ task'.kind = "retry" =>
               /\ records' = records
               /\ leased[task'.issue] <= task'.old /\ records[task'.issue].run <= task'.old
    PROVE  Fencing'
<1>1. ASSUME NEW i \in Issues
      PROVE  leased'[i] <= used' /\ (view'[i].state = "running" => leased'[i] <= view'[i].run)
  BY DEF Fencing
<1>2. ASSUME NEW i \in Issues PROVE records'[i].state = "running" => leased'[i] <= records'[i].run
  BY <1>1 DEF Fencing
<1>3. ASSUME NEW r \in Runs, IsActive(r)'
      PROVE  leased'[runs'[r].issue] <= r /\ records'[runs'[r].issue].run <= r
  <2>1. IsActive(r) /\ runs'[r].issue = runs[r].issue
    BY <1>3
  <2>2. CASE records' = records
    BY <2>1, <2>2 DEF Fencing
  <2>3. CASE records' = view' /\ Owned(r)'
    <3>1. records'[runs'[r].issue].run = r
      BY <2>3 DEF Owned
    <3> QED
      BY <2>1, <3>1, Numbers DEF Fencing
  <2> QED
    BY <1>3, <2>2, <2>3
<1>4. pc' \in {"start", "prepare"} /\ task'.kind = "retry" =>
          leased'[task'.issue] <= task'.old /\ records'[task'.issue].run <= task'.old
  OBVIOUS
<1> QED
  BY <1>1, <1>2, <1>3, <1>4 DEF Fencing

LEMMA FencingNext == ASSUME Typed, OneRun, Naming, Fencing, [Next]_vars PROVE Fencing'
<1>0. OneRun'
  BY OneRunNext
<1>1. CASE StartTick
  <2>1. \A r \in Runs : IsActive(r)' => Owned(r)'
    BY <1>0, <1>1, BeginEffect DEF OneRun, Ownership
  <2> QED
    BY <1>1, <2>1, BeginEffect, FencingKept DEF Aside, Active, IsActive
<1>2. ASSUME NEW r \in Runs, NEW i \in Issues, Judges(r, i) PROVE Fencing'
  <2>1. \A s \in Runs : IsActive(s)' => IsActive(s)
    BY <1>2, ReconcileEffect DEF IsActive
  <2> QED
    BY <1>2, <2>1, ReconcileEffect, FencingKept DEF Aside, Judgement
<1>3. ASSUME NEW r \in Runs, NEW i \in Issues, Restart(r, i) PROVE Fencing'
  <2>1. \A s \in Runs : IsActive(s)' => IsActive(s)
    BY <1>3, RestartEffect DEF IsActive
  <2>2. leased[i] <= r /\ records[i].run <= r
    BY <1>3, RestartEffect DEF Fencing
  <2> QED
    BY <1>3, <2>1, <2>2, RestartEffect, FencingKept DEF Aside
<1>4. CASE Prepare
  <2> DEFINE n == used + 1
             k == task.issue
  <2>1. /\ used' = n /\ n \in Runs /\ n > used /\ records' = records /\ leased' = leased
        /\ pc' = "publish" /\ k \in Issues
        /\ runs'[n].issue = k /\ \A s \in Runs : s # n => runs'[s] = runs[s]
        /\ view'[k].run = n /\ \A j \in Issues : j # k => view'[j] = view[j]
    BY <1>4, PrepareEffect DEF Aside
  <2> HIDE DEF n, k
  <2>2. \A i \in Issues : leased[i] <= n /\ records[i].run <= n
    <3> SUFFICES ASSUME NEW i \in Issues PROVE leased[i] <= n /\ records[i].run <= n
      OBVIOUS
    <3>1. leased[i] <= used /\ (records[i].run = 0 \/ records[i].run <= used)
      BY DEF Fencing, Naming, Named
    <3>2. used \in Nat /\ n \in Nat /\ leased[i] \in Nat /\ records[i].run \in Nat
      BY <2>1, Numbers
    <3> QED
      BY <2>1, <3>1, <3>2
  <2>3. ASSUME NEW r \in Runs, IsActive(r)'
        PROVE  leased'[runs'[r].issue] <= r /\ records'[runs'[r].issue].run <= r
    <3>1. CASE r = n
      BY <2>1, <2>2, <3>1
    <3>2. CASE r # n
      BY <2>1, <2>3, <3>2 DEF Fencing, IsActive
    <3> QED
      BY <3>1, <3>2
  <2>4. ASSUME NEW i \in Issues
        PROVE  /\ leased'[i] <= used'
               /\ view'[i].state = "running" => leased'[i] <= view'[i].run
               /\ records'[i].state = "running" => leased'[i] <= records'[i].run
    <3>1. CASE i = k
      BY <2>1, <2>2, <3>1 DEF Fencing
    <3>2. CASE i # k
      BY <2>1, <2>2, <3>2 DEF Fencing
    <3> QED
      BY <3>1, <3>2
  <2> QED
    BY <2>1, <2>3, <2>4 DEF Fencing
<1>5. CASE StartFails
  <2>1. \A s \in Runs : IsActive(s)' => IsActive(s)
    BY <1>5, StartFailsEffect DEF IsActive, ActiveRun
  <2> QED
    BY <1>5, <2>1, StartFailsEffect, FencingKept DEF Aside
<1>6. CASE CredentialMissing
  <2> DEFINE k == task.issue
  <2>1. /\ pc = "prepare" /\ pc' \in {"reconcile", "dispatch"} /\ k \in Issues
        /\ used' = used /\ leased' = leased
        /\ \A s \in Runs : runs'[s].issue = runs[s].issue
        /\ \A j \in Issues : j # k => view'[j] = view[j]
        /\ view'[k].state # "running" /\ records' \in {records, view'}
    BY <1>6, CredentialEffect DEF Aside
  <2>2. ASSUME NEW i \in Issues
        PROVE  /\ leased'[i] <= used'
               /\ view'[i].state = "running" => leased'[i] <= view'[i].run
               /\ records'[i].state = "running" => leased'[i] <= records'[i].run
    BY <2>1 DEF Fencing
  <2>3. ASSUME NEW r \in Runs, IsActive(r)'
        PROVE  leased'[runs'[r].issue] <= r /\ records'[runs'[r].issue].run <= r
    <3>1. CASE task.kind = "retry"
      <4>1. records' = records /\ task.old \in Runs /\ runs[task.old].issue = k
            /\ \A s \in Runs : s # task.old => runs'[s] = runs[s]
        BY <1>6, <3>1, CredentialEffect
      <4>2. leased[k] <= task.old /\ records[k].run <= task.old
        BY <2>1, <3>1 DEF Fencing
      <4>3. r # task.old => IsActive(r)
        BY <2>3, <4>1 DEF IsActive
      <4> QED
        BY <2>1, <4>1, <4>2, <4>3 DEF Fencing
    <3>2. CASE task.kind # "retry"
      <4>1. /\ records' = view' /\ runs' = runs /\ pc' = "dispatch"
        BY <1>6, <3>2, CredentialEffect
      <4>2. IsActive(r) /\ Owned(r)'
        BY <1>0, <2>3, <4>1 DEF IsActive, OneRun, Ownership
      <4> QED
        BY <2>1, <4>1, <4>2, Numbers DEF Fencing, Owned
    <3> QED
      BY <3>1, <3>2
  <2> QED
    BY <2>1, <2>2, <2>3 DEF Fencing
<1>7. ASSUME NEW i \in Issues, Claim(i) PROVE Fencing'
  <2>1. /\ \A r \in Runs : IsActive(r)' => Owned(r)'
        /\ \A r \in Runs : runs'[r].issue = runs[r].issue /\ (IsActive(r)' => IsActive(r))
    BY <1>0, <1>7, ClaimEffect DEF OneRun, Ownership, IsActive
  <2>2. view'[i].state # "running"
    BY <1>7, ClaimEffect
  <2>3. /\ leased' = leased /\ used' = used /\ records' = view' /\ task'.kind = "dispatch"
        /\ \A j \in Issues : j # i => view'[j] = view[j]
    BY <1>7, ClaimEffect
  <2> QED
    BY <2>1, <2>2, <2>3, FencingKept
<1>8. ASSUME NEW i \in Issues, SettleIssue(i) PROVE Fencing'
  <2>1. /\ leased' = leased /\ used' = used /\ records' = records /\ pc' = "settle"
        /\ \A r \in Runs : runs'[r].issue = runs[r].issue /\ (IsActive(r)' => IsActive(r))
        /\ \A j \in Issues : view'[j] = view[j] \/ view'[j].state = "released"
    BY <1>8, SettleEffect DEF IsActive
  <2> QED
    BY <2>1, FencingKept
<1>9. CASE Poll
  BY <1>9, PollEffect, FencingKept DEF IsActive
<1>10. CASE Quiet
  <2>1. \A r \in Runs : runs'[r].issue = runs[r].issue /\ (IsActive(r)' <=> IsActive(r))
    BY <1>10, QuietEffect DEF IsActive
  <2>2. pc # "idle" => \A r \in Runs : IsActive(r)' => Owned(r)'
    BY <1>10, <2>1, QuietEffect DEF OneRun, Ownership, Owned
  <2>3. pc' \in {"start", "prepare"} /\ task'.kind = "retry" =>
           /\ records' = records
           /\ leased[task'.issue] <= task'.old /\ records[task'.issue].run <= task'.old
    BY <1>10, QuietEffect DEF Fencing, Starting
  <2>4. /\ leased' = leased /\ used' = used /\ view' = view
        /\ records' \in {records, view} /\ pc # "idle"
    BY <1>10, QuietEffect
  <2> QED
    BY <2>1, <2>2, <2>3, <2>4, FencingKept
<1>11. ASSUME Others, leased' = leased PROVE Fencing'
  <2>1. /\ UNCHANGED <<pc, view, records, used, task>>
        /\ \A r \in Runs : runs'[r].issue = runs[r].issue /\ (IsActive(r)' <=> IsActive(r))
    BY <1>11, OthersEffect DEF IsActive
  <2>2. pc' \in {"start", "prepare"} /\ task'.kind = "retry" =>
          leased[task'.issue] <= task'.old /\ records[task'.issue].run <= task'.old
    BY <2>1 DEF Fencing
  <2> QED
    BY <1>11, <2>1, <2>2, FencingKept
<1>12. ASSUME NEW q \in Runs, AcquireLease(q) PROVE Fencing'
  <2> DEFINE k == runs[q].issue
  <2>1. /\ pc = "idle" /\ records[k].state = "running" /\ records[k].run = q
        /\ leased' = [leased EXCEPT ![k] = q]
        /\ UNCHANGED <<pc, view, records, runs, used, task>>
    BY <1>12 DEF AcquireLease, MayWork, KeepAll, durable, tick
  <2>2. view = records
    BY <2>1 DEF OneRun, Ownership
  <2>3. \A j : j # k => leased'[j] = leased[j]
    BY <2>1 DEF Typed, TypeOK
  <2>4. k \in Issues => leased'[k] = q /\ q <= used
    BY <2>1, Numbers DEF Typed, TypeOK, Naming, Named
  <2>5. ASSUME NEW i \in Issues
        PROVE  /\ leased'[i] <= used'
               /\ view'[i].state = "running" => leased'[i] <= view'[i].run
               /\ records'[i].state = "running" => leased'[i] <= records'[i].run
    <3>1. CASE i = k
      BY <2>1, <2>2, <2>4, <3>1, Numbers
    <3>2. CASE i # k
      BY <2>1, <2>3, <3>2 DEF Fencing
    <3> QED
      BY <3>1, <3>2
  <2>6. ASSUME NEW r \in Runs, IsActive(r)'
        PROVE  leased'[runs'[r].issue] <= r /\ records'[runs'[r].issue].run <= r
    <3>1. IsActive(r) /\ runs[r].issue \in Issues
      BY <2>1, <2>6 DEF IsActive, Typed, Midway
    <3>2. leased[runs[r].issue] <= r /\ records[runs[r].issue].run <= r
      BY <3>1 DEF Fencing
    <3> QED
      BY <2>1, <2>3, <2>4, <3>1, <3>2
  <2> QED
    BY <2>1, <2>5, <2>6 DEF Fencing
<1>13. CASE Crash \/ Leave
  BY <1>13, ReloadEffect, FencingKept DEF IsActive
<1> QED
  BY <1>1, <1>2, <1>3, <1>4, <1>5, <1>6, <1>7, <1>8, <1>9, <1>10, <1>11, <1>12, <1>13,
     NextCases, OthersEffect

(* What every step keeps of all this.                                       *)
Fenced == Typed /\ OneRun /\ Naming /\ Fencing

LEMMA FencedInit == Init => Fenced
  BY TypedInit, OneRunInit, NamingInit, FencingInit DEF Fenced

LEMMA FencedNext == Fenced /\ [Next]_vars => Fenced'
  BY TypedNext, OneRunNext, NamingNext, FencingNext DEF Fenced

(* Once a run has been granted a lease, no run that is older is granted one *)
(* for its issue: not after a restart under the worker of a run that ended, *)
(* and not after a crash that lost the record of a newer run                *)
(* (acquireWorkerTurnLease, service.ts:721).                                *)
THEOREM LeasesAreFenced == Spec => LeasesMoveForward
<1>1. Fenced /\ [Next]_vars => [\A i \in Issues : leased'[i] >= leased[i]]_vars
  <2> SUFFICES ASSUME Fenced, [Next]_vars, NEW i \in Issues
               PROVE  leased'[i] >= leased[i]
    OBVIOUS
  <2> USE DEF Fenced
  <2>0. leased[i] \in Nat
    BY Numbers
  <2>1. ASSUME leased' = leased PROVE leased'[i] >= leased[i]
    BY <2>0, <2>1
  <2>2. ASSUME NEW q \in Runs, AcquireLease(q) PROVE leased'[i] >= leased[i]
    <3>1. /\ records[runs[q].issue].state = "running" /\ records[runs[q].issue].run = q
          /\ leased' = [leased EXCEPT ![runs[q].issue] = q]
      BY <2>2 DEF AcquireLease, MayWork
    <3>2. runs[q].issue = i => leased[i] <= q /\ q \in Nat
      BY <3>1, Numbers DEF Fencing
    <3>3. leased'[i] = IF i = runs[q].issue THEN q ELSE leased[i]
      BY <3>1 DEF Typed, TypeOK
    <3> QED
      BY <2>0, <3>2, <3>3
  <2>3. leased' = leased \/ \E q \in Runs : AcquireLease(q)
    BY NextCases, BeginEffect, ReconcileEffect, RestartEffect, PrepareEffect, StartFailsEffect,
       CredentialEffect, ClaimEffect, PollEffect, SettleEffect, QuietEffect, OthersEffect,
       ReloadEffect DEF Aside
  <2> QED
    BY <2>1, <2>2, <2>3
<1> QED
  BY <1>1, FencedInit, FencedNext, PTL DEF Spec, LeasesMoveForward

-----------------------------------------------------------------------------
(* The records keep to their lifecycle: what the tick turns to has the      *)
(* state the step needs.  Candidates hold no slot while the loop goes over  *)
(* them, whatever the starts before did, and what the last loop releases is *)
(* claimed.                                                                 *)

Candidacy ==
    /\ Dispatching => \A i \in cands : ~Holds(view[i])
    /\ Dispatching /\ pc \in Starting => task.issue \notin cands
    /\ pc \in {"start", "prepare"} => view[task.issue].state \in Claimed
    /\ pc = "settle" => \A i \in cands : view[i].state \in Claimed
    /\ pc \in Starting /\ task.kind = "dispatch" => task.old = 0

LEMMA CandidacyInit == Init => Candidacy
  BY DEF Init, Candidacy, Dispatching, Starting

LEMMA CandidacyNext == ASSUME Typed, OneRun, Candidacy, [Next]_vars PROVE Candidacy'
<1> USE DEF Aside
<1>0. cands \subseteq Issues /\ (pc \in Starting => task \in Task)
  BY DEF Typed, TypeOK, Midway
<1>1. CASE StartTick \/ Crash \/ Leave
  BY <1>1, BeginEffect, ReloadEffect DEF Candidacy, Dispatching, Starting
<1>2. ASSUME NEW r \in Runs, NEW i \in Issues, Judges(r, i) PROVE Candidacy'
  BY <1>2, ReconcileEffect DEF Candidacy, Dispatching, Starting
<1>3. ASSUME NEW r \in Runs, NEW i \in Issues, Restart(r, i) PROVE Candidacy'
  BY <1>3, RestartEffect DEF Candidacy, Dispatching, Starting, Owned
<1>4. CASE Prepare
  <2>1. /\ pc = "prepare" /\ pc' = "publish" /\ task'.issue = task.issue
        /\ task'.kind = task.kind /\ task'.old = task.old
        /\ cands' = cands /\ \A j \in Issues : j # task.issue => view'[j] = view[j]
    BY <1>4, PrepareEffect
  <2>2. Dispatching' => Dispatching /\ task.issue \notin cands
    BY <2>1 DEF Dispatching, Starting, Candidacy
  <2>3. Dispatching' => \A i \in cands' : ~Holds(view'[i])
    BY <1>0, <2>1, <2>2 DEF Candidacy
  <2> QED
    BY <2>1, <2>2, <2>3 DEF Candidacy, Starting
<1>5. CASE StartFails
  <2>1. /\ pc \in Starting /\ pc' = "unstart" /\ task' = task /\ cands' = cands
        /\ \A j \in Issues : j # task.issue => view'[j] = view[j]
    BY <1>5, StartFailsEffect DEF Starting
  <2>2. Dispatching' => Dispatching /\ task.issue \notin cands
    BY <2>1 DEF Dispatching, Starting, Candidacy
  <2>3. Dispatching' => \A i \in cands' : ~Holds(view'[i])
    BY <1>0, <2>1, <2>2 DEF Candidacy
  <2> QED
    BY <2>1, <2>2, <2>3 DEF Candidacy
<1>6. CASE CredentialMissing
  <2>1. /\ pc = "prepare" /\ cands' = cands
        /\ \A j \in Issues : j # task.issue => view'[j] = view[j]
        /\ pc' = "reconcile" \/ (pc' = "dispatch" /\ task.kind = "dispatch")
    <3>1. UNCHANGED Aside /\ pc = "prepare" /\ \A j \in Issues : j # task.issue => view'[j] = view[j]
      BY <1>6, CredentialEffect
    <3>2. pc' = "reconcile" \/ (pc' = "dispatch" /\ task.kind = "dispatch")
      BY <1>6, CredentialEffect
    <3> QED
      BY <3>1, <3>2
  <2>2. Dispatching' => Dispatching /\ task.issue \notin cands
    BY <2>1 DEF Dispatching, Starting, Candidacy
  <2>3. Dispatching' => \A i \in cands' : ~Holds(view'[i])
    BY <1>0, <2>1, <2>2 DEF Candidacy
  <2> QED
    BY <2>1, <2>2, <2>3 DEF Candidacy, Starting
<1>7. ASSUME NEW i \in Issues, Claim(i) PROVE Candidacy'
  <2>1. /\ pc = "dispatch" /\ pc' = "start" /\ cands' = cands \ {i}
        /\ task'.issue = i /\ task'.old = 0
        /\ view'[i].state \in Claimed
        /\ \A j \in Issues : j # i => view'[j] = view[j]
    BY <1>7, ClaimEffect DEF Claimed
  <2>2. \A j \in cands' : ~Holds(view'[j])
    BY <1>0, <2>1 DEF Candidacy, Dispatching
  <2> QED
    BY <2>1, <2>2 DEF Candidacy
<1>8. CASE Poll
  BY <1>8, PollEffect DEF Candidacy, Starting
<1>9. ASSUME NEW i \in Issues, SettleIssue(i) PROVE Candidacy'
  <2>1. /\ pc = "settle" /\ pc' = "settle" /\ cands' = cands \ {i}
        /\ \A j \in Issues : j # i => view'[j] = view[j]
    BY <1>9, SettleEffect
  <2> QED
    BY <1>0, <2>1 DEF Candidacy, Dispatching, Starting
<1>10. CASE Quiet
  <2>1. /\ view' = view
        /\ pc' \in Starting => pc \in Starting /\ task' = task
        /\ pc' \in {"start", "prepare"} => pc = "start"
        /\ Dispatching' => Dispatching /\ cands' = cands
        /\ pc' = "settle" => \A i \in cands' : view[i].state \in Claimed
    BY <1>10, QuietEffect
  <2> QED
    BY <2>1 DEF Candidacy, Starting
<1>11. CASE Others
  BY <1>11, OthersEffect DEF Candidacy, Dispatching
<1> QED
  BY <1>1, <1>2, <1>3, <1>4, <1>5, <1>6, <1>7, <1>8, <1>9, <1>10, <1>11, NextCases

-----------------------------------------------------------------------------
(* The scheduler implements the lifecycle, step by step.                    *)

State == [i \in Issues |-> view[i].state]
Saved == [i \in Issues |-> records[i].state]

LEMMA LifecycleStep == ASSUME Typed, OneRun, Candidacy, [Next]_vars PROVE [Lifecycle!Next]_<<State, Saved>>
<1> USE DEF State, Saved
<1> DEFINE Moved(i) == /\ view[i].state \in Claimed
                       /\ view'[i].state \in {view[i].state, "running", "retry_queued", "released"}
                       /\ \A j \in Issues : j # i => view'[j] = view[j]
                       /\ records' \in {records, view'}
<1>s. ASSUME \A i \in Issues : view'[i].state = view[i].state, records' \in {records, view, view'}
      PROVE  Lifecycle!Save \/ UNCHANGED <<State, Saved>>
  BY <1>s DEF Lifecycle!Save
<1>m. ASSUME NEW i \in Issues, Moved(i) PROVE [Lifecycle!Next]_<<State, Saved>>
  <2>1. CASE view'[i].state = view[i].state
    <3>1. \A j \in Issues : view'[j].state = view[j].state
      BY <1>m, <2>1
    <3> QED
      BY <1>m, <1>s, <3>1 DEF Lifecycle!Next
  <2>2. CASE view'[i].state # view[i].state
    <3>1. view'[i].state \in Lifecycle!Legal[State[i]]
      BY <1>m, <2>2 DEF Claimed, Lifecycle!Legal
    <3>2. State' = [State EXCEPT ![i] = view'[i].state]
      BY <1>m
    <3>3. Saved' \in {Saved, State'}
      BY <1>m
    <3>4. State[i] \in Lifecycle!Claimed
      BY <1>m DEF Claimed, Lifecycle!Claimed
    <3>5. Lifecycle!Move(i)
      BY <3>1, <3>2, <3>3, <3>4 DEF Lifecycle!Move
    <3> QED
      BY <3>5 DEF Lifecycle!Next
  <2> QED
    BY <2>1, <2>2
<1>1. CASE StartTick
  BY <1>1, <1>s, BeginEffect DEF Lifecycle!Next
<1>2. ASSUME NEW r \in Runs, NEW i \in Issues, Judges(r, i) PROVE Moved(i)
  BY <1>2, ReconcileEffect DEF Judgement, Owned
<1>3. CASE \/ \E r \in Runs, i \in Issues : Restart(r, i)
           \/ Poll \/ Quiet \/ Others
  <2>1. view' = view /\ records' \in {records, view}
    BY <1>3, RestartEffect, PollEffect, QuietEffect, OthersEffect
  <2> QED
    BY <2>1, <1>s DEF Lifecycle!Next
<1>4. ASSUME Prepare PROVE Moved(task.issue) /\ task.issue \in Issues
  BY <1>4, PrepareEffect DEF Candidacy
<1>5. ASSUME StartFails PROVE Moved(task.issue) /\ task.issue \in Issues
  <2>1. view[task.issue].state \in Claimed
    BY <1>5, StartFailsEffect DEF Candidacy, OneRun, Ownership, Readiness, Active, IsActive, Owned
  <2> QED
    BY <1>5, <2>1, StartFailsEffect
<1>6. ASSUME CredentialMissing PROVE Moved(task.issue) /\ task.issue \in Issues
  BY <1>6, CredentialEffect DEF Candidacy
<1>7. ASSUME NEW i \in Issues, Claim(i) PROVE [Lifecycle!Next]_<<State, Saved>>
  <2>1. /\ records' = view' /\ \A j \in Issues : j # i => view'[j] = view[j]
        /\ view'[i].state = IF view[i].state = "retry_queued" THEN "retry_queued" ELSE "claimed"
        /\ ~Holds(view[i]) /\ view[i] \in Record
    BY <1>7, ClaimEffect, Numbers DEF Candidacy, Dispatching
  <2>2. CASE view[i].state = "retry_queued"
    <3>1. \A j \in Issues : view'[j].state = view[j].state
      BY <2>1, <2>2
    <3> QED
      BY <2>1, <1>s, <3>1 DEF Lifecycle!Next
  <2>3. CASE view[i].state # "retry_queued"
    <3>1. State[i] \in Lifecycle!Unclaimed
      BY <2>1, <2>3 DEF Holds, Record, Claimed, Lifecycle!Unclaimed
    <3>2. State' = [State EXCEPT ![i] = "claimed"] /\ Saved' = State'
      BY <2>1, <2>3
    <3>3. Lifecycle!Claim(i)
      BY <3>1, <3>2 DEF Lifecycle!Claim
    <3> QED
      BY <3>3 DEF Lifecycle!Next
  <2> QED
    BY <2>2, <2>3
<1>8. ASSUME NEW i \in Issues, SettleIssue(i) PROVE Moved(i) \/ UNCHANGED <<view, records>>
  BY <1>8, SettleEffect DEF Candidacy
<1>9. CASE Crash \/ Leave
  BY <1>9, ReloadEffect DEF Lifecycle!Crash, Lifecycle!Next
<1> HIDE DEF Moved, State, Saved
<1>10. ASSUME UNCHANGED <<view, records>> PROVE UNCHANGED <<State, Saved>>
  BY <1>10 DEF State, Saved
<1> QED
  BY <1>m, <1>1, <1>2, <1>3, <1>4, <1>5, <1>6, <1>7, <1>8, <1>9, <1>10, NextCases

(* The coordination records keep to the lifecycle: no step makes a change   *)
(* of state that assertIssueOrchestrationTransition would throw on, a claim *)
(* is on disk before anything is done under it, and a crash goes back to    *)
(* the disk (core/src/contracts/issue-orchestration.ts:12,                  *)
(* service.ts:7525).                                                        *)
THEOREM RefinesLifecycle == Spec => ImplementsLifecycle
<1>1. Init => Lifecycle!Init
  BY DEF Init, Lifecycle!Init, NoRecord
<1>2. Init => Typed /\ OneRun /\ Candidacy
  BY TypedInit, OneRunInit, CandidacyInit
<1>3. (Typed /\ OneRun /\ Candidacy) /\ [Next]_vars => (Typed /\ OneRun /\ Candidacy)'
  BY TypedNext, OneRunNext, CandidacyNext
<1>4. (Typed /\ OneRun /\ Candidacy) /\ [Next]_vars => [Lifecycle!Next]_<<State, Saved>>
  BY LifecycleStep
<1> QED
  BY <1>1, <1>2, <1>3, <1>4, PTL DEF Spec, ImplementsLifecycle, Lifecycle!Spec, State, Saved

LEMMA StatesAre ==
    /\ State = [i \in Issues |-> State[i]] /\ Saved = [i \in Issues |-> Saved[i]]
    /\ \A i \in Issues : State[i] = view[i].state /\ Saved[i] = records[i].state
BY DEF State, Saved

(* A step of the lifecycle, issue by issue.                                 *)
LEMMA LifecyclePointwise ==
    ASSUME [Lifecycle!Next]_<<State, Saved>>, NEW i \in Issues
    PROVE  \/ State'[i] = State[i] /\ Saved'[i] = Saved[i]
           \/ State'[i] \in Lifecycle!Claimed /\ Saved'[i] = State'[i]
           \/ State'[i] = "released" /\ Saved'[i] = State'[i]
           \/ State[i] \in Lifecycle!Claimed /\ Saved'[i] = Saved[i]
                 /\ State'[i] \in Lifecycle!Claimed \cup {"released"}
           \/ State'[i] = State[i] /\ Saved'[i] = State[i]
           \/ State'[i] = Saved[i] /\ Saved'[i] = Saved[i]
<1>1. ASSUME NEW j \in Issues, Lifecycle!Claim(j)
      PROVE  State' = [State EXCEPT ![j] = "claimed"] /\ Saved' = State'
  BY <1>1 DEF Lifecycle!Claim, State, Saved
<1>2. ASSUME NEW j \in Issues, Lifecycle!Move(j)
      PROVE  /\ State[j] \in Lifecycle!Claimed /\ Saved' \in {Saved, State'}
             /\ \E s \in Lifecycle!Legal[State[j]] : State' = [State EXCEPT ![j] = s]
  BY <1>2 DEF Lifecycle!Move, State, Saved
<1>3. Lifecycle!Save => Saved' = State /\ State' = State
  BY DEF Lifecycle!Save, State, Saved
<1>4. Lifecycle!Crash => State' = Saved /\ Saved' = Saved
  BY DEF Lifecycle!Crash, State, Saved
<1>5. State = [j \in Issues |-> State[j]]
  BY StatesAre
<1> HIDE DEF State, Saved
<1>6. \A c \in Lifecycle!Claimed :
         Lifecycle!Legal[c] \subseteq Lifecycle!Claimed \cup {"released"}
  BY DEF Lifecycle!Legal, Lifecycle!Claimed
<1>7. ASSUME NEW j \in Issues, Lifecycle!Claim(j)
      PROVE  (State'[i] = State[i] /\ Saved'[i] = State[i])
                \/ (State'[i] \in Lifecycle!Claimed /\ Saved'[i] = State'[i])
  BY <1>1, <1>5, <1>7 DEF Lifecycle!Claimed
<1>8. ASSUME NEW j \in Issues, Lifecycle!Move(j)
      PROVE  \/ State'[i] = State[i] /\ Saved'[i] \in {State[i], Saved[i]}
             \/ /\ State[i] \in Lifecycle!Claimed /\ Saved'[i] \in {Saved[i], State'[i]}
                /\ State'[i] \in Lifecycle!Claimed \cup {"released"}
  BY <1>2, <1>5, <1>6, <1>8
<1> QED
  BY <1>3, <1>4, <1>7, <1>8 DEF Lifecycle!Next

ClaimsKept == \A i \in Issues : State[i] \in Lifecycle!Claimed => Saved[i] \in Lifecycle!Claimed

(* No crash forgets a claim: what is worked on in memory is claimed on      *)
(* disk, for any number of issues and of crashes, as the lifecycle that the *)
(* scheduler implements guarantees (service.ts:1898, 7525).                 *)
THEOREM ClaimsSurviveCrashes == Spec => []Lifecycle!ClaimsAreSaved
<1>1. Lifecycle!Init => ClaimsKept
  BY StatesAre DEF Lifecycle!Init, ClaimsKept, Lifecycle!Claimed
<1>2. ClaimsKept /\ [Lifecycle!Next]_<<State, Saved>> => ClaimsKept'
  BY LifecyclePointwise DEF ClaimsKept, Lifecycle!Claimed
<1>3. ClaimsKept => Lifecycle!ClaimsAreSaved
  BY StatesAre DEF ClaimsKept, Lifecycle!ClaimsAreSaved
<1> QED
  BY RefinesLifecycle, <1>1, <1>2, <1>3, PTL
  DEF ImplementsLifecycle, Lifecycle!Spec, State, Saved

-----------------------------------------------------------------------------
(* The limit.  Engaged are the issues that hold a slot, in memory or on     *)
(* disk, that have an active run, whatever the records say of them after a  *)
(* crash, or that a start is under way for.  Only a claim adds one.         *)

Engaged ==
    {i \in Issues : \/ Holds(view[i]) \/ Holds(records[i]) \/ Active(i) # {}
                    \/ pc \in Starting /\ i = task.issue}

Counting == IsFiniteSet(Engaged) /\ (edits = 0 => Cardinality(Engaged) <= limit)

LEMMA CountingInit == Init => Counting
<1>1. Init => Engaged = {}
  BY DEF Init, Engaged, Holds, NoRecord, Active, ActiveRun, Starting, Claimed
<1>2. Init => limit \in Nat
  BY OrchestratorAssumption DEF Init
<1> QED
  BY <1>1, <1>2, FS_EmptySet DEF Counting

LEMMA CountingKept ==
    ASSUME Counting, Engaged' \subseteq Engaged, edits' = 0 => edits = 0 /\ limit' = limit, limit' \in Nat
    PROVE  Counting'
<1> DEFINE S == Engaged'
<1>1. S \in SUBSET Engaged /\ IsFiniteSet(Engaged)
  BY DEF Counting
<1>2. IsFiniteSet(S) /\ Cardinality(S) <= Cardinality(Engaged)
  BY <1>1, FS_Subset
<1>3. Cardinality(S) \in Nat /\ Cardinality(Engaged) \in Nat
  BY <1>1, <1>2, FS_CardinalityType
<1>4. IsFiniteSet(Engaged)' <=> IsFiniteSet(S)
  OBVIOUS
<1>5. Cardinality(Engaged)' = Cardinality(S)
  OBVIOUS
<1> HIDE DEF S
<1> QED
  BY <1>2, <1>3, <1>4, <1>5 DEF Counting

(* An active run's issue holds a slot, in memory, whenever a tick runs.     *)
LEMMA ActiveHolds ==
    ASSUME Typed, OneRun, pc # "idle", NEW i \in Issues, Active(i) # {}
    PROVE  Holds(view[i])
  BY OrchestratorAssumption DEF Active, OneRun, Ownership, IsActive, Owned, Holds, Runs

LEMMA EngagedNext ==
    ASSUME Typed, OneRun, [Next]_vars, \A i \in Issues : ~Claim(i)
    PROVE  Engaged' \subseteq Engaged
<1> USE DEF Aside
<1> SUFFICES ASSUME NEW k \in Engaged' PROVE k \in Engaged
  OBVIOUS
<1>0. /\ k \in Issues
      /\ \/ Holds(view'[k]) \/ Holds(records'[k])
         \/ \E s \in Runs : IsActive(s)' /\ runs'[s].issue = k
         \/ pc' \in Starting /\ k = task'.issue
  BY DEF Engaged, Active, IsActive, Holds
<1>a. ASSUME NEW s \in Runs, IsActive(s) PROVE runs[s].issue \in Engaged
  BY <1>a DEF Engaged, Active, IsActive, Typed, Midway
<1>b. ASSUME Holds(view[k]) \/ Holds(records[k]) \/ (pc \in Starting /\ k = task.issue) PROVE k \in Engaged
  BY <1>0, <1>b DEF Engaged
<1>1. CASE StartTick
  <2>1. view'[k] = view[k] \/ Active(k) # {}
    BY <1>0, <1>1, BeginEffect
  <2>2. records' = view' /\ runs' = runs /\ pc' = "reconcile"
    BY <1>1, BeginEffect
  <2>3. Active(k) # {} => k \in Engaged
    BY <1>0 DEF Engaged
  <2> QED
    BY <1>0, <1>a, <1>b, <2>1, <2>2, <2>3 DEF Starting, IsActive
<1>2. ASSUME NEW r \in Runs, NEW i \in Issues, Judges(r, i) PROVE k \in Engaged
  <2>1. /\ IsActive(r) /\ runs[r].issue = i /\ pc' = "reconcile" /\ records' = records
        /\ \A j \in Issues : j # i => view'[j] = view[j]
        /\ \A s \in Runs : s # r => runs'[s] = runs[s]
        /\ runs'[r].issue = runs[r].issue
    BY <1>2, ReconcileEffect
  <2> QED
    BY <1>0, <1>a, <1>b, <2>1 DEF Starting, IsActive
<1>3. ASSUME NEW r \in Runs, NEW i \in Issues, Restart(r, i) PROVE k \in Engaged
  <2>1. /\ IsActive(r) /\ runs[r].issue = i /\ task'.issue = i /\ UNCHANGED <<view, records>>
        /\ \A s \in Runs : s # r => runs'[s] = runs[s]
        /\ runs'[r].issue = runs[r].issue
    BY <1>3, RestartEffect
  <2> QED
    BY <1>0, <1>a, <1>b, <2>1 DEF IsActive
<1>4. CASE Prepare
  <2>1. /\ pc = "prepare" /\ task'.issue = task.issue /\ records' = records
        /\ \A j \in Issues : j # task.issue => view'[j] = view[j]
        /\ runs'[used + 1].issue = task.issue
        /\ \A s \in Runs : s # used + 1 => runs'[s] = runs[s]
    BY <1>4, PrepareEffect
  <2> QED
    BY <1>0, <1>a, <1>b, <2>1 DEF Starting, IsActive
<1>5. CASE StartFails
  <2>1. /\ pc \in Starting /\ task' = task /\ records' = records
        /\ \A j \in Issues : j # task.issue => view'[j] = view[j]
        /\ \A s \in Runs : runs'[s].issue = runs[s].issue /\ (IsActive(s)' => IsActive(s))
    BY <1>5, StartFailsEffect DEF Starting, IsActive, ActiveRun
  <2> QED
    BY <1>0, <1>a, <1>b, <2>1
<1>6. CASE CredentialMissing
  <2>1. /\ pc \in Starting /\ pc' \in {"reconcile", "dispatch"}
        /\ \A j \in Issues : j # task.issue => view'[j] = view[j]
        /\ \A s \in Runs : runs'[s].issue = runs[s].issue
        /\ \A s \in Runs : s # task.old => runs'[s] = runs[s]
    BY <1>6, CredentialEffect DEF Starting
  <2>2. \A s \in Runs : IsActive(s)' => IsActive(s) \/ runs'[s].issue = task.issue
    <3>1. runs' = runs \/ (task.old \in Runs /\ runs[task.old].issue = task.issue)
      BY <1>6, CredentialEffect
    <3> QED
      BY <2>1, <3>1 DEF IsActive
  <2>3. records' = records \/ records' = view'
    BY <1>6, CredentialEffect
  <2> QED
    BY <1>0, <1>a, <1>b, <2>1, <2>2, <2>3 DEF Starting
<1>7. CASE Poll \/ Quiet \/ Others \/ Crash \/ Leave
  <2>1. /\ view' \in {view, records} /\ records' \in {records, view}
        /\ \A s \in Runs : runs'[s].issue = runs[s].issue /\ (IsActive(s)' <=> IsActive(s))
        /\ pc' \in Starting => pc \in Starting /\ task' = task
    BY <1>7, PollEffect, QuietEffect, OthersEffect, ReloadEffect DEF IsActive, Starting
  <2> QED
    BY <1>0, <1>a, <1>b, <2>1
<1>8. ASSUME NEW i \in Issues, SettleIssue(i) PROVE k \in Engaged
  <2>1. /\ pc' = "settle" /\ records' = records
        /\ \A j \in Issues : j # i => view'[j] = view[j]
        /\ view'[i] = view[i] \/ view'[i].state = "released"
        /\ \A s \in Runs : runs'[s].issue = runs[s].issue /\ (IsActive(s)' => IsActive(s))
    BY <1>8, SettleEffect DEF IsActive
  <2>2. Holds(view'[k]) => Holds(view[k])
    BY <1>0, <2>1 DEF Holds, Claimed
  <2> QED
    BY <1>0, <1>a, <1>b, <2>1, <2>2 DEF Starting
<1> QED
  BY <1>1, <1>2, <1>3, <1>4, <1>5, <1>6, <1>7, <1>8, NextCases

Held == {i \in Issues : Holds(view[i])}

LEMMA CountingNext == ASSUME Typed, OneRun, Counting, [Next]_vars PROVE Counting'
<1>0. Typed'
  BY TypedNext
<1>1. limit \in Nat /\ limit' \in Nat
  BY <1>0, OrchestratorAssumption DEF Typed, TypeOK
<1>2. ASSUME NEW i \in Issues, Claim(i) PROVE Counting'
  <2>1. /\ pc = "dispatch" /\ pc' = "start" /\ task'.issue = i /\ records' = view' /\ runs' = runs
        /\ \A j \in Issues : j # i => view'[j] = view[j]
        /\ SlotsLeft /\ limit' = limit /\ edits' = edits
    BY <1>2, ClaimEffect
  <2>2. Held \in SUBSET Engaged /\ IsFiniteSet(Engaged)
    BY DEF Held, Engaged, Counting
  <2>3. IsFiniteSet(Held) /\ Cardinality(Held) \in Nat /\ Cardinality(Held) < limit
    BY <2>1, <2>2, FS_Subset, FS_CardinalityType DEF SlotsLeft, Held
  <2> DEFINE S == Engaged'
  <2>4. S \in SUBSET (Held \union {i})
    <3> SUFFICES ASSUME NEW k \in S, k # i PROVE k \in Held
      OBVIOUS
    <3>1. k \in Issues /\ (Holds(view[k]) \/ Active(k) # {})
      BY <2>1 DEF Engaged, Holds, Active
    <3> QED
      BY <2>1, <3>1, ActiveHolds DEF Held
  <2>5. /\ IsFiniteSet(Held \union {i})
        /\ Cardinality(Held \union {i}) <= Cardinality(Held) + 1
    <3>1. IsFiniteSet(Held \cup {i})
      BY <2>3, FS_AddElement
    <3>2. Cardinality(Held \cup {i}) = IF i \in Held THEN Cardinality(Held) ELSE Cardinality(Held) + 1
      BY <2>3, FS_AddElement
    <3> QED
      BY <2>3, <3>1, <3>2
  <2>6. /\ IsFiniteSet(S) /\ Cardinality(S) <= Cardinality(Held \union {i})
    BY <2>4, <2>5, FS_Subset
  <2>7. Cardinality(S) <= limit
    BY <1>1, <2>3, <2>5, <2>6, FS_CardinalityType
  <2>8. (IsFiniteSet(Engaged)' <=> IsFiniteSet(S)) /\ Cardinality(Engaged)' = Cardinality(S)
    OBVIOUS
  <2> HIDE DEF S
  <2> QED
    BY <2>1, <2>6, <2>7, <2>8 DEF Counting
<1>3. CASE \A i \in Issues : ~Claim(i)
  <2>1. edits' = 0 => edits = 0 /\ limit' = limit
    BY <1>3, NextCases, BeginEffect, ReconcileEffect, RestartEffect, PrepareEffect, StartFailsEffect,
       CredentialEffect, PollEffect, SettleEffect, QuietEffect, OthersEffect, ReloadEffect DEF Aside
  <2> QED
    BY <1>1, <1>3, <2>1, EngagedNext, CountingKept
<1> QED
  BY <1>2, <1>3

-----------------------------------------------------------------------------
(* As long as no daemon died or was told to stop, it knows its workers: one *)
(* that nobody told to stop works for an active run, with its process on    *)
(* record or about to be.                                                   *)

Employed(r) == runs[r].status = "running" /\ (runs[r].pid \/ (pc = "record" /\ task.new = r))

Employment ==
    /\ stopping = "no"
    /\ \A r \in Runs : worker[r] = "alive" => Employed(r)
    /\ pc \in {"publish", "spawn"} =>
          runs[task.new].status = "running" /\ worker[task.new] # "alive"

LEMMA EmploymentInit == Init => Employment
  BY DEF Init, Employment

LEMMA SignalStops ==
    ASSUME Typed, NEW r \in Runs, Signal(r), worker[r] = "alive" => runs[r].pid
    PROVE  worker'[r] # "alive" /\ \A s \in Runs : worker'[s] = "alive" => worker[s] = "alive"
  BY DEF Signal, IsRunning, Typed, TypeOK

LEMMA ReconcileWorkers ==
    ASSUME Typed, NEW r \in Runs, NEW i \in Issues, Judges(r, i),
           worker[r] = "alive" => runs[r].status = "running" /\ runs[r].pid
    PROVE  /\ \A s \in Runs : worker'[s] = "alive" => worker[s] = "alive"
           /\ worker'[r] = "alive" => runs'[r].status = "running" /\ runs'[r].pid
<1>1. ASSUME Signal(r)
      PROVE  worker'[r] # "alive" /\ \A s \in Runs : worker'[s] = "alive" => worker[s] = "alive"
  BY <1>1, SignalStops
<1>2. CASE ReconcileSuperseded(r, i)
  BY <1>1, <1>2 DEF ReconcileSuperseded
<1>3. CASE ReconcileAlive(r, i)
  BY <1>3 DEF ReconcileAlive, Typed, TypeOK, Run
<1>4. CASE Complete(r, i) \/ DeferFinalization(r, i) \/ FailedAttempt(r, i) \/ Continue(r, i)
  BY <1>1, <1>4 DEF Complete, DeferFinalization, FailedAttempt, Continue, Ended
<1>5. CASE RetryWaits(r, i) \/ RetryUnconfirmed(r, i) \/ RetryReleased(r, i) \/ RetryNoSlot(r, i)
  BY <1>5 DEF RetryWaits, RetryUnconfirmed, RetryReleased, RetryNoSlot, RetryFires
<1> QED
  BY <1>2, <1>3, <1>4, <1>5 DEF Judges

(* A worker alive is that of an active run; where none is active, it is not *)
(* alive.                                                                   *)
LEMMA AliveActive ==
    ASSUME Employment, NEW r \in Runs, worker[r] = "alive"
    PROVE  IsActive(r)
  BY DEF Employment, Employed, IsActive, ActiveRun

(* What is to be reconciled is active, what is active was made, and a       *)
(* restart has ended the run it replaces.                                   *)
Tidy ==
    /\ \A r \in todo : IsActive(r)
    /\ \A r \in Runs : IsActive(r) => r <= used
    /\ pc \in {"start", "prepare", "spawn"} =>
          \A r \in Runs : r = task.old /\ IsActive(r) => r = task.new

LEMMA OneRunTidy == ASSUME Typed, OneRun, Candidacy PROVE Tidy
<1>1. ASSUME pc \in {"start", "prepare", "spawn"}, NEW r \in Runs, r = task.old, IsActive(r)
      PROVE  r = task.new
  <2>1. r \in Nat /\ r # 0 /\ task \in Task
    BY <1>1, Numbers DEF Typed, Midway, Starting
  <2>2. task.kind = "retry"
    BY <1>1, <2>1 DEF Candidacy, Starting, Task
  <2>3. r \in Active(task.issue)
    BY <1>1, <2>2 DEF Typed, Midway, Starting, Active, IsActive
  <2>4. CASE pc \in {"start", "prepare"}
    BY <2>3, <2>4 DEF OneRun, Readiness
  <2>5. CASE pc = "spawn"
    BY <2>3, <2>5 DEF OneRun, Readiness, Ownership, Active, IsActive
  <2> QED
    BY <1>1, <2>4, <2>5
<1> QED
  BY <1>1 DEF Tidy, OneRun, Ownership

LEMMA StaysUninterrupted == ASSUME Typed, Tidy, [Next]_vars, Uninterrupted' PROVE Uninterrupted
<1>1. UNCHANGED <<crashes, stops>> => (Uninterrupted' => Uninterrupted)
  BY DEF Uninterrupted
<1>2. StartTick => UNCHANGED <<crashes, stops>>
  BY DEF StartTick, KeepWorld, bounds
<1>3. ASSUME NEW r \in Runs, NEW i \in Issues, Judges(r, i) PROVE UNCHANGED <<crashes, stops>>
  BY <1>3, ReconcileShape DEF Reconciled, KeepWorld, bounds
<1> QED
  BY <1>1, <1>2, <1>3, NextCases, RestartedEffect, PreparedEffect, StartFailsEffect, CredentialEffect,
     ClaimEffect, PollEffect, SettleEffect, QuietEffect, OthersEffect, ReloadEffect DEF Aside

LEMMA EmploymentNext ==
    ASSUME Typed, Tidy, Uninterrupted => Employment, [Next]_vars, Uninterrupted'
    PROVE  Employment'
<1> USE DEF Aside
<1>a. Employment
  BY StaysUninterrupted
<1>1. CASE StartTick
  BY <1>1, <1>a DEF StartTick, KeepTick, Employment, Employed
<1>2. ASSUME NEW r \in Runs, NEW i \in Issues, Judges(r, i) PROVE Employment'
  <2>1. /\ pc = "reconcile" /\ pc' = "reconcile" /\ stopping' = stopping
        /\ \A s \in Runs : s # r => runs'[s] = runs[s]
    <3>1. IsActive(r)
      BY <1>2, ReconcileShape DEF Take, Tidy
    <3> QED
      BY <1>2, <3>1, JudgedEffect
  <2>2. worker[r] = "alive" => runs[r].status = "running" /\ runs[r].pid
    BY <1>a, <2>1 DEF Employment, Employed
  <2>3. /\ \A s \in Runs : worker'[s] = "alive" => worker[s] = "alive"
        /\ worker'[r] = "alive" => runs'[r].status = "running" /\ runs'[r].pid
    BY <1>2, <2>2, ReconcileWorkers
  <2> QED
    BY <1>a, <2>1, <2>3 DEF Employment, Employed
<1>3. ASSUME NEW r \in Runs, NEW i \in Issues, Restart(r, i) PROVE Employment'
  <2>1. worker[r] # "alive"
    BY <1>3, <1>a, RestartedEffect DEF Employment, Employed
  <2> QED
    BY <1>3, <1>a, <2>1, RestartedEffect DEF Employment, Employed
<1>4. CASE Prepare
  <2>1. /\ pc = "prepare" /\ pc' = "publish" /\ task'.new = used + 1 /\ used + 1 \in Runs
        /\ worker' = worker /\ stopping' = stopping
        /\ runs'[used + 1].status = "running" /\ ~IsActive(used + 1)
        /\ \A s \in Runs : s # used + 1 => runs'[s] = runs[s]
    <3>1. used \in Nat
      BY DEF Typed, TypeOK
    <3> QED
      BY <1>4, <3>1, PreparedEffect DEF Tidy
  <2>2. worker[used + 1] # "alive"
    BY <1>a, <2>1, AliveActive
  <2> QED
    BY <1>a, <2>1, <2>2 DEF Employment, Employed
<1>5. CASE StartFails
  <2>1. /\ pc \in {"start", "prepare", "spawn"} /\ pc' = "unstart" /\ task' = task
        /\ worker' = worker /\ stopping' = stopping
        /\ \A s \in Runs : s \notin {task.new, task.old} => runs'[s] = runs[s]
    BY <1>5, StartFailsEffect
  <2>2. ASSUME NEW s \in Runs, worker[s] = "alive" PROVE s # task.new /\ s # task.old
    <3>1. IsActive(s) /\ s \in Nat /\ s # 0
      BY <1>a, <2>2, AliveActive, Numbers
    <3>2. pc = "spawn" => s # task.new
      BY <1>a, <2>2 DEF Employment
    <3>3. pc # "spawn" => task.new = 0
      BY <2>1 DEF Typed, Midway
    <3>4. s # task.new
      BY <2>1, <3>1, <3>2, <3>3
    <3> QED
      BY <2>1, <3>1, <3>4 DEF Tidy
  <2> QED
    BY <1>a, <2>1, <2>2 DEF Employment, Employed
<1>6. CASE CredentialMissing
  <2>1. /\ pc = "prepare" /\ pc' \in {"reconcile", "dispatch"}
        /\ worker' = worker /\ stopping' = stopping
        /\ \A s \in Runs : s # task.old => runs'[s] = runs[s]
    BY <1>6, CredentialEffect
  <2>2. ASSUME NEW s \in Runs, worker[s] = "alive" PROVE runs'[s] = runs[s]
    <3>1. IsActive(s) /\ s \in Nat /\ s # 0
      BY <1>a, <2>2, AliveActive, Numbers
    <3>2. task.new = 0
      BY <2>1 DEF Typed, Midway
    <3> QED
      BY <2>1, <3>1, <3>2 DEF Tidy
  <2> QED
    BY <1>a, <2>1, <2>2 DEF Employment, Employed
<1>7. ASSUME NEW i \in Issues, Claim(i) PROVE Employment'
  BY <1>7, <1>a, ClaimEffect DEF Employment, Employed
<1>8. CASE Poll
  BY <1>8, <1>a, PollEffect DEF Employment, Employed
<1>9. ASSUME NEW i \in Issues, SettleIssue(i) PROVE Employment'
  <2>1. /\ pc = "settle" /\ pc' = "settle" /\ stopping' = stopping
    BY <1>9, SettleEffect
  <2>2. CASE UNCHANGED <<runs, worker>>
    BY <1>a, <2>1, <2>2 DEF Employment, Employed
  <2>3. ASSUME NEW r \in Runs, Signal(r), \A s \in Runs : s # r => runs'[s] = runs[s]
        PROVE  Employment'
    <3>1. worker'[r] # "alive" /\ \A s \in Runs : worker'[s] = "alive" => worker[s] = "alive"
      BY <1>a, <2>1, <2>3, SignalStops DEF Employment, Employed
    <3> QED
      BY <1>a, <2>1, <2>3, <3>1 DEF Employment, Employed
  <2> QED
    BY <1>9, <2>2, <2>3, SettleEffect
<1>10. CASE Quiet
  <2>0. stopping' = "no" /\ \A s \in Runs : runs'[s].status = runs[s].status
    BY <1>10, <1>a, QuietEffect DEF Employment
  <2>1. CASE EnterStart \/ SaveFailedStart \/ PollFails \/ DispatchDone \/ SettleDone \/ EndTick
    <3>1. /\ UNCHANGED <<runs, worker>> /\ pc # "record" /\ pc' \notin {"publish", "spawn"}
      BY <2>1 DEF EnterStart, SaveFailedStart, PollFails, DispatchDone, SettleDone, EndTick,
                  KeepWorld, durable, Back
    <3> QED
      BY <1>a, <2>0, <3>1 DEF Employment, Employed
  <2>2. CASE Publish
    BY <1>a, <2>0, <2>2 DEF Publish, KeepTick, Employment, Employed
  <2>3. CASE Spawn \/ SpawnNothing
    <3>1. /\ pc = "spawn" /\ pc' = "record" /\ task' = task /\ runs' = runs
          /\ worker' = worker \/ worker' = [worker EXCEPT ![task.new] = "alive"]
      BY <2>3 DEF Spawn, SpawnNothing, KeepTick, durable, world
    <3>2. \A s \in Runs : worker'[s] = "alive" => worker[s] = "alive" \/ s = task.new
      BY <3>1 DEF Typed, TypeOK
    <3> QED
      BY <1>a, <2>0, <3>1, <3>2 DEF Employment, Employed
  <2>4. CASE RecordStart
    <3>1. /\ pc = "record" /\ pc' \in {"reconcile", "dispatch"} /\ worker' = worker
          /\ task.new \in Runs
          /\ runs' = [runs EXCEPT ![task.new].pid = worker[task.new] # "none"]
      BY <2>4 DEF RecordStart, Back, Typed, Midway
    <3>2. \A s \in Runs : /\ s # task.new => runs'[s] = runs[s]
                          /\ s = task.new /\ worker[s] = "alive" => runs'[s].pid
      BY <3>1 DEF Typed, TypeOK, Run
    <3> QED
      BY <1>a, <2>0, <3>1, <3>2 DEF Employment, Employed
  <2> QED
    BY <1>10, <2>1, <2>2, <2>3, <2>4 DEF Quiet
<1>11. CASE Others
  <2>1. /\ UNCHANGED <<pc, task>> /\ stopping' = "no"
        /\ \A r \in Runs : runs'[r].status = runs[r].status /\ runs'[r].pid = runs[r].pid
        /\ \A r \in Runs : worker'[r] = "alive" => worker[r] = "alive"
    BY <1>11, <1>a, OthersEffect DEF Employment
  <2>2. pc \in {"publish", "spawn"} => task.new \in Runs
    BY DEF Typed, Midway
  <2> QED
    BY <1>a, <2>1, <2>2 DEF Employment, Employed
<1>12. CASE Crash \/ Leave
  BY <1>12, <1>a, ReloadEffect DEF Employment
<1> QED
  BY <1>1, <1>2, <1>3, <1>4, <1>5, <1>6, <1>7, <1>8, <1>9, <1>10, <1>11, <1>12, NextCases

-----------------------------------------------------------------------------
(* And it leaves no claim without an active run, but for the start under    *)
(* way, and no record that names a run which is over.                       *)

Backing ==
    \A i \in Issues : Holds(view[i]) \/ view[i].run # 0 =>
        view[i].run \in Active(i) \/ (pc \in {"start", "prepare"} /\ i = task.issue)

LEMMA BackingInit == Init => Backing
  BY DEF Init, Backing, Holds, NoRecord, Claimed

LEMMA BackingNext ==
    ASSUME Typed, OneRun, Candidacy, Uninterrupted => Employment /\ Backing, [Next]_vars, Uninterrupted'
    PROVE  Backing'
<1> USE DEF Aside
<1>0. Uninterrupted
  <2>1. UNCHANGED <<crashes, stops>> => (Uninterrupted' => Uninterrupted)
    BY DEF Uninterrupted
  <2> QED
    BY <2>1, NextCases, BeginEffect, ReconcileEffect, RestartEffect, PrepareEffect, StartFailsEffect,
       CredentialEffect, ClaimEffect, PollEffect, SettleEffect, QuietEffect, OthersEffect, ReloadEffect
<1>a. Employment /\ Backing
  BY <1>0
<1> SUFFICES ASSUME NEW k \in Issues, Holds(view'[k]) \/ view'[k].run # 0
             PROVE  \/ \E r \in Runs : r = view'[k].run /\ runs'[r].issue = k /\ IsActive(r)'
                    \/ pc' \in {"start", "prepare"} /\ k = task'.issue
  BY DEF Backing, Holds, Active, IsActive
<1>b. ASSUME view'[k] = view[k]
      PROVE  \/ \E r \in Runs : r = view'[k].run /\ runs[r].issue = k /\ IsActive(r)
             \/ pc \in {"start", "prepare"} /\ k = task.issue
  BY <1>a, <1>b DEF Backing, Holds, Active, IsActive
<1>1. CASE StartTick
  BY <1>1, <1>b, BeginEffect DEF Active, IsActive
<1>2. ASSUME NEW r \in Runs, NEW i \in Issues, Judges(r, i)
      PROVE  \E s \in Runs : s = view'[k].run /\ runs'[s].issue = k /\ IsActive(s)'
  <2>1. /\ pc = "reconcile" /\ runs'[r].issue = i /\ runs[r].issue = i
        /\ \A s \in Runs : s # r => runs'[s] = runs[s]
        /\ \A j \in Issues : j # i => view'[j] = view[j]
        /\ Judgement(r, i)
    BY <1>2, ReconcileEffect
  <2>2. CASE k = i
    <3>1. ~(view'[i].run = 0 /\ view'[i].state = "released")
      BY <2>2 DEF Holds, Claimed
    <3> QED
      BY <2>1, <2>2, <3>1 DEF Judgement
  <2>3. CASE k # i
    BY <1>b, <2>1, <2>3 DEF IsActive
  <2> QED
    BY <2>2, <2>3
<1>3. ASSUME NEW r \in Runs, NEW i \in Issues, Restart(r, i)
      PROVE  \/ \E s \in Runs : s = view'[k].run /\ runs'[s].issue = k /\ IsActive(s)'
             \/ pc' \in {"start", "prepare"} /\ k = task'.issue
  <2>1. /\ pc = "reconcile" /\ pc' = "start" /\ runs[r].issue = i /\ task'.issue = i /\ view' = view
        /\ \A s \in Runs : s # r => runs'[s] = runs[s]
    BY <1>3, RestartEffect
  <2> QED
    BY <1>b, <2>1 DEF IsActive
<1>4. CASE Prepare
  <2>1. /\ pc = "prepare" /\ used + 1 \in Runs /\ ~IsActive(used + 1)
        /\ runs'[used + 1].issue = task.issue /\ runs'[used + 1].status = "running"
        /\ \A s \in Runs : s # used + 1 => runs'[s] = runs[s]
        /\ view'[task.issue].run = used + 1
        /\ \A j \in Issues : j # task.issue => view'[j] = view[j]
    BY <1>4, PrepareEffect
  <2>2. CASE k = task.issue
    BY <2>1, <2>2 DEF IsActive, ActiveRun
  <2>3. CASE k # task.issue
    BY <1>b, <2>1, <2>3 DEF IsActive
  <2> QED
    BY <2>2, <2>3
<1>5. CASE StartFails
  <2>1. /\ pc \in {"start", "prepare", "spawn"}
        /\ \A s \in Runs : /\ runs'[s].issue = runs[s].issue
                           /\ s \notin {task.new, task.old} => runs'[s] = runs[s]
        /\ view'[task.issue].run = 0 /\ view'[task.issue].state \in {"retry_queued", "released"}
        /\ \A j \in Issues : j # task.issue => view'[j] = view[j]
        /\ task \in Task /\ task.issue \in Issues
    BY <1>5, StartFailsEffect
  <2>2. k # task.issue
    BY <2>1 DEF Holds, Claimed
  <2>3. PICK r \in Runs : r = view'[k].run /\ runs[r].issue = k /\ IsActive(r)
    BY <1>b, <2>1, <2>2
  <2>4. r # task.new
    BY <2>1, <2>2, <2>3, Numbers DEF Typed, Midway, OneRun, Readiness, Active
  <2>5. task.kind = "retry" => r # task.old
    BY <2>1, <2>2, <2>3 DEF Typed, Midway, Starting
  <2>6. task.kind # "retry" => r # task.old
    BY <2>1, <2>3, Numbers DEF Candidacy, Task, Starting
  <2> QED
    BY <2>1, <2>3, <2>4, <2>5, <2>6 DEF IsActive
<1>6. CASE CredentialMissing
  <2>1. /\ \A s \in Runs : runs'[s].issue = runs[s].issue
        /\ \A s \in Runs : s # task.old => runs'[s] = runs[s]
        /\ \A j \in Issues : j # task.issue => view'[j] = view[j]
    BY <1>6, CredentialEffect
  <2>2. CASE k = task.issue
    <3>1. /\ task.old \in Runs /\ runs[task.old].issue = task.issue
          /\ runs'[task.old].status = "retrying" /\ view'[task.issue].run = task.old
      BY <1>6, <2>2, CredentialEffect DEF Holds, Claimed
    <3> QED
      BY <2>1, <2>2, <3>1 DEF IsActive, ActiveRun
  <2>3. CASE k # task.issue
    <3>1. runs' = runs \/ (task.old \in Runs /\ runs[task.old].issue = task.issue)
      BY <1>6, CredentialEffect
    <3> QED
      BY <1>b, <2>1, <2>3, <3>1 DEF IsActive
  <2> QED
    BY <2>2, <2>3
<1>7. ASSUME NEW i \in Issues, Claim(i)
      PROVE  \/ \E s \in Runs : s = view'[k].run /\ runs'[s].issue = k /\ IsActive(s)'
             \/ pc' \in {"start", "prepare"} /\ k = task'.issue
  <2>1. /\ pc = "dispatch" /\ pc' = "start" /\ task'.issue = i /\ runs' = runs
        /\ \A j \in Issues : j # i => view'[j] = view[j]
    BY <1>7, ClaimEffect
  <2> QED
    BY <1>b, <2>1 DEF IsActive
<1>8. CASE Poll
  <2>1. /\ pc = "reconcile" /\ view' = view
        /\ \A s \in Runs : runs'[s].issue = runs[s].issue /\ runs'[s].status = runs[s].status
    BY <1>8, PollEffect
  <2> QED
    BY <1>b, <2>1 DEF IsActive
<1>9. ASSUME NEW i \in Issues, SettleIssue(i)
      PROVE  \E s \in Runs : s = view'[k].run /\ runs'[s].issue = k /\ IsActive(s)'
  <2>1. /\ pc = "settle" /\ \A s \in Runs : runs'[s].issue = runs[s].issue
        /\ \A j \in Issues : j # i => view'[j] = view[j]
    BY <1>9, SettleEffect
  <2>2. CASE UNCHANGED <<view, runs>>
    BY <1>b, <2>1, <2>2 DEF IsActive
  <2>3. CASE ~UNCHANGED <<view, runs>>
    <3>1. k # i
      BY <1>9, <2>3, SettleEffect DEF Holds, Claimed
    <3>2. PICK s \in Runs : s = view'[k].run /\ runs[s].issue = k /\ IsActive(s)
      BY <1>b, <2>1, <3>1
    <3>3. \/ runs' = runs
          \/ \E r \in LastRun(i) \cap Runs : \A q \in Runs : q # r => runs'[q] = runs[q]
      BY <1>9, SettleEffect
    <3>4. ASSUME NEW r \in LastRun(i) \cap Runs PROVE r # s
      <4>1. CASE r \in Active(i)
        BY <3>1, <3>2, <4>1 DEF Active
      <4>2. CASE r \notin Active(i)
        <5>1. view[i].run = r /\ r # 0
          BY <3>4, <4>2, Numbers DEF LastRun
        <5>2. r \in Active(i)
          BY <1>a, <2>1, <5>1 DEF Backing
        <5> QED
          BY <4>2, <5>2
      <4> QED
        BY <4>1, <4>2
    <3> QED
      BY <2>1, <3>2, <3>3, <3>4 DEF IsActive
  <2> QED
    BY <2>2, <2>3
<1>10. CASE Quiet
  <2>1. /\ view' = view
        /\ \A s \in Runs : runs'[s].issue = runs[s].issue /\ runs'[s].status = runs[s].status
    BY <1>10, QuietEffect
  <2>2. pc \in {"start", "prepare"} => pc' = "prepare" /\ task' = task
    BY <1>10 DEF Quiet, EnterStart, Publish, Spawn, SpawnNothing, RecordStart, SaveFailedStart,
                 PollFails, DispatchDone, SettleDone, EndTick, KeepTick
  <2> QED
    BY <1>b, <2>1, <2>2 DEF IsActive
<1>11. CASE Others
  <2>1. /\ UNCHANGED <<pc, view, task>>
        /\ \A s \in Runs : runs'[s].issue = runs[s].issue /\ runs'[s].status = runs[s].status
    BY <1>11, OthersEffect
  <2> QED
    BY <1>b, <2>1 DEF IsActive
<1>12. CASE Crash \/ Leave
  BY <1>12, <1>a, ReloadEffect DEF Employment
<1> QED
  BY <1>1, <1>2, <1>3, <1>4, <1>5, <1>6, <1>7, <1>8, <1>9, <1>10, <1>11, <1>12, NextCases


LEMMA LastIsActive ==
    ASSUME Typed, Backing, pc = "settle", NEW i \in Issues, NEW r \in LastRun(i) \cap Runs
    PROVE  IsActive(r)
<1>1. CASE r \in Active(i)
  BY <1>1 DEF Active, IsActive
<1>2. CASE r \notin Active(i)
  <2>1. view[i].run = r /\ r # 0
    BY <1>2, Numbers DEF LastRun
  <2> QED
    BY <1>2, <2>1 DEF Backing
<1> QED
  BY <1>1, <1>2

-----------------------------------------------------------------------------
(* A run that succeeded was made, and no restart comes after it.            *)

Succession ==
    /\ \A r \in Runs : runs[r].status = "succeeded" => r <= used
    /\ pc \in Starting /\ task.kind = "retry" => runs[task.old].status # "succeeded"

LEMMA SuccessionInit == Init => Succession
  BY DEF Init, Succession, Starting

LEMMA SuccessionNext ==
    ASSUME Typed, OneRun, Candidacy, Backing, Succession, [Next]_vars
    PROVE  /\ Succession'
           /\ \A r \in Runs : runs[r].status = "succeeded" => runs'[r].status = "succeeded"
<1> USE DEF Aside
<1> DEFINE Kept == \A r \in Runs : runs[r].status = "succeeded" => runs'[r].status = "succeeded"
<1>a. \A r \in Runs : IsActive(r) => r <= used /\ runs[r].status # "succeeded"
  BY DEF OneRun, Ownership, IsActive, ActiveRun
<1>1. CASE StartTick
  BY <1>1, BeginEffect DEF Succession, Starting
<1>2. ASSUME NEW r \in Runs, IsActive(r), used' = used, pc' \notin Starting,
             \A s \in Runs : s # r => runs'[s] = runs[s]
      PROVE  Succession' /\ Kept
  BY <1>2, <1>a DEF Succession
<1>3. ASSUME NEW r \in Runs, NEW i \in Issues, Judges(r, i) PROVE Succession' /\ Kept
  <2>1. /\ IsActive(r) /\ used' = used /\ pc' \notin Starting
        /\ \A s \in Runs : s # r => runs'[s] = runs[s]
    BY <1>3, ReconcileEffect DEF Starting
  <2> QED
    BY <1>2, <2>1
<1>4. ASSUME NEW r \in Runs, NEW i \in Issues, Restart(r, i) PROVE Succession' /\ Kept
  <2>1. /\ IsActive(r) /\ used' = used /\ task'.old = r /\ runs'[r].status = "failed"
        /\ \A s \in Runs : s # r => runs'[s] = runs[s]
    BY <1>4, RestartEffect
  <2> QED
    BY <2>1, <1>a DEF Succession
<1>5. CASE Prepare
  <2>1. /\ pc = "prepare" /\ task \in Task /\ used' = used + 1 /\ used + 1 > used /\ used + 1 \in Runs
        /\ task'.kind = task.kind /\ task'.old = task.old
        /\ runs'[used + 1].status = "running"
        /\ \A s \in Runs : s # used + 1 => runs'[s] = runs[s]
    BY <1>5, PrepareEffect
  <2>2. runs[used + 1].status # "succeeded"
    BY <2>1, Numbers DEF Succession
  <2>3. task'.kind = "retry" => task.old \in Runs /\ runs'[task.old].status # "succeeded"
    BY <2>1 DEF Succession, Typed, Midway, Starting
  <2>4. \A r \in Runs : runs'[r].status = "succeeded" => r <= used'
    BY <2>1, Numbers DEF Succession
  <2> QED
    BY <2>1, <2>2, <2>3, <2>4 DEF Succession
<1>6. CASE StartFails
  <2>1. /\ pc \in {"start", "prepare", "spawn"} /\ task \in Task /\ task' = task /\ used' = used
        /\ \A s \in Runs : /\ runs'[s].status \in {runs[s].status, "failed", "suppressed"}
                           /\ s \notin {task.new, task.old} => runs'[s] = runs[s]
    BY <1>6, StartFailsEffect
  <2>2. task.new \in Runs => runs[task.new].status # "succeeded"
    BY <2>1, <1>a, Numbers DEF Typed, Midway, OneRun, Readiness, Active, ActiveRun
  <2>3. task.old \in Runs => runs[task.old].status # "succeeded"
    BY <2>1, Numbers DEF Candidacy, Succession, Task, Starting
  <2>4. task.kind = "retry" => task.old \in Runs
    BY <2>1 DEF Typed, Midway, Starting
  <2> QED
    BY <2>1, <2>2, <2>3, <2>4 DEF Succession
<1>7. CASE CredentialMissing
  <2>1. /\ pc = "prepare" /\ task \in Task /\ used' = used /\ pc' \notin Starting
        /\ \A s \in Runs : s # task.old => runs'[s] = runs[s]
    BY <1>7, CredentialEffect DEF Starting
  <2>2. \/ runs' = runs
        \/ task.kind = "retry" /\ task.old \in Runs /\ runs'[task.old].status = "retrying"
    BY <1>7, CredentialEffect
  <2>3. task.kind = "retry" => runs[task.old].status # "succeeded"
    BY <2>1 DEF Succession, Starting
  <2> QED
    BY <2>1, <2>2, <2>3 DEF Succession
<1>8. ASSUME NEW i \in Issues, Claim(i) PROVE Succession' /\ Kept
  BY <1>8, ClaimEffect DEF Succession
<1>9. CASE Poll
  BY <1>9, PollEffect DEF Succession, Starting
<1>10. ASSUME NEW i \in Issues, SettleIssue(i) PROVE Succession' /\ Kept
  <2>1. pc = "settle" /\ used' = used /\ pc' \notin Starting
    BY <1>10, SettleEffect DEF Starting
  <2>2. CASE runs' = runs
    BY <2>1, <2>2 DEF Succession
  <2>3. ASSUME NEW r \in LastRun(i) \cap Runs, \A s \in Runs : s # r => runs'[s] = runs[s]
        PROVE  Succession' /\ Kept
    BY <1>2, <2>1, <2>3, LastIsActive
  <2> QED
    BY <1>10, <2>2, <2>3, SettleEffect
<1>11. CASE Quiet \/ Others
  <2>1. /\ used' = used
        /\ \A r \in Runs : runs'[r].status = runs[r].status
        /\ pc' \in Starting => pc \in Starting /\ task' = task
    BY <1>11, QuietEffect, OthersEffect
  <2>2. pc \in Starting /\ task.kind = "retry" => task.old \in Runs
    BY DEF Typed, Midway
  <2> QED
    BY <2>1, <2>2 DEF Succession
<1>12. CASE Crash \/ Leave
  BY <1>12, ReloadEffect DEF Succession, Starting
<1> QED
  BY <1>1, <1>3, <1>4, <1>5, <1>6, <1>7, <1>8, <1>9, <1>10, <1>11, <1>12, NextCases


-----------------------------------------------------------------------------
(* The inductive invariant, and what it gives.                              *)

Alone == Uninterrupted => Employment /\ Backing /\ Succession

Sound == Typed /\ OneRun /\ Naming /\ Candidacy /\ Counting /\ Alone

LEMMA SoundInit == Init => Sound
  BY TypedInit, OneRunInit, NamingInit, CandidacyInit, CountingInit, EmploymentInit, BackingInit,
     SuccessionInit
     DEF Sound, Alone

LEMMA StaysAlone == ASSUME Typed, OneRun, [Next]_vars, Uninterrupted' PROVE Uninterrupted
<1>1. UNCHANGED <<crashes, stops>> => (Uninterrupted' => Uninterrupted)
  BY DEF Uninterrupted
<1> QED
  BY <1>1, NextCases, BeginEffect, ReconcileEffect, RestartEffect, PrepareEffect, StartFailsEffect,
     CredentialEffect, ClaimEffect, PollEffect, SettleEffect, QuietEffect, OthersEffect, ReloadEffect
     DEF Aside

LEMMA AloneNext == ASSUME Typed, OneRun, Candidacy, Alone, [Next]_vars PROVE Alone'
<1>1. ASSUME Uninterrupted' PROVE (Employment /\ Backing /\ Succession)'
  <2>1. Employment /\ Backing /\ Succession
    BY <1>1, StaysAlone DEF Alone
  <2> QED
    BY <1>1, <2>1, OneRunTidy, EmploymentNext, BackingNext, SuccessionNext
<1> QED
  BY <1>1 DEF Alone

LEMMA SoundNext == Sound /\ [Next]_vars => Sound'
  BY TypedNext, OneRunNext, NamingNext, CandidacyNext, CountingNext, AloneNext DEF Sound

LEMMA SoundAlways == Spec => []Sound
  BY SoundInit, SoundNext, PTL DEF Spec

(* An agent that nobody told to stop works for an issue of its own.         *)
LEMMA AgentsEngaged ==
    ASSUME Typed, OneRun, Employment
    PROVE  LET agents == {r \in Runs : worker[r] = "alive"} IN
           /\ [r \in agents |-> runs[r].issue] \in Injection(agents, Engaged)
           /\ \A r, s \in agents : runs[r].issue = runs[s].issue => r = s
<1> DEFINE agents == {r \in Runs : worker[r] = "alive"}
           f == [r \in agents |-> runs[r].issue]
<1>1. ASSUME NEW r \in agents PROVE IsActive(r) /\ runs[r].issue \in Engaged
  <2>1. r \in Runs /\ IsActive(r)
    BY <1>1, AliveActive
  <2>2. runs[r].issue \in Issues
    BY <2>1 DEF Typed, Midway, IsActive
  <2>3. r \in Active(runs[r].issue)
    BY <2>1 DEF Active, IsActive
  <2> QED
    BY <2>1, <2>2, <2>3 DEF Engaged
<1>2. \A r, s \in agents : runs[r].issue = runs[s].issue => r = s
  BY <1>1 DEF OneRun, Ownership
<1>3. f \in [agents -> Engaged]
  BY <1>1
<1>4. \A r, s \in DOMAIN f : f[r] = f[s] => r = s
  BY <1>2
<1> QED
  BY <1>2, <1>3, <1>4 DEF Injection, IsInjective

(* The slots in use never exceed agent.max_concurrent_agents, as long as it *)
(* is not lowered under them, through any crash and restart; nor do the     *)
(* agents at work, of a daemon that is left alone (availableSlots,          *)
(* service.ts:1738; hasRetryDispatchSlot, service.ts:5941).                 *)
THEOREM LimitHolds == Spec => []WithinLimit
<1>1. Sound => WithinLimit
  <2> SUFFICES ASSUME Sound, edits = 0
               PROVE  /\ Cardinality(Held) <= limit
                      /\ Uninterrupted => Cardinality({r \in Runs : worker[r] = "alive"}) <= limit
    BY DEF WithinLimit, WithinConcurrency, AgentsWithinConcurrency, Held, Uninterrupted
  <2>1. /\ IsFiniteSet(Engaged) /\ Cardinality(Engaged) <= limit /\ limit \in Nat
        /\ Cardinality(Engaged) \in Nat
    BY OrchestratorAssumption, FS_CardinalityType DEF Sound, Counting, Typed, TypeOK
  <2>2. Held \in SUBSET Engaged
    BY DEF Held, Engaged
  <2>3. Cardinality(Held) <= Cardinality(Engaged) /\ Cardinality(Held) \in Nat
    BY <2>1, <2>2, FS_Subset, FS_CardinalityType
  <2>4. ASSUME Uninterrupted
        PROVE  Cardinality({r \in Runs : worker[r] = "alive"}) <= limit
    <3> DEFINE agents == {r \in Runs : worker[r] = "alive"}
    <3>1. [r \in agents |-> runs[r].issue] \in Injection(agents, Engaged)
      BY <2>4, AgentsEngaged DEF Sound, Alone
    <3> HIDE DEF agents
    <3>2. IsFiniteSet(agents) /\ Cardinality(agents) <= Cardinality(Engaged)
      BY <2>1, <3>1, FS_Injection
    <3>3. Cardinality(agents) \in Nat
      BY <3>2, FS_CardinalityType
    <3> QED
      BY <2>1, <3>2, <3>3 DEF agents
  <2> QED
    BY <2>1, <2>3, <2>4
<1> QED
  BY <1>1, SoundAlways, PTL


(* And a limit that was lowered holds from the next start on.               *)
Underway == {i \in Issues : view[i].state \in {"claimed", "running"}}

LEMMA ClaimFits ==
    ASSUME Typed, Counting, NEW i \in Issues, Claim(i)
    PROVE  Cardinality({task'.issue} \union Underway') <= limit
<1> DEFINE S == {task'.issue} \union Underway'
<1>1. /\ task'.issue = i /\ SlotsLeft
      /\ \A j \in Issues : j # i => view'[j] = view[j]
  BY ClaimEffect
<1>2. limit \in Nat /\ Held \in SUBSET Engaged /\ IsFiniteSet(Engaged)
  BY OrchestratorAssumption DEF Typed, TypeOK, Held, Engaged, Counting
<1>3. IsFiniteSet(Held) /\ Cardinality(Held) \in Nat /\ Cardinality(Held) < limit
  BY <1>1, <1>2, FS_Subset, FS_CardinalityType DEF SlotsLeft, Held
<1>4. S \in SUBSET (Held \cup {i})
  BY <1>1 DEF Underway, Held, Holds, Claimed
<1> HIDE DEF S
<1>5. IsFiniteSet(Held \cup {i})
  BY <1>3, FS_AddElement
<1>6. Cardinality(Held \cup {i}) = IF i \in Held THEN Cardinality(Held) ELSE Cardinality(Held) + 1
  BY <1>3, FS_AddElement
<1>7. IsFiniteSet(S) /\ Cardinality(S) <= Cardinality(Held \cup {i})
  BY <1>4, <1>5, FS_Subset
<1>8. Cardinality(S) \in Nat
  BY <1>7, FS_CardinalityType
<1> QED
  BY <1>2, <1>3, <1>6, <1>7, <1>8 DEF S

LEMMA RestartFits ==
    ASSUME Typed, OneRun, Naming, Counting, NEW r \in Runs, NEW i \in Issues, Restart(r, i)
    PROVE  Cardinality({task'.issue} \union Underway') <= limit
<1> DEFINE S == {task'.issue} \union Underway'
           counted == {j \in Issues : Holds(view[j]) /\ ~DueReservation(j)}
           ours == \E j \in counted : view[j].run = r
<1>1. /\ task'.issue = i /\ view' = view /\ runs[r].issue = i
      /\ Cardinality(counted) + (IF ours THEN 0 ELSE 1) <= limit
  BY RestartEffect DEF HasRetrySlot
<1>2. limit \in Nat /\ counted \in SUBSET Engaged /\ IsFiniteSet(Engaged)
  BY OrchestratorAssumption DEF Typed, TypeOK, Engaged, Counting
<1>3. S \in SUBSET (counted \cup {i})
  BY <1>1 DEF Underway, Holds, Claimed, DueReservation
<1>4. ours => i \in counted
  BY <1>1, Numbers DEF Naming, Named
<1> HIDE DEF S, counted, ours
<1>5. IsFiniteSet(counted) /\ Cardinality(counted) \in Nat
  BY <1>2, FS_Subset, FS_CardinalityType
<1>6. IsFiniteSet(counted \cup {i})
  BY <1>5, FS_AddElement
<1>7. Cardinality(counted \cup {i}) = IF i \in counted THEN Cardinality(counted) ELSE Cardinality(counted) + 1
  BY <1>5, FS_AddElement
<1>8. IsFiniteSet(S) /\ Cardinality(S) <= Cardinality(counted \cup {i})
  BY <1>3, <1>6, FS_Subset
<1>9. Cardinality(S) \in Nat
  BY <1>8, FS_CardinalityType
<1>10. Cardinality(counted \cup {i}) <= limit
  <2>1. CASE i \in counted
    BY <1>1, <1>2, <1>5, <1>7, <2>1
  <2>2. CASE i \notin counted
    BY <1>1, <1>2, <1>4, <1>5, <1>7, <2>2
  <2> QED
    BY <2>1, <2>2
<1> QED
  BY <1>2, <1>5, <1>7, <1>8, <1>9, <1>10 DEF S

(* No start goes beyond the limit in force when it is made, a claim or a    *)
(* restart: the issue started and those under way are within it             *)
(* (availableSlots, service.ts:1738; hasRetryDispatchSlot,                  *)
(* service.ts:5941).                                                        *)
THEOREM StartsFit == Spec => StartsWithinLimit
<1>1. Sound /\ [Next]_vars =>
        [pc' = "start" /\ pc # "start" =>
            Cardinality({task'.issue} \union
                {i \in Issues : view'[i].state \in {"claimed", "running"}}) <= limit]_vars
  <2> SUFFICES ASSUME Sound, [Next]_vars, pc' = "start", pc # "start"
               PROVE  Cardinality({task'.issue} \union Underway') <= limit
    BY DEF Underway
  <2>1. \/ \E i \in Issues : Claim(i)
        \/ \E r \in Runs, i \in Issues : Restart(r, i)
    BY NextCases, BeginEffect, ReconcileEffect, PrepareEffect, StartFailsEffect,
       CredentialEffect, PollEffect, SettleEffect, QuietEffect, OthersEffect, ReloadEffect
       DEF Sound
  <2> QED
    BY <2>1, ClaimFits, RestartFits DEF Sound
<1> QED
  BY <1>1, SoundAlways, PTL DEF Spec, StartsWithinLimit

(* No second worker is started for an issue while one runs that nobody told *)
(* to stop, as long as no daemon died or was told to stop (reconcileRun,    *)
(* service.ts:3880; startRun, service.ts:3256).                             *)
THEOREM OneWorkerAtATime == Spec => [](Uninterrupted => NoSecondWorker)
<1>1. Sound => (Uninterrupted => NoSecondWorker)
  BY AgentsEngaged DEF Sound, Alone, NoSecondWorker
<1> QED
  BY <1>1, SoundAlways, PTL

(* Between the ticks of a daemon that is left alone every claim that        *)
(* occupies a slot has its active run, whatever starts failed: a claim      *)
(* without one would be stranded (service.ts:5662).                         *)
THEOREM ClaimsBacked == Spec => [](Uninterrupted => ClaimsAreBacked)
<1>1. Sound => (Uninterrupted => ClaimsAreBacked)
  BY DEF Sound, Alone, Backing, ClaimsAreBacked, Backed, OneRun, Ownership
<1> QED
  BY <1>1, SoundAlways, PTL

(* A daemon that is left alone does not judge a run again that succeeded,   *)
(* neither in the reconciliation nor in the last loop of the tick           *)
(* (reconcileRun, service.ts:3880; reconcileProject, service.ts:2107).      *)
THEOREM SuccessStays == ASSUME MaxCrashes = 0, MaxStops = 0 PROVE Spec => SuccessIsFinal
<1>1. Init => Uninterrupted
  BY DEF Init, Uninterrupted
<1>2. (Sound /\ Uninterrupted) /\ [Next]_vars => Uninterrupted'
  <2> SUFFICES ASSUME Sound, crashes = 0, stops = 0, [Next]_vars PROVE UNCHANGED <<crashes, stops>>
    BY DEF Uninterrupted
  <2>1. ASSUME Others PROVE UNCHANGED <<crashes, stops>>
    <3> USE DEF KeepAll, history, bounds
    <3>1. CASE Workers
      BY <3>1 DEF Workers, AcquireLease, WorkerExits, RequestState, ProviderApplies, RequestFails,
                  MergeState
    <3>2. CASE World /\ ~Crash /\ ~Leave
      BY <3>2 DEF World, TrackerMove, RetryElapses, GraceEnds, EditLimit, Shutdown, Drained
    <3> QED
      BY <2>1, <3>1, <3>2 DEF Others, vars
  <2>2. ~Crash /\ (Leave => UNCHANGED <<crashes, stops>>)
    BY DEF Crash, Leave
  <2> QED
    BY <2>1, <2>2, NextCases, BeginEffect, ReconcileEffect, RestartEffect, PrepareEffect,
       StartFailsEffect, CredentialEffect, ClaimEffect, PollEffect, SettleEffect, QuietEffect
       DEF Sound, Aside
<1>3. (Sound /\ Uninterrupted) /\ [Next]_vars
         => [\A r \in Runs : runs[r].status = "succeeded" => runs'[r].status = "succeeded"]_vars
  BY SuccessionNext DEF Sound, Alone
<1> QED
  BY <1>1, <1>2, <1>3, SoundAlways, PTL DEF Spec, SuccessIsFinal

-----------------------------------------------------------------------------
(* Duplicates.  A store on which two daemons ran may hold two active runs   *)
(* of an issue, and a claim may add a second to one that outlived its       *)
(* reconciliation.  There are never three; while a tick reconciles, one of  *)
(* two is the current run, and so is one that the tick has dealt with.      *)

Mates(r, s) == r # s /\ IsActive(r) /\ IsActive(s) /\ runs[r].issue = runs[s].issue

Reconciling == pc = "reconcile" \/ (pc \in Starting /\ task.kind = "retry")

Paired == \A r, s, t \in Runs : Mates(r, s) /\ Mates(s, t) => r = t

Mending ==
    Reconciling => \A r, s \in Runs : Mates(r, s) =>
        /\ view[runs[r].issue].run \in {r, s}
        /\ r \notin todo => view[runs[r].issue].run = r

(* What a start finds: no other active run of its issue but one that is     *)
(* still to be reconciled, and what it replaces is over.                    *)
Cleared ==
    /\ pc \in {"start", "prepare"} =>
          /\ \A r, s \in Runs : Mates(r, s) => runs[r].issue # task.issue
          /\ task.kind = "retry" => Active(task.issue) \subseteq todo
    /\ pc \in Starting =>
          /\ task.old \notin todo /\ task.new \notin todo /\ task.old <= used
          /\ task.kind = "dispatch" => task.old = 0 /\ task.issue \notin cands
          /\ \A r \in Runs : r = task.old => ~IsActive(r)
    /\ pc \in {"publish", "spawn", "record"} => task.new \in Active(task.issue)
    /\ Dispatching => \A r, s \in Runs : Mates(r, s) => runs[r].issue \notin cands
    /\ pc \in {"idle", "settle", "save"} \/ Dispatching => todo = {}
    /\ \A r \in todo : IsActive(r)
    /\ \A r \in Runs : IsActive(r) => r <= used

Doubled == Typed /\ Paired /\ Mending /\ Cleared /\ (Uninterrupted => Employment)

LEMMA ClearedTidy == ASSUME Cleared PROVE Tidy
  BY DEF Cleared, Tidy, Starting

LEMMA DoubledInit == Init \/ DuplicatedInit => Doubled
<1>1. CASE Init
  BY <1>1, TypedInit, EmploymentInit
     DEF Init, Doubled, Paired, Mending, Cleared, Mates, IsActive, ActiveRun, Reconciling, Starting,
         Dispatching
<1>2. CASE DuplicatedInit
  <2>1. PICK i \in Issues : Duplicated(i)
    BY <1>2 DEF DuplicatedInit
  <2>2. PICK a, b \in {run \in [status : ActiveRun, pid : BOOLEAN] :
                          run.status = "retrying" => ~run.pid} :
          /\ runs = [r \in Runs |-> LET run == IF r = 1 THEN a ELSE b IN
                [issue |-> IF r > 2 THEN NoIssue ELSE i,
                 status |-> IF r > 2 THEN "unused" ELSE run.status,
                 pid |-> r <= 2 /\ run.pid,
                 st |-> IF r > 2 THEN NoState ELSE tracker[i],
                 conf |-> NoState, defer |-> 0]]
          /\ worker \in [Runs -> {"none", "alive", "bad"}]
          /\ \A r \in Runs : runs[r].pid <=> worker[r] # "none"
    BY <2>1 DEF Duplicated
  <2>3. PICK q \in 0..2 :
          records = [j \in Issues |-> IF j # i \/ q = 0 THEN NoRecord
                        ELSE [NoRecord EXCEPT !.state = "running", !.run = q]]
    BY <2>1 DEF Duplicated
  <2>4. Runs \subseteq Nat /\ MaxRuns \in Nat /\ 2 <= MaxRuns /\ 0 \notin Runs
    BY <1>2, OrchestratorAssumption DEF DuplicatedInit, Runs
  <2>5. tracker[i] \in States \union {NoState} /\ tracker \in [Issues -> States \union {NoState}]
    BY <1>2 DEF DuplicatedInit, States
  <2>6. runs \in [Runs -> Run]
    <3>1. \A r \in Runs : [issue |-> IF r > 2 THEN NoIssue ELSE i,
                 status |-> IF r > 2 THEN "unused" ELSE (IF r = 1 THEN a ELSE b).status,
                 pid |-> r <= 2 /\ (IF r = 1 THEN a ELSE b).pid,
                 st |-> IF r > 2 THEN NoState ELSE tracker[i],
                 conf |-> NoState, defer |-> 0] \in Run
      BY <2>2, <2>5 DEF Run
    <3> QED
      BY <2>2, <3>1
  <2>7. records \in [Issues -> Record]
    <3>1. NoRecord \in Record /\ [NoRecord EXCEPT !.state = "running", !.run = q] \in Record
      <4>1. NoRecord \in Record /\ q \in 0..MaxRuns /\ "running" \in Claimed \union {"none", "released"}
        BY <2>3, <2>4 DEF NoRecord, Record, Claimed
      <4> QED
        BY <4>1 DEF Record
    <3> QED
      BY <2>3, <3>1
  <2>8. TypeOK
    BY <1>2, <2>2, <2>4, <2>5, <2>6, <2>7, OrchestratorAssumption
       DEF DuplicatedInit, TypeOK, NoTask, NoRequest, Exits
  <2>9. \A r \in Runs : IsActive(r) <=> r <= 2
    BY <2>2, <2>4 DEF IsActive, ActiveRun
  <2>10. \A r \in Runs : IsActive(r) => runs[r].issue = i
    BY <2>2, <2>4, <2>9
  <2>11. Typed
    BY <1>2, <2>8, <2>10 DEF Typed, Midway, Starting, DuplicatedInit, IsActive
  <2>12. Employment
    <3>1. ASSUME NEW r \in Runs, worker[r] = "alive" PROVE runs[r].status = "running" /\ runs[r].pid
      <4> DEFINE run == IF r = 1 THEN a ELSE b
      <4>1. /\ run.status \in {"running", "retrying"} /\ run.pid \in BOOLEAN
            /\ run.status = "retrying" => ~run.pid
        BY <2>2 DEF ActiveRun
      <4>2. runs[r].pid
        BY <2>2, <3>1
      <4>3. runs[r].pid = (r <= 2 /\ run.pid) /\ runs[r].status = IF r > 2 THEN "unused" ELSE run.status
        BY <2>2
      <4>4. r <= 2 /\ run.pid /\ ~(r > 2)
        <5> HIDE DEF run
        <5>1. r <= 2 /\ run.pid
          BY <4>2, <4>3
        <5>2. r \in Nat
          BY <2>4
        <5> QED
          BY <5>1, <5>2
      <4> QED
        BY <4>1, <4>2, <4>3, <4>4
    <3> QED
      BY <1>2, <3>1 DEF DuplicatedInit, Employment, Employed
  <2> QED
    BY <1>2, <2>4, <2>9, <2>10, <2>11, <2>12
       DEF DuplicatedInit, Doubled, Paired, Mending, Cleared, Mates, Reconciling, Starting, Dispatching
<1> QED
  BY <1>1, <1>2

(* A step that makes no run active leaves at most pairs.                    *)
LEMMA FewerMates ==
    ASSUME \A r \in Runs : runs'[r].issue = runs[r].issue /\ (IsActive(r)' => IsActive(r))
    PROVE  /\ \A r, s \in Runs : Mates(r, s)' => Mates(r, s)
           /\ Paired => Paired'
  BY DEF Mates, Paired

Coupled == Paired /\ Mending /\ Cleared

LEMMA PairsIn ==
    ASSUME Typed, Paired
    PROVE  /\ \A r, s \in Runs : Mates(r, s) => runs[r].issue \in Issues /\ Mates(s, r)
           /\ \A r, s, t \in Runs : Mates(r, s) /\ IsActive(t) /\ runs[t].issue = runs[r].issue
                  => t \in {r, s}
           /\ 0 \notin Runs /\ todo \subseteq Runs /\ used \in Nat /\ Runs \subseteq Nat
<1>1. \A r, s \in Runs : Mates(r, s) => runs[r].issue \in Issues /\ Mates(s, r)
  BY DEF Mates, Typed, Midway, IsActive
<1>2. ASSUME NEW r \in Runs, NEW s \in Runs, NEW t \in Runs, Mates(r, s), IsActive(t),
             runs[t].issue = runs[r].issue, t # s
      PROVE  t = r
  <2>1. Mates(s, t)
    BY <1>2 DEF Mates
  <2> QED
    BY <1>2, <2>1 DEF Paired
<1>3. 0 \notin Runs /\ todo \subseteq Runs /\ used \in Nat /\ Runs \subseteq Nat
  BY OrchestratorAssumption DEF Runs, Typed, TypeOK
<1> QED
  BY <1>1, <1>2, <1>3

LEMMA BeginCoupled == ASSUME Typed, Coupled, StartTick PROVE Coupled'
<1>1. PICK pick \in [Issues -> 0..MaxRuns] :
        /\ \A i \in Issues : IF Stray(i) THEN pick[i] \in Preferred(i) ELSE pick[i] = 0
        /\ view' = [i \in Issues |-> IF Stray(i) THEN Select(i, pick[i]) ELSE records[i]]
  BY DEF StartTick
<1>2. /\ pc' = "reconcile" /\ todo' = UNION {Active(i) : i \in Issues}
      /\ runs' = runs /\ used' = used
  BY DEF StartTick
<1>3. ASSUME NEW i \in Issues, Active(i) # {} PROVE view'[i].run \in Active(i)
  <2>1. CASE Stray(i)
    <3>1. pick[i] \in Active(i) /\ records[i] \in Record
      BY <1>1, <2>1 DEF Preferred, Typed, TypeOK
    <3>2. Select(i, pick[i]).run = pick[i]
      BY <3>1 DEF Select, Record
    <3> QED
      BY <1>1, <2>1, <3>1, <3>2
  <2>2. CASE ~Stray(i)
    BY <1>1, <1>3, <2>2 DEF Stray
  <2> QED
    BY <2>1, <2>2
<1>4. \A r, s \in Runs : (IsActive(r)' <=> IsActive(r)) /\ (Mates(r, s)' <=> Mates(r, s))
  BY <1>2 DEF IsActive, Mates
<1>5. \A r \in Runs : IsActive(r) <=> r \in todo'
  <2>1. \A r \in Runs : IsActive(r) => runs[r].issue \in Issues
    BY DEF Typed, Midway, IsActive
  <2> QED
    BY <1>2, <2>1 DEF Active, IsActive
<1>6. Mending'
  <2> SUFFICES ASSUME NEW r \in Runs, NEW s \in Runs, Mates(r, s)
               PROVE  view'[runs[r].issue].run \in {r, s} /\ r \in todo'
    BY <1>2, <1>4 DEF Mending
  <2>1. runs[r].issue \in Issues /\ r \in Active(runs[r].issue)
    BY PairsIn DEF Coupled, Mates, Active, IsActive
  <2>2. view'[runs[r].issue].run \in Active(runs[r].issue)
    BY <1>3, <2>1
  <2> QED
    BY <1>5, <2>2, PairsIn DEF Coupled, Active, IsActive, Mates
<1>7. Cleared'
  <2>1. todo' \subseteq Runs
    BY <1>2 DEF Active
  <2> QED
    BY <1>2, <1>4, <1>5, <2>1 DEF Coupled, Cleared, Starting, Dispatching
<1> QED
  BY <1>4, <1>6, <1>7 DEF Coupled, Paired

LEMMA JudgedCoupled ==
    ASSUME Typed, Coupled, NEW r \in Runs, NEW i \in Issues, Judges(r, i)
    PROVE  Coupled'
<1>1. IsActive(r)
  BY ReconcileShape DEF Take, Coupled, Cleared
<1>2. /\ pc = "reconcile" /\ pc' = "reconcile" /\ runs[r].issue = i
      /\ r \in todo /\ todo' = todo \ {r} /\ used' = used
      /\ \A s \in Runs : runs'[s].issue = runs[s].issue
      /\ \A s \in Runs : s # r => runs'[s] = runs[s]
      /\ \A j \in Issues : j # i => view'[j] = view[j]
      /\ Judged(r, i)
  BY <1>1, JudgedEffect
<1>3. \A s \in Runs : IsActive(s)' => IsActive(s)
  BY <1>1, <1>2 DEF IsActive
<1>4. /\ \A s, t \in Runs : Mates(s, t)' => Mates(s, t)
      /\ Paired'
  BY <1>2, <1>3, FewerMates DEF Coupled
<1>5. Mending'
  <2> SUFFICES ASSUME NEW s \in Runs, NEW t \in Runs, Mates(s, t)'
               PROVE  /\ view'[runs[s].issue].run \in {s, t}
                      /\ s \notin todo' => view'[runs[s].issue].run = s
    BY <1>2 DEF Mending
  <2>1. /\ Mates(s, t) /\ runs[s].issue \in Issues /\ runs[t].issue = runs[s].issue
        /\ view[runs[s].issue].run \in {s, t}
        /\ s \notin todo => view[runs[s].issue].run = s
    BY <1>2, <1>4, PairsIn DEF Coupled, Mending, Reconciling, Mates
  <2>2. CASE runs[s].issue # i
    BY <1>2, <2>1, <2>2
  <2>3. CASE runs[s].issue = i
    <3>1. r \in {s, t} /\ s # 0 /\ t # 0
      BY <1>1, <1>2, <2>1, <2>3, PairsIn DEF Coupled
    <3>2. IsActive(r)'
      BY <3>1 DEF Mates
    <3>3. view[i].run \in {0, r} /\ view'[i].run \in {r, view[i].run}
      BY <1>2, <3>2 DEF Judged, Current
    <3>4. view[i].run = r /\ view'[i].run = r
      BY <2>1, <2>3, <3>1, <3>3
    <3> QED
      BY <1>2, <2>1, <2>3, <3>1, <3>4
  <2> QED
    BY <2>2, <2>3
<1>6. Cleared'
  <2>1. \A s \in todo' : IsActive(s)'
    BY <1>2, PairsIn DEF Coupled, Cleared, IsActive
  <2> QED
    BY <1>2, <1>3, <2>1 DEF Coupled, Cleared, Starting, Dispatching
<1> QED
  BY <1>4, <1>5, <1>6 DEF Coupled

LEMMA RestartCoupled ==
    ASSUME Typed, Coupled, NEW r \in Runs, NEW i \in Issues, Restart(r, i)
    PROVE  Coupled'
<1>1. /\ pc = "reconcile" /\ pc' = "start" /\ runs[r].issue = i /\ view[i].run \in {0, r}
      /\ r \in todo /\ todo' = todo \ {r} /\ used' = used /\ view' = view
      /\ IsActive(r) /\ runs'[r].status = "failed"
      /\ \A s \in Runs : runs'[s].issue = runs[s].issue
      /\ \A s \in Runs : s # r => runs'[s] = runs[s]
      /\ task'.kind = "retry" /\ task'.issue = i /\ task'.old = r /\ task'.new = 0
  BY RestartedEffect DEF Current
<1>2. ~IsActive(r)' /\ \A s \in Runs : IsActive(s)' => IsActive(s)
  BY <1>1 DEF IsActive, ActiveRun
<1>3. /\ \A s, t \in Runs : Mates(s, t)' => Mates(s, t)
      /\ Paired'
  BY <1>1, <1>2, FewerMates DEF Coupled
<1>4. ASSUME NEW s \in Runs, NEW t \in Runs, Mates(s, t)' PROVE runs[s].issue # i
  <2>1. r \notin {s, t} /\ Mates(s, t)
    BY <1>2, <1>3, <1>4 DEF Mates
  <2> QED
    BY <1>1, <2>1, PairsIn DEF Coupled
<1>5. Mending'
  BY <1>1, <1>3, <1>4 DEF Coupled, Mending, Reconciling
<1>6. ASSUME NEW s \in Runs, IsActive(s)', runs'[s].issue = i PROVE s \in todo'
  <2>1. s # r /\ Mates(r, s) /\ Mates(s, r)
    BY <1>1, <1>2, <1>6 DEF Mates
  <2>2. /\ view[i].run \in {r, s}
        /\ s \notin todo => view[i].run = s
    BY <1>1, <2>1 DEF Coupled, Mending, Reconciling, Mates
  <2>3. view[i].run = r
    <3>1. 0 # s /\ 0 # r
      BY PairsIn DEF Coupled
    <3> QED
      BY <1>1, <2>1, <2>2, <3>1
  <2> QED
    BY <1>1, <2>1, <2>2, <2>3
<1>7. Cleared'
  <2>1. \A s \in todo' : IsActive(s)'
    BY <1>1, PairsIn DEF Coupled, Cleared, IsActive
  <2>2. Active(i)' \subseteq todo'
    BY <1>6 DEF Active, IsActive
  <2>3. r <= used /\ 0 \notin todo' /\ r \notin todo'
    BY <1>1, PairsIn DEF Coupled, Cleared
  <2>4. \A s \in Runs : IsActive(s)' => s <= used
    BY <1>2 DEF Coupled, Cleared
  <2>5. \A s, t \in Runs : Mates(s, t)' => runs'[s].issue # i
    BY <1>1, <1>4
  <2> QED
    BY <1>1, <1>2, <2>1, <2>2, <2>3, <2>4, <2>5 DEF Cleared, Starting, Dispatching
<1> QED
  BY <1>3, <1>5, <1>7 DEF Coupled

(* A run of the task's issue is made active, when no other is but one that  *)
(* waits to be reconciled.                                                  *)
LEMMA JoinedCoupled ==
    ASSUME Typed, Coupled, pc = "prepare", NEW n \in Runs, ~IsActive(n), IsActive(n)',
           runs'[n].issue = task.issue, \A s \in Runs : s # n => runs'[s] = runs[s]
    PROVE  /\ Paired'
           /\ \A r, s \in Runs : Mates(r, s)' =>
                 \/ runs'[r].issue # task.issue /\ Mates(r, s) /\ runs'[r].issue = runs[r].issue
                 \/ runs'[r].issue = task.issue /\ r = n /\ s \in Active(task.issue)
                 \/ runs'[r].issue = task.issue /\ s = n /\ r \in Active(task.issue)
<1>1. ASSUME NEW r \in Runs, NEW s \in Runs, Mates(r, s)', r # n, s # n
      PROVE  Mates(r, s) /\ runs[r].issue # task.issue /\ runs'[r] = runs[r]
  <2>1. runs'[r] = runs[r] /\ runs'[s] = runs[s]
    BY <1>1
  <2>2. Mates(r, s)
    BY <1>1, <2>1 DEF Mates, IsActive
  <2> QED
    BY <2>1, <2>2 DEF Coupled, Cleared
<1>2. ASSUME NEW r \in Runs, NEW s \in Runs, Mates(r, s)', r = n \/ s = n
      PROVE  /\ runs'[r].issue = task.issue /\ runs'[s].issue = task.issue /\ r # s
             /\ r # n => r \in Active(task.issue)
             /\ s # n => s \in Active(task.issue)
  BY <1>2 DEF Mates, IsActive, Active
<1>3. \A r, s \in Active(task.issue) : r = s
  BY DEF Coupled, Cleared, Mates, Active, IsActive
<1>4. Paired'
  <2> SUFFICES ASSUME NEW r \in Runs, NEW s \in Runs, NEW t \in Runs, Mates(r, s)', Mates(s, t)', r # t
               PROVE  FALSE
    BY DEF Paired
  <2>1. Mates(r, t)'
    BY DEF Mates
  <2>2. CASE n \notin {r, s, t}
    BY <1>1, <2>2 DEF Coupled, Paired
  <2>3. CASE n = r
    BY <1>1, <1>2, <2>1, <2>3 DEF Mates
  <2>4. CASE n = s
    BY <1>1, <1>2, <2>1, <2>4 DEF Mates
  <2>5. CASE n = t
    BY <1>1, <1>2, <2>1, <2>5 DEF Mates
  <2> QED
    BY <2>2, <2>3, <2>4, <2>5
<1> QED
  BY <1>1, <1>2, <1>4

(* On a restart it is the current run, and dealt with.                      *)
LEMMA JoinedMending ==
    ASSUME Typed, Coupled, pc = "prepare", NEW n \in Runs, ~IsActive(n), IsActive(n)',
           runs'[n].issue = task.issue, \A s \in Runs : s # n => runs'[s] = runs[s],
           task.kind = "retry", todo' = todo, view'[task.issue].run = n,
           \A j \in Issues : j # task.issue => view'[j] = view[j]
    PROVE  Mending'
<1> SUFFICES ASSUME NEW r \in Runs, NEW s \in Runs, Mates(r, s)'
             PROVE  /\ view'[runs'[r].issue].run \in {r, s}
                    /\ r \notin todo' => view'[runs'[r].issue].run = r
  BY DEF Mending
<1>1. CASE runs'[r].issue # task.issue /\ Mates(r, s) /\ runs'[r].issue = runs[r].issue
  <2>1. runs[r].issue \in Issues
    BY <1>1, PairsIn DEF Coupled
  <2>2. /\ view[runs[r].issue].run \in {r, s}
        /\ r \notin todo => view[runs[r].issue].run = r
    BY <1>1 DEF Coupled, Mending, Reconciling, Starting
  <2> QED
    BY <1>1, <2>1, <2>2
<1>2. CASE runs'[r].issue = task.issue /\ r = n
  BY <1>2
<1>3. CASE runs'[r].issue = task.issue /\ s = n /\ r \in Active(task.issue)
  BY <1>3 DEF Coupled, Cleared
<1> QED
  BY <1>1, <1>2, <1>3, JoinedCoupled

LEMMA PrepareCoupled == ASSUME Typed, Coupled, Prepare PROVE Coupled'
<1>0. PICK n \in Runs : n = used + 1
  BY PreparedEffect
<1>1. /\ pc = "prepare" /\ pc' = "publish" /\ used' = n /\ n \in Runs /\ n > used /\ used \in Nat
      /\ task \in Task /\ task.kind \in {"dispatch", "retry"}
      /\ task'.issue = task.issue /\ task'.kind = task.kind /\ task'.old = task.old /\ task'.new = n
      /\ todo' = todo /\ cands' = cands
      /\ runs'[n].issue = task.issue /\ runs'[n].status = "running"
      /\ \A s \in Runs : s # n => runs'[s] = runs[s]
      /\ view'[task.issue].run = n
      /\ \A j \in Issues : j # task.issue => view'[j] = view[j]
  <2>1. used \in Nat /\ todo' = todo /\ cands' = cands
    BY DEF Prepare, Typed, TypeOK
  <2> QED
    BY <1>0, <2>1, PreparedEffect DEF Task
<1>2. ~IsActive(n) /\ IsActive(n)'
  <2>1. n \in Nat /\ ~(n <= used)
    BY <1>1, PairsIn DEF Coupled
  <2> QED
    BY <1>1, <2>1 DEF IsActive, ActiveRun, Coupled, Cleared
<1>3. /\ Paired'
      /\ \A r, s \in Runs : Mates(r, s)' =>
            \/ runs'[r].issue # task.issue /\ Mates(r, s) /\ runs'[r].issue = runs[r].issue
            \/ runs'[r].issue = task.issue
  BY <1>1, <1>2, JoinedCoupled
<1>4. Mending'
  <2>1. CASE task.kind = "retry"
    BY <1>1, <1>2, <2>1, JoinedMending
  <2>2. CASE task.kind = "dispatch"
    BY <1>1, <2>2 DEF Mending, Reconciling
  <2> QED
    BY <1>1, <2>1, <2>2
<1>5. \A r \in Runs : r # n => (IsActive(r)' <=> IsActive(r))
  BY <1>1 DEF IsActive
<1>6. Cleared'
  <2>1. n \notin todo /\ task.old <= used /\ task.old \in Nat
    <3>1. task.old \in 0..MaxRuns /\ MaxRuns \in Nat
      BY <1>1, OrchestratorAssumption DEF Task
    <3> QED
      BY <1>1, <1>2, <3>1 DEF Coupled, Cleared, Starting
  <2>2. task.old # n /\ task.old <= n
    <3>1. n \in Nat /\ used \in Nat /\ n > used
      BY <1>1, PairsIn DEF Coupled
    <3> QED
      BY <2>1, <3>1
  <2>3. \A r \in Runs : r = task.old => ~IsActive(r)'
    BY <1>1, <1>5, <2>2 DEF Coupled, Cleared, Starting
  <2>4. n \in Active(task.issue)'
    BY <1>1, <1>2 DEF Active, IsActive
  <2>5. \A r \in Runs : IsActive(r)' => r <= n
    <3>1. ASSUME NEW r \in Runs, IsActive(r)', r # n PROVE r <= n
      <4>1. r <= used
        BY <1>5, <3>1 DEF Coupled, Cleared
      <4>2. r \in Nat /\ n \in Nat /\ used \in Nat /\ n > used
        BY <1>1, PairsIn DEF Coupled
      <4> QED
        BY <4>1, <4>2
    <3>2. n \in Nat
      BY PairsIn DEF Coupled
    <3> QED
      BY <3>1, <3>2
  <2>6. \A r \in todo' : IsActive(r)'
    BY <1>1, <1>5, <2>1, PairsIn DEF Coupled, Cleared
  <2>7. Dispatching' => Dispatching /\ task.kind = "dispatch"
    BY <1>1 DEF Dispatching, Starting
  <2>8. Dispatching' => /\ todo' = {}
                        /\ \A r, s \in Runs : Mates(r, s)' => runs'[r].issue \notin cands'
    BY <1>1, <1>3, <2>7 DEF Coupled, Cleared, Starting
  <2> QED
    BY <1>1, <2>1, <2>2, <2>3, <2>4, <2>5, <2>6, <2>8 DEF Coupled, Cleared, Starting
<1> QED
  BY <1>3, <1>4, <1>6 DEF Coupled

LEMMA StartFailsCoupled == ASSUME Typed, Coupled, StartFails PROVE Coupled'
<1>1. /\ pc \in {"start", "prepare", "spawn"} /\ pc' = "unstart"
      /\ task \in Task /\ task.issue \in Issues
      /\ UNCHANGED <<used, task, todo, cands>>
      /\ \A s \in Runs : /\ runs'[s].issue = runs[s].issue
                         /\ runs'[s].status \in {runs[s].status, "failed", "suppressed"}
                         /\ s \notin {task.new, task.old} => runs'[s] = runs[s]
      /\ task.new \in Runs => ~IsActive(task.new)'
      /\ \A j \in Issues : j # task.issue => view'[j] = view[j]
  <2>1. todo' = todo /\ cands' = cands
    BY DEF StartFails, KeepTick
  <2> QED
    BY <2>1, StartFailsEffect
<1>2. \A s \in Runs : IsActive(s)' => IsActive(s)
  BY <1>1 DEF IsActive, ActiveRun
<1>3. /\ \A r, s \in Runs : Mates(r, s)' => Mates(r, s)
      /\ Paired'
  BY <1>1, <1>2, FewerMates DEF Coupled
<1>4. ASSUME NEW r \in Runs, NEW s \in Runs, Mates(r, s)' PROVE runs[r].issue # task.issue
  <2>1. CASE pc \in {"start", "prepare"}
    BY <1>3, <1>4, <2>1 DEF Coupled, Cleared
  <2>2. CASE pc = "spawn"
    <3>1. task.new \in Runs /\ IsActive(task.new) /\ runs[task.new].issue = task.issue
      BY <2>2 DEF Coupled, Cleared, Active, IsActive
    <3>2. runs[r].issue = task.issue => task.new \in {r, s}
      BY <1>3, <1>4, <3>1, PairsIn DEF Coupled
    <3> QED
      BY <1>1, <1>4, <3>1, <3>2 DEF Mates
  <2> QED
    BY <1>1, <2>1, <2>2
<1>5. Mending'
  <2> SUFFICES ASSUME NEW r \in Runs, NEW s \in Runs, Mates(r, s)', Reconciling'
               PROVE  /\ view'[runs'[r].issue].run \in {r, s}
                      /\ r \notin todo' => view'[runs'[r].issue].run = r
    BY DEF Mending
  <2>1. Reconciling /\ Mates(r, s) /\ runs[r].issue \in Issues /\ runs[r].issue # task.issue
    BY <1>1, <1>3, <1>4, PairsIn DEF Coupled, Reconciling, Starting
  <2> QED
    BY <1>1, <2>1 DEF Coupled, Mending
<1>6. Cleared'
  <2>1. \A r \in todo' : IsActive(r)'
    <3> SUFFICES ASSUME NEW r \in todo PROVE IsActive(r)'
      BY <1>1
    <3>1. r \in Runs /\ IsActive(r) /\ r # task.new /\ r # task.old
      BY <1>1, PairsIn DEF Coupled, Cleared, Starting
    <3> QED
      BY <1>1, <3>1 DEF IsActive
  <2>2. Dispatching' => Dispatching
    BY <1>1 DEF Dispatching, Starting
  <2>3. Dispatching' => \A r, s \in Runs : Mates(r, s)' => runs'[r].issue \notin cands'
    BY <1>1, <1>3, <2>2 DEF Coupled, Cleared
  <2> QED
    BY <1>1, <1>2, <2>1, <2>2, <2>3 DEF Coupled, Cleared, Starting
<1> QED
  BY <1>3, <1>5, <1>6 DEF Coupled

LEMMA CredentialCoupled == ASSUME Typed, Coupled, CredentialMissing PROVE Coupled'
<1>1. /\ pc = "prepare" /\ task \in Task /\ task.issue \in Issues
      /\ UNCHANGED <<used, todo, cands>>
      /\ \A s \in Runs : runs'[s].issue = runs[s].issue
      /\ \A s \in Runs : s # task.old => runs'[s] = runs[s]
      /\ \A j \in Issues : j # task.issue => view'[j] = view[j]
  <2>1. todo' = todo /\ cands' = cands
    BY DEF CredentialMissing
  <2> QED
    BY <2>1, CredentialEffect
<1>2. CASE /\ task.kind = "retry" /\ task.old \in Runs /\ runs[task.old].issue = task.issue
           /\ pc' = "reconcile" /\ runs'[task.old].status = "retrying"
           /\ view'[task.issue].run = task.old
  <2>0. PICK n \in Runs : n = task.old
    BY <1>2
  <2>1. ~IsActive(n) /\ IsActive(n)' /\ n <= used
    BY <1>1, <1>2, <2>0 DEF Coupled, Cleared, Starting, IsActive, ActiveRun
  <2>2. Paired' /\ Mending'
    BY <1>1, <1>2, <2>0, <2>1, JoinedCoupled, JoinedMending
  <2>3. \A r \in Runs : r # n => (IsActive(r)' <=> IsActive(r))
    BY <1>1, <2>0 DEF IsActive
  <2>4. \A r \in todo' : IsActive(r)'
    BY <1>1, <2>1, <2>3, PairsIn DEF Coupled, Cleared
  <2>5. Cleared'
    BY <1>1, <1>2, <2>1, <2>3, <2>4 DEF Coupled, Cleared, Starting, Dispatching
  <2> QED
    BY <2>2, <2>5 DEF Coupled
<1>3. CASE task.kind = "dispatch" /\ pc' = "dispatch" /\ runs' = runs
  <2>1. \A r, s \in Runs : (IsActive(r)' <=> IsActive(r)) /\ (Mates(r, s)' <=> Mates(r, s))
    BY <1>3 DEF IsActive, Mates
  <2>2. Dispatching
    BY <1>1, <1>3 DEF Dispatching, Starting
  <2>3. Paired' /\ Mending'
    BY <1>3, <2>1 DEF Coupled, Paired, Mending, Reconciling, Starting
  <2>4. todo' = {} /\ \A r, s \in Runs : Mates(r, s)' => runs'[r].issue \notin cands'
    BY <1>1, <1>3, <2>1, <2>2 DEF Coupled, Cleared
  <2>5. Cleared'
    BY <1>1, <1>3, <2>1, <2>4 DEF Coupled, Cleared, Starting
  <2> QED
    BY <2>3, <2>5 DEF Coupled
<1> QED
  BY <1>2, <1>3, CredentialEffect

LEMMA ClaimCoupled == ASSUME Typed, Coupled, NEW i \in Issues, Claim(i) PROVE Coupled'
<1>1. /\ pc = "dispatch" /\ pc' = "start" /\ i \in cands /\ cands' = cands \ {i}
      /\ UNCHANGED <<runs, used, todo>>
      /\ task'.kind = "dispatch" /\ task'.issue = i /\ task'.old = 0 /\ task'.new = 0
  BY ClaimEffect DEF Claim
<1>2. \A r, s \in Runs : (IsActive(r)' <=> IsActive(r)) /\ (Mates(r, s)' <=> Mates(r, s))
  BY <1>1 DEF IsActive, Mates
<1>3. Paired' /\ Mending'
  BY <1>1, <1>2 DEF Coupled, Paired, Mending, Reconciling, Starting
<1>4. Dispatching /\ 0 \notin Runs /\ todo \subseteq Runs /\ 0 <= used
  BY <1>1, PairsIn DEF Dispatching, Coupled
<1>5. Cleared'
  BY <1>1, <1>2, <1>4 DEF Coupled, Cleared, Starting
<1> QED
  BY <1>3, <1>5 DEF Coupled

(* Reconciled to the last run, an issue is left with one.                   *)
LEMMA NoneMated ==
    ASSUME Typed, Coupled, Reconciling, todo = {}, NEW r \in Runs, NEW s \in Runs
    PROVE  ~Mates(r, s)
<1> SUFFICES ASSUME Mates(r, s) PROVE FALSE
  OBVIOUS
<1>1. Mates(s, r) /\ runs[r].issue = runs[s].issue /\ r # s
  BY PairsIn DEF Coupled, Mates
<1>2. view[runs[r].issue].run = r /\ view[runs[r].issue].run = s
  BY <1>1 DEF Coupled, Mending
<1> QED
  BY <1>1, <1>2

LEMMA PollCoupled == ASSUME Typed, Coupled, Poll PROVE Coupled'
<1>1. /\ pc = "reconcile" /\ pc' = "dispatch" /\ todo = {} /\ UNCHANGED <<used, task, todo>>
      /\ \A r \in Runs : runs'[r].issue = runs[r].issue /\ runs'[r].status = runs[r].status
  BY PollEffect DEF Poll
<1>2. \A r, s \in Runs : (IsActive(r)' <=> IsActive(r)) /\ ~Mates(r, s)'
  BY <1>1, NoneMated DEF IsActive, Mates, Reconciling
<1>3. Cleared'
  BY <1>1, <1>2 DEF Coupled, Cleared, Starting, Dispatching
<1> QED
  BY <1>1, <1>2, <1>3 DEF Coupled, Paired, Mending

LEMMA SettleCoupled == ASSUME Typed, Coupled, NEW i \in Issues, SettleIssue(i) PROVE Coupled'
<1>1. /\ pc = "settle" /\ UNCHANGED <<pc, used, task, todo>>
      /\ \A s \in Runs : runs'[s].issue = runs[s].issue
      /\ \A s \in Runs : IsActive(s)' => IsActive(s)
  <2>1. todo' = todo
    BY DEF SettleIssue, SettleSkips, SettleUnused, SettleSucceeds, SettleSuppresses, Settle
  <2> QED
    BY <2>1, SettleEffect DEF IsActive
<1>2. Paired'
  BY <1>1, FewerMates DEF Coupled
<1>3. Cleared' /\ Mending'
  BY <1>1 DEF Coupled, Cleared, Mending, Reconciling, Starting, Dispatching
<1> QED
  BY <1>2, <1>3 DEF Coupled

LEMMA QuietCoupled == ASSUME Typed, Coupled, Quiet PROVE Coupled'
<1>1. /\ UNCHANGED <<view, used, todo>> /\ pc # "idle"
      /\ \A r \in Runs : runs'[r].issue = runs[r].issue /\ runs'[r].status = runs[r].status
      /\ pc' \in Starting => pc \in Starting /\ task' = task
      /\ pc' \in {"start", "prepare"} => pc = "start"
      /\ Dispatching' => Dispatching /\ cands' = cands
  BY QuietEffect
<1>2. \A r, s \in Runs : (IsActive(r)' <=> IsActive(r)) /\ (Mates(r, s)' <=> Mates(r, s))
  BY <1>1 DEF IsActive, Mates
<1>3. Active(task.issue)' = {r \in Runs : IsActive(r) /\ runs[r].issue = task'.issue}
      /\ \A j : Active(j) = {r \in Runs : IsActive(r) /\ runs[r].issue = j}
  BY <1>1 DEF Active, IsActive
<1>4. Reconciling' => Reconciling
  BY DEF Quiet, EnterStart, Publish, Spawn, SpawnNothing, RecordStart, SaveFailedStart, PollFails,
         DispatchDone, SettleDone, EndTick, Back, KeepTick, Reconciling, Starting
<1>5. pc' \in {"publish", "spawn", "record"} => pc \in {"publish", "spawn"}
  BY DEF Quiet, EnterStart, Publish, Spawn, SpawnNothing, RecordStart, SaveFailedStart, PollFails,
         DispatchDone, SettleDone, EndTick, Back
<1>6. pc' \in {"idle", "settle", "save"} => todo = {}
  <2>1. CASE PollFails \/ DispatchDone \/ SettleDone \/ EndTick
    BY <2>1 DEF PollFails, DispatchDone, SettleDone, EndTick, Coupled, Cleared, Dispatching
  <2>2. CASE EnterStart \/ Publish \/ Spawn \/ SpawnNothing \/ RecordStart \/ SaveFailedStart
    BY <2>2 DEF EnterStart, Publish, Spawn, SpawnNothing, RecordStart, SaveFailedStart, Back
  <2> QED
    BY <2>1, <2>2 DEF Quiet
<1>7. Paired' /\ Mending'
  BY <1>1, <1>2, <1>4 DEF Coupled, Paired, Mending
<1>8. Cleared'
  <2>1. pc' \in {"start", "prepare"} =>
          /\ \A r, s \in Runs : Mates(r, s)' => runs'[r].issue # task'.issue
          /\ task'.kind = "retry" => Active(task.issue)' \subseteq todo'
    BY <1>1, <1>2, <1>3 DEF Coupled, Cleared, Starting
  <2>2. pc' \in Starting =>
          /\ task'.old \notin todo' /\ task'.new \notin todo' /\ task'.old <= used'
          /\ task'.kind = "dispatch" => task'.old = 0 /\ task'.issue \notin cands'
          /\ \A r \in Runs : r = task'.old => ~IsActive(r)'
    BY <1>1, <1>2 DEF Coupled, Cleared, Dispatching
  <2>3. pc' \in {"publish", "spawn", "record"} => task'.new \in Active(task.issue)'
    BY <1>1, <1>3, <1>5 DEF Coupled, Cleared, Starting
  <2>4. Dispatching' => \A r, s \in Runs : Mates(r, s)' => runs'[r].issue \notin cands'
    BY <1>1, <1>2 DEF Coupled, Cleared
  <2>5. pc' \in {"idle", "settle", "save"} \/ Dispatching' => todo' = {}
    BY <1>1, <1>6 DEF Coupled, Cleared
  <2> QED
    BY <1>1, <1>2, <2>1, <2>2, <2>3, <2>4, <2>5, PairsIn DEF Coupled, Cleared
<1> QED
  BY <1>7, <1>8 DEF Coupled

LEMMA OthersCoupled == ASSUME Typed, Coupled, Others PROVE Coupled'
<1>1. /\ UNCHANGED <<pc, view, used, todo, cands, task>>
      /\ \A r \in Runs : runs'[r].issue = runs[r].issue /\ runs'[r].status = runs[r].status
  BY OthersEffect
<1>2. /\ \A r, s \in Runs : (IsActive(r)' <=> IsActive(r)) /\ (Mates(r, s)' <=> Mates(r, s))
      /\ Active(task.issue)' = Active(task.issue)
  BY <1>1 DEF IsActive, Mates, Active
<1>3. todo \subseteq Runs
  BY PairsIn DEF Coupled
<1> QED
  BY <1>1, <1>2, <1>3 DEF Coupled, Paired, Mending, Cleared, Reconciling, Starting, Dispatching

LEMMA ReloadCoupled == ASSUME Typed, Coupled, Crash \/ Leave PROVE Coupled'
<1>1. pc' = "idle" /\ todo' = {} /\ UNCHANGED <<runs, used>>
  BY DEF Crash, Leave, Reload, durable
<1>2. \A r, s \in Runs : (IsActive(r)' <=> IsActive(r)) /\ (Mates(r, s)' <=> Mates(r, s))
  BY <1>1 DEF IsActive, Mates
<1> QED
  BY <1>1, <1>2 DEF Coupled, Paired, Mending, Cleared, Reconciling, Starting, Dispatching

LEMMA DoubledNext == Doubled /\ [Next]_vars => Doubled'
<1> SUFFICES ASSUME Doubled, [Next]_vars PROVE Doubled'
  OBVIOUS
<1>1. Typed /\ Coupled /\ Tidy /\ Typed'
  BY TypedNext, ClearedTidy DEF Doubled, Coupled
<1>2. Coupled'
  BY <1>1, NextCases, BeginCoupled, JudgedCoupled, RestartCoupled, PrepareCoupled, StartFailsCoupled,
     CredentialCoupled, ClaimCoupled, PollCoupled, SettleCoupled, QuietCoupled, OthersCoupled,
     ReloadCoupled
<1>3. Uninterrupted' => Employment'
  BY <1>1, EmploymentNext DEF Doubled
<1> QED
  BY <1>1, <1>2, <1>3 DEF Doubled, Coupled

(* Two active runs of an issue, left by two daemons at once, do not outlive *)
(* the pass over the runs, however the records and the processes were, and  *)
(* whatever died or restarted meanwhile; nor do two workers, of a daemon    *)
(* that was left alone (service.ts:4486).                                   *)
THEOREM ReconciliationLeavesOne ==
    AnyStartSpec => [](/\ pc = "reconcile" /\ todo = {} => AtMostOneActiveRun
                       /\ Uninterrupted => ReconcileLeavesOne)
<1>1. ASSUME Doubled, pc = "reconcile", todo = {} PROVE AtMostOneActiveRun
  <2>1. \A r, s \in Runs : ~Mates(r, s)
    BY <1>1, NoneMated DEF Doubled, Coupled, Reconciling
  <2> QED
    BY <2>1 DEF Mates, IsActive, AtMostOneActiveRun
<1>2. ASSUME Doubled, Uninterrupted, pc = "reconcile", todo = {} PROVE NoSecondWorker
  <2>1. \A r \in Runs : worker[r] = "alive" => IsActive(r)
    BY <1>2, AliveActive DEF Doubled
  <2> QED
    BY <1>1, <1>2, <2>1 DEF AtMostOneActiveRun, IsActive, NoSecondWorker
<1>3. Doubled => /\ pc = "reconcile" /\ todo = {} => AtMostOneActiveRun
                 /\ Uninterrupted => ReconcileLeavesOne
  BY <1>1, <1>2 DEF ReconcileLeavesOne
<1> QED
  BY <1>3, DoubledInit, DoubledNext, PTL DEF AnyStartSpec
=============================================================================
