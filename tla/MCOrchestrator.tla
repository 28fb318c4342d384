--------------------------- MODULE MCOrchestrator ---------------------------
(* Orchestrator on a few issues and the workflow states that matter.        *)
EXTENDS Orchestrator, TLC

Symmetric == Permutations(Issues)

(* No guard reads the history variables: a run whose properties do not      *)
(* either need not tell apart states that differ in them.                   *)
WithoutHistory == <<durable, world, tick, stopping, bounds>>

(* A project on which two daemons have run: two active runs of one issue,   *)
(* each with a worker or without, and a record of one of them or none (the  *)
(* state service.test.ts:7443 sets up).                                     *)
Duplicated(i) ==
    /\ \E a, b \in {run \in [status : ActiveRun, pid : BOOLEAN] :
                        run.status = "retrying" => ~run.pid} :
          /\ runs = [r \in Runs |-> LET run == IF r = 1 THEN a ELSE b IN
                [issue |-> IF r > 2 THEN NoIssue ELSE i,
                 status |-> IF r > 2 THEN "unused" ELSE run.status,
                 pid |-> r <= 2 /\ run.pid,
                 st |-> IF r > 2 THEN NoState ELSE tracker[i],
                 conf |-> NoState, defer |-> 0]]
          /\ worker \in [Runs -> {"none", "alive", "bad"}]
          /\ \A r \in Runs : runs[r].pid <=> worker[r] # "none"
    /\ \E r \in 0..2 :
          records = [j \in Issues |-> IF j # i \/ r = 0 THEN NoRecord
                        ELSE [NoRecord EXCEPT !.state = "running", !.run = r]]

DuplicatedInit ==
    /\ 2 \in Runs
    /\ tracker \in [Issues -> ActiveStates]
    /\ \E i \in Issues : Duplicated(i)
    /\ used = 2 /\ view = records
    /\ tended = {} /\ elapsed = {} /\ grace = {} /\ request = NoRequest
    /\ pc = "idle" /\ todo = {} /\ cands = {} /\ task = NoTask
    /\ seen = [i \in Issues |-> NoState]
    /\ stopping = "no"
    /\ leased = [i \in Issues |-> 0] /\ failures = [i \in Issues |-> 0]
    /\ moves = 0 /\ faults = 0 /\ crashes = 0 /\ stops = 0
    /\ limit \in Limits /\ edits = 0

(* A daemon that starts on an ordinary project or on such a one.            *)
AnyStartSpec == (Init \/ DuplicatedInit) /\ [][Next]_vars /\ Fairness
=============================================================================
