--------------------------- MODULE CommandExecutor ---------------------------
(***************************************************************************)
(* The management agent against the fleet's ledger: the durable journal    *)
(* and the executor of packages/management-agent (journal.ts, executor.ts) *)
(* and the local start and stop of a project (lifecycle.ts).               *)
(*                                                                         *)
(* One action is one journal write, one call to the fleet or one look at   *)
(* the local processes, so that the agent may crash, a call or a write     *)
(* fail, a deadline pass and the operator close the command between any    *)
(* two.  `journal' survives a crash; `stage' and `hand' do not.            *)
(***************************************************************************)
EXTENDS FleetLedger

CONSTANTS
    MaxPids,        \* bound: processes started
    MaxFaults       \* bound: calls, writes and operations that fail, agents that die

ASSUME ExecutorAssumption == MaxPids \in Nat /\ MaxFaults \in Nat

VARIABLES
    journal,    \* durable: command -> its entry
    mine,       \* the session the agent holds, 0 for none
    stage,      \* command -> where its run is
    hand,       \* command -> the claim's answer, then the outcome
    proc,       \* project -> its orchestrator process, 0 when stopped
    pids,       \* processes started so far
    invoked,    \* history: command -> local operations invoked for it
    faults      \* failures and crashes so far

agentVars == <<journal, mine, stage, hand>>
hostVars == <<proc, pids, invoked>>
vars == <<ledgerVars, agentVars, hostVars, faults>>

Stages == {"idle", "queued", "answered", "decide", "retire", "effect",
           "invoke", "wait", "save", "publish", "acknowledge"}

Outcomes == {"succeeded", "failed", "unknown"}
Answers == {"executing", "closed"} \union Outcomes

NoEntry == [held |-> FALSE, claimed |-> FALSE, effect |-> FALSE, target |-> 0,
            result |-> "none", acked |-> FALSE, retired |-> FALSE]

Entry == [held : BOOLEAN, claimed : BOOLEAN, effect : BOOLEAN, target : 0..MaxPids,
          result : {"none"} \union Outcomes, acked : BOOLEAN, retired : BOOLEAN]

Init ==
    /\ LedgerInit
    /\ journal = [c \in Commands |-> NoEntry]
    /\ mine = 0
    /\ stage = [c \in Commands |-> "idle"] /\ hand = [c \in Commands |-> "none"]
    /\ proc = [p \in Projects |-> 0] /\ pids = 0
    /\ invoked = [c \in Commands |-> 0]
    /\ faults = 0

KeepLedger == UNCHANGED ledgerVars
KeepHost == UNCHANGED hostVars

Project(c) == ledger[c].project
Op(c) == ledger[c].op

(* The run of c goes on at another stage, with something in hand.           *)
GoTo(c, s, h) == stage' = [stage EXCEPT ![c] = s] /\ hand' = [hand EXCEPT ![c] = h]
Done(c) == GoTo(c, "idle", "none")

Write(c, e) == journal' = [journal EXCEPT ![c] = e]

-----------------------------------------------------------------------------
(* The foreground loop: a session is opened when there is none, and given   *)
(* up when the fleet rejects it.                                            *)
Connect ==
    /\ mine = 0
    /\ OpenSession(session.id + 1) /\ mine' = session.id + 1
    /\ KeepHost /\ UNCHANGED <<journal, stage, hand, faults>>

Disconnect ==
    /\ mine # 0 /\ ~Authentic(mine)
    /\ \A c \in Commands : stage[c] = "idle"
    /\ mine' = 0
    /\ KeepLedger /\ KeepHost /\ UNCHANGED <<journal, stage, hand, faults>>

Pending(e) == e.held /\ (~e.acked \/ e.result = "unknown") /\ ~e.retired

(* handlePoll: what the poll delivers is journaled, and every entry that is *)
(* not done is run.                                                         *)
Poll ==
    LET delivered == {c \in Commands : Recovered[c].state = "accepted" /\ ledger[c].session = mine}
    IN
    /\ mine # 0 /\ Authentic(mine)
    /\ \A c \in Commands : stage[c] = "idle"
    /\ Recover
    /\ journal' = [c \in Commands |->
          IF c \in delivered THEN [journal[c] EXCEPT !.held = TRUE] ELSE journal[c]]
    /\ stage' = [c \in Commands |-> IF Pending(journal'[c]) THEN "queued" ELSE "idle"]
    /\ KeepHost /\ UNCHANGED <<mine, hand, faults>>

-----------------------------------------------------------------------------
(* run: one entry, those of a project one after another (serialize).        *)

Turn(c) ==
    /\ stage[c] = "queued"
    /\ \A d \in Commands :
          Project(d) = Project(c) => stage[d] = "idle" \/ (stage[d] = "queued" /\ d >= c)

ClaimCall(c) ==
    /\ Turn(c)
    /\ \/ FirstClaim(mine, c) /\ GoTo(c, "answered", "executing")
       \/ /\ ReplayClaim(mine, c)
          /\ GoTo(c, "answered", IF ledger[c].closed THEN "closed" ELSE Seen(c).state)
       \/ LateClaim(mine, c) /\ ~journal[c].claimed /\ GoTo(c, "retire", "none")
       \/ ClaimRefused(mine, c) /\ Done(c)
    /\ KeepHost /\ UNCHANGED <<journal, mine, faults>>

RecordClaim(c) ==
    /\ stage[c] = "answered"
    /\ Write(c, [journal[c] EXCEPT !.claimed = TRUE])
    /\ stage' = [stage EXCEPT ![c] = "decide"]
    /\ KeepLedger /\ KeepHost /\ UNCHANGED <<mine, hand, faults>>

(* The fleet has settled the command, or closed it, and the agent has       *)
(* nothing definite to add.                                                 *)
SettledThere(c) ==
    \/ hand[c] = "closed"
    \/ hand[c] \in Terminal /\ journal[c].result \in {"none", "unknown"}

DecideRetire(c) ==
    /\ stage[c] = "decide" /\ SettledThere(c)
    /\ GoTo(c, "retire", "none")
    /\ KeepLedger /\ KeepHost /\ UNCHANGED <<journal, mine, faults>>

Retire(c) ==
    /\ stage[c] = "retire"
    /\ Write(c, [journal[c] EXCEPT !.retired = TRUE])
    /\ Done(c)
    /\ KeepLedger /\ KeepHost /\ UNCHANGED <<mine, faults>>

(* reconcile: what the processes prove of an operation that was begun.      *)
(* Readiness, locks and exits may be uncertain, and inspection may throw.   *)
Evidence(c) ==
    LET now == proc[Project(c)]
        target == journal[c].target
    IN  {"unknown"} \union
        (IF Op(c) = "start" THEN IF now # 0 THEN {"succeeded"} ELSE {}
         ELSE IF target = 0 THEN {}
         ELSE IF now = 0 THEN {"succeeded"}
         ELSE IF now # target THEN {"failed"} ELSE {})

(* An operation begun and not finished, or finished without proof.          *)
Inspect(c) ==
    /\ stage[c] = "decide" /\ ~SettledThere(c)
    /\ journal[c].effect /\ journal[c].result \in {"none", "unknown"}
    /\ \E o \in Evidence(c) :
          IF o # "unknown" \/ journal[c].result = "none" THEN GoTo(c, "save", o)
          ELSE IF journal[c].acked THEN Done(c) ELSE GoTo(c, "publish", "none")
    /\ KeepLedger /\ KeepHost /\ UNCHANGED <<journal, mine, faults>>

(* No marker, and a claim that does not permit the operation any more.      *)
DecideUnknown(c) ==
    /\ stage[c] = "decide" /\ ~SettledThere(c) /\ ~journal[c].effect
    /\ journal[c].result = "none" /\ hand[c] # "executing"
    /\ GoTo(c, "save", "unknown")
    /\ KeepLedger /\ KeepHost /\ UNCHANGED <<journal, mine, faults>>

(* A saved result is sent again.                                            *)
DecideResend(c) ==
    /\ stage[c] = "decide" /\ ~SettledThere(c)
    /\ journal[c].result # "none" /\ (journal[c].result = "unknown" => ~journal[c].effect)
    /\ IF journal[c].acked THEN Done(c) ELSE GoTo(c, "publish", "none")
    /\ KeepLedger /\ KeepHost /\ UNCHANGED <<journal, mine, faults>>

(* Slip: the marker is not looked at.                                       *)
PermittedAgain(c) == hand[c] = "executing"

Permitted(c) == hand[c] = "executing" /\ ~journal[c].effect

(* beginEffect: the marker is durable before anything is done.              *)
BeginEffect(c) ==
    /\ stage[c] = "decide" /\ ~SettledThere(c) /\ journal[c].result = "none"
    /\ Permitted(c)
    /\ Write(c, [journal[c] EXCEPT !.effect = TRUE])
    /\ GoTo(c, "effect", "none")
    /\ KeepLedger /\ KeepHost /\ UNCHANGED <<mine, faults>>

-----------------------------------------------------------------------------
(* LocalLifecycleAdapter.start and stop.                                    *)

Invoke(c) == invoked' = [invoked EXCEPT ![c] = @ + 1]

(* The first inspection leaves nothing to do, or finds ownership uncertain. *)
ObserveOnly(c) ==
    /\ stage[c] = "effect"
    /\ LET running == proc[Project(c)] # 0 IN
       \E o \in Outcomes :
          /\ o = "succeeded" => (running <=> Op(c) = "start")
          /\ o = "unknown" => Op(c) = "stop" /\ ~running
          /\ GoTo(c, "save", o)
    /\ KeepLedger /\ KeepHost /\ UNCHANGED <<journal, mine, faults>>

(* A start needs a stopped project; a stop journals the process it is for   *)
(* (persistStopTarget).                                                     *)
Prepare(c) ==
    /\ stage[c] = "effect"
    /\ IF Op(c) = "start" THEN proc[Project(c)] = 0 /\ UNCHANGED journal
       ELSE proc[Project(c)] # 0 /\ Write(c, [journal[c] EXCEPT !.target = proc[Project(c)]])
    /\ GoTo(c, "invoke", "none")
    /\ KeepLedger /\ KeepHost /\ UNCHANGED <<mine, faults>>

(* `project start': the CLI's own lock refuses a second process.            *)
InvokeStart(c) ==
    /\ stage[c] = "invoke" /\ Op(c) = "start"
    /\ Invoke(c)
    /\ \/ /\ proc[Project(c)] = 0 /\ pids < MaxPids
          /\ pids' = pids + 1
          /\ proc' = [proc EXCEPT ![Project(c)] = pids + 1]
       \/ UNCHANGED <<proc, pids>>
    /\ GoTo(c, "wait", "none")
    /\ KeepLedger /\ UNCHANGED <<journal, mine, faults>>

(* `project stop --expected-pid': only the journaled process is signalled,  *)
(* which then exits now or later.                                           *)
InvokeStop(c) ==
    LET now == proc[Project(c)] IN
    /\ stage[c] = "invoke" /\ Op(c) = "stop"
    /\ Invoke(c)
    /\ proc' \in {proc} \union
          (IF now = journal[c].target THEN {[proc EXCEPT ![Project(c)] = 0]} ELSE {})
    /\ IF now \notin {0, journal[c].target} THEN GoTo(c, "save", "failed") ELSE GoTo(c, "wait", "none")
    /\ KeepLedger /\ UNCHANGED <<journal, mine, pids, faults>>

(* wait, until the operation shows or its deadline.  A start whose CLI      *)
(* failed has failed; anything else unproved is unknown.                    *)
Await(c) ==
    LET now == proc[Project(c)] IN
    /\ stage[c] = "wait"
    /\ \E o \in Outcomes :
          /\ o = "succeeded" => (now # 0 <=> Op(c) = "start")
          /\ o = "failed" => Op(c) = "start" \/ now \notin {0, journal[c].target}
          /\ GoTo(c, "save", o)
    /\ KeepLedger /\ KeepHost /\ UNCHANGED <<journal, mine, faults>>

(* The operation throws: that proves nothing.                               *)
EffectThrows(c) ==
    /\ stage[c] \in {"effect", "invoke", "wait"}
    /\ faults < MaxFaults /\ faults' = faults + 1
    /\ GoTo(c, "save", "unknown")
    /\ KeepLedger /\ KeepHost /\ UNCHANGED <<journal, mine>>

-----------------------------------------------------------------------------
SaveResult(c) ==
    /\ stage[c] = "save"
    /\ Write(c, [journal[c] EXCEPT !.result = hand[c],
                                   !.acked = journal[c].acked /\ journal[c].result = hand[c]])
    /\ GoTo(c, "publish", "none")
    /\ KeepLedger /\ KeepHost /\ UNCHANGED <<mine, faults>>

PublishCall(c) ==
    /\ stage[c] = "publish"
    /\ \/ Publish(mine, c, journal[c].result) /\ GoTo(c, "acknowledge", "none")
       \/ PublishRefused(mine, c, journal[c].result) /\ Done(c)
    /\ KeepHost /\ UNCHANGED <<journal, mine, faults>>

Acknowledge(c) ==
    /\ stage[c] = "acknowledge"
    /\ Write(c, [journal[c] EXCEPT !.acked = TRUE])
    /\ Done(c)
    /\ KeepLedger /\ KeepHost /\ UNCHANGED <<mine, faults>>

(* prune: entries the fleet has taken, or retired, after their retention.   *)
PruneEntry(c) ==
    /\ stage[c] = "idle" /\ journal[c].held
    /\ journal[c].retired \/ (journal[c].acked /\ journal[c].result # "unknown")
    /\ Write(c, NoEntry)
    /\ KeepLedger /\ KeepHost /\ UNCHANGED <<mine, stage, hand, faults>>

-----------------------------------------------------------------------------
(* What may happen at any time: an answer is lost or a write fails, and the *)
(* run is given up until the next poll; the agent dies; the project is      *)
(* started or stopped by hand, or its process exits.                        *)
RunFails(c) ==
    /\ stage[c] \in {"queued", "answered", "decide", "retire", "save", "publish", "acknowledge"}
    /\ faults < MaxFaults /\ faults' = faults + 1
    /\ Done(c)
    /\ KeepLedger /\ KeepHost /\ UNCHANGED <<journal, mine>>

Crash ==
    /\ mine # 0 /\ session.id < MaxSessions
    /\ faults < MaxFaults /\ faults' = faults + 1
    /\ mine' = 0
    /\ stage' = [c \in Commands |-> "idle"] /\ hand' = [c \in Commands |-> "none"]
    /\ KeepLedger /\ KeepHost /\ UNCHANGED journal

StartedByHand(p) ==
    /\ proc[p] = 0 /\ pids < MaxPids
    /\ pids' = pids + 1 /\ proc' = [proc EXCEPT ![p] = pids + 1]
    /\ KeepLedger /\ UNCHANGED <<agentVars, invoked, faults>>

Exits(p) ==
    /\ proc[p] # 0
    /\ proc' = [proc EXCEPT ![p] = 0]
    /\ KeepLedger /\ UNCHANGED <<agentVars, pids, invoked, faults>>

-----------------------------------------------------------------------------
Fleet == Control /\ UNCHANGED <<agentVars, hostVars, faults>>

Run(c) ==
    \/ ClaimCall(c) \/ RecordClaim(c)
    \/ DecideRetire(c) \/ Retire(c) \/ Inspect(c) \/ DecideUnknown(c) \/ DecideResend(c)
    \/ BeginEffect(c) \/ ObserveOnly(c) \/ Prepare(c) \/ InvokeStart(c) \/ InvokeStop(c)
    \/ Await(c) \/ SaveResult(c) \/ PublishCall(c) \/ Acknowledge(c)

Agent == Connect \/ Disconnect \/ Poll \/ \E c \in Commands : Run(c)

Host ==
    \/ \E c \in Commands : EffectThrows(c) \/ RunFails(c) \/ PruneEntry(c)
    \/ \E p \in Projects : StartedByHand(p) \/ Exits(p)
    \/ Crash

Next == Fleet \/ Agent \/ Host

Spec == Init /\ [][Next]_vars

KeepAgent == UNCHANGED <<agentVars, hostVars, faults>>

(* The agent's loop goes on, deadlines pass, a session nobody renews        *)
(* expires, and the operator's pages are read (each read runs recover).     *)
FairSpec ==
    /\ Spec
    /\ WF_vars(Agent)
    /\ WF_vars(Recover /\ KeepAgent)
    /\ WF_vars(mine = 0 /\ SessionExpires /\ KeepAgent)
    /\ \A c \in Commands : WF_vars(DeadlinePasses(c) /\ KeepAgent)

-----------------------------------------------------------------------------
TypeOK ==
    /\ ledger \in [Commands -> Command]
    /\ submitted \in 0..MaxCommands /\ due \in SUBSET Commands
    /\ session \in [id : 0..MaxSessions, live : BOOLEAN]
    /\ enrolled \in BOOLEAN /\ managed \in SUBSET Projects
    /\ journal \in [Commands -> Entry]
    /\ mine \in 0..MaxSessions
    /\ stage \in [Commands -> Stages]
    /\ hand \in [Commands -> {"none"} \union Answers]
    /\ proc \in [Projects -> 0..MaxPids] /\ pids \in 0..MaxPids
    /\ invoked \in [Commands -> Nat] /\ faults \in Nat

(* A command's local operation is invoked at most once, through lost        *)
(* answers, failed writes, replayed claims, crashes and pruned entries      *)
(* (beginEffect: "Returns false for every replay").                         *)
EffectsAtMostOnce == \A c \in Commands : invoked[c] <= 1

(* A command that was not claimed in time is never carried out, whatever    *)
(* the agent knew when the ledger expired it.                               *)
ExpiredNeverAct == \A c \in Commands : invoked[c] > 0 => ledger[c].state \notin {"accepted", "expired"}

(* The ledger says succeeded or failed only when the agent has found it so  *)
(* and saved it: a timeout, a lost answer or a closure proves nothing.      *)
OutcomesAreTheAgents ==
    \A c \in Commands : ledger[c].state \in Terminal /\ journal[c].held =>
        journal[c].result = ledger[c].state

(* The agent gives an entry up only once the fleet has settled the command: *)
(* nothing the operator still waits for is forgotten.                       *)
RetiredAreSettled ==
    \A c \in Commands : journal[c].retired => ~Outstanding(ledger[c])

(* The two sides agree on what was settled.                                 *)
OutcomesAgree == OutcomesAreTheAgents /\ RetiredAreSettled

(* An older command of a project never acts once a newer one was claimed,   *)
(* although the older may have been closed while its agent was out of reach. *)
EffectsInOrder ==
    [][\A c, d \in Commands :
          invoked'[c] > invoked[c] /\ c < d /\ ledger[d].project = ledger[c].project
              => ledger[d].owner = 0]_vars

(* A result the agent has saved reaches the fleet, however often sessions   *)
(* change, unless the fleet stops waiting for it or ends the enrolment      *)
(* ("stores the result before publishing it and resends it until            *)
(* acknowledged").                                                          *)
Saved(c) == journal[c].held /\ journal[c].result # "none"
Delivered(c) == ~journal[c].held \/ journal[c].acked \/ journal[c].retired

ResultsReachTheFleet ==
    \A c \in Commands : Saved(c) ~> Delivered(c) \/ ~Outstanding(ledger[c]) \/ ~enrolled
=============================================================================
