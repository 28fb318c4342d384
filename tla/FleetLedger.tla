----------------------------- MODULE FleetLedger -----------------------------
(***************************************************************************)
(* The command ledger of the fleet control plane, for one environment:     *)
(* packages/fleet-control-plane/src/commands.ts with the sessions and the  *)
(* enrolment it authenticates by.  Every operation is one SQLite           *)
(* transaction and so one action.  The agent's two calls, claim and        *)
(* publishResult, are here as actions of the ledger; CommandExecutor makes *)
(* them.                                                                   *)
(*                                                                         *)
(* Deadlines are lazy in the code: a record is judged by the clock when it *)
(* is looked at.  Here `due' holds the commands whose deadline of the      *)
(* moment, to be claimed or to be answered for, has passed unnoticed.      *)
(***************************************************************************)
EXTENDS Naturals, FiniteSets

CONSTANTS
    Projects,
    MaxCommands,    \* bound: commands submitted
    Capacity,       \* LIMITS.activeCommandsPerAgent
    MaxSessions     \* bound: agent sessions opened

ASSUME LedgerAssumption ==
    MaxCommands \in Nat /\ Capacity \in Nat \ {0} /\ MaxSessions \in Nat \ {0}

Commands == 1..MaxCommands
Terminal == {"succeeded", "failed"}

VARIABLES
    ledger,     \* command -> its record, numbered in the order of submission
    submitted,  \* commands submitted so far
    due,        \* commands whose deadline has passed unnoticed
    session,    \* the last session opened, and whether it is in date
    enrolled,   \* the environment's enrolment stands
    managed     \* projects in the agent's inventory

ledgerVars == <<ledger, submitted, due, session, enrolled, managed>>

Command == [state : {"none", "accepted", "executing", "expired", "unknown", "pruned"} \union Terminal,
            project : Projects, op : {"start", "stop"}, session : 0..MaxSessions,
            owner : 0..MaxSessions, closed : BOOLEAN]

LedgerInit ==
    /\ \E p \in Projects : ledger = [c \in Commands |->
          [state |-> "none", project |-> p, op |-> "start", session |-> 0,
           owner |-> 0, closed |-> FALSE]]
    /\ submitted = 0 /\ due = {}
    /\ session = [id |-> 0, live |-> FALSE]
    /\ enrolled = TRUE /\ managed = Projects

-----------------------------------------------------------------------------
(* Slip: a command that was not answered for has failed.                    *)
LapsedAsFailed(rec) ==
    [rec EXCEPT !.state = IF @ = "accepted" THEN "expired" ELSE "failed"]

(* expire, once the deadline has passed.                                    *)
Lapsed(rec) ==
    [rec EXCEPT !.state = IF @ = "accepted" THEN "expired" ELSE "unknown"]

Seen(c) == IF c \in due THEN Lapsed(ledger[c]) ELSE ledger[c]

Put(c, rec) == ledger' = [ledger EXCEPT ![c] = rec] /\ due' = due \ {c}

(* recover: all overdue records, at every poll, page, submission and start. *)
Recovered == [c \in Commands |-> Seen(c)]

(* Slip: a command nobody has claimed does not hold its project.            *)
OutstandingClaimed(rec) ==
    rec.state = "executing" \/ (rec.state = "unknown" /\ ~rec.closed)

Outstanding(rec) ==
    rec.state \in {"accepted", "executing"} \/ (rec.state = "unknown" /\ ~rec.closed)

(* authenticateSession: the credential stands and the session is current.   *)
Authentic(s) == enrolled /\ session.live /\ session.id = s

-----------------------------------------------------------------------------
(* The operator and the clock.                                              *)

(* submitCommand, for a project that is managed and online.  (A repeated    *)
(* idempotency key changes nothing.)                                        *)
Submit(p, op) ==
    /\ submitted < MaxCommands
    /\ enrolled /\ session.live /\ p \in managed
    /\ \A c \in Commands : Outstanding(Recovered[c]) => Recovered[c].project # p
    /\ Cardinality({c \in Commands : Outstanding(Recovered[c])}) < Capacity
    /\ submitted' = submitted + 1
    /\ ledger' = [Recovered EXCEPT ![submitted + 1] =
          [state |-> "accepted", project |-> p, op |-> op, session |-> session.id,
           owner |-> 0, closed |-> FALSE]]
    /\ due' = {}
    /\ UNCHANGED <<session, enrolled, managed>>

Recover ==
    /\ ledger' = Recovered /\ due' = {}
    /\ UNCHANGED <<submitted, session, enrolled, managed>>

(* getCommand: one record is looked at.                                     *)
LookUp(c) ==
    /\ c \in due
    /\ Put(c, Seen(c))
    /\ UNCHANGED <<submitted, session, enrolled, managed>>

(* closeUnresolved: the operator gives an unknown command up.               *)
Close(c) ==
    /\ Seen(c).state = "unknown" /\ ~ledger[c].closed
    /\ Put(c, [Seen(c) EXCEPT !.closed = TRUE])
    /\ UNCHANGED <<submitted, session, enrolled, managed>>

DeadlinePasses(c) ==
    /\ ledger[c].state \in {"accepted", "executing"}
    /\ due' = due \union {c}
    /\ UNCHANGED <<ledger, submitted, session, enrolled, managed>>

(* prune: settled records are deleted after their retention.                *)
PruneCommand(c) ==
    /\ \/ ledger[c].state \in Terminal \union {"expired"}
       \/ ledger[c].state = "unknown" /\ ledger[c].closed
    /\ ledger' = [Recovered EXCEPT ![c].state = "pruned"] /\ due' = {}
    /\ UNCHANGED <<submitted, session, enrolled, managed>>

(* Slip: claimed commands expire too.                                       *)
InvalidatedAll(rec) ==
    IF rec.state \in {"accepted", "executing"} THEN [rec EXCEPT !.state = "expired"] ELSE rec

(* invalidate: a command not yet claimed expires.                           *)
Invalidated(rec) == IF rec.state = "accepted" THEN [rec EXCEPT !.state = "expired"] ELSE rec

StillExecuting(C) == {c \in C : ledger[c].state = "executing"}

(* A complete inventory of the agent has arrived: projects join and leave.  *)
ReceiveInventory(S) ==
    /\ enrolled /\ session.live /\ S # managed
    /\ managed' = S
    /\ LET left == {c \in Commands : ledger[c].project \in managed \ S} IN
       /\ ledger' = [c \in Commands |-> IF c \in left THEN Invalidated(ledger[c]) ELSE ledger[c]]
       /\ due' = (due \ left) \union StillExecuting(due)
    /\ UNCHANGED <<submitted, session, enrolled>>

(* revoke, with invalidateEnvironment and the session's removal.            *)
Revoke ==
    /\ enrolled
    /\ enrolled' = FALSE
    /\ session' = [session EXCEPT !.live = FALSE]
    /\ ledger' = [c \in Commands |-> Invalidated(ledger[c])]
    /\ due' = StillExecuting(due)
    /\ UNCHANGED <<submitted, managed>>

(* No observation has renewed the session in time.                          *)
SessionExpires ==
    /\ session.live /\ session.id < MaxSessions
    /\ session' = [session EXCEPT !.live = FALSE]
    /\ UNCHANGED <<ledger, submitted, due, enrolled, managed>>

(* recoverAfterRestart and recover.                                         *)
FleetRestarts ==
    /\ session.live /\ session.id < MaxSessions
    /\ session' = [session EXCEPT !.live = FALSE]
    /\ ledger' = Recovered /\ due' = {}
    /\ UNCHANGED <<submitted, enrolled, managed>>

Control ==
    \/ \E p \in Projects, op \in {"start", "stop"} : Submit(p, op)
    \/ \E c \in Commands : LookUp(c) \/ Close(c) \/ DeadlinePasses(c) \/ PruneCommand(c)
    \/ \E S \in SUBSET Projects : ReceiveInventory(S)
    \/ Recover \/ Revoke \/ SessionExpires \/ FleetRestarts

-----------------------------------------------------------------------------
(* The agent's calls, by the session s.                                     *)

(* openSession: exclusive for as long as the last one is in date.           *)
OpenSession(s) ==
    /\ enrolled /\ ~session.live /\ session.id < MaxSessions
    /\ s = session.id + 1
    /\ session' = [id |-> s, live |-> TRUE]
    /\ UNCHANGED <<ledger, submitted, due, enrolled, managed>>

(* claim, of a command this session already owns: nothing is granted anew.  *)
ReplayClaim(s, c) ==
    /\ Authentic(s) /\ ledger[c].owner = s /\ ledger[c].state # "pruned"
    /\ Put(c, Seen(c))
    /\ UNCHANGED <<submitted, session, enrolled, managed>>

(* claim, of a command without an owner that was sent to this session.      *)
Claimable(s, c) == Authentic(s) /\ ledger[c].owner = 0 /\ ledger[c].session = s

FirstClaim(s, c) ==
    /\ Claimable(s, c) /\ Seen(c).state = "accepted" /\ ledger[c].project \in managed
    /\ Put(c, [ledger[c] EXCEPT !.state = "executing", !.owner = s])
    /\ UNCHANGED <<submitted, session, enrolled, managed>>

LateClaim(s, c) ==
    /\ Claimable(s, c) /\ Seen(c).state = "expired"
    /\ Put(c, Seen(c))
    /\ UNCHANGED <<submitted, session, enrolled, managed>>

(* An unauthenticated session, another's command, a command that is gone,   *)
(* or a project no longer managed: an error and no change.                  *)
ClaimRefused(s, c) ==
    /\ \/ ~Authentic(s)
       \/ ledger[c].owner \notin {0, s}
       \/ (ledger[c].owner = 0 /\ ledger[c].session # s)
       \/ ledger[c].state = "pruned"
       \/ (Claimable(s, c) /\ Seen(c).state = "accepted" /\ ledger[c].project \notin managed)
    /\ UNCHANGED ledgerVars

(* POST /results: a command of an earlier session of the agent is first     *)
(* transferred (transferOwnership), for reconciliation only.                *)
Transferred(s, c) ==
    [Seen(c) EXCEPT !.owner = s,
                    !.state = IF ledger[c].owner # s /\ @ = "executing" THEN "unknown" ELSE @]

Publishable(s, c) ==
    Authentic(s) /\ ledger[c].owner # 0 /\ ledger[c].state # "pruned"

Contradicted(c, result) ==
    ledger[c].closed \/ (Seen(c).state \in Terminal /\ Seen(c).state # result)

(* publishResult: a terminal outcome is repeated, any other is replaced.    *)
Publish(s, c, result) ==
    /\ Publishable(s, c) /\ ~Contradicted(c, result)
    /\ Put(c, [Transferred(s, c) EXCEPT !.state = result])
    /\ UNCHANGED <<submitted, session, enrolled, managed>>

PublishRefused(s, c, result) ==
    /\ IF Publishable(s, c)
       THEN Contradicted(c, result) /\ Put(c, Transferred(s, c))
       ELSE UNCHANGED <<ledger, due>>
    /\ UNCHANGED <<submitted, session, enrolled, managed>>
=============================================================================
