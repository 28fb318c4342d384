--------------------------- MODULE FleetInventory ---------------------------
(***************************************************************************)
(* How the fleet learns which projects an environment manages.  An agent   *)
(* opens a session and sends its inventory as the pages of a revision, one *)
(* request at a time, each numbered; the fleet keeps the latest session,   *)
(* the revision it is receiving and a row per project identity, and        *)
(* changes who is managed only when a revision is complete.  The fleet's   *)
(* transactions are atomic (SQLite, BEGIN IMMEDIATE).  Requests are lost,  *)
(* answered late or arrive after the agent has given them up; agents die,  *)
(* the fleet restarts, the operator revokes an agent and enrols the next,  *)
(* folders move away and come back.                                        *)
(*                                                                         *)
(* The project identities an agent is allocated are unique per generation  *)
(* of the agent and folder (identifyProjects): here they are that pair.    *)
(* Freshness is a matter of the clock and is left out, as are contents.    *)
(***************************************************************************)
EXTENDS Naturals, FiniteSets, Sequences, SequencesExt

CONSTANTS
    MaxAgents,      \* bound: enrolments of the environment, one after another
    Folders,        \* the project folders of the machine
    MaxSessions,    \* bound: sessions opened
    MaxRefreshes,   \* bound: observations that have nothing new to say
    MaxFaults,      \* bound: lost exchanges, deaths, expiries, fleet restarts
    MaxEdits        \* bound: registrations, removals, folders moved

(* Assumed of the constants, by the modules that check this one.            *)
InventoryAssumption ==
    /\ {MaxAgents, MaxSessions, MaxRefreshes, MaxFaults, MaxEdits} \subseteq Nat
    /\ MaxAgents > 0 /\ MaxSessions > 0

Agents == 1..MaxAgents
Ids == Agents \X Folders

(* A page: its place in the revision, which is named by its session and the *)
(* number of its first page, and the projects on it.  "all" is history: the *)
(* whole snapshot.                                                          *)
Page(a, s, seq, first, count, projects, all) ==
    [agent |-> a, session |-> s, seq |-> seq, rev |-> <<s, first>>,
     index |-> seq - first, count |-> count, projects |-> projects, all |-> all]

NoSession == [agent |-> 0, id |-> 0, seq |-> 0, live |-> FALSE]
NoRevision == [rev |-> <<0, 0>>, count |-> 0, complete |-> TRUE]

VARIABLES
    enrolled,       \* the agent that holds the credential, 0 for none
    issued,         \* enrolments so far
    session,        \* the environment's row of agent_sessions
    opened,         \* sessions opened so far
    revision,       \* the revision being received or last received
    pages,          \* the pages of it: index -> project ids
    managed,        \* the rows whose "managed" is 1
    observed,       \* the observation of each row: none, valid or unmanaged
    waiting,        \* the projects with a command nobody has claimed
    last,           \* history: the projects of the last complete revision
    agents,         \* the agent processes
    registry,       \* the folders each agent's registry lists
    gone,           \* folders that are not where they were registered
    net,            \* requests under way or given up by their agent
    refreshes, faults, edits

fleet == <<enrolled, issued, session, opened, revision, pages, managed, observed, waiting, last>>
machine == <<agents, registry, gone>>
bounds == <<refreshes, faults, edits>>
vars == <<fleet, machine, net, bounds>>

(* An agent process: the session it believes in, its next number, the pages *)
(* it still has to send, whether it waits for an answer, what it last got   *)
(* acknowledged as a whole.                                                 *)
Down == [up |-> FALSE, session |-> 0, next |-> 0, plan |-> <<>>, sent |-> FALSE, told |-> <<>>]

Init ==
    /\ enrolled = 0 /\ issued = 0 /\ session = NoSession /\ opened = 0
    /\ revision = NoRevision /\ pages = <<>> /\ managed = {} /\ waiting = {} /\ last = {}
    /\ observed = [p \in Ids |-> "none"]
    /\ agents = [a \in Agents |-> Down]
    /\ registry = [a \in Agents |-> Folders] /\ gone = {}
    /\ net = {} /\ refreshes = 0 /\ faults = 0 /\ edits = 0

Fault == faults < MaxFaults /\ faults' = faults + 1 /\ UNCHANGED <<refreshes, edits>>
Edit == edits < MaxEdits /\ edits' = edits + 1 /\ UNCHANGED <<refreshes, faults>>

(* What the operator's views and the command ledger take for managed.       *)
Managed(p) == p \in managed /\ p[1] = enrolled /\ observed[p] # "unmanaged"

-----------------------------------------------------------------------------
(* Enrolment.                                                               *)

Enroll ==
    /\ enrolled = 0 /\ issued < MaxAgents
    /\ issued' = issued + 1 /\ enrolled' = issued + 1
    /\ agents' = [agents EXCEPT ![issued + 1].up = TRUE]
    /\ UNCHANGED <<session, opened, revision, pages, managed, observed, waiting, last>>
    /\ UNCHANGED <<registry, gone, net, bounds>>

(* The session goes, and every command of the environment nobody has        *)
(* claimed; rows and pages stay.                                            *)
Revoke ==
    /\ enrolled # 0
    /\ enrolled' = 0 /\ session' = NoSession /\ waiting' = {}
    /\ UNCHANGED <<issued, opened, revision, pages, managed, observed, last, machine, net, bounds>>

-----------------------------------------------------------------------------
(* The fleet takes a page.                                                  *)

Authentic(q) == enrolled = q.agent /\ session.id = q.session /\ session.live

Replayed(q) == q.seq <= session.seq

Continues(q) == revision.rev = q.rev

Kept(q) == IF Continues(q) THEN pages ELSE <<>>

IdsOf(q) == {<<q.agent, f>> : f \in DOMAIN q.projects}

Earlier(q) == UNION {Kept(q)[i] : i \in DOMAIN Kept(q)}

Malformed(q) ==
    \/ ~Continues(q) /\ q.index # 0
    \/ Continues(q) /\ (revision.complete \/ revision.count # q.count)
    \/ q.index + 1 \in DOMAIN Kept(q)
    \/ IdsOf(q) \intersect Earlier(q) # {}

(* A project reported as lost while it was managed loses its commands.      *)
Lost(q) == {p \in IdsOf(q) \intersect managed : q.projects[p[2]] = "unmanaged"}

(* Slip: every page is taken for the whole inventory.                       *)
EveryPage(now, q) == TRUE

Whole(now, q) == Cardinality(DOMAIN now) = q.count

Received(q) ==
    LET now == [i \in DOMAIN Kept(q) \union {q.index + 1} |->
                    IF i = q.index + 1 THEN IdsOf(q) ELSE Kept(q)[i]]
        all == UNION {now[i] : i \in DOMAIN now}
        whole == Whole(now, q)
    IN  /\ observed' = [p \in Ids |->
                IF p \in IdsOf(q) THEN q.projects[p[2]] ELSE observed[p]]
        /\ pages' = IF whole THEN <<>> ELSE now
        /\ managed' = IF whole THEN all ELSE managed
        /\ waiting' = waiting \ (Lost(q) \union IF whole THEN managed \ all ELSE {})
        /\ revision' = [rev |-> q.rev, count |-> q.count, complete |-> whole]
        /\ last' = IF whole THEN {<<q.agent, f>> : f \in DOMAIN q.all} ELSE last

(* A page with a number already seen renews the session and changes nothing *)
(* else; a malformed one rolls everything back.                             *)
Accepted(q) ==
    /\ Authentic(q)
    /\ IF Replayed(q)
       THEN UNCHANGED <<session, revision, pages, managed, observed, waiting, last>>
       ELSE ~Malformed(q) /\ Received(q) /\ session' = [session EXCEPT !.seq = q.seq]

Refused(q) ==
    /\ ~Authentic(q) \/ (~Replayed(q) /\ Malformed(q))
    /\ UNCHANGED <<session, revision, pages, managed, observed, waiting, last>>

-----------------------------------------------------------------------------
(* The agent: runForegroundAgent.                                           *)

(* What it sends of a folder: one that is not where it was registered is    *)
(* reported as unmanaged.                                                   *)
Snapshot(a) == [f \in registry[a] |-> IF f \in gone THEN "unmanaged" ELSE "valid"]

Idle(a) == agents[a].up /\ agents[a].plan = <<>>

NewSession(a) == [agent |-> a, id |-> opened + 1, seq |-> 0, live |-> TRUE]

(* The answer to openSession: a session, a conflict with one that lives, a  *)
(* refusal, after which the agent gives up, or no answer although the       *)
(* session was opened.                                                      *)
Open(a) ==
    /\ Idle(a) /\ agents[a].session = 0
    /\ UNCHANGED <<enrolled, issued, revision, pages, managed, observed, waiting, last>>
    /\ UNCHANGED <<registry, gone, net>>
    /\ \/ /\ enrolled = a /\ ~session.live /\ opened < MaxSessions
          /\ opened' = opened + 1
          /\ session' = NewSession(a)
          /\ \/ /\ agents' = [agents EXCEPT ![a].session = opened + 1, ![a].next = 1,
                                            ![a].told = <<>>]
                /\ UNCHANGED bounds
             \/ Fault /\ UNCHANGED agents
       \/ /\ enrolled # a
          /\ agents' = [agents EXCEPT ![a].up = FALSE]
          /\ UNCHANGED <<session, opened, bounds>>

(* A snapshot, cut into pages by size: one, or one for each project.        *)
Cut(a, snapshot) ==
    LET s == agents[a].session
        first == agents[a].next
        n == Cardinality(DOMAIN snapshot)
        order == SetToSeq(DOMAIN snapshot)
        Of(i, count, fs) ==
            Page(a, s, first + i, first, count, [f \in fs |-> snapshot[f]], snapshot)
    IN  {<<Of(0, 1, DOMAIN snapshot)>>} \union
            IF n < 2 THEN {} ELSE {[i \in 1..n |-> Of(i - 1, n, {order[i]})]}

(* An observation with nothing new is bounded by MaxRefreshes.              *)
Observe(a) ==
    /\ Idle(a) /\ agents[a].session # 0
    /\ IF agents[a].told # <<Snapshot(a)>> THEN UNCHANGED refreshes
       ELSE refreshes < MaxRefreshes /\ refreshes' = refreshes + 1
    /\ \E plan \in Cut(a, Snapshot(a)) : agents' = [agents EXCEPT ![a].plan = plan]
    /\ UNCHANGED <<fleet, registry, gone, net, faults, edits>>

Send(a) ==
    /\ agents[a].up /\ agents[a].plan # <<>> /\ ~agents[a].sent
    /\ net' = net \union {Head(agents[a].plan)}
    /\ agents' = [agents EXCEPT ![a].sent = TRUE, ![a].next = @ + 1]
    /\ UNCHANGED <<fleet, registry, gone, bounds>>

Waits(q) == agents[q.agent].up /\ agents[q.agent].sent /\ Head(agents[q.agent].plan) = q

(* What the agent has reported once its last page is acknowledged.          *)
Acknowledged(q) ==
    LET a == q.agent IN
    agents' = [agents EXCEPT ![a].plan = Tail(@), ![a].sent = FALSE,
                             ![a].told = IF Len(agents[a].plan) = 1 THEN <<q.all>> ELSE @]

(* A refusal: an unknown session is forgotten, anything else is final.      *)
Rejected(q) ==
    LET a == q.agent IN
    agents' = [agents EXCEPT ![a] =
        IF Authentic(q) THEN Down
        ELSE [Down EXCEPT !.up = TRUE]]

(* A request arrives, awaited or given up, and its answer may be lost.      *)
Arrive(q) ==
    /\ q \in net /\ net' = net \ {q}
    /\ \/ /\ Accepted(q) /\ UNCHANGED bounds
          /\ IF Waits(q) THEN Acknowledged(q) ELSE UNCHANGED agents
       \/ /\ Refused(q) /\ UNCHANGED bounds
          /\ IF Waits(q) THEN Rejected(q) ELSE UNCHANGED agents
       \/ /\ Accepted(q) /\ Waits(q) /\ Fault
          /\ agents' = [agents EXCEPT ![q.agent].plan = <<>>, ![q.agent].sent = FALSE,
                                      ![q.agent].told = <<>>]
    /\ UNCHANGED <<enrolled, issued, opened, registry, gone>>

(* The agent stops waiting: the next observation is a new revision.  The    *)
(* request it gave up may still be on its way.                              *)
GiveUp(a) ==
    /\ agents[a].sent /\ Fault
    /\ agents' = [agents EXCEPT ![a].plan = <<>>, ![a].sent = FALSE, ![a].told = <<>>]
    /\ UNCHANGED <<fleet, registry, gone, net>>

Vanish(q) ==
    /\ q \in net /\ ~Waits(q)
    /\ net' = net \ {q}
    /\ UNCHANGED <<fleet, machine, bounds>>

-----------------------------------------------------------------------------
(* Time, deaths and edits.                                                  *)

Known == session.agent # 0 /\ agents[session.agent].up /\ agents[session.agent].session = session.id

(* Thirty seconds without an observation, or the fleet restarts and fences  *)
(* every session.  An agent that holds the session observes every five      *)
(* seconds: then it is a fault.                                             *)
SessionExpires ==
    /\ session.live
    /\ session' = [session EXCEPT !.live = FALSE]
    /\ IF Known THEN Fault ELSE UNCHANGED bounds
    /\ UNCHANGED <<enrolled, issued, opened, revision, pages, managed, observed, waiting, last>>
    /\ UNCHANGED <<machine, net>>

Dies(a) ==
    /\ agents[a].up /\ Fault
    /\ agents' = [agents EXCEPT ![a] = Down]
    /\ UNCHANGED <<fleet, registry, gone, net>>

Restarts(a) ==
    /\ ~agents[a].up /\ enrolled = a
    /\ agents' = [agents EXCEPT ![a].up = TRUE]
    /\ UNCHANGED <<fleet, registry, gone, net, bounds>>

(* The registry is edited by whoever holds its lock: no running agent.      *)
Register(a, f) ==
    /\ ~agents[a].up /\ Edit
    /\ registry' = [registry EXCEPT ![a] = IF f \in @ THEN @ \ {f} ELSE @ \union {f}]
    /\ UNCHANGED <<fleet, agents, gone, net>>

FolderMoves(f) ==
    /\ Edit
    /\ gone' = IF f \in gone THEN gone \ {f} ELSE gone \union {f}
    /\ UNCHANGED <<fleet, agents, registry, net>>

(* The ledger accepts a command for a managed, valid project with a live    *)
(* session; the agent claims it, or it expires.  One waits at a time, a     *)
(* bound.                                                                   *)
Submit(p) ==
    /\ Managed(p) /\ observed[p] = "valid" /\ session.live /\ session.agent = p[1]
    /\ waiting = {} /\ waiting' = {p}
    /\ UNCHANGED <<enrolled, issued, session, opened, revision, pages, managed, observed, last>>
    /\ UNCHANGED <<machine, net, bounds>>

Claimed(p) ==
    /\ p \in waiting /\ waiting' = waiting \ {p}
    /\ UNCHANGED <<enrolled, issued, session, opened, revision, pages, managed, observed, last>>
    /\ UNCHANGED <<machine, net, bounds>>

AgentStep(a) == Open(a) \/ Observe(a) \/ Send(a) \/ Restarts(a) \/ \E q \in net : Waits(q) /\ q.agent = a /\ Arrive(q)

Next ==
    \/ Enroll \/ Revoke \/ SessionExpires
    \/ \E a \in Agents : AgentStep(a) \/ GiveUp(a) \/ Dies(a)
    \/ \E q \in net : Arrive(q) \/ Vanish(q)
    \/ \E a \in Agents, f \in Folders : Register(a, f)
    \/ \E f \in Folders : FolderMoves(f)
    \/ \E p \in Ids : Submit(p) \/ Claimed(p)

Spec == Init /\ [][Next]_vars

(* Agents go on, a service restarts them, and a session nobody holds        *)
(* expires.                                                                 *)
Fairness ==
    /\ WF_vars(~Known /\ SessionExpires)
    /\ \A a \in Agents : WF_vars(AgentStep(a))

FairSpec == Spec /\ Fairness

-----------------------------------------------------------------------------
(* Who is managed is always what one complete revision of one agent said:   *)
(* pages of two revisions, sessions or agents never mix, whatever is lost,  *)
(* late or sent again (receiveObservation).                                 *)
ManagedIsOneRevision == managed = last

(* A project that is no longer managed, because a revision leaves it out,   *)
(* its folder has moved or its agent was revoked, has no command waiting    *)
(* to be claimed (invalidateProject, invalidateManagementAccess).           *)
CommandsWaitForManaged == \A p \in waiting : Managed(p)

(* When an agent stays enrolled, what the fleet takes for managed becomes   *)
(* what the agent has registered and finds in place, however the revisions  *)
(* before were cut short.                                                   *)
InventoryConverges ==
    \A a \in Agents :
        <>[](enrolled = a /\ (Known \/ opened < MaxSessions)) =>
            <>[]({p \in Ids : Managed(p)} = {a} \X (registry[a] \ gone))
=============================================================================
