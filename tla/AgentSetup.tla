----------------------------- MODULE AgentSetup -----------------------------
(***************************************************************************)
(* How a management agent gets onto a machine, and off it: an operator     *)
(* issues an enrolment token and may revoke; `agent setup`, `enroll`,      *)
(* `project` and `service` commands take the registry's lock or not, trade *)
(* the token for an identity, write the definition of the native service   *)
(* and tell the service manager; the manager starts the agent, which needs *)
(* the same lock.                                                          *)
(* (packages/cli/src/commands/agent.ts, agent-service.ts, agent-config.ts, *)
(* packages/management-agent/src: setup.ts, registry.ts, transport.ts,     *)
(* linux-service.ts, macos-service.ts,                                     *)
(* packages/fleet-control-plane/src/enrollment.ts)                         *)
(***************************************************************************)
EXTENDS Naturals, Sequences, FiniteSets

CONSTANTS
    Definitions,    \* what configurations of the agent render their service to
    MaxTokens,      \* tokens the operator issues
    MaxOrders,      \* commands begun on the machine
    MaxMishaps      \* crashes, lost answers, calls of the manager that fail

SetupAssumption ==
    /\ Definitions \cap {"none", "partial"} = {}
    /\ {MaxTokens, MaxOrders, MaxMishaps} \subseteq Nat

VARIABLES
    os,             \* "linux" or "darwin"
    definition,     \* the file of the service definition
    loaded,         \* what the manager has loaded
    enabled,        \* the manager starts the service when the machine boots
    agent,          \* the agent's process
    owner,          \* who holds the registry's lock
    identity,       \* the agent's identity in the registry, or 0
    environment,    \* the fleet's record of this machine
    issued,         \* tokens issued so far
    order,          \* the command of each terminal
    overlapped,     \* two commands of the service have run at once
    begun, mishaps

setupVars == <<os, definition, loaded, enabled, agent, owner, identity, environment, issued,
               order, overlapped, begun, mishaps>>
service == <<definition, loaded, enabled, agent>>
counters == <<os, issued, overlapped, begun, mishaps>>

Terminals == {"first", "second"}
Files == Definitions \cup {"none", "partial"}
ServiceVerbs == {"setup", "install", "start", "stop", "restart", "uninstall"}
Verbs == ServiceVerbs \cup {"enroll", "project"}
Steps == {"open", "check", "enroll", "save", "change", "close", "owned", "seen", "create", "write",
          "reload", "present", "known", "enable", "disable", "start", "stop", "restart", "remove",
          "status", "installed", "bootstrap", "confirm", "bootout", "gone", "unlink"}

NoOrder == [verb |-> "project", def |-> "none", token |-> 0, todo |-> <<>>, found |-> FALSE,
            got |-> 0, failed |-> TRUE]

TypeOK ==
    /\ os \in {"linux", "darwin"}
    /\ definition \in Files /\ loaded \in Files /\ enabled \in BOOLEAN
    /\ agent \in {"off", "starting", "on"}
    /\ owner \in Terminals \cup {"none", "agent"}
    /\ identity \in Nat
    /\ environment \in [state : {"pending", "enrolled", "revoked"}, token : 0..MaxTokens,
                        agent : Nat, connection : {"awaiting", "online", "offline"}]
    /\ issued \in 1..MaxTokens
    /\ order \in [Terminals -> [verb : Verbs, def : Files, token : 0..MaxTokens, todo : Seq(Steps),
                                found : BOOLEAN, got : Nat, failed : BOOLEAN]]
    /\ overlapped \in BOOLEAN /\ begun \in 0..MaxOrders /\ mishaps \in 0..MaxMishaps

(* A machine without an agent, or with one that is installed and runs.      *)
Init ==
    /\ os \in {"linux", "darwin"}
    /\ definition \in Definitions \cup {"none"} /\ loaded = definition
    /\ LET there == definition # "none" IN
       /\ enabled = (there /\ os = "linux")
       /\ agent = IF there THEN "on" ELSE "off"
       /\ owner = IF there THEN "agent" ELSE "none"
       /\ identity = IF there THEN 1 ELSE 0
       /\ environment = [state |-> IF there THEN "enrolled" ELSE "pending",
                          token |-> IF there THEN 0 ELSE 1,
                          agent |-> IF there THEN 1 ELSE 0, connection |-> "awaiting"]
    /\ issued = 1
    /\ order = [t \in Terminals |-> NoOrder]
    /\ overlapped = FALSE /\ begun = 0 /\ mishaps = 0

-----------------------------------------------------------------------------
(* The fleet: one transaction each.                                         *)

Expire ==
    /\ environment.token # 0
    /\ environment' = [environment EXCEPT !.token = 0]
    /\ UNCHANGED <<service, owner, identity, order, counters>>

Regenerate ==
    /\ environment.state # "enrolled" /\ issued < MaxTokens
    /\ issued' = issued + 1
    /\ environment' = [environment EXCEPT !.state = "pending", !.token = issued + 1,
                                          !.connection = "awaiting"]
    /\ UNCHANGED <<service, os, owner, identity, order, overlapped, begun, mishaps>>

Revoke ==
    /\ environment.state # "revoked"
    /\ environment' = [state |-> "revoked", token |-> 0, agent |-> 0, connection |-> "offline"]
    /\ UNCHANGED <<service, owner, identity, order, counters>>

(* A token is good once: the same transaction that deletes it makes the     *)
(* credential of a new agent. Agents are numbered by their token.           *)
Valid(token) == environment.state = "pending" /\ token # 0 /\ token = environment.token
Enrolled(token) == [environment EXCEPT !.state = "enrolled", !.token = 0, !.agent = token,
                                       !.connection = "awaiting"]

(* A signal of the agent, if its credential is the enrolled one.            *)
Signal ==
    /\ agent = "on" /\ environment.state = "enrolled" /\ environment.agent = identity
    /\ environment' = [environment EXCEPT !.connection = "online"]
    /\ UNCHANGED <<service, owner, identity, order, counters>>

-----------------------------------------------------------------------------
(* What a command does, step by step.                                       *)

Native(linux, macOS) == IF os = "linux" THEN linux ELSE macOS

LinuxInstall ==
    <<"owned", "check", "seen", "create", "write", "reload", "present", "known", "enable">>
MacInstall == <<"owned", "create", "write">>
LinuxStart == <<"present", "known", "start">>
MacStart == <<"status", "installed", "bootstrap", "confirm">>
LinuxStop == <<"present", "known", "stop">>
MacStop == <<"status", "bootout", "gone">>
LinuxRestart == <<"present", "known", "restart">>
MacUninstall == MacStop \o <<"owned", "unlink">>

(* Slip: the file goes before the manager is told to forget it.             *)
UnlinksFirst == <<"owned", "known", "stop", "present", "known", "remove", "disable", "reload">>

LinuxUninstall ==
    <<"owned", "known", "stop", "disable", "present", "known", "remove", "reload">>

Setup == <<"open", "check", "enroll", "save">> \o Native(LinuxInstall, MacInstall)
         \o <<"close">> \o Native(LinuxStart, MacStart)

Program(verb) ==
    CASE verb = "setup" -> Setup
      [] verb = "enroll" -> <<"open", "enroll", "save", "close">>
      [] verb = "project" -> <<"open", "change", "close">>
      [] verb = "install" -> <<"open", "check">> \o Native(LinuxInstall, MacInstall) \o <<"close">>
      [] verb = "start" -> Native(LinuxStart, MacStart)
      [] verb = "stop" -> Native(LinuxStop, MacStop)
      [] verb = "restart" -> Native(LinuxRestart, MacStop \o MacStart)
      [] verb = "uninstall" -> Native(LinuxUninstall, MacUninstall)

Busy(t) == order[t].todo # <<>>
Manages(t) == order[t].verb \in ServiceVerbs
Begin(t) ==
    /\ ~Busy(t) /\ begun < MaxOrders
    /\ begun' = begun + 1
    /\ \E verb \in Verbs, d \in Definitions, token \in 1..issued :
          LET others == {u \in Terminals \ {t} : verb \in ServiceVerbs /\ Manages(u)} IN
          /\ order' = [u \in Terminals |->
                IF u = t THEN [NoOrder EXCEPT !.verb = verb, !.def = d, !.token = token,
                                              !.todo = Program(verb), !.failed = FALSE]
                ELSE IF u \in others /\ ~Busy(u) THEN NoOrder ELSE order[u]]
          /\ overlapped' = (overlapped \/ \E u \in others : Busy(u))
    /\ UNCHANGED <<service, os, owner, identity, environment, issued, mishaps>>

At(t, step) == Busy(t) /\ Head(order[t].todo) = step
Goes(t) == order' = [order EXCEPT ![t].todo = Tail(@)]
GoesFrom(t, n) == order' = [order EXCEPT ![t].todo = SubSeq(@, n, Len(@))]
Mine(t) == definition = order[t].def
Nothing == definition = "none"

(* The lock: a setup lets go of it before it starts the service.            *)
Open(t) ==
    /\ At(t, "open") /\ owner = "none" /\ (order[t].verb = "install" => identity # 0)
    /\ owner' = t /\ Goes(t)
    /\ UNCHANGED <<service, identity, environment, counters>>

Close(t) ==
    /\ At(t, "close")
    /\ owner' = "none" /\ Goes(t)
    /\ UNCHANGED <<service, identity, environment, counters>>

(* A saved identity is resumed; only a machine without one spends a token.  *)
EnrollSaved(t) ==
    /\ At(t, "enroll") /\ identity # 0
    /\ GoesFrom(t, 3)
    /\ UNCHANGED <<service, owner, identity, environment, counters>>

Enroll(t) ==
    /\ At(t, "enroll") /\ identity = 0 /\ Valid(order[t].token)
    /\ environment' = Enrolled(order[t].token)
    /\ order' = [order EXCEPT ![t].todo = Tail(@), ![t].got = order[t].token]
    /\ UNCHANGED <<service, owner, identity, counters>>

Save(t) ==
    /\ At(t, "save") /\ identity \in {0, order[t].got}
    /\ identity' = order[t].got /\ Goes(t)
    /\ UNCHANGED <<service, owner, environment, counters>>

(* Steps that look and go on if they like what they see. A definition that  *)
(* is not the command's own, another's or one half written, is left alone.  *)
Owned(t) == Nothing \/ Mine(t)
Status(t) == Owned(t) /\ (loaded # "none" => Mine(t))
Shown == IF loaded = "none" THEN definition ELSE loaded
Known == Shown \in Definitions

(* What the host is, and whether its manager answers, is the environment's. *)
MaySupport(t) == os = "linux" \/ Status(t)
MayRefuse(t) == os = "linux" \/ ~Status(t)

Sees(t, step) ==
    CASE step = "check" -> MaySupport(t)
      [] step = "owned" -> Owned(t)
      [] step = "seen" -> Shown # "partial"
      [] step = "known" -> Known
      [] step \in {"present", "installed"} -> Mine(t)
      [] step = "status" -> Status(t)
      [] step = "confirm" -> Status(t) /\ loaded # "none"
      [] step = "gone" -> Status(t) /\ loaded = "none"
      [] step = "change" -> TRUE
      [] OTHER -> FALSE

Look(t) ==
    /\ Busy(t) /\ Sees(t, Head(order[t].todo))
    /\ order' = [order EXCEPT ![t].todo =
                    IF order[t].verb = "uninstall" /\ os = "linux" /\ Nothing /\ Head(@) = "owned"
                    THEN <<>> ELSE Tail(@),
                 ![t].found = IF Head(order[t].todo) = "owned" THEN Mine(t) ELSE @]
    /\ UNCHANGED <<service, owner, identity, environment, counters>>

(* The definition is created exclusively, then written.                     *)
Created(t) == order[t].found \/ (os = "darwin" /\ Mine(t))
Create(t) ==
    /\ At(t, "create") /\ (Created(t) \/ Nothing)
    /\ IF Created(t) THEN GoesFrom(t, 3) /\ UNCHANGED definition
       ELSE Goes(t) /\ definition' = "partial"
    /\ UNCHANGED <<loaded, enabled, agent, owner, identity, environment, counters>>

Write(t) ==
    /\ At(t, "write")
    /\ definition' = order[t].def /\ Goes(t)
    /\ UNCHANGED <<loaded, enabled, agent, owner, identity, environment, counters>>

Remove(t) ==
    /\ At(t, "remove") \/ At(t, "unlink")
    /\ IF At(t, "unlink") /\ ~order[t].found THEN UNCHANGED definition
       ELSE ~Nothing /\ definition' = "none"
    /\ Goes(t)
    /\ UNCHANGED <<loaded, enabled, agent, owner, identity, environment, counters>>

(* What the manager does on a call.                                         *)
FreedBy(who) == IF owner = who THEN "none" ELSE owner
Manager(step) ==
    CASE step = "reload" -> loaded' = definition /\ UNCHANGED <<definition, enabled, agent>>
      [] step \in {"enable", "disable"} ->
           enabled' = (step = "enable") /\ UNCHANGED <<definition, loaded, agent>>
      [] step = "start" -> /\ loaded' = Shown
                           /\ agent' = IF agent = "off" THEN "starting" ELSE agent
                           /\ UNCHANGED <<definition, enabled>>
      [] step = "restart" ->
           loaded' = Shown /\ agent' = "starting" /\ UNCHANGED <<definition, enabled>>
      [] step = "stop" -> agent' = "off" /\ UNCHANGED <<definition, loaded, enabled>>
      [] step = "bootstrap" -> /\ IF loaded # "none" THEN UNCHANGED <<loaded, agent>>
                                  ELSE loaded' = definition /\ agent' = "starting"
                               /\ UNCHANGED <<definition, enabled>>
      [] step = "bootout" -> loaded' = "none" /\ agent' = "off" /\ UNCHANGED <<definition, enabled>>
OwnerAfter(step) == IF step \in {"restart", "stop", "bootout"} THEN FreedBy("agent") ELSE owner

ManagerSteps == {"reload", "enable", "disable", "start", "restart", "stop", "bootstrap", "bootout"}
Possible(step) ==
    /\ step \in {"start", "restart", "bootstrap"} => Shown \in Definitions
    /\ step = "enable" => definition \in Definitions

Call(t) ==
    /\ Busy(t) /\ Head(order[t].todo) \in ManagerSteps /\ Possible(Head(order[t].todo))
    /\ Manager(Head(order[t].todo)) /\ owner' = OwnerAfter(Head(order[t].todo)) /\ Goes(t)
    /\ UNCHANGED <<identity, environment, counters>>

(* A command that fails lets go of the lock it holds and does nothing more. *)
Failed(t) == [order EXCEPT ![t].todo = <<>>, ![t].failed = TRUE]
Refuses(t) ==
    LET step == Head(order[t].todo) IN
    \/ step = "open" /\ (owner # "none" \/ (order[t].verb = "install" /\ identity = 0))
    \/ step = "enroll" /\ identity = 0 /\ ~Valid(order[t].token)
    \/ step = "save" /\ identity \notin {0, order[t].got}
    \/ step = "check" /\ MayRefuse(t)
    \/ step \in {"owned", "seen", "present", "known", "status", "installed", "confirm",
                 "gone"} /\ ~Sees(t, step)
    \/ step = "create" /\ ~Created(t) /\ ~Nothing
    \/ step = "remove" /\ Nothing
    \/ step = "unlink" /\ order[t].found /\ Nothing
    \/ step \in ManagerSteps /\ ~Possible(step)

Refuse(t) ==
    /\ Busy(t) /\ Refuses(t)
    /\ order' = Failed(t) /\ owner' = FreedBy(t)
    /\ UNCHANGED <<service, identity, environment, counters>>

(* A call of the manager fails or runs out of time, done or not.            *)
CallFails(t) ==
    /\ Busy(t) /\ Head(order[t].todo) \in ManagerSteps /\ mishaps < MaxMishaps
    /\ mishaps' = mishaps + 1
    /\ \/ UNCHANGED service /\ owner' = FreedBy(t)
       \/ /\ Possible(Head(order[t].todo)) /\ Manager(Head(order[t].todo))
          /\ owner' = IF owner = t THEN "none" ELSE OwnerAfter(Head(order[t].todo))
    /\ order' = Failed(t)
    /\ UNCHANGED <<os, identity, environment, issued, overlapped, begun>>

(* The answer to an enrolment is lost, or the command dies: a dead holder's *)
(* lock is free.                                                            *)
AnswerLost(t) ==
    /\ At(t, "enroll") /\ identity = 0 /\ Valid(order[t].token) /\ mishaps < MaxMishaps
    /\ mishaps' = mishaps + 1
    /\ environment' = Enrolled(order[t].token)
    /\ order' = Failed(t) /\ owner' = FreedBy(t)
    /\ UNCHANGED <<service, os, identity, issued, overlapped, begun>>

Dies(t) ==
    /\ Busy(t) /\ mishaps < MaxMishaps
    /\ mishaps' = mishaps + 1
    /\ order' = Failed(t) /\ owner' = FreedBy(t)
    /\ UNCHANGED <<service, os, identity, environment, issued, overlapped, begun>>

-----------------------------------------------------------------------------
(* The agent, as the manager runs it.                                       *)

AgentOpens ==
    /\ agent = "starting" /\ owner = "none"
    /\ IF identity # 0 THEN agent' = "on" /\ owner' = "agent" ELSE agent' = "off" /\ UNCHANGED owner
    /\ UNCHANGED <<definition, loaded, enabled, identity, environment, order, counters>>

(* The manager gives up on an agent that finds the lock held too often.     *)
AgentRefused ==
    /\ agent = "starting" /\ owner # "none"
    /\ agent' = "off"
    /\ UNCHANGED <<definition, loaded, enabled, owner, identity, environment, order, counters>>

AgentDies ==
    /\ agent = "on" /\ mishaps < MaxMishaps
    /\ mishaps' = mishaps + 1
    /\ agent' = "starting" /\ owner' = "none"
    /\ UNCHANGED <<definition, loaded, enabled, os, identity, environment, order, issued, overlapped, begun>>

(* The machine restarts; on macOS, somebody logs in.                        *)
Reboot ==
    /\ mishaps < MaxMishaps
    /\ mishaps' = mishaps + 1
    /\ order' = [t \in Terminals |-> IF Busy(t) THEN NoOrder ELSE order[t]]
    /\ owner' = "none"
    /\ IF definition \in Definitions /\ (os = "linux" => enabled)
       THEN loaded' = definition /\ agent' = "starting"
       ELSE loaded' = "none" /\ agent' = "off"
    /\ UNCHANGED <<definition, enabled, os, identity, environment, issued, overlapped, begun>>

Next ==
    \/ Expire \/ Regenerate \/ Revoke \/ Signal
    \/ \E t \in Terminals :
          \/ Begin(t) \/ Open(t) \/ Close(t) \/ EnrollSaved(t) \/ Enroll(t) \/ Save(t) \/ Look(t)
          \/ Create(t) \/ Write(t) \/ Remove(t) \/ Call(t) \/ Refuse(t)
          \/ CallFails(t) \/ AnswerLost(t) \/ Dies(t)
    \/ AgentOpens \/ AgentRefused \/ AgentDies \/ Reboot

Spec == Init /\ [][Next]_setupVars

-----------------------------------------------------------------------------
(* An identity the machine has is the one the fleet knows, as long as the   *)
(* fleet has one: no token is spent on a machine that has an identity, and  *)
(* none replaces another.                                                   *)
EnrolmentIsKept ==
    /\ environment.state = "enrolled" /\ identity # 0 => identity = environment.agent
    /\ environment.connection = "online" => environment.state = "enrolled"

(* The manager never runs an agent that has no identity to run with: the    *)
(* service is installed by enrolled machines alone, at boot as well.        *)
AgentsHaveIdentities == agent # "off" \/ enabled => identity # 0

(* After an uninstall that says it is done, whatever failed before: nothing *)
(* of the service is on disk, loaded to be started, or running. The         *)
(* commands of the service take no lock: of two at once nothing is said.    *)
UninstallHolds ==
    \A t \in Terminals :
      order[t].verb = "uninstall" /\ ~Busy(t) /\ ~order[t].failed /\ ~overlapped
        => Nothing /\ ~enabled /\ agent = "off" /\ (os = "darwin" => loaded = "none")

(* A definition that is complete is only ever taken away, by a command that *)
(* describes the same service.                                              *)
TakenAway == definition \in Definitions /\ definition' # definition
DefinitionsStand ==
    [][TakenAway => \E t \in Terminals : Mine(t) /\ order[t].verb = "uninstall"]_setupVars

(* No agent runs, or is started at boot, without the identity the fleet     *)
(* knows it by, and an uninstall that says it is done has left nothing.     *)
SetupHolds == EnrolmentIsKept /\ AgentsHaveIdentities /\ UninstallHolds
=============================================================================
