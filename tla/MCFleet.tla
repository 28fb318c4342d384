------------------------------ MODULE MCFleet ------------------------------
(***************************************************************************)
(* An agent and the fleet, model-checked part by part: how the agent gets  *)
(* onto its machine and off it, the inventory it sends, a log followed by  *)
(* a page, and every short log read at rest.  A behaviour is a behaviour   *)
(* of one part; the others rest.                                           *)
(***************************************************************************)
EXTENDS AgentSetup

CONSTANTS
    MaxAgents, Folders, MaxSessions, MaxRefreshes, MaxExchanges, MaxEdits,  \* FleetInventory
    MaxBytes, MaxBodies, MaxJson, MaxFaults,                                \* RunLog
    AllBytes, MaxLength                                     \* the logs read at rest

VARIABLES
    part,
    enrolled, numbered, session, opened, revision, pages, managed, observed,
    waiting, last, agents, registry, gone, net, refreshes, exchanges, edits,
    content, log, model, active, entry, online, reader, faults

Inventory == INSTANCE FleetInventory WITH MaxFaults <- MaxExchanges, issued <- numbered,
    faults <- exchanges

(* A page is followed over two contents; the logs read at rest are all of   *)
(* up to MaxLength bytes.                                                   *)
Followed == {<<"a", "3", "c", "c", "2", "c">>, <<"n", "n", "n">>}
AtRest == UNION {[1..n -> AllBytes] : n \in 0..MaxLength}
Page == INSTANCE RunLog WITH Contents <- Followed, agent <- reader
Cuts == INSTANCE RunLog WITH Contents <- AtRest, MaxBodies <- 1, MaxFaults <- 0,
    MaxBytes <- MaxBytes + 2, MaxJson <- 3 * MaxLength, agent <- reader

ASSUME FleetAssumption ==
    /\ Inventory!InventoryAssumption /\ Page!RunLogAssumption /\ Cuts!RunLogAssumption
    /\ SetupAssumption

inventoryVars == <<enrolled, numbered, session, opened, revision, pages, managed, observed,
                   waiting, last, agents, registry, gone, net, refreshes, exchanges, edits>>
logVars == <<content, log, model, active, entry, online, reader, faults>>
vars == <<part, inventoryVars, logVars, setupVars>>

SideInit ==
    /\ part \in {"setup", "inventory", "page", "cuts"}
    /\ Init /\ (part # "setup" => os = "linux" /\ definition = "none")
    /\ Inventory!Init
    /\ CASE part = "page" -> Page!Init
         [] part = "cuts" -> Cuts!Init /\ log.size = Len(content[1])
         [] OTHER -> Page!Init /\ log.size = 0 /\ \A b \in Page!Bodies : Len(content[b]) = 3

SideNext ==
    \/ part = "setup" /\ UNCHANGED <<part, inventoryVars, logVars>> /\ Next
    \/ part = "inventory" /\ UNCHANGED <<part, setupVars, logVars>> /\ Inventory!Next
    \/ part = "page" /\ UNCHANGED <<part, setupVars, inventoryVars>> /\ Page!Next
    \/ /\ part = "cuts" /\ UNCHANGED <<part, setupVars, inventoryVars>>
       /\ Cuts!Page \/ Cuts!Lane \/ Cuts!Read

(* The fairness of the parts, as their modules state it.                    *)
InInventory(Action) == part = "inventory" /\ Action
InPage(Action) == part = "page" /\ Action

Fairness ==
    /\ WF_inventoryVars(InInventory(~Inventory!Known /\ Inventory!SessionExpires))
    /\ \A a \in Inventory!Agents : WF_inventoryVars(InInventory(Inventory!AgentStep(a)))
    /\ WF_logVars(InPage(Page!Page)) /\ WF_logVars(InPage(Page!Sweep))
    /\ WF_logVars(InPage(Page!Connect)) /\ WF_logVars(InPage(Page!Open))
    /\ WF_logVars(InPage(Page!Publish)) /\ []<>(part = "page" => reader.at # "opened")

SideSpec == SideInit /\ [][SideNext]_vars /\ Fairness

-----------------------------------------------------------------------------
(* The properties of the parts, as their modules state them; that of the    *)
(* agent's setup is AgentSetup's own.                                       *)

(* What the fleet takes for managed is one revision of an agent, commands   *)
(* wait for managed projects only, and its view comes to be the machine's.  *)
InventoryIsTrue ==
    /\ [](Inventory!ManagedIsOneRevision /\ Inventory!CommandsWaitForManaged)
    /\ part = "inventory" => Inventory!InventoryConverges

(* The page shows the characters of the log, each once, and reaches the end *)
(* of the log if it keeps asking.                                           *)
PagesShowTheLog ==
    /\ [](part = "cuts" => Cuts!ShownIsTheLog) /\ [](part # "cuts" => Page!ShownIsTheLog)
    /\ part = "page" => Page!ReadersCatchUp

(* What the agent's README says of callers and of malformed bytes, and what *)
(* does not hold: see RunLog.                                               *)
CallersRestart == part = "page" => Page!CallersRestart
ReplacedOnce == part = "cuts" => Cuts!ReplacedOnce
=============================================================================
