---------------------------- MODULE ProjectLaunch ----------------------------
(***************************************************************************)
(* How an agent that runs as a service starts a project's daemon: outside  *)
(* its own control group, so that stopping the agent stops no project.  On *)
(* Linux each start is a transient unit of its own, and units that nobody  *)
(* lives in any more are reclaimed first; elsewhere the command line runs  *)
(* as a detached child.  What it cannot be sure of it reports as unknown.  *)
(* (packages/management-agent/src: linux-launcher.ts, cli-process.ts,      *)
(* linux-systemd.ts, macos-service.ts)                                     *)
(***************************************************************************)
EXTENDS Naturals, FiniteSets

CONSTANTS
    MaxLaunches,    \* starts the agent is asked for, each with a unit of its own
    MaxStops        \* times the agent is stopped or restarted

LaunchAssumption == {MaxLaunches, MaxStops} \subseteq Nat

Launches == 1..MaxLaunches

VARIABLES
    native,     \* the launcher is the one of Linux
    member,     \* the agent's own process is in the group of its service
    up,         \* the service of the agent is active
    launch,     \* each start: how far it is, the unit it looks at, its result
    unit,       \* what the manager, or the kernel, has of each start
    ended,      \* daemons that the agent's side has ended
    stops

launchVars == <<native, member, up, launch, unit, ended, stops>>

NoUnit == [state |-> "none", apart |-> TRUE, forked |-> FALSE, cli |-> FALSE, daemon |-> FALSE,
           worked |-> FALSE]
NoLaunch == [at |-> "new", list |-> {}, look |-> 0, result |-> "none"]

TypeOK ==
    /\ {native, member, up} \subseteq BOOLEAN
    /\ launch \in [Launches -> [at : {"new", "sweep", "shown", "empty", "shown again", "empty again",
                                      "submit", "waits", "observe", "done"},
                                list : SUBSET Launches, look : {0} \cup Launches,
                                result : {"none", "zero", "unknown"}]]
    /\ unit \in [Launches -> [state : {"none", "activating", "exited", "failed", "stopped"},
                              apart : BOOLEAN, forked : BOOLEAN, cli : BOOLEAN,
                              daemon : BOOLEAN, worked : BOOLEAN]]
    /\ ended \subseteq Launches /\ stops \in 0..MaxStops

Init ==
    /\ native \in BOOLEAN /\ member \in BOOLEAN /\ up = TRUE
    /\ launch = [l \in Launches |-> NoLaunch]
    /\ unit = [l \in Launches |-> NoUnit]
    /\ ended = {} /\ stops = 0

-----------------------------------------------------------------------------
(* A start, on Linux.                                                       *)

Steps(l, at) == launch' = [launch EXCEPT ![l].at = at]
Answers(l, result) ==
    launch' = [launch EXCEPT ![l] = [NoLaunch EXCEPT !.at = "done", !.result = result]]
rest == <<native, member, up, stops>>

(* The manager is asked whether the agent runs as its service.              *)
Check(l) ==
    /\ up /\ native /\ launch[l].at = "new"
    /\ IF member THEN Steps(l, "sweep") ELSE Answers(l, "unknown")
    /\ UNCHANGED <<rest, unit, ended>>

(* Units that may be reclaimed: done, kept by the manager, with a group of  *)
(* their own and nobody in it, both times that one looks.                   *)
Eligible(u) == unit[u].state = "exited" /\ unit[u].apart
Populated(u) == unit[u].cli \/ unit[u].daemon

Empty(u) == ~Populated(u)

List(l) ==
    /\ up /\ launch[l].at = "sweep" /\ launch[l].look = 0 /\ launch[l].list = {}
    /\ \E listed \in SUBSET {u \in Launches : unit[u].state = "exited"} :
          IF listed = {} THEN Steps(l, "submit")
          ELSE launch' = [launch EXCEPT ![l].at = "shown", ![l].list = listed]
    /\ UNCHANGED <<rest, unit, ended>>

NextUnit(l, left) ==
    [launch EXCEPT ![l].list = left, ![l].look = 0,
                   ![l].at = IF left = {} THEN "submit" ELSE "shown"]
Skip(l) == launch' = NextUnit(l, launch[l].list \ {launch[l].look})

Show(l) ==
    /\ up /\ launch[l].at = "shown"
    /\ \E u \in launch[l].list :
          launch' = IF Eligible(u) THEN [launch EXCEPT ![l].look = u, ![l].at = "empty"]
                    ELSE NextUnit(l, launch[l].list \ {u})
    /\ UNCHANGED <<rest, unit, ended>>

ReadEvents(l) ==
    /\ up /\ launch[l].at \in {"empty", "empty again"}
    /\ IF ~Empty(launch[l].look) THEN Skip(l)
       ELSE Steps(l, IF launch[l].at = "empty" THEN "shown again" ELSE "sweep")
    /\ UNCHANGED <<rest, unit, ended>>

ShowAgain(l) ==
    /\ up /\ launch[l].at = "shown again"
    /\ IF Eligible(launch[l].look) THEN Steps(l, "empty again") ELSE Skip(l)
    /\ UNCHANGED <<rest, unit, ended>>

Emptied(u) == [unit[u] EXCEPT !.state = "stopped", !.cli = FALSE, !.daemon = FALSE]
Reclaim(l) ==
    /\ up /\ launch[l].at = "sweep" /\ launch[l].look # 0
    /\ LET u == launch[l].look IN
       /\ unit' = [unit EXCEPT ![u] = Emptied(u)]
       /\ ended' = IF unit[u].daemon THEN ended \cup {u} ELSE ended
    /\ Skip(l)
    /\ UNCHANGED rest

(* The sweep has a second of its own and hinders no start.                  *)
SweepEnds(l) ==
    /\ up /\ launch[l].at \in {"sweep", "shown", "empty", "shown again", "empty again"}
    /\ launch' = [launch EXCEPT ![l] = [NoLaunch EXCEPT !.at = "submit"]]
    /\ UNCHANGED <<rest, unit, ended>>

(* The unit is made, wherever the manager puts it; the client waits.        *)
Submit(l) ==
    /\ up /\ launch[l].at = "submit"
    /\ \E apart \in BOOLEAN :
          unit' = [unit EXCEPT ![l] = [NoUnit EXCEPT !.state = "activating", !.apart = apart]]
    /\ Steps(l, "waits")
    /\ UNCHANGED <<rest, ended>>

Submitted(l) ==
    /\ up /\ native /\ launch[l].at = "waits" /\ unit[l].state # "activating"
    /\ IF unit[l].worked THEN Steps(l, "observe") ELSE Answers(l, "unknown")
    /\ UNCHANGED <<rest, unit, ended>>

(* Exited with success, and in a group that is not the agent's.             *)
Started(l) == unit[l].state = "exited" /\ unit[l].worked /\ unit[l].apart

Observe(l) ==
    /\ up /\ launch[l].at = "observe"
    /\ Answers(l, IF Started(l) THEN "zero" ELSE "unknown")
    /\ UNCHANGED <<rest, unit, ended>>

(* The deadline passes, or the manager cannot be asked: nothing is undone.  *)
GiveUp(l) ==
    /\ up /\ native /\ launch[l].at \notin {"done"}
    /\ Answers(l, "unknown")
    /\ UNCHANGED <<rest, unit, ended>>

-----------------------------------------------------------------------------
(* A start elsewhere: a detached child, ended alone if it takes too long.   *)

Run(l) ==
    /\ up /\ ~native /\ launch[l].at = "new"
    /\ unit' = [unit EXCEPT ![l] = [NoUnit EXCEPT !.state = "activating", !.forked = TRUE,
                                                  !.cli = TRUE]]
    /\ Steps(l, "waits")
    /\ UNCHANGED <<rest, ended>>

RunEnds(l) ==
    /\ up /\ ~native /\ launch[l].at = "waits" /\ unit[l].state # "activating"
    /\ Answers(l, IF unit[l].worked THEN "zero" ELSE "unknown")
    /\ UNCHANGED <<rest, unit, ended>>

RunTimesOut(l) ==
    /\ up /\ ~native /\ launch[l].at = "waits"
    /\ unit' = [unit EXCEPT ![l].cli = FALSE, ![l].state = IF @ = "activating" THEN "failed" ELSE @]
    /\ Answers(l, "unknown")
    /\ UNCHANGED <<rest, ended>>

-----------------------------------------------------------------------------
(* The manager, the command line in its unit, and the daemon it leaves.     *)

Fork(u) ==
    /\ unit[u].state = "activating" /\ ~unit[u].forked
    /\ unit' = [unit EXCEPT ![u].forked = TRUE, ![u].cli = TRUE]
    /\ UNCHANGED <<rest, launch, ended>>

LeaveDaemon(u) ==
    /\ unit[u].state = "activating" /\ unit[u].cli /\ ~unit[u].daemon
    /\ unit' = [unit EXCEPT ![u].daemon = TRUE]
    /\ UNCHANGED <<rest, launch, ended>>

(* It may also find the project running, and succeed without a daemon. A    *)
(* unit that fails is emptied.                                              *)
CliEnds(u) ==
    /\ unit[u].cli
    /\ \/ unit' = [unit EXCEPT ![u].cli = FALSE, ![u].state = "exited", ![u].worked = TRUE]
       \/ unit' = [unit EXCEPT ![u].cli = FALSE, ![u].state = "failed",
                               ![u].daemon = IF native THEN FALSE ELSE @]
    /\ UNCHANGED <<rest, launch, ended>>

StartTimesOut(u) ==
    /\ native /\ unit[u].state = "activating"
    /\ unit' = [unit EXCEPT ![u] = [Emptied(u) EXCEPT !.state = "failed"]]
    /\ UNCHANGED <<rest, launch, ended>>

DaemonEnds(u) ==
    /\ unit[u].daemon
    /\ unit' = [unit EXCEPT ![u].daemon = FALSE]
    /\ UNCHANGED <<rest, launch, ended>>

(* The service of the agent stops: everything in its group goes with it.    *)
Within(u) == native /\ ~unit[u].apart
AgentStops ==
    /\ up /\ stops < MaxStops
    /\ up' = FALSE /\ stops' = stops + 1
    /\ launch' = [l \in Launches |->
                    IF launch[l].at \in {"new", "done"} THEN launch[l]
                    ELSE [NoLaunch EXCEPT !.at = "done", !.result = "unknown"]]
    /\ ended' = ended \cup {u \in Launches : Within(u) /\ unit[u].daemon}
    /\ unit' = [u \in Launches |-> IF Within(u) /\ Populated(u) THEN Emptied(u) ELSE unit[u]]
    /\ UNCHANGED <<native, member>>

AgentStarts ==
    /\ ~up /\ up' = TRUE
    /\ UNCHANGED <<native, member, launch, unit, ended, stops>>

Next ==
    \/ \E l \in Launches :
          \/ Check(l) \/ List(l) \/ Show(l) \/ ReadEvents(l) \/ ShowAgain(l) \/ Reclaim(l)
          \/ SweepEnds(l) \/ Submit(l) \/ Submitted(l) \/ Observe(l) \/ GiveUp(l)
          \/ Run(l) \/ RunEnds(l) \/ RunTimesOut(l)
          \/ Fork(l) \/ LeaveDaemon(l) \/ CliEnds(l) \/ StartTimesOut(l) \/ DaemonEnds(l)
    \/ AgentStops \/ AgentStarts

Spec == Init /\ [][Next]_launchVars

-----------------------------------------------------------------------------
(* A start that is reported to have worked did: its command line succeeded, *)
(* and neither a later start that reclaims units nor the end of the agent   *)
(* takes its daemon away. Reclaiming takes nobody's daemon, reported or not.*)
StartsStand ==
    \A l \in Launches :
      /\ launch[l].result = "zero" => unit[l].worked /\ l \notin ended
      /\ l \in ended => Within(l)
=============================================================================
