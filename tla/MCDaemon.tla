------------------------------ MODULE MCDaemon ------------------------------
(***************************************************************************)
(* The start and stop of a project's daemon, model-checked for safety:     *)
(* either all the starts and no stop, or all the starts but the last, with *)
(* the stops beside them.                                                  *)
(***************************************************************************)
EXTENDS DaemonControl

Unstopped == \A s \in Stoppers : stopper[s] = Idle

BoundedNext == Next /\ (Unstopped \/ main[Starts] = "unborn")'

BoundedSpec == Init /\ [][BoundedNext]_vars
=============================================================================
