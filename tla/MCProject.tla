----------------------------- MODULE MCProject -----------------------------
(***************************************************************************)
(* A project's daemon, model-checked part by part: how it is started and   *)
(* stopped, the lock file it holds on to, the policy its loop ticks by,    *)
(* and what its workers tell it.                                           *)
(* A behaviour is a behaviour of one part; the others rest.                *)
(***************************************************************************)
EXTENDS ProjectLock

CONSTANTS
    Names, Nobody, Nothing, Broken, MaxEdits, MaxRequests,      \* ProjectLoop
    MaxSessions, MaxSaid, MaxPending,                           \* WorkerChannel
    Starts, Stoppers, MaxPid, Stranger, MaxKills                \* DaemonControl

VARIABLES
    part,
    file, env, parsed, good, saving, policy, exporter, secrets, loop, running,
    requested, asked, gone_by, given, edits, requests,
    latest, worker, pending, out, pipe, rest, closed, work, tick, record,
    main, closing, termed, pid, holder, folder, lock, pidfile, socket, ready, starter,
    stopper, kills, named, outrun

Loop == INSTANCE ProjectLoop WITH used <- gone_by
Channel == INSTANCE WorkerChannel
Daemon == INSTANCE DaemonControl WITH hand <- named, overtaken <- outrun

ASSUME ProjectAssumption ==
    Loop!LoopAssumption /\ Channel!ChannelAssumption /\ Daemon!ControlAssumption

loopVars == <<file, env, parsed, good, saving, policy, exporter, secrets, loop, running,
              requested, asked, gone_by, given, edits, requests>>
channelVars == <<latest, worker, pending, out, pipe, rest, closed, work, tick, record>>
daemonVars == <<main, closing, termed, pid, holder, folder, lock, pidfile, socket, ready,
                starter, stopper, kills, named, outrun>>
sideVars == <<part, vars, loopVars, channelVars, daemonVars>>

SideInit ==
    /\ part \in {"lock", "loop", "channel", "daemon"}
    /\ Init /\ Channel!Init /\ Daemon!Init
    /\ Loop!Init /\ (part # "loop" => file = Nothing)

SideNext ==
    \/ part = "lock" /\ UNCHANGED <<part, loopVars, channelVars, daemonVars>> /\ Next
    \/ part = "loop" /\ UNCHANGED <<part, vars, channelVars, daemonVars>> /\ Loop!Next
    \/ part = "channel" /\ UNCHANGED <<part, vars, loopVars, daemonVars>> /\ Channel!Next
    \/ part = "daemon" /\ UNCHANGED <<part, vars, loopVars, channelVars>> /\ Daemon!Next

(* The fairness of the parts, as their modules state it.                    *)
InLock(Action) == part = "lock" /\ Action
InLoop(Action) == part = "loop" /\ Action
InChannel(Action) == part = "channel" /\ Action
InDaemon(Action) == part = "daemon" /\ Action

SideFairness ==
    /\ \A p \in Procs : WF_vars(InLock(GoesOn(p)))
    /\ WF_loopVars(InLoop(Loop!Daemon))
    /\ WF_channelVars(InChannel(Channel!Exit)) /\ WF_channelVars(InChannel(Channel!ReadChunk))
    /\ WF_channelVars(InChannel(Channel!Close)) /\ SF_channelVars(InChannel(Channel!Apply))
    /\ WF_channelVars(InChannel(Channel!Reconcile))
    /\ \A d \in Daemon!Daemons :
          /\ WF_daemonVars(InDaemon(Daemon!Startup(d)))
          /\ WF_daemonVars(InDaemon(Daemon!Terminate(d) /\ d \in termed))
          /\ WF_daemonVars(InDaemon(Daemon!Unlock(d) \/ Daemon!UnlockFolder(d)
                                    \/ Daemon!Leave(d)))
          /\ WF_daemonVars(InDaemon(Daemon!Record(d) \/ Daemon!GiveUp(d)))
    /\ \A s \in Stoppers :
          WF_daemonVars(InDaemon(Daemon!Signal(s) \/ Daemon!CleanUp(s)
                                 \/ Daemon!Answer(s) \/ Daemon!NoAnswer(s)))

SideSpec == SideInit /\ [][SideNext]_sideVars /\ SideFairness

-----------------------------------------------------------------------------
(* The properties of the other parts, as their modules state them.          *)

(* A tick goes by one text, refused edits change nothing, and no worker     *)
(* sees the exporter's credentials.                                         *)
PolicyHolds == Loop!ReloadsHold

(* What a worker has said is applied to its run's record in order, with the *)
(* turns of earlier sessions added once; when the stream falls behind it is *)
(* the oldest words that are lost.                                          *)
RecordsAreHeard == Channel!ChannelIsTrue

(* What a start or a stop has told its operator comes true; a refresh or a  *)
(* stop that the loop is asked for is made at once; and all that was read   *)
(* of a worker is applied.                                                  *)
CommandsTakeEffect ==
    []<>(Daemon!Settled /\ Loop!Answered /\ Channel!NothingWaits)
=============================================================================
