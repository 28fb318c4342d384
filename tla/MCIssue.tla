------------------------------ MODULE MCIssue ------------------------------
(***************************************************************************)
(* What an issue owns outside the daemon, model-checked part by part: its  *)
(* workspace on the disk and its state on the tracker's board.  A          *)
(* behaviour is a behaviour of one part; the other rests.                  *)
(***************************************************************************)
EXTENDS IssueWorkspace

CONSTANTS
    MaxRuns, MaxRequests, Pass, Active, Retryable, Others, NoEpoch, Tries,
    MaxBoardMoves, MaxBoardEdits                                    \* TrackerTransitions

VARIABLES
    part,
    item, epoch, cache, runs, current, held, waiting, line, asking, moved, counts

Tracker == INSTANCE TrackerTransitions WITH MaxMoves <- MaxBoardMoves,
    MaxEdits <- MaxBoardEdits, run <- runs, queue <- line, call <- asking, bounds <- counts

ASSUME IssueAssumption == WorkspaceAssumption /\ Tracker!TransitionAssumption

trackerVars == <<item, epoch, cache, runs, current, held, waiting, line, asking, moved, counts>>
sideVars == <<part, vars, trackerVars>>

SideInit ==
    /\ part \in {"workspace", "tracker"}
    /\ Init
    /\ Tracker!Init /\ (part # "tracker" => item = Retryable)

SideNext ==
    \/ part = "workspace" /\ UNCHANGED <<part, trackerVars>> /\ Next
    \/ part = "tracker" /\ UNCHANGED <<part, vars>> /\ Tracker!Next

(* The fairness of the parts, as their modules state it.                    *)
InWorkspace(Action) == part = "workspace" /\ Action
InTracker(Action) == part = "tracker" /\ Action

SideFairness ==
    /\ WF_vars(InWorkspace(Deliver)) /\ WF_vars(InWorkspace(Settle))
    /\ WF_vars(InWorkspace(Release)) /\ WF_vars(InWorkspace(Suppress))
    /\ WF_vars(InWorkspace(Publish)) /\ WF_vars(InWorkspace(Signal))
    /\ WF_vars(InWorkspace(Retire)) /\ WF_vars(InWorkspace(BeginCleanup))
    /\ WF_vars(InWorkspace(Starts)) /\ WF_vars(InWorkspace(Cleans))
    /\ WF_vars(InWorkspace(Exit)) /\ WF_vars(InWorkspace(Stop))
    /\ \A c \in Tracker!Requests : SF_trackerVars(InTracker(Tracker!Handle(c)))
    /\ \A c \in Tracker!Callers : WF_trackerVars(InTracker(Tracker!Provide(c)))
    /\ WF_trackerVars(InTracker(Tracker!SettlePass))

SideSpec == SideInit /\ [][SideNext]_sideVars /\ SideFairness

-----------------------------------------------------------------------------
(* A request for a tracker state acts on the state it expects, reads back   *)
(* its own change, is not failed by one edit of the board, brings no ended  *)
(* run back, and is answered, whatever locks it waits for.                  *)
RequestsAreTrue ==
    /\ Tracker!TransitionsCompare
    /\ Tracker!ReadbacksAreOwn
    /\ Tracker!OneEditIsAbsorbed
    /\ Tracker!EndedRunsStayEnded
    /\ part = "tracker" => Tracker!RequestsAreAnswered

(* What an issue is owed: requests that do what they say; and, what the     *)
(* fairness of the workspace is for, a workspace that goes in the end when  *)
(* the issue stays terminal, however often a removal fails                  *)
(* (cleanupTerminalIssueWorkspace).                                         *)
IssueIsServed ==
    /\ RequestsAreTrue
    /\ part = "workspace" => TerminalWorkspacesGo
=============================================================================
