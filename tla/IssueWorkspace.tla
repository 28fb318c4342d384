--------------------------- MODULE IssueWorkspace ---------------------------
(* The checkout of one issue: which directory a run is given, when that     *)
(* directory is populated, repopulated, reused and removed, and what is     *)
(* remembered of work that never reached the remote                         *)
(* (packages/orchestrator/src/service.ts: startRun, the settle loop,        *)
(* cleanupTerminalIssueWorkspace).                                          *)
(*                                                                          *)
(* The daemon's steps run one at a time behind runSerialized; between two   *)
(* of them the worker, the operator and the tracker move, and the daemon    *)
(* may die. A worker's events wait in `mail` until the daemon is idle.      *)
EXTENDS Naturals

CONSTANTS
    Roots, FirstRoot,       \* workspace roots the operator may configure
    MaxStarts,              \* attempts to start a run
    MaxMoves,               \* times the issue changes state
    MaxFaults,              \* daemon deaths and removals that fail
    MaxEdits                \* operator's changes of a checkout or of the root

(* Assumed of the constants, by the modules that check this one.            *)
WorkspaceAssumption ==
    /\ FirstRoot \in Roots
    /\ {MaxStarts, MaxMoves, MaxFaults, MaxEdits} \subseteq Nat

VARIABLES
    root,      \* the configured workspace root
    record,    \* the issue's workspace record
    disk,      \* what each directory holds: "part" of a population or all of
               \* it, or what a removal has left ("torn"); its branch, and
               \* whether it holds work that no remote has
    run,       \* the issue's latest run record
    worker,    \* the process of that run
    strays,    \* places where a worker is at work of which no record has the pid
    mail,      \* the worker's last report, not applied yet
    tracker,   \* where the issue is: "active", "idle" or "terminal"
    pc, task,  \* where the daemon is in a start, a suppression, a removal
    scarred,   \* places torn down or repopulated while a record named them
    kept,      \* places a run has left with work reported as unpublished
    overwritten,   \* those of them whose report a later start has replaced
    bounds     \* how often each bounded thing has happened

durable == <<root, record, run>>
reports == <<kept, overwritten>>
history == <<scarred, reports>>
vars == <<root, record, disk, run, worker, strays, mail, tracker, pc, task, history, bounds>>

Places == Roots \X {"main", "recovery"}
Nowhere == <<"nowhere", "none">>
Main == <<root, "main">>
Recovery == <<root, "recovery">>

Absent == [repo |-> "absent", branch |-> "none", work |-> FALSE]
Bare == [Absent EXCEPT !.repo = "part"]
NoTask == [at |-> Nowhere, fresh |-> FALSE, save |-> FALSE, again |-> "no"]
NoRecord == [at |-> Nowhere, status |-> "none", unpub |-> FALSE]
NoRun == [status |-> "none", at |-> Nowhere, pid |-> FALSE, unpub |-> FALSE,
          pushed |-> FALSE, conf |-> FALSE]

Steps == {"idle", "superseding", "clearing", "hooking", "cloned", "checking",
          "abandoning", "saving", "launching", "fenced", "spawned", "publishing",
          "signalling", "unhooking", "removing", "removed"}
Starting == {"clearing", "hooking", "cloned", "checking", "abandoning",
             "saving", "launching"}

Counts(what) == bounds' = [bounds EXCEPT ![what] = @ + 1]

Init ==
    /\ root = FirstRoot /\ record = NoRecord
    /\ disk = [p \in Places |-> Absent]
    /\ run = NoRun /\ worker = "none" /\ strays = {} /\ mail = "none"
    /\ tracker = "active" /\ pc = "idle" /\ task = NoTask
    /\ scarred = {} /\ kept = {} /\ overwritten = {}
    /\ bounds = [what \in {"starts", "moves", "faults", "edits", "roots"}
                    |-> 0]
-----------------------------------------------------------------------------
(* Starting a run.                                                          *)

(* Slip: only the workspace record is asked.                                *)
RecordedEvidence == record.unpub

Evidence == record.unpub \/ run.unpub

(* The branch of the recorded checkout names another issue.                 *)
Foreign == record.at # Nowhere /\ disk[record.at].branch = "foreign"

(* A checkout on a foreign branch is left where it is, and the issue moves  *)
(* to its recovery path, for good.                                          *)
Target == IF Foreign \/ record.at = Recovery THEN Recovery ELSE Main

(* Slip: a directory that is there is taken as populated.                   *)
NeedsDirectory(p) ==
    \/ disk[p].repo = "absent"
    \/ Foreign /\ record.at = Recovery

(* What makes the hook run: a directory just made, one the record does not  *)
(* name, a recovery checkout that strayed.                                  *)
NeedsPopulation(p) ==
    \/ disk[p].repo = "absent"
    \/ record.at # p
    \/ Foreign /\ record.at = Recovery

(* Nothing is reported of p any more.                                       *)
Unreport(p) == kept' = kept \ {p} /\ overwritten' = overwritten \ {p}

(* What is said of the work at p is written over; what the workspace record *)
(* says stays.                                                              *)
Overwrite(p) ==
    /\ overwritten' = IF record.unpub THEN overwritten ELSE overwritten \cup ({p} \cap kept)
    /\ UNCHANGED kept

(* restartRun: the run that waits for its retry is saved as superseded,     *)
(* with a last error that replaces the one of its push.                     *)
Supersede ==
    /\ pc = "idle" /\ tracker = "active" /\ run.status = "retrying"
    /\ bounds.starts < MaxStarts /\ Counts("starts")
    /\ pc' = "superseding"
    /\ task' = [NoTask EXCEPT !.again = IF run.unpub THEN "reported" ELSE "clean"]
    /\ \/ run' = [run EXCEPT !.status = "failed"] /\ UNCHANGED reports
       \/ run' = [run EXCEPT !.status = "failed", !.unpub = FALSE] /\ Overwrite(run.at)
    /\ UNCHANGED <<root, record, disk, worker, strays, mail, tracker, scarred>>

(* startRun up to the mkdir of the directory, for a candidate or a          *)
(* superseded run.                                                          *)
Start ==
    /\ \/ /\ pc = "idle" /\ tracker = "active" /\ run.status \notin {"running", "retrying"}
          /\ bounds.starts < MaxStarts /\ Counts("starts")
       \/ pc = "superseding" /\ UNCHANGED bounds
    /\ LET p == Target
           created == disk[p].repo = "absent"
       IN /\ task' = [at |-> p, fresh |-> NeedsPopulation(p),
                      save |-> created \/ record.at # p,
                      again |-> IF pc = "superseding" THEN task.again ELSE "no"]
          /\ disk' = IF created THEN [disk EXCEPT ![p] = Bare] ELSE disk
          /\ pc' = IF ~NeedsPopulation(p) THEN "checking"
                   ELSE IF created THEN "hooking" ELSE "clearing"
          /\ scarred' = IF NeedsPopulation(p) /\ record.at = p
                        THEN scarred \cup {p} ELSE scarred
    /\ UNCHANGED <<durable, worker, strays, mail, tracker, reports>>

(* A directory without a finished population is emptied first; a recovery   *)
(* checkout that strayed is given up, with what was reported of it.         *)
Clear ==
    /\ pc = "clearing" /\ pc' = "hooking"
    /\ disk' = [disk EXCEPT ![task.at] = Bare]
    /\ IF disk[task.at].branch = "foreign" THEN Unreport(task.at) ELSE UNCHANGED reports
    /\ UNCHANGED <<durable, worker, strays, mail, tracker, task, scarred, bounds>>

(* The after_create hook: its clone is on the assigned branch before its    *)
(* later steps have run.                                                    *)
Clone ==
    /\ pc = "hooking" /\ pc' = "cloned"
    /\ disk' = [disk EXCEPT ![task.at].branch = "own"]
    /\ UNCHANGED <<durable, worker, strays, mail, tracker, task, history, bounds>>

HookSucceeds ==
    /\ pc = "cloned" /\ pc' = "checking"
    /\ \E branch \in {"own", "foreign", "none"} :
          disk' = [disk EXCEPT ![task.at] =
                      [repo |-> "whole", branch |-> branch, work |-> FALSE]]
    /\ UNCHANGED <<durable, worker, strays, mail, tracker, task, history, bounds>>

(* It failed, timed out, or was skipped for want of trust.                  *)
HookFails ==
    /\ pc \in {"hooking", "cloned"} /\ pc' = "abandoning"
    /\ UNCHANGED <<durable, disk, worker, strays, mail, tracker, task, history, bounds>>

(* A checkout needs a branch, a fresh one the assigned branch.              *)
Check ==
    /\ pc = "checking"
    /\ LET branch == disk[task.at].branch
           refused == branch = "none" \/ (task.fresh /\ branch # "own")
       IN pc' = IF refused THEN IF task.fresh THEN "abandoning" ELSE "idle"
                ELSE IF task.save THEN "saving" ELSE "launching"
    /\ task' = IF pc' = "idle" THEN NoTask ELSE task
    /\ UNCHANGED <<durable, disk, worker, strays, mail, tracker, history, bounds>>

(* A fresh workspace that could not be prepared is removed.                 *)
Abandon ==
    /\ pc = "abandoning" /\ pc' = "idle" /\ task' = NoTask
    /\ \/ /\ disk' = [disk EXCEPT ![task.at] = Absent]
          /\ UNCHANGED bounds
       \/ /\ bounds.faults < MaxFaults /\ Counts("faults")
          /\ UNCHANGED disk
    /\ UNCHANGED <<durable, worker, strays, mail, tracker, history>>

SaveRecord ==
    /\ pc = "saving" /\ pc' = "launching"
    /\ record' = [at |-> task.at, status |-> "active", unpub |-> FALSE]
    /\ UNCHANGED <<root, run, disk, worker, strays, mail, tracker, task, history, bounds>>

(* The tracker's credential is missing: a run whose retry this was waits    *)
(* for it again, with all it said.                                          *)
Requeue ==
    /\ pc = "launching" /\ task.again # "no" /\ pc' = "idle" /\ task' = NoTask
    /\ run' = [run EXCEPT !.status = "retrying", !.unpub = task.again = "reported"]
    /\ UNCHANGED <<root, record, disk, worker, strays, mail, tracker, history, bounds>>

(* onPrepared: the run is saved before there is a process of it, and is the *)
(* issue's latest from now on.                                              *)
Fence ==
    /\ pc = "launching" /\ pc' = "fenced"
    /\ run' = [NoRun EXCEPT !.status = "running", !.at = task.at]
    /\ mail' = "none" /\ Overwrite(task.at)
    /\ UNCHANGED <<root, record, disk, worker, strays, tracker, task, scarred, bounds>>

Spawn ==
    /\ pc = "fenced" /\ pc' = "spawned"
    /\ worker' = "working" /\ Unreport(task.at)
    /\ UNCHANGED <<durable, disk, strays, mail, tracker, task, scarred, bounds>>

RecordPid ==
    /\ pc = "spawned" /\ pc' = "idle" /\ task' = NoTask
    /\ run' = [run EXCEPT !.pid = TRUE]
    /\ UNCHANGED <<root, record, disk, worker, strays, mail, tracker, history, bounds>>

(* The start throws: at once, at before_run or the credentials; or behind   *)
(* the fence, and the run that never had a process is saved as failed.      *)
LaunchFails ==
    /\ pc \in {"superseding", "launching", "fenced"} /\ pc' = "idle" /\ task' = NoTask
    /\ run' = IF pc = "fenced" THEN [run EXCEPT !.status = "failed"] ELSE run
    /\ UNCHANGED <<root, record, disk, worker, strays, mail, tracker, history, bounds>>
-----------------------------------------------------------------------------
(* The worker in its checkout.                                              *)

Work ==
    /\ \E p \in strays \cup (IF worker = "working" THEN {run.at} ELSE {}) :
          /\ disk[p].repo # "absent" /\ ~disk[p].work
          /\ disk' = [disk EXCEPT ![p].work = TRUE]
    /\ UNCHANGED <<durable, worker, strays, mail, tracker, pc, task, history, bounds>>

(* The agent has the tracker move the issue to a terminal state.            *)
Confirm ==
    /\ worker = "working" /\ tracker = "active" /\ pc = "idle"
    /\ bounds.moves < MaxMoves /\ Counts("moves")
    /\ tracker' = "terminal"
    /\ run' = [run EXCEPT !.conf = TRUE]
    /\ UNCHANGED <<root, record, disk, worker, strays, mail, pc, task, history>>

(* The end of a worker: it pushed everything, pushed and found the tree     *)
(* dirty or failed to push, or died without a word.                         *)
Exit ==
    /\ worker = "working" /\ worker' = "none"
    /\ \/ /\ mail' = "pushed" /\ disk[run.at].repo # "absent"
          /\ disk' = [disk EXCEPT ![run.at].work = FALSE]
       \/ mail' = "unpublished" /\ UNCHANGED disk
       \/ UNCHANGED <<mail, disk>>
    /\ UNCHANGED <<durable, strays, tracker, pc, task, history, bounds>>

(* The end of a worker that was told to stop, or that no record names: what *)
(* it says is not heard.                                                    *)
Stop ==
    /\ \/ worker = "stopping" /\ worker' = "none" /\ UNCHANGED strays
       \/ \E p \in strays : strays' = strays \ {p} /\ UNCHANGED worker
    /\ UNCHANGED <<durable, disk, mail, tracker, pc, task, history, bounds>>

(* Where a report of unpublished work leaves something to keep.             *)
Report(p, unpub) ==
    /\ kept' = IF unpub /\ disk[p].repo = "whole" THEN kept \cup {p} ELSE kept \ {p}
    /\ overwritten' = overwritten \ {p}

(* applyWorkerChannelEvent: what the worker reported of its push.           *)
Deliver ==
    /\ pc = "idle" /\ mail # "none" /\ mail' = "none"
    /\ IF run.status \in {"running", "retrying"}
       THEN /\ run' = [run EXCEPT !.unpub = mail = "unpublished",
                                  !.pushed = mail = "pushed"]
            /\ Report(run.at, mail = "unpublished")
       ELSE UNCHANGED <<run, reports>>
    /\ UNCHANGED <<root, record, disk, worker, strays, tracker, pc, task, scarred, bounds>>
-----------------------------------------------------------------------------
(* Settling a run.                                                          *)

(* recordGitTransportWorkspaceState: what the run says of its push goes to  *)
(* the workspace record.                                                    *)
TransportState ==
    IF record.status \notin {"none", "removed"} /\ (run.unpub \/ run.pushed)
    THEN [record EXCEPT !.unpub = run.unpub] ELSE record

(* The process of a run is known by the pid on its record.                  *)
Alive == run.pid /\ worker # "none"

(* reconcileRun of a run whose process has gone.                            *)
Settle ==
    /\ pc = "idle" /\ run.status = "running" /\ ~Alive
    /\ record' = TransportState
    /\ \E status \in IF run.conf /\ (run.pushed \/ run.unpub)
                     THEN {"succeeded"} ELSE {"retrying", "failed"} :
          run' = [run EXCEPT !.status = status, !.pid = FALSE]
    /\ UNCHANGED <<root, disk, worker, strays, mail, tracker, pc, task, history, bounds>>

(* A retry of an issue that has left its active states is given up.         *)
Release ==
    /\ pc = "idle" /\ run.status = "retrying" /\ tracker # "active"
    /\ run' = [run EXCEPT !.status = "suppressed"]
    /\ UNCHANGED <<root, record, disk, worker, strays, mail, tracker, pc, task, history,
                   bounds>>

(* A run whose issue has left its active states is stopped: its branch is   *)
(* published first, by the daemon.                                          *)
Suppress ==
    /\ pc = "idle" /\ pc' = "publishing"
    /\ run.status = "running" /\ tracker # "active"
    /\ ~(run.conf /\ tracker = "terminal")
    /\ UNCHANGED <<durable, disk, worker, strays, mail, tracker, task, history, bounds>>

(* publishAssignedBranchForRun: all of it, part of it, or a failure.        *)
Publish ==
    /\ pc = "publishing" /\ pc' = "signalling"
    /\ \/ /\ disk[run.at].repo # "absent"
          /\ run' = [run EXCEPT !.unpub = FALSE]
          /\ disk' = [disk EXCEPT ![run.at].work = FALSE]
       \/ run' = [run EXCEPT !.unpub = TRUE] /\ UNCHANGED disk
    /\ Report(run.at, run'.unpub)
    /\ UNCHANGED <<root, record, worker, strays, mail, tracker, task, scarred, bounds>>

Told == IF worker = "working" THEN "stopping" ELSE worker

Signal ==
    /\ pc = "signalling" /\ pc' = "idle"
    /\ worker' = Told
    /\ run' = [run EXCEPT !.status = "suppressed", !.pid = FALSE]
    /\ UNCHANGED <<root, record, disk, strays, mail, tracker, task, history, bounds>>

(* A run that confirmed where its issue is has had its time to exit: it is  *)
(* a success, and nothing is published for it. Its last error goes, an      *)
(* unpublished tree stays on record.                                        *)
Retire ==
    /\ pc = "idle" /\ run.status = "running"
    /\ run.conf /\ tracker = "terminal"
    /\ worker' = Told
    /\ run' = [run EXCEPT !.status = "succeeded", !.pid = FALSE]
    /\ UNCHANGED <<root, record, disk, strays, mail, tracker, pc, task, history, bounds>>
-----------------------------------------------------------------------------
(* Removing the workspace of a terminal issue, at startup, at the end of a  *)
(* tick, or when a retry is released.                                       *)

BeginCleanup ==
    /\ pc = "idle" /\ tracker = "terminal"
    /\ ~Alive /\ ~Evidence /\ record.status \notin {"none", "removed"}
    /\ record' = [record EXCEPT !.status = "cleanup_pending"]
    /\ pc' = "unhooking"
    /\ UNCHANGED <<root, disk, run, worker, strays, mail, tracker, task, history, bounds>>

(* before_remove, whatever it says, and the first files going.              *)
Unhook ==
    /\ pc = "unhooking" /\ pc' = "removing"
    /\ disk' = [disk EXCEPT ![record.at].repo =
                    IF @ = "whole" THEN "torn" ELSE @]
    /\ scarred' = scarred \cup {record.at}
    /\ UNCHANGED <<durable, worker, strays, mail, tracker, task, reports, bounds>>

Remove ==
    /\ pc = "removing" /\ pc' = "removed"
    /\ disk' = [disk EXCEPT ![record.at] = Absent]
    /\ UNCHANGED <<durable, worker, strays, mail, tracker, task, history, bounds>>

RemoveFails ==
    /\ pc = "removing" /\ pc' = "idle"
    /\ bounds.faults < MaxFaults /\ Counts("faults")
    /\ UNCHANGED <<durable, disk, worker, strays, mail, tracker, task, history>>

EndCleanup ==
    /\ pc = "removed" /\ pc' = "idle"
    /\ record' = [record EXCEPT !.status = "removed", !.unpub = FALSE]
    /\ UNCHANGED <<root, disk, run, worker, strays, mail, tracker, task, history, bounds>>
-----------------------------------------------------------------------------
(* What the daemon does not decide.                                         *)

Move ==
    /\ bounds.moves < MaxMoves /\ Counts("moves")
    /\ tracker' \in {"active", "idle", "terminal"} \ {tracker}
    /\ UNCHANGED <<durable, disk, worker, strays, mail, pc, task, history>>

MayEdit == bounds.edits + bounds.roots < MaxEdits

(* Someone switches the branch of a checkout, or deletes it.                *)
Edit ==
    /\ MayEdit /\ Counts("edits")
    /\ \E p \in Places :
          /\ disk[p].repo = "whole"
          /\ \/ /\ disk' = [disk EXCEPT ![p].branch = "foreign"]
                /\ UNCHANGED reports
             \/ /\ worker = "none" /\ pc = "idle"
                /\ disk' = [disk EXCEPT ![p] = Absent]
                /\ Unreport(p)
    /\ UNCHANGED <<durable, worker, strays, mail, tracker, pc, task, scarred>>

Relocate ==
    /\ pc = "idle" /\ MayEdit /\ Counts("roots")
    /\ root' \in Roots \ {root}
    /\ UNCHANGED <<record, disk, run, worker, strays, mail, tracker, pc, task, history>>

(* The daemon dies and another takes over; workers are detached, but their  *)
(* pipe is not.  One whose pid was not saved is nobody's.                   *)
Crash ==
    /\ bounds.faults < MaxFaults /\ Counts("faults")
    /\ pc' = "idle" /\ mail' = "none" /\ task' = NoTask
    /\ IF pc = "spawned" /\ worker = "working"
       THEN worker' = "none" /\ strays' = strays \cup {run.at}
       ELSE UNCHANGED <<worker, strays>>
    /\ UNCHANGED <<durable, disk, tracker, history>>

DaemonSteps ==
    \/ Supersede \/ Start \/ Clear \/ Clone \/ HookSucceeds \/ HookFails \/ Check \/ Abandon
    \/ SaveRecord \/ Requeue \/ Fence \/ Spawn \/ RecordPid \/ LaunchFails \/ Deliver \/ Settle \/ Release
    \/ Suppress \/ Publish \/ Signal \/ Retire
    \/ BeginCleanup \/ Unhook \/ Remove \/ RemoveFails \/ EndCleanup

Next == DaemonSteps \/ Work \/ Confirm \/ Exit \/ Stop \/ Move \/ Edit \/ Relocate
        \/ Crash

Spec == Init /\ [][Next]_vars

(* A start and a cleanup that have begun take their steps; a cleanup's own  *)
(* failure is not owed.                                                     *)
Starts ==
    \/ pc = "superseding" /\ Start
    \/ Clear \/ Clone \/ HookSucceeds \/ HookFails \/ Check \/ Abandon \/ SaveRecord
    \/ Fence \/ Spawn \/ RecordPid
Cleans == Unhook \/ Remove \/ EndCleanup

(* Ticks keep coming, each does every step it can, and a worker, told to or *)
(* not, ends.                                                               *)
Fairness ==
    /\ WF_vars(Deliver) /\ WF_vars(Settle) /\ WF_vars(Release)
    /\ WF_vars(Suppress) /\ WF_vars(Publish) /\ WF_vars(Signal)
    /\ WF_vars(Retire) /\ WF_vars(BeginCleanup)
    /\ WF_vars(Starts) /\ WF_vars(Cleans) /\ WF_vars(Exit) /\ WF_vars(Stop)

FairSpec == Spec /\ Fairness
-----------------------------------------------------------------------------
TypeOK ==
    /\ root \in Roots
    /\ record \in [at : Places \cup {Nowhere}, unpub : BOOLEAN,
                   status : {"none", "active", "cleanup_pending", "removed"}]
    /\ disk \in [Places -> [repo : {"absent", "part", "whole", "torn"},
                            work : BOOLEAN, branch : {"none", "own", "foreign"}]]
    /\ run \in [status : {"none", "running", "retrying", "failed",
                          "succeeded", "suppressed"},
                at : Places \cup {Nowhere}, pid : BOOLEAN, unpub : BOOLEAN,
                pushed : BOOLEAN, conf : BOOLEAN]
    /\ worker \in {"none", "working", "stopping"} /\ strays \subseteq Places
    /\ mail \in {"none", "pushed", "unpublished"}
    /\ tracker \in {"active", "idle", "terminal"}
    /\ pc \in Steps
    /\ task \in [at : Places \cup {Nowhere}, fresh : BOOLEAN, save : BOOLEAN,
                 again : {"no", "clean", "reported"}]
    /\ scarred \subseteq Places /\ kept \subseteq Places /\ overwritten \subseteq kept

(* A daemon that dies while it populates a workspace for the first time     *)
(* leaves one that the next start populates again: no worker starts in a    *)
(* checkout whose after_create hook has not finished, though its clone is   *)
(* on the right branch (the comment of startRun on an interrupted creator). *)
FirstPopulationIsWhole ==
    [][worker # "working" /\ worker' = "working"
          => disk[task.at].repo = "whole" \/ task.at \in scarred]_vars

(* The same of every population, what that comment promises: the directory  *)
(* of an issue that comes back after its workspace was removed is made      *)
(* again under a record that still names it, so an interrupted population   *)
(* of it passes for a finished one.                                         *)
PopulationIsWhole ==
    [][worker # "working" /\ worker' = "working"
          => disk[task.at].repo # "part"]_vars

(* The daemon never touches a checkout that a foreign branch made the       *)
(* operator's: neither when it starts the next run, nor later, when the     *)
(* recovery workspace has taken over.                                       *)
ForeignCheckoutsAreKept ==
    [][/\ bounds'.edits = bounds.edits /\ worker = "none" /\ strays = {}
       /\ \/ record.at = Recovery
          \/ pc \in Starting /\ record.at = Main /\ task.at = Recovery
       => disk'[Main] = disk[Main]]_vars

(* While the root stays, work that a run has reported as unpublished stays  *)
(* where it is, whatever the issue does in between: until a later start     *)
(* writes over the report or, once settling has taken the report to the     *)
(* workspace record, until another run has gone to work there.              *)
Held == kept \ overwritten

ReportedWorkIsKept ==
    [][bounds.roots = 0 =>
          \A p \in Held \cap Held' :
              disk[p].repo = "whole" => disk'[p].repo = "whole"]_vars

(* What docs/architecture.md:202 says: "Terminal and startup cleanup retain *)
(* a workspace carrying either this outcome or a Git transport failure      *)
(* until recovery", that is, until another run has gone to work there.      *)
ReportsAreHonoured ==
    [][bounds.roots = 0 =>
          \A p \in kept \cap kept' :
              disk[p].repo = "whole" => disk'[p].repo = "whole"]_vars

(* No directory goes from under a worker that nobody has told to stop,      *)
(* unless the daemon died before it had saved the worker's pid.             *)
WorkersKeepTheirDirectory ==
    [][worker = "working" => disk'[run.at].repo = disk[run.at].repo]_vars

(* The same of a worker whose pid no record has: cleanupTerminalWorkspaces  *)
(* keeps a directory while "that worker process remains live so exit         *)
(* transport cannot lose its cwd" (docs/architecture.md:202).               *)
StraysKeepTheirDirectory ==
    [][\A p \in strays \cap strays' : disk[p].repo = "whole" => disk'[p].repo = "whole"]_vars

(* No checkout goes that is not the daemon's to remove: the operator's on a *)
(* foreign branch, one with reported work, one a worker is at work in.      *)
CheckoutsAreKept ==
    ForeignCheckoutsAreKept /\ ReportedWorkIsKept /\ WorkersKeepTheirDirectory

(* The workspace of an issue that stays terminal is removed in the end,     *)
(* however often the removal failed or the daemon died, unless work is on   *)
(* record that never was published.                                         *)
TerminalWorkspacesGo ==
    <>[](tracker = "terminal")
        => <>[](record.status \in {"none", "removed"} \/ Evidence)

(* What docs/architecture.md says of retention: agent work that reached no  *)
(* remote is not destroyed by terminal cleanup.                             *)
UnpublishedWorkSurvives ==
    [][pc = "removing" /\ pc' = "removed" => ~disk[record.at].work]_vars
=============================================================================
