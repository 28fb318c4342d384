--------------------------- MODULE ClaudeRuntime ---------------------------
(***************************************************************************)
(* The turns of a Claude agent: the adapter prepares a session from the    *)
(* session files, spawns one print process per turn, reads its records,    *)
(* bounds its silence, and replaces a session the CLI no longer knows.     *)
(* The worker subscribes, runs turn after turn until one fails, and may be *)
(* told to stop at any await.  The CLI and its conversations are external. *)
(* (packages/runtime-claude/src, packages/worker/src/non-codex-runtime.ts) *)
(***************************************************************************)
EXTENDS Naturals, FiniteSets

CONSTANTS
    MaxSpawns,      \* processes, in all runs together
    MaxRuns,
    Strict,         \* the isolation asks for a strict MCP configuration
    NoSession       \* nothing prepared, no process

ClaudeAssumption ==
    /\ MaxSpawns \in Nat \ {0} /\ MaxRuns \in Nat \ {0}
    /\ Strict \in BOOLEAN

VARIABLES
    run,        \* the current run
    files,      \* per run its session file: an id, Unknown if it is broken, None
    fresh,      \* ids issued so far
    known,      \* conversations the CLI has
    pc,         \* where the worker is
    prepared,   \* preparedSession.session
    mcp,        \* a composed MCP configuration is in place
    child,      \* the running process: what it was asked and what it has done
    reader,     \* what the records so far say, and whether a timer has fired
    result,     \* classification of the last process, "none" while it runs
    terminal,   \* the worker's terminalFailure
    subscribed, \* an event handler is registered
    news,       \* pendingEvents: session ids whose replacement waits for a subscriber
    told,       \* session ids whose replacement a subscriber has heard of
    dropped,    \* session ids a file or the adapter has given up
    stopped,    \* cancel or shutdown has been called
    spawns

claudeVars == <<run, files, fresh, known, pc, prepared, mcp, child, reader, result, terminal,
                subscribed, news, told, dropped, stopped, spawns>>

Runs == 1..MaxRuns
Ids == 1..(MaxSpawns + MaxRuns)
Unknown == 0        \* the id of a session whose file cannot be read
None == MaxSpawns + MaxRuns + 1
Sessions == [mode : {"start", "resume"}, id : Ids, fork : BOOLEAN]
Quiet == [line |-> "none", error |-> FALSE, output |-> FALSE, timeout |-> FALSE]

TypeOK ==
    /\ run \in Runs /\ fresh \in 0..(MaxSpawns + MaxRuns) /\ known \subseteq Ids
    /\ files \in [Runs -> Ids \cup {Unknown, None}]
    /\ pc \in {"new", "between", "turn", "replacing", "ended"}
    /\ prepared \in Sessions \cup {NoSession}
    /\ mcp \in BOOLEAN /\ terminal \in BOOLEAN /\ subscribed \in BOOLEAN /\ stopped \in BOOLEAN
    /\ child \in {NoSession} \cup [asked : Sessions, at : {"up", "term", "killed"}, id : Ids]
    /\ reader \in [line : {"none", "success", "error", "rejected"}, error : BOOLEAN,
                   output : BOOLEAN, timeout : BOOLEAN]
    /\ result \in {"none", "success", "app-error", "process-error"}
    /\ \A ids \in {news, told, dropped} : ids \subseteq Ids \cup {Unknown}
    /\ spawns \in 0..MaxSpawns

Init ==
    /\ run = 1 /\ files = [r \in Runs |-> None] /\ fresh = 0 /\ known = {}
    /\ pc = "new" /\ prepared = NoSession /\ mcp = FALSE
    /\ child = NoSession /\ reader = Quiet /\ result = "none" /\ terminal = FALSE
    /\ subscribed = FALSE /\ news = {} /\ told = {} /\ dropped = {}
    /\ stopped = FALSE /\ spawns = 0

-----------------------------------------------------------------------------
(* The adapter.                                                             *)

Session(mode, id, fork) == [mode |-> mode, id |-> id, fork |-> fork]
Saved(id) == files' = [files EXCEPT ![run] = id]


(* A replacement is told to the subscribers, or kept for the first one.     *)
Invalidated(id, waiting) ==
    /\ dropped' = dropped \cup {id}
    /\ IF subscribed THEN told' = told \cup {id} /\ news' = waiting
                     ELSE news' = waiting \cup {id} /\ UNCHANGED told

CreateFreshSession ==
    /\ fresh' = fresh + 1
    /\ Saved(fresh + 1)
    /\ prepared' = Session("start", fresh + 1, FALSE)

(* prepareSession: this run's file, the previous run's to fork from, or a   *)
(* new session; a file that cannot be read is replaced.                     *)
Resumes ==
    /\ files[run] \in Ids
    /\ prepared' = Session("resume", files[run], FALSE)
    /\ UNCHANGED <<files, fresh>>
Forks ==
    /\ files[run] = None /\ run > 1 /\ files[run - 1] \in Ids
    /\ Saved(files[run - 1])
    /\ prepared' = Session("resume", files[run - 1], TRUE)
    /\ UNCHANGED fresh
Unreadable == files[run] = Unknown \/ (run > 1 /\ files[run - 1] = Unknown)

Prepare ==
    /\ pc = "new"
    /\ \/ /\ Resumes \/ Forks \/ (files[run] = None /\ CreateFreshSession)
          /\ news' = {} /\ UNCHANGED <<told, dropped>>
       \/ Unreadable /\ files[run] \notin Ids /\ CreateFreshSession /\ Invalidated(Unknown, {})
    /\ mcp' = TRUE /\ pc' = "between"
    /\ UNCHANGED <<run, known, child, reader, result, terminal, subscribed, stopped, spawns>>

Subscribe ==
    /\ ~subscribed /\ pc # "ended"
    /\ subscribed' = TRUE /\ told' = told \cup news
    /\ UNCHANGED <<run, files, fresh, known, pc, prepared, mcp, child, reader, result, terminal,
                   news, dropped, stopped, spawns>>

(* One process at a time; the CLI forks under an id of its own.             *)
Spawn(session, id) ==
    /\ spawns < MaxSpawns /\ spawns' = spawns + 1
    /\ child' = [asked |-> session, at |-> "up", id |-> id]
    /\ reader' = Quiet /\ result' = "none" /\ pc' = "turn"

(* The next turn needs one that succeeded.                                  *)
MayContinue == result = "none" \/ (result = "success" /\ ~terminal)
Configured == mcp \/ ~Strict

SpawnTurn ==
    /\ pc = "between" /\ MayContinue /\ Configured
    /\ fresh' = IF prepared.fork THEN fresh + 1 ELSE fresh
    /\ Spawn(prepared, IF prepared.fork THEN fresh' ELSE prepared.id)
    /\ terminal' = FALSE
    /\ UNCHANGED <<run, files, known, prepared, mcp, subscribed, news, told, dropped, stopped>>

(* A record arrives.  The first of a session the CLI does not have says so; *)
(* an error record reaches the worker as agent.error.                       *)
Lost(c) == c.asked.mode = "resume" /\ c.asked.id \notin known

ReadRecord(line) ==
    /\ child # NoSession /\ reader.line = "none"
    /\ (line = "rejected") <=> Lost(child)
    /\ reader' = [reader EXCEPT !.line = line, !.output = TRUE, !.error = (line # "success")]
    /\ known' = IF line = "rejected" THEN known ELSE known \cup {child.id}
    /\ terminal' = (terminal \/ (subscribed /\ line # "success"))
    /\ UNCHANGED <<run, files, fresh, pc, prepared, mcp, child, result, subscribed, news, told,
                   dropped, stopped, spawns>>

(* Any other output: it restarts the silence timer.                         *)
ReadOutput ==
    /\ child # NoSession /\ ~reader.output
    /\ reader' = [reader EXCEPT !.output = TRUE]
    /\ UNCHANGED <<run, files, fresh, known, pc, prepared, mcp, child, result, terminal,
                   subscribed, news, told, dropped, stopped, spawns>>

(* The read timer before the first output, the silence timer at any time:   *)
(* SIGTERM, and SIGKILL a second later.                                     *)
Timeout ==
    /\ child # NoSession /\ ~reader.timeout
    /\ reader' = [reader EXCEPT !.timeout = TRUE]
    /\ child' = [child EXCEPT !.at = "term"]
    /\ UNCHANGED <<run, files, fresh, known, pc, prepared, mcp, result, terminal, subscribed,
                   news, told, dropped, stopped, spawns>>

Escalate ==
    /\ child # NoSession /\ reader.timeout /\ child.at = "term"
    /\ child' = [child EXCEPT !.at = "killed"]
    /\ UNCHANGED <<run, files, fresh, known, pc, prepared, mcp, reader, result, terminal,
                   subscribed, news, told, dropped, stopped, spawns>>

(* classifyClaudeTurnExit, with the timeout first.                          *)
Classified(exit) ==
    IF reader.timeout \/ exit # "zero" THEN "process-error"
    ELSE IF reader.line = "success" THEN "success" ELSE "app-error"

Rejected(kind) ==
    /\ child.asked.mode = "resume" /\ kind = "process-error" /\ reader.line = "rejected"

(* The id the records carry, or the one asked for.                          *)
ReportedId == IF reader.line = "none" THEN child.asked.id ELSE child.id

PersistStarted(kind) ==
    IF prepared.mode = "start" /\ kind = "success"
    THEN Saved(ReportedId) /\ prepared' = Session("resume", ReportedId, FALSE)
    ELSE IF prepared.mode = "resume" /\ prepared.fork
    THEN Saved(ReportedId) /\ prepared' = Session("resume", ReportedId, FALSE)
    ELSE UNCHANGED <<files, prepared>>

(* The streams are closed: the turn is over, unless its session is to be    *)
(* replaced.  An error the records did not carry is emitted now.            *)
TurnEnds(exit) ==
    /\ pc = "turn" /\ child # NoSession
    /\ (exit = "zero") => child.at # "killed" /\ reader.line # "rejected"
    /\ LET kind == Classified(exit) IN
          /\ result' = kind
          /\ terminal' = (terminal \/ (subscribed /\ kind # "success"))
          /\ child' = NoSession
          /\ IF Rejected(kind)
             THEN pc' = "replacing" /\ UNCHANGED <<files, prepared>>
             ELSE pc' = "between" /\ PersistStarted(kind)
    /\ UNCHANGED <<run, fresh, known, mcp, reader, subscribed, news, told, dropped, stopped,
                   spawns>>

(* retryWithFreshSession: the file is saved, then the same turn again.      *)
RetryWithFreshSession ==
    /\ pc = "replacing" /\ Configured
    /\ Invalidated(prepared.id, news)
    /\ CreateFreshSession
    /\ Spawn(prepared', fresh')
    /\ UNCHANGED <<run, known, mcp, terminal, subscribed, stopped>>

(* A strict configuration that a cancel has removed: building the arguments *)
(* throws, and the worker's loop with it.  A replacement has been saved and *)
(* told of by then.                                                         *)
Refused ==
    /\ pc \in {"between", "replacing"} /\ ~Configured
    /\ pc' = "ended"
    /\ IF pc = "replacing" THEN CreateFreshSession /\ Invalidated(prepared.id, news)
       ELSE UNCHANGED <<files, fresh, prepared, news, told, dropped>>
    /\ UNCHANGED <<run, known, mcp, child, reader, result, terminal, subscribed, stopped, spawns>>

-----------------------------------------------------------------------------
(* The worker: a failed turn is the last; a signal may come at any await.   *)

WorkerEnds ==
    /\ pc = "between" /\ result # "none"
    /\ pc' = "ended" /\ mcp' = FALSE /\ subscribed' = FALSE
    /\ UNCHANGED <<run, files, fresh, known, prepared, child, reader, result, terminal, news,
                   told, dropped, stopped, spawns>>

Cancel ==
    /\ pc \notin {"new", "ended"} /\ ~stopped
    /\ stopped' = TRUE /\ mcp' = FALSE
    /\ child' = IF child = NoSession THEN child ELSE [child EXCEPT !.at = "term"]
    /\ UNCHANGED <<run, files, fresh, known, pc, prepared, reader, result, terminal, subscribed,
                   news, told, dropped, spawns>>

(* The flush after a cancel is over: the process exits wherever it was.     *)
Leave ==
    /\ stopped /\ pc # "ended"
    /\ pc' = "ended"
    /\ UNCHANGED <<run, files, fresh, known, prepared, mcp, child, reader, result, terminal,
                   subscribed, news, told, dropped, stopped, spawns>>

(* Another run of the issue, in a worker of its own; a file may have been   *)
(* cut short by what ended the last one.                                    *)
NextRun ==
    /\ pc = "ended" /\ run < MaxRuns
    /\ run' = run + 1
    /\ \E broken \in BOOLEAN :
          files' = IF broken THEN [files EXCEPT ![run] = Unknown] ELSE files
    /\ pc' = "new" /\ prepared' = NoSession /\ mcp' = FALSE /\ child' = NoSession
    /\ reader' = Quiet /\ result' = "none" /\ terminal' = FALSE
    /\ subscribed' = FALSE /\ news' = {} /\ told' = {} /\ dropped' = {} /\ stopped' = FALSE
    /\ UNCHANGED <<fresh, known, spawns>>

(* The CLI forgets a conversation.                                          *)
Forget ==
    /\ pc = "between"
    /\ \E id \in known : known' = known \ {id}
    /\ UNCHANGED <<run, files, fresh, pc, prepared, mcp, child, reader, result, terminal,
                   subscribed, news, told, dropped, stopped, spawns>>

Ends == \E exit \in {"zero", "other"} : TurnEnds(exit)

Next ==
    \/ Prepare \/ Subscribe \/ SpawnTurn
    \/ \E line \in {"success", "error", "rejected"} : ReadRecord(line)
    \/ ReadOutput \/ Timeout \/ Escalate \/ Ends
    \/ RetryWithFreshSession \/ Refused
    \/ WorkerEnds \/ Cancel \/ Leave \/ NextRun \/ Forget

(* A killed process closes its streams; timers fire.                        *)
ClosesWhenKilled == child # NoSession /\ child.at = "killed" /\ Ends
ClaudeFairness ==
    /\ WF_claudeVars(Timeout) /\ WF_claudeVars(Escalate) /\ WF_claudeVars(ClosesWhenKilled)
    /\ WF_claudeVars(RetryWithFreshSession) /\ WF_claudeVars(Refused)

Spec == Init /\ [][Next]_claudeVars /\ ClaudeFairness

-----------------------------------------------------------------------------
(* A process asked to start a conversation starts a new one: an id under    *)
(* which the CLI already has a conversation is only ever resumed.           *)
StartsAreNew ==
    [][spawns' # spawns => (child'.asked.mode = "start" => child'.asked.id \notin known)]_claudeVars

(* The session file of a run that has had a successful turn names that      *)
(* turn's conversation, so that the next turn continues it.                 *)
FilesNameTheConversation ==
    pc = "between" /\ result = "success" => files[run] = prepared.id /\ prepared.mode = "resume"

(* Nobody loses a conversation without notice: the replacement of a session *)
(* is heard by the subscriber, or waits for the first one of that worker.   *)
ReplacementsAreTold == subscribed => news \subseteq told
DroppedAreTold == dropped \subseteq told \cup news

(* A turn ends: silence is bounded before and after the first output.       *)
TurnsEnd == []<>(pc # "turn" \/ spawns = MaxSpawns)

ClaudeSessionsHold ==
    /\ [](FilesNameTheConversation /\ ReplacementsAreTold /\ DroppedAreTold)
    /\ StartsAreNew

(* Do not hold.  The worker takes the rejection of the first process for    *)
(* the turn's failure, although the adapter's retry succeeded; and a cancel *)
(* between the two processes does not keep the second from starting.        *)
WorkerAgrees == pc = "between" /\ result = "success" => ~terminal
CancelledStaysQuiet == [][spawns' # spawns => ~stopped]_claudeVars
=============================================================================
