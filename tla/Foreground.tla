------------------------------ MODULE Foreground ------------------------------
(***************************************************************************)
(* The process that orchestrates one project, from its command line to its *)
(* exit: what it checks before it takes the project's locks, what it opens *)
(* and in which order, the loop it runs, and how a signal, a failure or    *)
(* the end of a single tick takes all of it down again, at any moment of   *)
(* the start.  (packages/cli/src/commands/start.ts, the loop and the       *)
(* shutdown of packages/orchestrator/src/service.ts)                       *)
(*                                                                         *)
(* Two of these processes, and the commands that stop them, are module     *)
(* DaemonControl's; what a tick does is Orchestrator's and ProjectLoop's.  *)
(***************************************************************************)
EXTENDS Naturals, FiniteSets

CONSTANTS
    MaxWorkers, MaxTicks, MaxSignals

ForegroundAssumption == {MaxWorkers, MaxTicks, MaxSignals} \subseteq Nat

Workers == 1..MaxWorkers

VARIABLES
    options,    \* once, web, http: what the command line asks for
    at,         \* how far the handler of the command is
    held,       \* the process holds the project's locks
    socket, workerServer, webServer,    \* what it listens on
    ready,      \* who waits for the start has been told that it is up
    loop,       \* how far the run loop of the service is
    placing,    \* the dispatch that has passed the check of the shutdown
    worker,     \* the agents it has spawned
    shut,       \* how far the shutdown is
    caught,     \* what the shutdown found open, and the agents it found
    code,       \* the exit code so far
    unlocked,   \* agents that were given a turn by a process without its locks
    ticks, signals

open == <<socket, workerServer, webServer>>
service == <<loop, placing, worker, ticks>>
ending == <<shut, caught>>
fgVars == <<options, at, held, open, ready, service, ending, code, unlocked, signals>>

NothingCaught == [workerServer |-> FALSE, webServer |-> FALSE, workers |-> {}]

TypeOK ==
    /\ options \in [once : BOOLEAN, web : BOOLEAN, http : BOOLEAN]
    /\ at \in {"arguments", "project", "auth", "workflow", "locks", "socket", "worker server",
               "ready", "web server", "loop", "kept", "shuts", "unwinds", "over", "exited"}
    /\ {held, socket, workerServer, webServer, ready} \subseteq BOOLEAN
    /\ loop \in {"idle", "startup", "ticking", "sleeping", "ended", "failed"}
    /\ placing \in BOOLEAN
    /\ worker \in [Workers -> {"unborn", "alive", "gone"}]
    /\ shut \in {"no", "draining", "drained", "closed", "released"}
    /\ caught \in [workerServer : BOOLEAN, webServer : BOOLEAN, workers : SUBSET Workers]
    /\ code \in 0..2 /\ unlocked \subseteq Workers
    /\ ticks \in 0..MaxTicks /\ signals \in 0..MaxSignals

Init ==
    /\ options \in [once : BOOLEAN, web : BOOLEAN, http : BOOLEAN]
    /\ ~(options.web /\ options.http)
    /\ at = "arguments" /\ held = FALSE
    /\ socket = FALSE /\ workerServer = FALSE /\ webServer = FALSE /\ ready = FALSE
    /\ loop = "idle" /\ placing = FALSE /\ worker = [w \in Workers |-> "unborn"]
    /\ shut = "no" /\ caught = NothingCaught
    /\ code = 0 /\ unlocked = {} /\ ticks = 0 /\ signals = 0

Running == at # "exited"
Alive == {w \in Workers : worker[w] = "alive"}
rest == <<options, unlocked, signals>>

-----------------------------------------------------------------------------
(* Before the locks: each check stops the command, or lets it go on.        *)

Check(from, to, exit) ==
    /\ at = from
    /\ \/ at' = to /\ UNCHANGED code
       \/ at' = "over" /\ code' = exit
    /\ UNCHANGED <<rest, held, open, ready, service, ending>>

ParseStartArgs == Check("arguments", "project", 2)
Project == Check("project", "auth", 1)
PreflightAuth == Check("auth", "workflow", 1)
PreflightWorkflow == Check("workflow", "locks", 1)

AcquireProjectStartLocks ==
    /\ at = "locks"
    /\ \/ held' = TRUE /\ at' = "socket" /\ UNCHANGED code
       \/ at' = "over" /\ code' = 1 /\ UNCHANGED held
    /\ UNCHANGED <<rest, open, ready, service, ending>>

-----------------------------------------------------------------------------
(* With the locks.  From here on SIGTERM and SIGINT are the shutdown's.     *)

StartExpectedStopServer ==
    /\ at = "socket"
    /\ at' = "worker server" /\ socket' \in BOOLEAN
    /\ UNCHANGED <<rest, held, workerServer, webServer, ready, service, ending, code>>

(* A step of the start that throws: what is open stays open.                *)
Throws == at' = "unwinds" /\ code' = 1

StartHttpServer ==
    /\ at = "worker server"
    /\ \/ workerServer' = TRUE /\ at' = "ready" /\ UNCHANGED code
       \/ Throws /\ UNCHANGED workerServer
    /\ UNCHANGED <<rest, held, socket, webServer, ready, service, ending>>

WriteReady ==
    /\ at = "ready"
    /\ \/ ready' = TRUE /\ at' = (IF options.web THEN "web server" ELSE "loop") /\ UNCHANGED code
       \/ Throws /\ UNCHANGED ready
    /\ UNCHANGED <<rest, held, open, service, ending>>

StartControlPlaneServer ==
    /\ at = "web server"
    /\ \/ webServer' = TRUE /\ at' = "loop" /\ UNCHANGED code
       \/ Throws /\ UNCHANGED webServer
    /\ UNCHANGED <<rest, held, socket, workerServer, ready, service, ending>>

EnterLoop ==
    /\ at = "loop" /\ loop = "idle"
    /\ IF shut = "no" THEN loop' = "startup" /\ UNCHANGED at
       ELSE at' = "unwinds" /\ UNCHANGED loop
    /\ UNCHANGED <<rest, held, open, ready, placing, worker, ticks, ending, code>>

-----------------------------------------------------------------------------
(* The run loop of the service.  `running` is what the shutdown clears.     *)

StartupEnds ==
    /\ Running /\ loop = "startup"
    /\ loop' = IF shut # "no" THEN "ended" ELSE "ticking"
    /\ UNCHANGED <<rest, at, held, open, ready, placing, worker, ticks, ending, code>>

LoopFails ==
    /\ Running /\ \/ loop = "startup"
                  \/ loop = "ticking" /\ options.once
    /\ loop' = "failed" /\ placing' = FALSE
    /\ UNCHANGED <<rest, at, held, open, ready, worker, ticks, ending, code>>

(* startRun looks at the shutdown once, and then prepares the workspace.    *)
Place ==
    /\ Running /\ loop = "ticking" /\ ~placing /\ shut = "no"
    /\ placing' = TRUE
    /\ UNCHANGED <<rest, at, held, open, ready, loop, worker, ticks, ending, code>>

Spawn ==
    /\ Running /\ placing
    /\ placing' = FALSE
    /\ \/ UNCHANGED worker
       \/ \E w \in Workers :
             worker[w] = "unborn" /\ worker' = [worker EXCEPT ![w] = "alive"]
    /\ UNCHANGED <<rest, at, held, open, ready, loop, ticks, ending, code>>

TickEnds ==
    /\ Running /\ loop = "ticking" /\ ~placing
    /\ loop' = IF options.once \/ shut # "no" THEN "ended" ELSE "sleeping"
    /\ UNCHANGED <<rest, at, held, open, ready, placing, worker, ticks, ending, code>>

Wake ==
    /\ Running /\ loop = "sleeping"
    /\ IF shut # "no" THEN loop' = "ended" /\ UNCHANGED ticks
       ELSE loop' = "ticking" /\ ticks < MaxTicks /\ ticks' = ticks + 1
    /\ UNCHANGED <<rest, at, held, open, ready, placing, worker, ending, code>>

WorkerEnds(w) ==
    /\ worker[w] = "alive"
    /\ worker' = [worker EXCEPT ![w] = "gone"]
    /\ UNCHANGED <<rest, at, held, open, ready, loop, placing, ticks, ending, code>>

(* An agent that wants its next turn asks the server it was given.          *)
AcquireTurn(w) ==
    /\ Running /\ worker[w] = "alive" /\ workerServer
    /\ unlocked' = IF held THEN unlocked ELSE unlocked \cup {w}
    /\ UNCHANGED <<options, signals, at, held, open, ready, service, ending, code>>

-----------------------------------------------------------------------------
(* The shutdown: it begins once, whatever asks for it, and goes on by       *)
(* itself beside what the handler still does.                               *)

Shutdown ==
    /\ shut = "no"
    /\ shut' = "draining" /\ socket' = FALSE
    /\ caught' = [workerServer |-> workerServer, webServer |-> webServer, workers |-> Alive]

Signal ==
    /\ Running /\ signals < MaxSignals
    /\ signals' = signals + 1
    /\ IF at \in {"arguments", "project", "auth", "workflow", "locks", "over"}
         THEN /\ at' = "exited" /\ held' = FALSE
              /\ socket' = FALSE /\ workerServer' = FALSE /\ webServer' = FALSE
              /\ UNCHANGED ending
         ELSE /\ UNCHANGED <<at, held, workerServer, webServer>>
              /\ IF shut = "no" THEN Shutdown ELSE UNCHANGED <<socket, ending>>
    /\ UNCHANGED <<options, ready, service, code, unlocked>>

(* Nobody to wait for: it goes on.  Else it waits until none is left of     *)
(* those there are by then, and after ten seconds kills them.               *)
Drain ==
    /\ Running /\ shut = "draining"
    /\ \/ caught.workers = {} /\ UNCHANGED worker
       \/ caught.workers # {} /\ Alive = {} /\ UNCHANGED worker
       \/ caught.workers # {} /\ worker' = [w \in Workers |-> IF w \in Alive THEN "gone" ELSE worker[w]]
    /\ shut' = "drained"
    /\ UNCHANGED <<rest, at, held, open, ready, loop, placing, ticks, caught, code>>

CloseServers ==
    /\ Running /\ shut = "drained"
    /\ workerServer' = (workerServer /\ ~caught.workerServer)
    /\ webServer' = (webServer /\ ~caught.webServer)
    /\ shut' = "closed"
    /\ UNCHANGED <<rest, at, held, socket, ready, service, caught, code>>

(* The locks go while a tick of the loop may still be under way: nothing    *)
(* has waited for it.                                                       *)
ReleaseProjectStartLocks ==
    /\ Running /\ shut = "closed"
    /\ held' = FALSE /\ shut' = "released"
    /\ UNCHANGED <<rest, at, open, ready, service, caught, code>>

Exit ==
    /\ Running /\ shut = "released"
    /\ at' = "exited"
    /\ socket' = FALSE /\ workerServer' = FALSE /\ webServer' = FALSE
    /\ UNCHANGED <<rest, held, ready, service, ending, code>>

-----------------------------------------------------------------------------
(* The handler behind the loop.                                             *)

LoopEnds ==
    /\ at = "loop" /\ loop = "ended"
    /\ IF shut # "no" THEN at' = "unwinds" /\ UNCHANGED <<socket, ending>>
       ELSE IF options.web \/ options.http THEN at' = "kept" /\ UNCHANGED <<socket, ending>>
       ELSE at' = "shuts" /\ Shutdown
    /\ UNCHANGED <<rest, held, workerServer, webServer, ready, service, code>>

(* Kept until the shutdown resolves the wait.                               *)
Kept ==
    /\ at = "kept" /\ shut # "no"
    /\ at' = "unwinds"
    /\ UNCHANGED <<rest, held, open, ready, service, ending, code>>

LoopFailed ==
    /\ at = "loop" /\ loop = "failed"
    /\ IF shut # "no"
         THEN at' = "unwinds" /\ UNCHANGED <<open, ending, code>>
         ELSE /\ code' = 1
              /\ IF options.once
                   THEN /\ at' = "unwinds" /\ workerServer' = FALSE /\ webServer' = FALSE
                        /\ UNCHANGED <<socket, ending>>
                   ELSE at' = "shuts" /\ Shutdown /\ UNCHANGED <<workerServer, webServer>>
    /\ UNCHANGED <<rest, held, ready, service>>

(* A shutdown under way ends the process; without one the locks go, and the *)
(* handler is done.                                                         *)
Unwind ==
    /\ at = "unwinds" /\ socket' = FALSE
    /\ IF shut = "no" THEN at' = "over" /\ held' = FALSE ELSE UNCHANGED <<at, held>>
    /\ UNCHANGED <<rest, workerServer, webServer, ready, service, ending, code>>

(* A handler that is done leaves a process that ends with its last server.  *)
Ends ==
    /\ at = "over" /\ ~workerServer /\ ~webServer
    /\ at' = "exited"
    /\ UNCHANGED <<rest, held, open, ready, service, ending, code>>

Handler ==
    \/ ParseStartArgs \/ Project \/ PreflightAuth \/ PreflightWorkflow \/ AcquireProjectStartLocks
    \/ StartExpectedStopServer \/ StartHttpServer \/ WriteReady \/ StartControlPlaneServer
    \/ EnterLoop \/ LoopEnds \/ Kept \/ LoopFailed \/ Unwind \/ Ends
Loop == StartupEnds \/ LoopFails \/ Place \/ Spawn \/ TickEnds \/ Wake
Closing == Drain \/ CloseServers \/ ReleaseProjectStartLocks \/ Exit

Next ==
    \/ Handler \/ Loop \/ Closing \/ Signal
    \/ \E w \in Workers : WorkerEnds(w) \/ AcquireTurn(w)

Spec == Init /\ [][Next]_fgVars

-----------------------------------------------------------------------------
(* Whatever the moment of a signal or a failure, nobody gets a turn from a  *)
(* process that has given up the project's locks, and its service ticks     *)
(* without them only at the end of a shutdown: with its servers closed, and *)
(* starting nothing that had not passed its check before.                   *)
WorksUnderLocks ==
    /\ unlocked = {}
    /\ Running /\ loop \in {"startup", "ticking", "sleeping"} /\ ~held =>
          shut = "released" /\ ~workerServer /\ ~webServer

(* An agent that was there when the shutdown began does not outlive it.     *)
DrainedAreGone ==
    shut = "released" => caught.workers \cap Alive = {}

(* A start that fails says so: told ready or not, it ends with a code; and  *)
(* a shutdown, once begun, is what ends the process.                        *)
FailuresAreTold ==
    /\ at = "over" => code # 0
    /\ at = "exited" /\ shut # "no" => shut = "released" /\ ~held

ForegroundHolds == WorksUnderLocks /\ DrainedAreGone /\ FailuresAreTold

-----------------------------------------------------------------------------
(* What the code's comments say and does not hold.                          *)

(* "Drain active workers before tearing down infrastructure so that child   *)
(* processes [...] do not become orphans" (commands/start.ts:1428): a run   *)
(* that passed its check before the shutdown spawns its agent behind it.    *)
NoOrphans == shut = "released" /\ at = "exited" => Alive = {}

(* "Only one orchestrator may own an accessible canonical project folder"   *)
(* (packages/cli/README.md:479): the locks are released while a tick of the *)
(* old one may still be at work, and another may take them.                 *)
TicksUnderLocks == Running /\ loop \in {"startup", "ticking", "sleeping"} => held

(* A start whose dashboard cannot listen gives up its locks, and its other  *)
(* server keeps the process alive.                                          *)
FailedStartsEnd == at = "over" => ~workerServer
=============================================================================
