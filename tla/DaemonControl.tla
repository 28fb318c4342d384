--------------------------- MODULE DaemonControl ----------------------------
(* Starting and stopping the daemon of one project from the command line:   *)
(* `project start --daemon` and in the foreground, `project stop`, and the  *)
(* stop of an expected process that the management agent asks for           *)
(* (packages/cli/src: commands/start.ts, commands/stop.ts,                  *)
(* daemon-liveness.ts, expected-stop.ts, project-start-lock.ts).            *)
(*                                                                          *)
(* Several commands run at once, each a process of its own; what they share *)
(* is files that name a process by its pid and by an identity no two        *)
(* processes have. Pids come back. A lock that is left is taken over in     *)
(* steps: its record is read, its process probed, the file removed by name, *)
(* and opened anew. What else there is to a lock file (leases that run out, *)
(* records not yet written, releases that overlap) is module ProjectLock's. *)
EXTENDS Naturals, FiniteSets

CONSTANTS
    Starts,       \* how many orchestrators are started
    Stoppers,     \* stop commands
    MaxPid,       \* process ids are 1 .. MaxPid
    Nobody,       \* no process: an absent file, a free pid
    Stranger,     \* any process that is not an orchestrator
    MaxKills      \* orchestrators that die without shutting down

Daemons == 1 .. Starts
Pids == 1 .. MaxPid

ASSUME ControlAssumption ==
    /\ Starts \in Nat /\ MaxPid \in Nat /\ MaxKills \in Nat
    /\ Nobody \notin Nat /\ Stranger \notin Nat /\ Stranger # Nobody

VARIABLES
    main,      \* how far the start of each orchestrator is
    closing,   \* how far its shutdown is
    termed,    \* orchestrators with a SIGTERM they have not handled
    pid,       \* their pids
    holder,    \* what runs under each pid
    folder, lock, pidfile, \* whom the two locks and the pid file name
    socket,    \* who is bound to the path of the expected-stop socket
    ready,     \* orchestrators whose ready file is there
    starter,   \* the command that started each orchestrator
    stopper,   \* each stop command
    kills,
    hand,      \* whom the lock file names that a start has read and goes by
    overtaken  \* history: starts that went by a record as another took the lock

files == <<folder, lock, pidfile>>
hands == <<hand, overtaken>>
procs == <<main, closing, termed, pid, holder, kills, hands>>
vars == <<procs, files, socket, ready, starter, stopper>>

\* "booting" and "folder" are about to open a lock file, the folder's and the
\* project's; "folderRead" and "lockRead" have read whom it names.
MainSteps == {"unborn", "booting", "folderRead", "folder", "lockRead", "locked",
              "swept", "listening", "up", "gone"}
ClosingSteps == {"no", "draining", "half", "done"}

Idle == [pc |-> "idle", target |-> Nobody, result |-> "none"]

Init ==
    /\ main = [d \in Daemons |-> "unborn"]
    /\ closing = [d \in Daemons |-> "no"]
    /\ termed = {} /\ kills = 0
    /\ hand = [d \in Daemons |-> Nobody] /\ overtaken = {}
    /\ pid = [d \in Daemons |-> Nobody]
    /\ holder = [p \in Pids |-> Nobody]
    /\ folder = Nobody /\ lock = Nobody /\ pidfile = Nobody
    /\ socket = Nobody /\ ready = {}
    /\ starter = [d \in Daemons |-> "none"]
    /\ stopper = [s \in Stoppers |-> Idle]

Live(d) == d # Nobody /\ main[d] \notin {"unborn", "gone"}

(* Slip: the title with the nonce is set once the daemon is up, after the   *)
(* locks were written.                                                      *)
RunningUntitled(d) == d # Nobody /\ pid[d] # Nobody /\ holder[pid[d]] = d
                      /\ main[d] # "up"

(* getProcessIdentity of the pid a record names is the one it names.        *)
Running(d) == d # Nobody /\ pid[d] # Nobody /\ holder[pid[d]] = d
Reached(d) == IF Running(d) THEN {d} ELSE {}
-----------------------------------------------------------------------------
(* The orchestrator process.                                                *)

(* Starts and fresh pids are numbered in the order of their use.            *)
Spawn(d, by) ==
    /\ main[d] = "unborn" /\ \A c \in 1 .. d - 1 : main[c] # "unborn"
    /\ \E p \in {q \in Pids : holder[q] = Nobody} :
          /\ \A q \in 1 .. p - 1 : \E c \in Daemons : pid[c] = q
          /\ pid' = [pid EXCEPT ![d] = p]
          /\ holder' = [holder EXCEPT ![p] = d]
    /\ main' = [main EXCEPT ![d] = "booting"]
    /\ starter' = [starter EXCEPT ![d] = by]
    /\ UNCHANGED <<closing, termed, kills, hands, files, socket, ready, stopper>>

(* The process of d is no more; whatever files name it stay.                *)
Ends(d) ==
    /\ main' = [main EXCEPT ![d] = "gone"]
    /\ holder' = [holder EXCEPT ![pid[d]] = Nobody]
    /\ termed' = termed \ {d}
    /\ UNCHANGED pid

(* acquireProjectStartLocks: first the folder's lock, then the project's.   *)
(* A lock file that is not there is created, one that is there is read.     *)
Readers(place) == {c \in Daemons : main[c] = place}

CreateFolder(d) ==
    /\ main[d] = "booting" /\ folder = Nobody
    /\ main' = [main EXCEPT ![d] = "folder"]
    /\ folder' = d
    /\ overtaken' = overtaken \cup Readers("folderRead")
    /\ UNCHANGED <<closing, termed, pid, holder, kills, hand, lock, pidfile, socket,
                   ready, starter, stopper>>

ReadFolder(d) ==
    /\ main[d] = "booting" /\ folder # Nobody
    /\ main' = [main EXCEPT ![d] = "folderRead"]
    /\ hand' = [hand EXCEPT ![d] = folder]
    /\ UNCHANGED <<closing, termed, pid, holder, kills, overtaken, files, socket, ready,
                   starter, stopper>>

(* A process that runs refuses the start. Of one that is gone (which it     *)
(* stays) the file is removed, by its name, and the start tries again.      *)
TakeOverFolder(d) ==
    /\ main[d] = "folderRead"
    /\ hand' = [hand EXCEPT ![d] = Nobody]
    /\ IF Running(hand[d])
       THEN Ends(d) /\ UNCHANGED folder
       ELSE /\ main' = [main EXCEPT ![d] = "booting"] /\ folder' = Nobody
            /\ UNCHANGED <<termed, pid, holder>>
    /\ UNCHANGED <<closing, kills, overtaken, lock, pidfile, socket, ready, starter,
                   stopper>>

CreateLock(d) ==
    /\ main[d] = "folder" /\ lock = Nobody
    /\ main' = [main EXCEPT ![d] = "locked"]
    /\ lock' = d
    /\ overtaken' = overtaken \cup Readers("lockRead")
    /\ UNCHANGED <<closing, termed, pid, holder, kills, hand, folder, pidfile, socket,
                   ready, starter, stopper>>

ReadLock(d) ==
    /\ main[d] = "folder" /\ lock # Nobody
    /\ main' = [main EXCEPT ![d] = "lockRead"]
    /\ hand' = [hand EXCEPT ![d] = lock]
    /\ UNCHANGED <<closing, termed, pid, holder, kills, overtaken, files, socket, ready,
                   starter, stopper>>

(* A start that the second lock refuses gives the first one back.           *)
TakeOverLock(d) ==
    /\ main[d] = "lockRead"
    /\ hand' = [hand EXCEPT ![d] = Nobody]
    /\ IF Running(hand[d])
       THEN /\ folder' = IF folder = d THEN Nobody ELSE folder
            /\ Ends(d) /\ UNCHANGED lock
       ELSE /\ main' = [main EXCEPT ![d] = "folder"] /\ lock' = Nobody
            /\ UNCHANGED <<folder, termed, pid, holder>>
    /\ UNCHANGED <<closing, kills, overtaken, pidfile, socket, ready, starter, stopper>>

(* A heartbeat finds no lock file, or another's record in it: the process   *)
(* sends itself a SIGTERM.                                                  *)
LoseLease(d) ==
    /\ Live(d) /\ closing[d] = "no" /\ d \notin termed
    /\ \/ main[d] \notin {"booting", "folderRead"} /\ folder # d
       \/ main[d] \in {"locked", "swept", "listening", "up"} /\ lock # d
    /\ termed' = termed \cup {d}
    /\ UNCHANGED <<main, closing, pid, holder, kills, hands, files, socket, ready,
                   starter, stopper>>

(* startExpectedStopServer: whatever socket is there goes, then it listens; *)
(* or it fails, and the daemon does without.                                *)
Sweep(d) ==
    /\ main[d] = "locked"
    /\ \/ main' = [main EXCEPT ![d] = "swept"] /\ socket' = Nobody
       \/ main' = [main EXCEPT ![d] = "listening"] /\ UNCHANGED socket
    /\ UNCHANGED <<closing, termed, kills, pid, holder, hands, files, ready,
                   starter, stopper>>

Listen(d) ==
    /\ main[d] = "swept"
    /\ main' = [main EXCEPT ![d] = "listening"]
    /\ socket' = d
    /\ UNCHANGED <<closing, termed, kills, pid, holder, hands, files, ready,
                   starter, stopper>>

(* The HTTP server is up, and the command that waits for it is told.        *)
GetReady(d) ==
    /\ main[d] = "listening"
    /\ main' = [main EXCEPT ![d] = "up"]
    /\ ready' = IF starter[d] = "foreground" THEN ready ELSE ready \cup {d}
    /\ UNCHANGED <<closing, termed, kills, pid, holder, hands, files, socket,
                   starter, stopper>>

Unbound(d) == IF socket = d THEN Nobody ELSE socket

(* SIGTERM ends a process that has not installed its handlers yet; later it *)
(* starts the shutdown, once, which closes the socket if it is there. A     *)
(* service that fails by itself shuts down the same way.                    *)
Terminate(d) ==
    /\ Live(d)
    /\ \/ d \in termed
       \/ main[d] = "up" /\ closing[d] = "no"
    /\ IF main[d] \in {"booting", "folderRead", "folder", "lockRead"}
       THEN Ends(d) /\ UNCHANGED <<closing, socket>>
       ELSE /\ termed' = termed \ {d}
            /\ IF closing[d] = "no"
               THEN /\ closing' = [closing EXCEPT ![d] = "draining"]
                    /\ socket' = Unbound(d)
               ELSE UNCHANGED <<closing, socket>>
            /\ UNCHANGED <<main, pid, holder>>
    /\ UNCHANGED <<kills, hands, files, ready, starter, stopper>>

(* A start that went on under its own shutdown closes what it has opened.   *)
Cease(d) ==
    /\ main[d] = "up" /\ closing[d] # "no" /\ socket = d
    /\ socket' = Nobody
    /\ UNCHANGED <<procs, files, ready, starter, stopper>>

(* shutdownForegroundOrchestrator: workers, servers, locks, exit.           *)
Unlock(d) ==
    /\ closing[d] = "draining" /\ Live(d)
    /\ closing' = [closing EXCEPT ![d] = "half"]
    /\ lock' = IF lock = d THEN Nobody ELSE lock
    /\ UNCHANGED <<main, termed, pid, holder, kills, hands, folder, pidfile,
                   socket, ready, starter, stopper>>

UnlockFolder(d) ==
    /\ closing[d] = "half" /\ Live(d)
    /\ closing' = [closing EXCEPT ![d] = "done"]
    /\ folder' = IF folder = d THEN Nobody ELSE folder
    /\ UNCHANGED <<main, termed, pid, holder, kills, hands, lock, pidfile,
                   socket, ready, starter, stopper>>

Leave(d) ==
    /\ closing[d] = "done" /\ Live(d)
    /\ Ends(d)
    /\ UNCHANGED <<closing, kills, hands, files, socket, ready, starter, stopper>>

Die(d) ==
    /\ Live(d) /\ kills < MaxKills /\ kills' = kills + 1
    /\ Ends(d)
    /\ UNCHANGED <<closing, hands, files, socket, ready, starter, stopper>>

(* Any other process may get a free pid, and end.                           *)
Reuse(p) ==
    /\ holder[p] \notin Daemons /\ \E d \in Daemons : pid[d] = p
    /\ holder' = [holder EXCEPT ![p] = IF @ = Nobody THEN Stranger ELSE Nobody]
    /\ UNCHANGED <<main, closing, termed, pid, kills, hands, files, socket,
                   ready, starter, stopper>>
-----------------------------------------------------------------------------
(* startDaemon: the command waits for its child, then writes the pid file.  *)

Record(d) ==
    /\ starter[d] = "waiting" /\ d \in ready
    /\ starter' = [starter EXCEPT ![d] = "done"]
    /\ pidfile' = d /\ ready' = ready \ {d}
    /\ UNCHANGED <<procs, folder, lock, socket, stopper>>

(* Slip: the child is left to itself.                                       *)
GiveUpQuietly(d) ==
    /\ starter[d] = "waiting"
    /\ starter' = [starter EXCEPT ![d] = "failed"]
    /\ pidfile' = Nobody /\ ready' = ready \ {d}
    /\ UNCHANGED <<procs, folder, lock, socket, stopper>>

(* The child ended before it was ready, ten seconds have passed, or the pid *)
(* file cannot be written: whoever's pid file is there goes, and the child  *)
(* is told to stop.                                                         *)
GiveUp(d) ==
    /\ starter[d] = "waiting"
    /\ starter' = [starter EXCEPT ![d] = "failed"]
    /\ pidfile' = Nobody /\ ready' = ready \ {d}
    /\ termed' = termed \cup Reached(d)
    /\ UNCHANGED <<main, closing, pid, holder, kills, hands, folder, lock, socket,
                   stopper>>
-----------------------------------------------------------------------------
(* `project stop`.                                                          *)

Goes(s, pc, target, result) ==
    stopper' = [stopper EXCEPT ![s] =
                    [pc |-> pc, target |-> target, result |-> result]]

(* Slip: the pid file alone.                                                *)
LocatedByFile == IF Running(pidfile) THEN pidfile ELSE Nobody

(* resolveDaemonLiveness: the process the pid file names, or failing that   *)
(* the one that the project lock names.                                     *)
Located == IF Running(pidfile) THEN pidfile
           ELSE IF Running(lock) THEN lock ELSE Nobody

Locate(s) ==
    /\ stopper[s].pc = "idle"
    /\ IF Located # Nobody
       THEN Goes(s, "found", Located, "none")
       ELSE Goes(s, IF pidfile = Nobody THEN "done" ELSE "cleaning", Nobody,
                 "not_running")
    /\ UNCHANGED <<procs, files, socket, ready, starter>>

(* The identity is looked up once more, and the signal sent at once.        *)
Signal(s) ==
    /\ stopper[s].pc = "found"
    /\ LET hit == Reached(stopper[s].target) IN
          /\ termed' = termed \cup (hit \cap Daemons)
          /\ IF hit = {} THEN Goes(s, "done", stopper[s].target, "failed")
             ELSE Goes(s, "cleaning", stopper[s].target, "signalled")
    /\ UNCHANGED <<main, closing, pid, holder, kills, hands, files, socket, ready,
                   starter>>

(* The same with --force.                                                   *)
Kill(s) ==
    /\ stopper[s].pc = "found" /\ Running(stopper[s].target)
    /\ kills < MaxKills /\ kills' = kills + 1
    /\ Ends(stopper[s].target)
    /\ Goes(s, "cleaning", stopper[s].target, "killed")
    /\ UNCHANGED <<closing, hands, files, socket, ready, starter>>

(* The pid file goes, whomever it names by now.                             *)
CleanUp(s) ==
    /\ stopper[s].pc = "cleaning"
    /\ pidfile' = Nobody
    /\ Goes(s, "done", stopper[s].target, stopper[s].result)
    /\ UNCHANGED <<procs, folder, lock, socket, ready, starter>>
-----------------------------------------------------------------------------
(* The stop of an expected process d.                                       *)

Named == {pidfile, folder, lock} \ {Nobody}

(* Slip: a process that is gone has stopped, whatever it left.              *)
InspectedLeniently(d) ==
    CASE ~(Named \subseteq {d}) -> "superseded"
      [] Running(d) -> IF folder = d /\ lock = d THEN "verified"
                       ELSE "unverified"
      [] OTHER -> "already_stopped"

(* inspectExpectedStopTarget: every record there is must name the target;   *)
(* the target must run and hold both locks, or be gone and hold none. What  *)
(* ps or the file system does not answer proves nothing.                    *)
Inspected(d) ==
    CASE ~(Named \subseteq {d}) -> "superseded"
      [] Running(d) -> IF folder = d /\ lock = d THEN "verified"
                       ELSE "unverified"
      [] holder[pid[d]] # Nobody -> "superseded"
      [] OTHER -> IF folder = Nobody /\ lock = Nobody THEN "already_stopped"
                  ELSE "unverified"

Ask(s, d) ==
    /\ stopper[s].pc = "idle" /\ pid[d] # Nobody
    /\ \/ IF Inspected(d) = "verified" THEN Goes(s, "asking", d, "none")
          ELSE Goes(s, "done", d, Inspected(d))
       \/ Goes(s, "done", d, "unverified")
    /\ UNCHANGED <<procs, files, socket, ready, starter>>

(* Slip: the process behind the socket inspects itself.                     *)
JudgedForItself(d, host) == IF host = Nobody THEN "superseded" ELSE Inspected(host)

(* The process behind the socket asks itself whether it is the one that is  *)
(* meant, looks again, and signals itself.                                  *)
Judged(d, host) == IF host # d THEN "superseded" ELSE Inspected(d)

Answer(s) ==
    /\ stopper[s].pc = "asking"
    /\ LET d == stopper[s].target
           host == socket
       IN IF Live(host)
          THEN IF Judged(d, host) = "verified"
               THEN /\ termed' = termed \cup {host}
                    /\ Goes(s, "done", d, "signal_sent")
               ELSE Goes(s, "done", d, Judged(d, host)) /\ UNCHANGED termed
          ELSE Goes(s, "done", d, "unverified") /\ UNCHANGED termed
    /\ UNCHANGED <<main, closing, pid, holder, kills, hands, files, socket, ready,
                   starter>>

(* No answer in five seconds, or a connection that breaks.                  *)
NoAnswer(s) ==
    /\ stopper[s].pc = "asking"
    /\ Goes(s, "done", stopper[s].target, "unverified")
    /\ UNCHANGED <<procs, files, socket, ready, starter>>
-----------------------------------------------------------------------------
Startup(d) ==
    \/ CreateFolder(d) \/ ReadFolder(d) \/ TakeOverFolder(d)
    \/ CreateLock(d) \/ ReadLock(d) \/ TakeOverLock(d)
    \/ Sweep(d) \/ Listen(d) \/ GetReady(d)

OrchestratorStep(d) ==
    \/ Startup(d) \/ LoseLease(d)
    \/ Terminate(d) \/ Cease(d) \/ Unlock(d) \/ UnlockFolder(d)
    \/ Leave(d)

CommandStep(s) ==
    \/ Locate(s) \/ Signal(s) \/ Kill(s) \/ CleanUp(s) \/ Answer(s)
    \/ NoAnswer(s) \/ \E d \in Daemons : Ask(s, d)

Next ==
    \/ \E d \in Daemons :
          \/ Spawn(d, "waiting") \/ Spawn(d, "foreground")
          \/ OrchestratorStep(d) \/ Die(d)
          \/ Record(d) \/ GiveUp(d)
    \/ \E s \in Stoppers : CommandStep(s)
    \/ \E p \in Pids : Reuse(p)

Spec == Init /\ [][Next]_vars

(* Every process gets on with what it has begun; none has to be started, to *)
(* be killed, or to give up.                                                *)
FairSpec ==
    /\ Spec
    /\ \A d \in Daemons :
          /\ WF_vars(Startup(d))
          /\ WF_vars(Terminate(d) /\ d \in termed)
          /\ WF_vars(Unlock(d) \/ UnlockFolder(d) \/ Leave(d))
          /\ WF_vars(Record(d) \/ GiveUp(d))
    /\ \A s \in Stoppers :
          WF_vars(Signal(s) \/ CleanUp(s) \/ Answer(s) \/ NoAnswer(s))
-----------------------------------------------------------------------------
Who == Daemons \cup {Nobody}
Command == [pc : {"idle", "found", "cleaning", "asking", "done"}, target : Who,
            result : {"none", "not_running", "signalled", "killed", "failed",
                      "superseded", "unverified", "already_stopped",
                      "signal_sent"}]

TypeOK ==
    /\ main \in [Daemons -> MainSteps] /\ closing \in [Daemons -> ClosingSteps]
    /\ termed \subseteq Daemons /\ ready \subseteq Daemons /\ kills \in 0 .. MaxKills
    /\ pid \in [Daemons -> Pids \cup {Nobody}]
    /\ holder \in [Pids -> Who \cup {Stranger}]
    /\ folder \in Who /\ lock \in Who /\ pidfile \in Who /\ socket \in Who
    /\ starter \in [Daemons -> {"none", "foreground", "waiting", "done", "failed"}]
    /\ stopper \in [Stoppers -> Command]
    /\ hand \in [Daemons -> Who] /\ overtaken \subseteq Daemons

Serving(d) == main[d] \in {"locked", "swept", "listening", "up"}
              /\ closing[d] \notin {"half", "done"}

(* Starts refuse a duplicate, so a race between them cannot produce two     *)
(* orchestrators, and stale owners are reclaimed safely: the documents say  *)
(* so (packages/cli/README.md:479-484, the supervised lifecycle design).    *)
NeverTwoServe == \A c, d \in Daemons : Serving(c) /\ Serving(d) => c = d

(* Two orchestrators never serve one project: from its locks until the last *)
(* of them is given back a daemon is alone, whichever starts fail half-way  *)
(* and whichever daemons die with their locks. A start that takes a lock    *)
(* between another's reading of it and its removal ends that: its file is   *)
(* removed for the one that was read (lock.ts:113-145).                     *)
OneDaemonServes == overtaken = {} => NeverTwoServe

(* The stop of an expected process signals that process or none: not the    *)
(* daemon that has taken its place, its socket and perhaps its pid.         *)
ExpectedStopIsExact ==
    [][\A s \in Stoppers :
          stopper[s].pc = "asking" /\ stopper'[s].pc = "done"
             => termed' \subseteq termed \cup {stopper[s].target}]_vars

(* Who is told that the expected process had stopped already can start the  *)
(* next one: it is gone, and holds neither lock.                            *)
AlreadyStoppedIsTrue ==
    \A s \in Stoppers :
        stopper[s].result = "already_stopped"
            => main[stopper[s].target] = "gone"
               /\ stopper[s].target \notin {folder, lock}

(* `project stop` says that nothing runs only when nothing does: a daemon   *)
(* whose pid file another command has removed is still found by its lock,   *)
(* unless the lock's file was removed for another's.                        *)
StopFindsTheDaemon ==
    [][\A s \in Stoppers :
          stopper[s].pc = "idle" /\ stopper'[s].result = "not_running"
             => overtaken # {} \/ \A d \in Daemons : ~Serving(d)]_vars

(* A stop that was sent is carried out: the daemon ends, and what it held   *)
(* is not left to it.                                                       *)
StopsAreCarriedOut ==
    \A s \in Stoppers :
        stopper[s].result \in {"signalled", "signal_sent"} => main[stopper[s].target] = "gone"

(* `project start --daemon` comes to an end, and a child it gave up on does *)
(* too: no daemon goes on that its command has reported as failed.          *)
StartsAreSettled ==
    \A d \in Daemons :
        starter[d] # "waiting" /\ (starter[d] = "failed" => main[d] = "gone")

(* What a command has told the operator comes true in the end. (Neither a   *)
(* result nor an end is ever taken back.)                                   *)
Settled == StopsAreCarriedOut /\ StartsAreSettled
CommandsTakeEffect == []<>Settled
=============================================================================
