---------------------------- MODULE ProjectLoop ----------------------------
(***************************************************************************)
(* The loop of a daemon and the policy it ticks by: WORKFLOW.md is read    *)
(* again for every tick, an edit that does not parse or that the owner     *)
(* refuses leaves the last good one in force, the exporter's settings are  *)
(* frozen at the first usable one, and between ticks the daemon sleeps     *)
(* until its interval is over, a refresh is asked for, or it is stopped.   *)
(* (packages/orchestrator/src/service.ts, git.ts, exporter-environment.ts, *)
(* observability/lifecycle.ts, packages/core/src/workflow/loader.ts)       *)
(***************************************************************************)
EXTENDS Naturals, FiniteSets

CONSTANTS
    Names,          \* names of environment variables that hold a credential
    Nobody,         \* no name
    Nothing,        \* no file, no text, nothing cached
    Broken,         \* a text that does not parse
    MaxEdits,       \* edits of WORKFLOW.md and of the project's .env
    MaxRequests     \* refreshes asked for

LoopAssumption ==
    /\ Nobody \notin Names /\ Nothing # Broken
    /\ MaxEdits \in Nat /\ MaxRequests \in Nat

VARIABLES
    file,       \* WORKFLOW.md
    env,        \* names that .env and the process environment define
    parsed,     \* WorkflowConfigStore's cache: the last text that parsed
    good,       \* lastKnownGoodWorkflows: the text and its copy on disk
    saving,     \* a loaded text whose copy is being written
    policy,     \* what the load came to; cached for the length of a tick
    exporter,   \* telemetry: its state, the settings applied and those pending
    secrets,    \* telemetryCredentialNames
    loop,       \* where run() is
    running,
    requested,  \* reconcileRequested
    asked,      \* a refresh was asked for, and no tick has begun since
    used,       \* texts this tick has gone by
    given,      \* names the last worker was given, and the text it was started by
    edits, requests

loopVars == <<file, env, parsed, good, saving, policy, exporter, secrets, loop, running,
              requested, asked, used, given, edits, requests>>

(* A text names the exporter's credential and the agent's.                  *)
Texts == [exporter : Names \cup {Nobody}, agent : Names \cup {Nobody}]
Policies == [text : Texts \cup {Nothing}, valid : BOOLEAN, kept : BOOLEAN]
Settings == Names \cup {Nobody, Nothing}

TypeOK ==
    /\ file \in Texts \cup {Broken, Nothing} /\ env \subseteq Names
    /\ parsed \in Texts \cup {Nothing}
    /\ good \in {Nothing} \cup [text : Texts, copy : Texts \cup {Broken, Nothing}]
    /\ saving \in Policies \cup {Nothing} /\ policy \in Policies \cup {Nothing}
    /\ exporter \in [state : {"none", "deferred", "initialized", "failed"},
                     applied : Settings, pending : Settings]
    /\ secrets \subseteq Names
    /\ loop \in {"cleanup", "telemetry", "next", "tick", "work", "sleep", "ended", "crashed"}
    /\ running \in BOOLEAN /\ requested \in BOOLEAN /\ asked \in BOOLEAN
    /\ used \subseteq Texts
    /\ given \in [names : SUBSET Names, text : Texts \cup {Nothing}]
    /\ edits \in 0..MaxEdits /\ requests \in 0..MaxRequests

Init ==
    /\ file \in Texts \cup {Broken, Nothing} /\ env = Names
    /\ parsed = Nothing /\ good = Nothing /\ saving = Nothing /\ policy = Nothing
    /\ exporter = [state |-> "none", applied |-> Nothing, pending |-> Nothing]
    /\ secrets = {} /\ loop = "cleanup" /\ running = TRUE
    /\ requested = FALSE /\ asked = FALSE /\ used = {}
    /\ given = [names |-> {}, text |-> Nothing]
    /\ edits = 0 /\ requests = 0

outside == <<file, env, edits, requests>>
orders == <<running, requested, asked, requests>>

-----------------------------------------------------------------------------
(* Loading.                                                                 *)

(* resolveOtlpConfiguration: the credential is there.                       *)
Resolves(text) == text.exporter \in env \cup {Nobody}

(* validateExporterCredentialNames: no name is the exporter's, now or of an *)
(* earlier text, and the agent's as well.                                   *)
Conflicts(text, retained) ==
    text.agent # Nobody /\ text.agent \in retained \cup {text.exporter}
Accepted(text) == ~Conflicts(text, secrets) /\ Resolves(text)

Policy(text, valid, kept) == [text |-> text, valid |-> valid, kept |-> kept]

(* WorkflowConfigStore.load, then the owner's validation of what it calls   *)
(* valid.                                                                   *)
Loaded ==
    IF file \in Texts THEN Policy(file, Accepted(file), FALSE)
    ELSE IF file = Broken /\ parsed # Nothing THEN Policy(parsed, FALSE, TRUE)
    ELSE Policy(Nothing, FALSE, FALSE)

(* resolveWorkflowResolution of a load that is not valid.                   *)
FallBack(loaded) ==
    IF good # Nothing THEN Policy(good.text, FALSE, TRUE) ELSE loaded

Usable(p) == p.valid \/ p.kept

(* reload: what differs from the applied settings waits for a restart.      *)
Pending(name) == IF name = exporter.applied THEN Nothing ELSE name

Load ==
    /\ loop \in {"cleanup", "telemetry", "tick"} /\ policy = Nothing /\ saving = Nothing
    /\ parsed' = IF file \in Texts THEN file ELSE parsed
    /\ IF Loaded.valid
       THEN /\ saving' = Loaded
            /\ secrets' = secrets \cup ({file.exporter} \ {Nobody})
            /\ exporter' = IF exporter.state = "initialized"
                           THEN [exporter EXCEPT !.pending = Pending(file.exporter)]
                           ELSE exporter
            /\ UNCHANGED policy
       ELSE /\ policy' = FallBack(Loaded)
            /\ UNCHANGED <<saving, secrets, exporter>>
    /\ UNCHANGED <<outside, good, loop, running, requested, asked, used, given>>

(* persistLastKnownGoodWorkflow reads the file once more; without a copy    *)
(* the path stays the file's own.                                           *)
Persist ==
    /\ saving # Nothing
    /\ good' = [text |-> saving.text, copy |-> file]
    /\ policy' = saving /\ saving' = Nothing
    /\ UNCHANGED <<outside, parsed, exporter, secrets, loop, running, requested, asked, used,
                   given>>

-----------------------------------------------------------------------------
(* run().                                                                   *)

(* Startup cleanup loads by a cache of its own, and swallows what fails.    *)
Cleanup ==
    /\ loop = "cleanup" /\ policy # Nothing
    /\ loop' = "telemetry" /\ policy' = Nothing
    /\ UNCHANGED <<outside, parsed, good, saving, exporter, secrets, running, requested, asked,
                   used, given>>

(* initializeTelemetry: put off while no text is usable, otherwise done     *)
(* once, well or badly.                                                     *)
Initialize(fails) ==
    IF exporter.state \in {"initialized", "failed"}
    THEN UNCHANGED <<exporter, secrets>>
    ELSE IF ~Usable(policy)
    THEN exporter' = [exporter EXCEPT !.state = "deferred"] /\ UNCHANGED secrets
    ELSE IF ~Resolves(policy.text)
    THEN exporter' = [exporter EXCEPT !.state = "failed"] /\ UNCHANGED secrets
    ELSE /\ secrets' = secrets \cup ({policy.text.exporter} \ {Nobody})
         /\ exporter' = [state |-> IF fails THEN "failed" ELSE "initialized",
                         applied |-> policy.text.exporter, pending |-> Nothing]

(* A failure of the exporter's construction ends run() with an error.       *)
Telemetry ==
    /\ loop \in {"telemetry", "tick"} /\ policy # Nothing
    /\ \E fails \in BOOLEAN :
          /\ fails => Usable(policy) /\ policy.text.exporter # Nobody
          /\ Initialize(fails)
    /\ loop' = IF exporter'.state = "failed" THEN "crashed"
               ELSE IF loop = "tick" THEN "work"
               ELSE IF running THEN "next" ELSE "ended"
    /\ policy' = IF loop' = "work" THEN policy ELSE Nothing
    /\ UNCHANGED <<outside, parsed, good, saving, running, requested, asked, used, given>>

StartTick ==
    /\ loop = "next"
    /\ loop' = "tick" /\ used' = {} /\ asked' = FALSE
    /\ UNCHANGED <<outside, parsed, good, saving, policy, exporter, secrets, running, requested,
                   given>>

(* loadProjectWorkflow, of which a tick makes many calls.                   *)
Cached == policy

(* A step of the tick that goes by the policy.                              *)
Consult ==
    /\ loop = "work" /\ Usable(policy) /\ Usable(Cached)
    /\ used' = used \cup {Cached.text}
    /\ UNCHANGED <<outside, parsed, good, saving, policy, exporter, secrets, loop, running,
                   requested, asked, given>>

(* Slip: only the text's own credential is withheld.                        *)
StrippedOfItsOwn(names, text) == names \ {text.exporter}

(* A worker is started: its environment has the agent's credential, without *)
(* the names that are an exporter's.                                        *)
Stripped(names, text) == names \ (secrets \cup {text.exporter})

StartWorker ==
    /\ loop = "work" /\ Usable(policy)
    /\ ~Conflicts(Cached.text, {}) /\ Resolves(Cached.text)
    /\ given' = [names |-> Stripped(env, Cached.text), text |-> Cached.text]
    /\ used' = used \cup {Cached.text}
    /\ UNCHANGED <<outside, parsed, good, saving, policy, exporter, secrets, loop, running,
                   requested, asked>>

(* The tick is over: a refresh asked for meanwhile is due at once.          *)
WaitForNextPoll ==
    IF ~running THEN loop' = "ended" /\ UNCHANGED requested
    ELSE IF requested THEN loop' = "next" /\ requested' = FALSE
    ELSE loop' = "sleep" /\ UNCHANGED requested

EndTick ==
    /\ loop = "work"
    /\ policy' = Nothing
    /\ WaitForNextPoll
    /\ UNCHANGED <<outside, parsed, good, saving, exporter, secrets, running, asked, used, given>>

Resume ==
    /\ loop' = IF running THEN "next" ELSE "ended"
    /\ requested' = FALSE
    /\ UNCHANGED <<outside, parsed, good, saving, policy, exporter, secrets, running, asked, used,
                   given>>

IntervalEnds == loop = "sleep" /\ Resume
Wake == loop = "sleep" /\ (requested \/ ~running) /\ Resume

-----------------------------------------------------------------------------
(* Outside.                                                                 *)

RequestReconcile ==
    /\ requests < MaxRequests /\ running /\ loop \notin {"ended", "crashed"}
    /\ requests' = requests + 1 /\ requested' = TRUE /\ asked' = TRUE
    /\ UNCHANGED <<file, env, parsed, good, saving, policy, exporter, secrets, loop, running, used,
                   given, edits>>

Shutdown ==
    /\ running /\ loop \notin {"ended", "crashed"}
    /\ running' = FALSE
    /\ UNCHANGED <<outside, parsed, good, saving, policy, exporter, secrets, loop, requested,
                   asked, used, given>>

Edit ==
    /\ edits < MaxEdits /\ edits' = edits + 1
    /\ loop \notin {"ended", "crashed"}
    /\ \/ /\ file' \in (Texts \cup {Broken, Nothing}) \ {file} /\ UNCHANGED env
       \/ /\ \E n \in Names : env' = IF n \in env THEN env \ {n} ELSE env \cup {n}
          /\ UNCHANGED file
    /\ UNCHANGED <<requests, parsed, good, saving, policy, exporter, secrets, loop, running,
                   requested, asked, used, given>>

Daemon ==
    \/ Load \/ Persist \/ Cleanup \/ Telemetry
    \/ StartTick \/ EndTick \/ Wake

Next ==
    \/ Daemon \/ Consult \/ StartWorker \/ IntervalEnds
    \/ RequestReconcile \/ Shutdown \/ Edit

(* The daemon's own steps are taken; the interval may be as long as it      *)
(* likes.                                                                   *)
LoopFairness == WF_loopVars(Daemon)

Spec == Init /\ [][Next]_loopVars /\ LoopFairness

-----------------------------------------------------------------------------
(* A tick goes by one text, whatever happens to the file meanwhile.         *)
OneWorkflowPerTick == Cardinality(used) <= 1

(* No worker is given a credential of an exporter: of the one that runs, or *)
(* of the one its own text names.                                           *)
ExporterSecretsStayOut ==
    [][given' # given => {exporter'.applied, given'.text.exporter} \cap given'.names = {}]_loopVars

(* The applied settings do not change while the daemon lives, and after a   *)
(* valid load "restart required" says whether the text asks for others.     *)
AppliedStays ==
    [][exporter.state = "initialized" => exporter'.applied = exporter.applied]_loopVars
PendingIsTrue ==
    saving # Nothing /\ exporter.state = "initialized" =>
        (exporter.pending # Nothing <=> saving.text.exporter # exporter.applied)

(* A refresh is followed by a tick that begins after it, and a stop by the  *)
(* end, without waiting for the interval. (No stop is ever taken back.)     *)
RefreshIsMade == asked /\ running => loop = "crashed"
StopIsMade == ~running => loop \in {"ended", "crashed"}

ReloadsHold ==
    /\ [](OneWorkflowPerTick /\ PendingIsTrue)
    /\ ExporterSecretsStayOut /\ AppliedStays

Answered == RefreshIsMade /\ StopIsMade
LoopAnswers == []<>Answered

(* symphony-spec.md:577 "Invalid reloads MUST NOT crash the service": does  *)
(* not hold.  A text that parses and is refused stays in the loader's       *)
(* cache, and is taken for the last good one when the next does not parse.  *)
InvalidReloadsDoNotCrash ==
    [][loop = "tick" /\ loop' = "crashed" => policy.valid]_loopVars

(* Does not hold either: the copy is made of what the file holds by then.   *)
CopyIsTheText == good # Nothing => good.copy = good.text
=============================================================================
