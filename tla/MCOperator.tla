----------------------------- MODULE MCOperator -----------------------------
(***************************************************************************)
(* What people and trackers do around the service, model-checked part by   *)
(* part: the budget that a token's requests share; polls of a board that   *)
(* is edited; the WORKFLOW.md files that wizards write and users edit; the *)
(* wizards that fill a folder; `doctor` and what it repairs; the check     *)
(* that two projects do not share issues; the foreground command up to its *)
(* exit; and the starts an agent asks the service manager for.  A          *)
(* behaviour is a behaviour of one part; the others rest.  All of it is    *)
(* safety: no part needs fairness.                                         *)
(***************************************************************************)
EXTENDS RateLimits, TLC

CONSTANTS
    MaxIssues, Adapters, Dependent, Blocker, Urgent, StateLimit, MaxEdits, MaxUpsets,  \* TrackerPoll
    MaxRewrites,                                    \* WorkflowFile
    MaxWizards, MaxWizardEdits, MaxWizardDeaths,    \* SetupFiles
    MaxDoctors, MaxChanges,                         \* Doctor
    Projects, MaxStarts, MaxAtOnce, MaxMishaps,     \* ProjectConfig
    MaxWorkers, MaxTicks, MaxSignals,               \* Foreground
    MaxLaunches, MaxHalts                           \* ProjectLaunch

VARIABLES
    part,
    adapter, slots, board, order, runs, spaces, at, p, steady, shuffled, edits, upsets,
    meant, origin, lines, template, rewrites, checked, dispatched,
    account, tree, beside, legacy, wizard, yours, taken, wizards, wedits, wdeaths,
    machine, cmd, first, report, todo, steps, exit, seen, disturbed, doctors, changes,
    workflow, saved, naming, daemon, start, collided, overtaken, remapped, deaths, blind,
    options, stage, held, listens, workerServer, webServer, ready, loop, placing, worker, shut,
    caught, code, unlocked, ticks, signals,
    native, member, up, launch, unit, ended, halts

-----------------------------------------------------------------------------
(* What the parts are tried on.                                             *)

(* Names of every shape, and what they may stand for in a WORKFLOW.md.      *)
TheShape ==
    [n \in {"Todo", "Done", "Status", "github-project", "linear", "project-field", "labels",
            "disabled", "board", "codex-app-server", "codex"} |-> "word"]
    @@ ("true" :> "typed") @@ ("1" :> "int") @@ ("x #1" :> "comment") @@ ("p:high" :> "colon")
    @@ ("a: b" :> "colonspace") @@ ("[x]" :> "list") @@ ("$KEY" :> "env") @@ ("$Todo" :> "env")

Odd == {"Todo", "true", "1", "x #1", "p:high", "a: b", "[x]", "$Todo"}
Unranked(source) == [source |-> source, field |-> "", values |-> <<>>]
Ranked(field, name) ==
    [source |-> IF field = "" THEN "labels" ELSE "project-field", field |-> field, values |-> <<name>>]
PolicyOf(name, done, priority) ==
    [kind |-> "github-project", field |-> name, active |-> <<name>>, terminal |-> <<"Done", done>>,
     blockers |-> <<name>>, planning |-> <<>>, priority |-> priority]
ThePolicies ==
    {PolicyOf(n, "Done", Ranked("", n)) : n \in Odd} \cup {PolicyOf("Todo", n, Ranked(n, n)) : n \in Odd}
    \cup {[PolicyOf("Todo", "Done", Unranked("disabled")) EXCEPT !.blockers = b, !.planning = b] :
             b \in {<<>>, <<"Done", "Todo">>}}
    \cup {[PolicyOf("Todo", "Done", Unranked("none")) EXCEPT !.kind = "linear"]}
APolicy == PolicyOf("Todo", "Done", Ranked("", "Todo"))

(* Policies that pick up one label or the other, or one without the other.  *)
Picks(include, exclude) ==
    [bound |-> "board", states |-> {}, include |-> include, exclude |-> exclude]
TheMappings == {Picks({"a"}, {}), Picks({"b"}, {"a"}), Picks({"b"}, {})}
FirstProject == CHOOSE project \in Projects : TRUE

(* An account with one board and every login, and one without the scopes,   *)
(* with boards to choose from and a field for priorities.                   *)
TheAccount(all, boards, priority) ==
    [auth |-> TRUE, gh |-> all, claude |-> all, boards |-> boards, status |-> TRUE,
     named |-> {"active", "terminal"}, many |-> FALSE, priority |-> priority, labels |-> FALSE]
TheAccounts == {TheAccount(TRUE, 1, "none"), TheAccount(FALSE, 2, "one")}

(* A sound machine, one whose WORKFLOW.md is in the folder, one on Linear   *)
(* and one on an enterprise host; each with one thing spoilt.               *)
Sound ==
    [node |-> TRUE, git |-> TRUE, gh |-> "there",
     logins |-> [h \in {"com", "ghe"} |-> IF h = "com" THEN "good" ELSE "out"],
     env |-> "none", dotenv |-> "none", kind |-> "github-project", apiUrl |-> "none",
     envUrl |-> "none", binding |-> "there", slug |-> "there", key |-> "none",
     dirs |-> [d \in {"config_directory", "runtime_root", "workspace_root"} |-> "ok"],
     policy |-> "ok", local |-> "missing", inFolder |-> FALSE, hooks |-> TRUE, trusted |-> TRUE,
     otlp |-> "off", copy |-> TRUE, runtime |-> "ready", priority |-> "off",
     issue |-> "renders", linked |-> TRUE]
OnFolder == [Sound EXCEPT !.inFolder = TRUE, !.local = "ok"]
OnLinear == [Sound EXCEPT !.kind = "linear", !.key = "process", !.gh = "none", !.env = "com"]
OnEnterprise == [Sound EXCEPT !.apiUrl = "ghe", !.env = "ghe"]

Spoilt(m) ==
    {[m EXCEPT !.gh = g] : g \in {"none", "broken"}}
    \cup {[m EXCEPT !.logins["com"] = l] : l \in {"out", "narrow", "locked"}}
    \cup {[m EXCEPT !.env = e] : e \in {"bad", "com"}}
    \cup {[m EXCEPT !.binding = b] : b \in {"none", "gone"}}
    \cup {[m EXCEPT !.slug = b] : b \in {"none", "stateless", "gone"}}
    \cup {[m EXCEPT !.key = b] : b \in {"none", "dotenv"}}
    \cup {[m EXCEPT !.dirs[d] = v] : d \in {"config_directory", "workspace_root"},
                                     v \in {"missing", "file", "locked", "hidden"}}
    \cup {[m EXCEPT !.policy = v, !.local = IF m.inFolder THEN v ELSE @] :
             v \in {"missing", "invalid", "deprecated"}}
    \cup {[m EXCEPT !.runtime = r] : r \in {"absent", "unready"}}
    \cup {[m EXCEPT !.issue = r] : r \in {"none", "unreadable", "written"}}
    \cup {[m EXCEPT !.otlp = o] : o \in {"deaf", "invalid"}}
    \cup {[m EXCEPT !.dotenv = "bad"], [m EXCEPT !.kind = "missing"], [m EXCEPT !.node = FALSE],
          [m EXCEPT !.git = FALSE], [m EXCEPT !.hooks = FALSE], [m EXCEPT !.trusted = FALSE],
          [m EXCEPT !.copy = FALSE], [m EXCEPT !.priority = "drifted"], [m EXCEPT !.linked = FALSE]}

TheMachines == {Sound, OnFolder, OnLinear, OnEnterprise} \cup Spoilt(Sound)
    \cup {[m EXCEPT !.logins["com"] = "out"] : m \in Spoilt([OnFolder EXCEPT !.kind = "missing"])}

-----------------------------------------------------------------------------
Board == INSTANCE TrackerPoll
Policy == INSTANCE WorkflowFile WITH Shape <- TheShape, Env <- {"$KEY"}, Policies <- ThePolicies,
    Templates <- {{"blockers"}, {"nonsense"}}, Issues <- {{"number"}, {"number", "blockers"}},
    Sample <- {"number", "blockers"}, MaxEdits <- MaxRewrites, edits <- rewrites,
    run <- dispatched
Setup == INSTANCE SetupFiles WITH Wizards <- {"terminal"}, Accounts <- TheAccounts,
    MaxRuns <- MaxWizards, MaxEdits <- MaxWizardEdits, MaxDeaths <- MaxWizardDeaths,
    files <- tree, runs <- wizards, edits <- wedits, deaths <- wdeaths
NoDoctor == INSTANCE Doctor WITH Machines <- TheMachines, Commands <- {}, MaxRuns <- MaxDoctors,
    runs <- doctors
TheCommands ==
    {[NoDoctor!Idle EXCEPT !.fix = TRUE, !.tty = TRUE],
     [NoDoctor!Idle EXCEPT !.fix = TRUE, !.json = TRUE],
     [NoDoctor!Idle EXCEPT !.bundle = TRUE], [NoDoctor!Idle EXCEPT !.bundle = TRUE, !.fix = TRUE],
     [NoDoctor!Idle EXCEPT !.smoke = TRUE], [NoDoctor!Idle EXCEPT !.smoke = TRUE, !.named = TRUE]}
Doctors == INSTANCE Doctor WITH Machines <- TheMachines, Commands <- TheCommands,
    MaxRuns <- MaxDoctors, runs <- doctors
Configs == INSTANCE ProjectConfig WITH Labels <- {"a", "b"}, States <- {"s"},
    Mappings <- TheMappings,
    lock <- naming, edits <- remapped
Foregrounds == INSTANCE Foreground WITH at <- stage, socket <- listens
Launch == INSTANCE ProjectLaunch WITH MaxStops <- MaxHalts, stops <- halts

ASSUME OperatorAssumption ==
    /\ RateLimitsAssumption /\ Board!PollAssumption
    /\ Policy!WorkflowFileAssumption /\ Setup!SetupFilesAssumption
    /\ Configs!ConfigAssumption /\ Foregrounds!ForegroundAssumption /\ Launch!LaunchAssumption

pollVars == <<adapter, slots, board, order, runs, spaces, at, p, steady, shuffled, edits, upsets>>
policyVars == <<meant, origin, lines, template, rewrites, checked, dispatched>>
wizardVars == <<account, tree, beside, legacy, wizard, yours, taken, wizards, wedits, wdeaths>>
doctorVars == <<machine, cmd, first, report, todo, steps, exit, seen, disturbed, doctors, changes>>
configVars == <<workflow, saved, naming, daemon, start, collided, overtaken, remapped, deaths,
                blind>>
frontVars == <<options, stage, held, listens, workerServer, webServer, ready, loop, placing, worker,
               shut, caught, code, unlocked, ticks, signals>>
launchVars == <<native, member, up, launch, unit, ended, halts>>
sideVars == <<part, limitVars, pollVars, policyVars, wizardVars, doctorVars, configVars, frontVars,
              launchVars>>

Parts == {"limits", "poll", "policy", "wizards", "doctor", "configs", "front", "launch"}

(* The parts that rest do so in one state each.                             *)
SideInit ==
    /\ part \in Parts
    /\ Init
    /\ Board!Init
    /\ part # "poll" => adapter = "github" /\ slots = 1
    /\ Launch!Init
    /\ part # "launch" => native /\ member
    /\ Configs!Init
    /\ workflow = [project \in Projects |->
                      IF part = "configs" /\ project # FirstProject THEN Picks({"b"}, {})
                      ELSE Picks({"a"}, {})]
    /\ Foregrounds!Init
    /\ part # "front" => ~options.once /\ ~options.web /\ ~options.http
    /\ Doctors!Init
    /\ part # "doctor" => machine = Sound
    /\ Setup!Init
    /\ part # "wizards" => /\ account = TheAccount(TRUE, 1, "none") /\ legacy = {}
                           /\ \A f \in Setup!FileSet : tree[f] = Setup!Absent
    /\ IF part = "policy" THEN TRUE ELSE meant = APolicy /\ template = {"blockers"} /\ origin = "wizard"
    /\ Policy!Init

SideNext ==
    /\ UNCHANGED part
    /\ \/ part = "limits" /\ Next
       \/ part = "poll" /\ Board!Next
       \/ part = "policy" /\ Policy!Next
       \/ part = "wizards" /\ Setup!Next
       \/ part = "doctor" /\ Doctors!Next
       \/ part = "configs" /\ Configs!Next
       \/ part = "front" /\ Foregrounds!Next
       \/ part = "launch" /\ Launch!Next
    /\ part # "limits" => UNCHANGED limitVars
    /\ part # "poll" => UNCHANGED pollVars
    /\ part # "policy" => UNCHANGED policyVars
    /\ part # "wizards" => UNCHANGED wizardVars
    /\ part # "doctor" => UNCHANGED doctorVars
    /\ part # "configs" => UNCHANGED configVars
    /\ part # "front" => UNCHANGED frontVars
    /\ part # "launch" => UNCHANGED launchVars

SideSpec == SideInit /\ [][SideNext]_sideVars

-----------------------------------------------------------------------------
(* The properties of the parts, as their modules state them; that of the    *)
(* budget is RateLimits's own.                                              *)

(* What a poll starts, stops and counts is right whatever happens to the    *)
(* board between its pages.                                                 *)
PollsAreSound == Board!PollsAreSound

(* A WORKFLOW.md means to the runs what its writer meant; a wizard takes    *)
(* nothing of its user's; what doctor says is so; two projects that a start *)
(* has checked do not share an issue; an agent is given turns by a process  *)
(* that holds the project's locks; and a start that the agent reports       *)
(* stands.                                                                  *)
StartsAreSound ==
    /\ part = "policy" => Policy!FilesAreUnderstood
    /\ part = "wizards" => Setup!FoldersHold
    /\ part = "doctor" => Doctors!DoctorHolds
    /\ part = "configs" => Configs!ProjectsAreApart
    /\ part = "front" => Foregrounds!ForegroundHolds
    /\ part = "launch" => Launch!StartsStand
=============================================================================
