------------------------------- MODULE Doctor -------------------------------
(***************************************************************************)
(* `gh-symphony doctor`: the report it builds out of what the machine has, *)
(* the remedies `--fix` tries for the failed checks of that report, the    *)
(* second report it closes with, the support bundle, and the preflight of  *)
(* `project start` the report is read for.  While a remedy waits for its   *)
(* user the machine may change, so every remedy works from a report that   *)
(* may be out of date.                                                     *)
(***************************************************************************)
EXTENDS Integers, Sequences, FiniteSets, SequencesExt

CONSTANTS Machines,     \* the machines a first doctor may be run on
          Commands,     \* the command lines tried
          MaxRuns,      \* bound: doctors run
          MaxChanges    \* bound: changes of the machine by anybody else

VARIABLES
  machine,    \* what the host, the accounts and the project have
  cmd,        \* the command line being served, with how far it is
  first,      \* the report it opened with
  report,     \* the report it has now
  todo,       \* the failed checks the remedies have not come to
  steps,      \* the remedies so far
  exit,       \* the exit code of the last doctor, or Unset
  seen,       \* the machine the report was made of
  disturbed,  \* whether anybody else changed the machine during the command
  runs, changes

vars == <<machine, cmd, first, report, todo, steps, exit, seen, disturbed,
          runs, changes>>

Hosts == {"com", "ghe"}
Dirs == <<"config_directory", "runtime_root", "workspace_root">>
Unset == -1

-----------------------------------------------------------------------------
(* GitHub: where the tracker is, and who we are there.                      *)

Resolved(m) == m.kind # "missing"

\* The endpoint of the project, of the environment, or the public one; a
\* Linear project, or none, leaves the clients on the public one.
Endpoint(m) ==
  CASE m.kind \in {"missing", "linear"} -> "com"
    [] m.apiUrl # "none" -> m.apiUrl
    [] m.envUrl # "none" -> m.envUrl
    [] OTHER -> "com"

EndpointCheck(m) ==
  CASE m.kind \in {"missing", "linear"} -> <<>>
    [] m.apiUrl # "none" /\ m.envUrl # "none" /\ m.apiUrl # m.envUrl ->
         <<[id |-> "github_graphql_endpoint", status |-> "warn", why |-> ""]>>
    [] OTHER -> <<[id |-> "github_graphql_endpoint", status |-> "pass", why |-> ""]>>

\* A login of the gh CLI is not there, has too few scopes, cannot be read
\* from its keyring, or is good.
GhScopesValid(m, h) == m.logins[h] \in {"locked", "good"}
GhToken(m, h) == m.gh = "there" /\ m.logins[h] = "good"

\* A token in the environment is good at one host.
ValidToken(token, h) == token = h

\* A slip: a token in the environment is taken for one that is good.
TrustsTheToken(m) ==
  CASE m.env # "none" -> "env"
    [] GhToken(m, Endpoint(m)) -> "gh"
    [] OTHER -> "none"

DoctorAuth(m) ==
  LET h == Endpoint(m) IN
  CASE ValidToken(m.env, h) -> "env"
    [] m.gh = "there" /\ GhScopesValid(m, h) /\ GhToken(m, h) -> "gh"
    [] OTHER -> "none"

\* What `project start` resolves, which is told of no endpoint.
StartAuth(m) ==
  CASE ValidToken(m.env, "com") -> "env"
    [] m.gh = "there" /\ GhScopesValid(m, "com") /\ GhToken(m, "com") -> "gh"
    [] OTHER -> "none"

-----------------------------------------------------------------------------
(* The checks, each a sequence: one that does not apply is absent.          *)

Check(id, status, why) == <<[id |-> id, status |-> status, why |-> why]>>
Pass(id) == Check(id, "pass", "")
Fail(id, why) == Check(id, "fail", why)
Judge(id, good, why) == IF good THEN Pass(id) ELSE Fail(id, why)

GhInstallation(m) ==
  Judge("gh_installation", m.gh = "there" \/ m.env # "none", "")

ManagedProject(m) == Judge("managed_project", Resolved(m), "")

Authentication(m) == Judge("gh_authentication", DoctorAuth(m) # "none", "")
Scopes(m) == Judge("gh_scopes", DoctorAuth(m) # "none", "")

Linear(m) ==
  LET id == "linear_tracker_resolution" IN
  CASE m.slug = "none" -> Fail(id, "missing_project_slug")
    [] m.slug = "stateless" -> Fail(id, "missing_active_states")
    [] m.key = "none" -> Fail(id, "missing_token")
    [] m.slug = "gone" -> Fail(id, "api_error")
    [] OTHER -> Pass(id)

GitHub(m) ==
  LET id == "github_project_resolution" IN
  CASE Resolved(m) /\ DoctorAuth(m) = "none" -> Fail(id, "")
    [] Resolved(m) /\ m.binding = "none" -> Fail(id, "missing_binding")
    [] Resolved(m) /\ m.binding = "gone" -> Fail(id, "api_error")
    [] Resolved(m) -> Pass(id)
    [] OTHER -> Fail(id, "selection_failed")

TrackerCheck(m) == IF m.kind = "linear" THEN Linear(m) ELSE GitHub(m)

PathCheck(id, state) ==
  CASE state = "ok" -> Pass(id)
    [] state = "file" -> Fail(id, "not_directory")
    [] state = "missing" -> Fail(id, "missing")
    [] OTHER -> Fail(id, "not_writable")

DirChecks(m) ==
  PathCheck(Dirs[1], m.dirs[Dirs[1]]) \o PathCheck(Dirs[2], m.dirs[Dirs[2]])
    \o IF Resolved(m) THEN PathCheck(Dirs[3], m.dirs[Dirs[3]])
                      ELSE Fail(Dirs[3], "blocked")

\* The workflow read: the project's, or the one of the folder when no project
\* was resolved.
Policy(m) == IF Resolved(m) THEN m.policy ELSE m.local
Parsed(m) == Policy(m) = "ok"

WorkflowFile(m) ==
  CASE Parsed(m) -> Pass("workflow_file")
    [] Policy(m) = "missing" -> Fail("workflow_file", "missing")
    [] OTHER -> Fail("workflow_file", "invalid")

OtlpCheck(m) ==
  IF ~Parsed(m) THEN <<>>
  ELSE CASE m.otlp = "invalid" -> Fail("otlp", "")
         [] m.otlp = "deaf" -> Check("otlp", "warn", "")
         [] OTHER -> Pass("otlp")

HookChecks(m) == IF Parsed(m) THEN Judge("workflow_hooks", m.hooks, "") ELSE <<>>

SourceIdentity(m) ==
  IF ~(Parsed(m) /\ Resolved(m)) THEN <<>>
  ELSE Check("workflow_source_identity", IF m.copy THEN "pass" ELSE "warn", "")

RuntimeChecks(m) ==
  IF ~Parsed(m) THEN Fail("runtime_command", "blocked")
  ELSE Judge("runtime_command", m.runtime # "absent", "")
         \o CASE m.runtime = "unready" -> Fail("anthropic_api_key", "")
              [] OTHER -> <<>>

Deprecation(m) ==
  IF Policy(m) = "deprecated" THEN Fail("provider_deprecation", "") ELSE <<>>

PriorityMapping(m) ==
  IF ~Parsed(m) THEN <<>>
  ELSE IF /\ m.kind \in {"missing", "github-project"}
          /\ m.priority # "off"
          /\ \/ DoctorAuth(m) = "none"
             \/ ~Resolved(m)
             \/ m.binding # "there"
             \/ m.priority = "drifted"
       THEN Check("priority_mapping", "warn", "")
       ELSE Pass("priority_mapping")

\* The smoke checks stop at the first thing they need and do not have.
SmokeBlocker(m) ==
  LET github == m.kind = "github-project" IN
  CASE ~Resolved(m) -> "managed_project"
    [] github /\ DoctorAuth(m) = "none" -> "gh_authentication"
    [] ~Parsed(m) -> "workflow_file"
    [] github /\ m.binding # "there" -> "github_project_resolution"
    [] OTHER -> ""

RepositoryLink(m) ==
  IF m.kind = "github-project" THEN Judge("project_repository_link", m.linked, "")
                               ELSE <<>>

\* The issue named, or the active one that changed last, as the tracker has it;
\* of a named one, whether its repository is linked is told in any case.
SmokeIssue(m, named) ==
  CASE m.issue \in {"none", "unreadable"} ->
         (IF named THEN RepositoryLink(m) ELSE <<>>) \o Fail("smoke_issue", m.issue)
    [] OTHER -> RepositoryLink(m) \o Pass("smoke_issue")

PromptRender(m) ==
  IF m.issue \in {"none", "unreadable"} THEN <<>>
  ELSE Judge("workflow_prompt_render", m.issue = "renders", "")

Smoke(m, named) ==
  IF SmokeBlocker(m) # "" THEN Fail("smoke_issue", SmokeBlocker(m))
  ELSE SmokeIssue(m, named) \o PromptRender(m)

Diagnosis(m, c) ==
  Judge("node_runtime", m.node, "") \o Judge("git_installation", m.git, "")
    \o GhInstallation(m) \o ManagedProject(m) \o EndpointCheck(m)
    \o Authentication(m) \o Scopes(m) \o TrackerCheck(m) \o DirChecks(m) \o OtlpCheck(m)
    \o HookChecks(m) \o SourceIdentity(m) \o WorkflowFile(m)
    \o RuntimeChecks(m) \o Deprecation(m) \o PriorityMapping(m)
    \o IF c.smoke THEN Smoke(m, c.named) ELSE <<>>

\* A gh that cannot be run, or a directory that cannot be looked at, ends the
\* command with an error and no report.
Throws(m) ==
  \/ m.gh = "broken"
  \/ \E d \in {Dirs[1], Dirs[2]} : m.dirs[d] = "hidden"
  \/ Resolved(m) /\ m.dirs[Dirs[3]] = "hidden"

Failed(r) == {r[i].id : i \in {j \in DOMAIN r : r[j].status = "fail"}}
Passed(r) == {r[i].id : i \in {j \in DOMAIN r : r[j].status = "pass"}}
ExitOf(r) == IF Failed(r) = {} THEN 0 ELSE 1

-----------------------------------------------------------------------------
Idle == [at |-> "idle", fix |-> FALSE, json |-> FALSE, tty |-> FALSE,
         bundle |-> FALSE, smoke |-> FALSE, named |-> FALSE]

Init ==
  /\ machine \in Machines
  /\ cmd = Idle
  /\ first = <<>> /\ report = <<>> /\ todo = <<>> /\ steps = <<>>
  /\ exit = Unset
  /\ seen = machine
  /\ disturbed = FALSE
  /\ runs = 0 /\ changes = 0

\* A bundle of what is being repaired, or an issue without the smoke checks, is
\* refused before anything is looked at.
Refused(c) == (c.bundle /\ c.fix) \/ (c.named /\ ~c.smoke)

Close(code) == exit' = code /\ cmd' = Idle

\* runDoctorCommand: the arguments, then the first diagnosis.
Diagnose(c) ==
  /\ cmd.at = "idle" /\ runs < MaxRuns
  /\ runs' = runs + 1
  /\ steps' = <<>> /\ todo' = <<>>
  /\ disturbed' = FALSE
  /\ seen' = machine
  /\ IF Refused(c) \/ Throws(machine)
     THEN Close(2) /\ first' = <<>> /\ report' = <<>>
     ELSE /\ cmd' = [c EXCEPT !.at = "diagnosed"]
          /\ first' = Diagnosis(machine, c)
          /\ report' = first'
          /\ exit' = Unset
  /\ UNCHANGED <<machine, changes>>

\* Without a remedy to try, the first report is the last one; a bundle needs a
\* project to bundle.
Conclude ==
  /\ cmd.at = "diagnosed" /\ ~cmd.fix
  /\ Close(IF cmd.bundle /\ ~Resolved(seen) THEN 2 ELSE ExitOf(report))
  /\ UNCHANGED <<machine, first, report, todo, steps, seen, disturbed, runs,
                 changes>>

BeginFixes ==
  /\ cmd.at = "diagnosed" /\ cmd.fix
  /\ cmd' = [cmd EXCEPT !.at = "fixing"]
  /\ todo' = SelectSeq(report, LAMBDA check : check.status = "fail")
  /\ UNCHANGED <<machine, first, report, steps, exit, seen, disturbed, runs,
                 changes>>

Interactive == cmd.tty /\ ~cmd.json

\* What has to be repaired before a remedy is tried, by the first report.
Blockers(check) ==
  CASE check.id = "gh_authentication" -> {"gh_installation"}
    [] check.id = "gh_scopes" -> {"gh_installation", "gh_authentication"}
    [] check.id = "github_project_resolution" -> {"managed_project"}
    [] check.id = "workspace_root" /\ check.why = "blocked" -> {"managed_project"}
    [] check.id = "runtime_command" -> {"workflow_file"}
    [] OTHER -> {}

Skipped(check) == Blockers(check) \cap Failed(first) # {}

\* Checks nobody can do anything about get no step at all.
Unremedied == {"node_runtime", "git_installation", "otlp", "workflow_hooks",
               "provider_deprecation", "smoke_issue", "project_repository_link",
               "workflow_prompt_render"}

\* The commands of gh and of this program are run in the terminal, and do or do
\* not come to an end; gh is told of no host.
Login ==
  IF Interactive /\ machine.gh = "there"
  THEN {<<machine, "manual">>,
        <<[machine EXCEPT !.logins["com"] = "good"], "applied">>}
  ELSE {<<machine, "manual">>}

\* A new workflow is written where doctor was run, for the runtime its user
\* picks; a hook that is there is kept.
Rewritten ==
  {[machine EXCEPT !.local = "ok",
                   !.policy = IF machine.inFolder THEN "ok" ELSE @,
                   !.runtime = r, !.priority = p, !.otlp = "off"] :
     r \in {"ready", "absent", "unready"}, p \in {"off", "aligned"}}

RunsSetup == {<<machine, "manual">>} \cup
  IF Interactive /\ GhToken(machine, "com")
  THEN {<<m, "applied">> : m \in Rewritten} ELSE {}

RunsInit == {<<machine, "manual">>} \cup
  IF Interactive /\ StartAuth(machine) # "none"
  THEN {<<m, "applied">> : m \in Rewritten} ELSE {}

\* ensureDirectoryRemediation: what the report said is believed of a file in
\* the way only.
EnsureDirectory(check) ==
  LET made == [machine EXCEPT !.dirs[check.id] = "ok"] IN
  CASE check.why = "not_directory" -> {<<machine, "manual">>}
    [] machine.dirs[check.id] = "ok" -> {<<machine, "applied">>}
    [] machine.dirs[check.id] = "missing" ->
         {<<made, "applied">>, <<machine, "manual">>}
    [] OTHER -> {<<machine, "manual">>}

RemedyFor(check) ==
  CASE Skipped(check) -> {<<machine, "skipped">>}
    [] check.id \in {"gh_authentication", "gh_scopes"} -> Login
    [] check.id = "managed_project" -> RunsSetup
    [] check.id = "github_project_resolution" /\ check.why # "" -> RunsSetup
    [] check.id = "workflow_file" -> RunsInit
    [] check.id \in {Dirs[i] : i \in 1 .. 3} -> EnsureDirectory(check)
    [] OTHER -> {<<machine, "manual">>}

Fix ==
  /\ cmd.at = "fixing" /\ todo # <<>>
  /\ todo' = Tail(todo)
  /\ LET check == Head(todo) IN
     IF check.id \in Unremedied
     THEN UNCHANGED <<machine, steps>>
     ELSE \E outcome \in RemedyFor(check) :
            /\ machine' = outcome[1]
            /\ steps' = Append(steps, [id |-> check.id, status |-> outcome[2]])
  /\ UNCHANGED <<cmd, first, report, exit, seen, disturbed, runs, changes>>

\* The command closes with a report of its own, made once the remedies are over.
DiagnoseAgain ==
  /\ cmd.at = "fixing" /\ todo = <<>>
  /\ seen' = machine
  /\ IF Throws(machine)
     THEN Close(2) /\ UNCHANGED report
     ELSE report' = Diagnosis(machine, cmd) /\ Close(ExitOf(report'))
  /\ UNCHANGED <<machine, first, todo, steps, disturbed, runs, changes>>

\* Anybody else: one thing of the machine becomes what it is on another one.
Change ==
  /\ changes < MaxChanges
  /\ changes' = changes + 1
  /\ \E m \in Machines, f \in DOMAIN machine :
       /\ m[f] # machine[f]
       /\ machine' = [machine EXCEPT ![f] = m[f]]
  /\ disturbed' = TRUE
  /\ UNCHANGED <<cmd, first, report, todo, steps, exit, seen, runs>>

Next ==
  \/ \E c \in Commands : Diagnose(c)
  \/ Conclude
  \/ BeginFixes
  \/ Fix
  \/ DiagnoseAgain
  \/ Change

Spec == Init /\ [][Next]_vars

-----------------------------------------------------------------------------
(* Properties.                                                              *)

TypeOK ==
  /\ cmd.at \in {"idle", "diagnosed", "fixing"}
  /\ exit \in {Unset, 0, 1, 2}
  /\ \A i \in DOMAIN report : report[i].status \in {"pass", "warn", "fail"}
  /\ \A i \in DOMAIN steps : steps[i].status \in {"applied", "skipped", "manual"}

\* The preflight of `project start`, after the project was resolved.
StartPasses(m) ==
  /\ Resolved(m)
  /\ CASE m.kind = "github-project" -> StartAuth(m) # "none"
       [] m.kind = "linear" -> m.key = "process"
       [] OTHER -> TRUE
  /\ m.policy = "ok"
  /\ m.trusted => m.hooks

\* A doctor that found nothing to complain of has looked at everything a start
\* looks at: nothing having changed since, the preflight of `project start`
\* passes -- for a project on the public GitHub, or whose Linear key is in the
\* environment.
HealthyStarts ==
  /\ exit = 0 /\ machine = seen
  /\ machine.kind = "github-project" => Endpoint(machine) = "com"
  /\ machine.kind = "linear" => machine.key # "dotenv"
  => StartPasses(machine)

\* The exit code tells of the machine as the last diagnosis found it, whatever
\* the remedies said of themselves: 0 only where nothing a run needs is missing.
ExitTellsTheLastReport ==
  exit = 0 =>
    /\ Resolved(seen) /\ seen.policy = "ok"
    /\ seen.node /\ seen.git /\ seen.hooks
    /\ seen.runtime = "ready" /\ seen.otlp # "invalid"
    /\ \A i \in 1 .. 3 : seen.dirs[Dirs[i]] = "ok"
    /\ seen.kind = "github-project" => seen.binding = "there"

\* The remedies break nothing: what passed in the first report passes in the
\* closing one, unless somebody else changed the machine meanwhile or it is the
\* workflow that decides it, which a remedy may have written anew.
OfTheWorkflow == {"runtime_command", "priority_mapping", "otlp",
                  "workflow_source_identity", "workflow_prompt_render"}

FixesBreakNothing ==
  (cmd.at = "idle" /\ exit \in {0, 1} /\ ~disturbed)
    => Passed(first) \subseteq Passed(report) \cup OfTheWorkflow

\* A step is skipped only after a step that was not, for what it waits for, so
\* a second doctor has less to skip.
SkipsFollowAStep ==
  \A i \in DOMAIN steps :
    steps[i].status = "skipped" =>
      \E j \in 1 .. i - 1 :
        /\ steps[j].status # "skipped"
        /\ steps[j].id \in {"gh_installation", "gh_authentication",
                            "managed_project", "workflow_file"}

DoctorHolds ==
  /\ HealthyStarts
  /\ ExitTellsTheLastReport
  /\ FixesBreakNothing
  /\ SkipsFollowAStep

\* Refuted by hand: a project on an enterprise host, whose logins a start does
\* not look for, and a Linear key that only the project's own file holds.
EveryHealthyStarts == (exit = 0 /\ machine = seen) => StartPasses(machine)

\* Refuted by hand: an applied login was for the public host, and a setup or an
\* init writes where doctor was run.
AppliedRepairs ==
  (cmd.at = "idle" /\ ~disturbed /\ exit \in {0, 1}) =>
    \A i \in DOMAIN steps :
      steps[i].status = "applied" => steps[i].id \notin Failed(report)

\* What the documents promise (docs/configuration.md): the credential doctor
\* passes is the one a worker is given, the project's own before the daemon's.
DoctorSelectsAsTheWorker ==
  (exit = 0 /\ machine = seen /\ machine.kind = "github-project"
     /\ machine.dotenv # "none")
    => ValidToken(machine.dotenv, Endpoint(machine))
=============================================================================
