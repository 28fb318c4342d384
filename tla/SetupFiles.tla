---------------------------- MODULE SetupFiles ------------------------------
(***************************************************************************)
(* The wizards that write a project's folder: `setup` and `workflow init`, *)
(* asked questions or not.  A wizard reads the account, asks, plans what it*)
(* would change, shows that, and much later writes WORKFLOW.md by the plan *)
(* it showed and the other files by a plan made anew -- over a folder its  *)
(* user works in meanwhile.  A file is written beside itself and renamed,  *)
(* and then made executable; a wizard may die at any of these steps.       *)
(***************************************************************************)
EXTENDS Integers, Sequences, FiniteSets

CONSTANTS Wizards,      \* the terminals a wizard can be run in
          Accounts,     \* what the GitHub accounts may look like
          MaxRuns, MaxEdits, MaxDeaths    \* bounds

Files == <<"policy", "hook", "skill">>
FileSet == {Files[i] : i \in 1 .. 3}
Legacy == {"context.yaml", "reference-workflow.md"}
Modes == {"setup", "setup-auto", "init", "init-auto", "init-linear"}

\* Of an account: its logins, its boards, and of the board the columns the
\* names of which say their role, the fields and labels for a priority.
AccountType ==
  [auth : BOOLEAN, gh : BOOLEAN, claude : BOOLEAN, boards : Nat, status : BOOLEAN,
   named : SUBSET {"active", "terminal"}, many : BOOLEAN,
   priority : {"none", "one", "several"}, labels : BOOLEAN]

SetupFilesAssumption == Accounts \subseteq AccountType /\ Wizards # {}

VARIABLES
  account,   \* what GitHub shows
  files,     \* the folder: content and executable bit of every file
  beside,    \* the temporary file next to each
  legacy,    \* what is left of .gh-symphony, its folder included
  wizard,    \* every terminal's wizard
  yours,     \* history: files their user wrote after the wizard looked last
  taken,     \* history: files of their user that a wizard wrote over
  runs, edits, deaths

vars == <<account, files, beside, legacy, wizard, yours, taken, runs, edits, deaths>>

Absent == [content |-> <<"absent">>, exec |-> FALSE]
Off == [at |-> "off", mode |-> "setup", dry |-> FALSE, board |-> FALSE, claude |-> FALSE,
        answer |-> <<>>, plan |-> [f \in FileSet |-> "unchanged"],
        next |-> 1, handle |-> "closed", exit |-> "none"]

Init ==
  /\ account \in Accounts
  /\ files \in [FileSet -> {Absent, [content |-> <<"user">>, exec |-> TRUE],
                                    [content |-> <<"legacy">>, exec |-> TRUE]}]
  /\ \A f \in FileSet \ {"hook"} : files[f].content # <<"legacy">>
  /\ beside = [f \in FileSet |-> <<"absent">>]
  /\ legacy \in {{}, {"folder", "context.yaml"}, {"folder", "context.yaml", "yours"}}
  /\ wizard = [w \in Wizards |-> Off]
  /\ yours = {} /\ taken = {}
  /\ runs = 0 /\ edits = 0 /\ deaths = 0

-----------------------------------------------------------------------------
(* What a wizard asks of the account before it has anything to write.       *)

\* A board can be worked when some column is active and some is terminal.
Mappable(roles) == {"active", "terminal"} \subseteq roles

\* Without anybody to ask, the columns are mapped by their names.
AutoRoles == account.named

\* The field the priorities are read from is taken where only one looks like it.
StockPriority == IF account.priority = "one" THEN "field" ELSE "disabled"

\* A user is offered the sources the board has.
PrioritySources ==
  {"disabled"} \cup (IF account.priority # "none" THEN {"field"} ELSE {})
               \cup (IF account.labels THEN {"labels"} ELSE {})

\* Blocked issues wait in the first active state, unless their user says they do
\* not, or names other states where there are several.
BlockerStates == {"none", "first"} \cup (IF account.many THEN {"others"} ELSE {})

\* What WORKFLOW.md is made from.
StockAnswer(mode) ==
  IF mode = "init-linear" THEN <<"linear", "disabled", "first">>
                          ELSE <<"github", StockPriority, "first">>

Asks(mode) == mode \in {"setup", "init"}
Answers(mode) ==
  IF Asks(mode)
  THEN {<<"github", p, b>> : p \in PrioritySources, b \in BlockerStates}
  ELSE {StockAnswer(mode)}

\* Only `workflow init` looks whether the agent's runtime can be run, and only
\* when it is Claude.
RuntimeReady(w) == wizard[w].claude => account.claude

\* `workflow init` asks which board, in a terminal; without one it is the board
\* named, or the only one.
InitAccepts(w, roles) ==
  /\ RuntimeReady(w) /\ account.auth
  /\ account.boards > 0 /\ account.status /\ Mappable(roles)
InitAutoAccepts(w) ==
  /\ RuntimeReady(w) /\ account.auth
  /\ account.boards = 1 \/ (wizard[w].board /\ account.boards > 0)
  /\ account.status /\ Mappable(AutoRoles)

\* A Linear project is taken at its word.
LinearAccepts(w) == RuntimeReady(w)

\* `setup` wants the login of the gh CLI, and without a terminal the only board.
SetupAccepts(roles) ==
  account.gh /\ account.boards > 0 /\ account.status /\ Mappable(roles)
SetupAutoAccepts ==
  account.auth /\ account.boards = 1 /\ account.status /\ Mappable(AutoRoles)

Accepts(w, roles) ==
  CASE wizard[w].mode = "setup" -> SetupAccepts(roles)
    [] wizard[w].mode = "setup-auto" -> SetupAutoAccepts
    [] wizard[w].mode = "init" -> InitAccepts(w, roles)
    [] wizard[w].mode = "init-auto" -> InitAutoAccepts(w)
    [] wizard[w].mode = "init-linear" -> LinearAccepts(w)

\* What a wizard would write: the answers decide WORKFLOW.md, and the templates
\* the rest.
Wanted(w, f) == IF f = "policy" THEN wizard[w].answer ELSE <<"stock">>

\* WORKFLOW.md is written over; of the others only what is not there, and the
\* hook of an old version that did nothing.
ChangeStatus(w, f) ==
  LET now == files[f].content IN
  CASE now = <<"absent">> -> "create"
    [] f = "policy" -> IF now = Wanted(w, f) THEN "unchanged" ELSE "update"
    [] f = "hook" /\ now = <<"legacy">> -> "update"
    [] OTHER -> "unchanged"

-----------------------------------------------------------------------------
At(w, place) == wizard[w].at = place
Goes(w, place) == wizard' = [wizard EXCEPT ![w].at = place]
Ended(w, how) == [Off EXCEPT !.exit = how, !.answer = wizard[w].answer, !.plan = wizard[w].plan]
Ends(w, how) == wizard' = [wizard EXCEPT ![w] = Ended(w, how)]

Start(w, mode, dry, board, claude) ==
  /\ At(w, "off") /\ runs < MaxRuns
  /\ dry => mode \in {"init", "init-auto", "init-linear"}
  /\ board => mode = "init-auto"
  /\ claude => mode \notin {"setup", "setup-auto"}
  /\ runs' = runs + 1
  /\ wizard' = [wizard EXCEPT ![w] =
       [Off EXCEPT !.at = "asking", !.mode = mode, !.dry = dry, !.board = board,
                   !.claude = claude]]
  /\ UNCHANGED <<account, files, beside, legacy, yours, taken, edits, deaths>>

\* The account, the questions and the check of their answers.
Ask(w, roles) ==
  /\ At(w, "asking")
  /\ IF Accepts(w, roles)
     THEN \E answer \in Answers(wizard[w].mode) :
            wizard' = [wizard EXCEPT ![w].at = "planning", ![w].answer = answer]
     ELSE Ends(w, "refused")
  /\ UNCHANGED <<account, files, beside, legacy, yours, taken, runs, edits, deaths>>

\* planWorkflowArtifacts: the plan that is shown, and of which only the line of
\* WORKFLOW.md is carried out.
Plan(w) ==
  /\ At(w, "planning")
  /\ wizard' = [wizard EXCEPT
       ![w].plan = [f \in FileSet |-> ChangeStatus(w, f)],
       ![w].at = CASE wizard[w].dry -> "shown"
                   [] wizard[w].mode = "setup" -> "confirming"
                   [] wizard[w].mode = "init" -> "cleaning"
                   [] OTHER -> "writing"]
  /\ yours' = {} /\ taken' = {}
  /\ UNCHANGED <<account, files, beside, legacy, runs, edits, deaths>>

DryRun(w) ==
  /\ At(w, "shown")
  /\ Ends(w, "previewed")
  /\ UNCHANGED <<account, files, beside, legacy, yours, taken, runs, edits, deaths>>

Confirm(w) ==
  /\ At(w, "confirming")
  /\ \/ Goes(w, "cleaning")
     \/ Ends(w, "cancelled")
  /\ UNCHANGED <<account, files, beside, legacy, yours, taken, runs, edits, deaths>>

Found == legacy \cap Legacy

\* The files of the old layout go if their user says so, and their folder once
\* nothing else is in it.
Swept ==
  LET left == legacy \ Legacy IN IF left = {"folder"} THEN {} ELSE left

Cleanup(w) ==
  /\ At(w, "cleaning")
  /\ Goes(w, "writing")
  /\ \/ Found # {} /\ legacy' = Swept
     \/ UNCHANGED legacy
  /\ UNCHANGED <<account, files, beside, yours, taken, runs, edits, deaths>>

-----------------------------------------------------------------------------
(* The writes, one file after another.                                      *)

File(w) == Files[wizard[w].next]

\* After WORKFLOW.md everything else is looked at again.
PlanRest(w) ==
  /\ At(w, "replanning")
  /\ wizard' = [wizard EXCEPT ![w].at = "writing",
       ![w].plan = [f \in FileSet |->
                      IF f = "policy" THEN @[f] ELSE ChangeStatus(w, f)]]
  /\ yours' = yours \cap {"policy"}
  /\ UNCHANGED <<account, files, beside, legacy, taken, runs, edits, deaths>>

\* On to the next file; WORKFLOW.md is followed by the new plan.
Turned(w) ==
  [wizard EXCEPT ![w] =
     IF wizard[w].next = 3 THEN Ended(w, "saved")
     ELSE [@ EXCEPT !.handle = "closed", !.next = @ + 1,
                    !.at = IF wizard[w].next = 1 THEN "replanning" ELSE "writing"]]

LeaveAsIs(w) ==
  /\ At(w, "writing") /\ wizard[w].plan[File(w)] = "unchanged"
  /\ wizard' = Turned(w)
  /\ UNCHANGED <<account, files, beside, legacy, yours, taken, runs, edits, deaths>>

\* The file beside is opened and emptied, filled, and takes the name.
OpenBeside(w) ==
  /\ At(w, "writing") /\ wizard[w].plan[File(w)] # "unchanged"
  /\ wizard' = [wizard EXCEPT ![w].at = "filling", ![w].handle = "beside"]
  /\ beside' = [beside EXCEPT ![File(w)] = <<"part">>]
  /\ UNCHANGED <<account, files, legacy, yours, taken, runs, edits, deaths>>

\* An open file is written wherever its name went meanwhile.
Fill(w) ==
  /\ At(w, "filling")
  /\ Goes(w, "renaming")
  /\ IF wizard[w].handle = "beside"
     THEN beside' = [beside EXCEPT ![File(w)] = Wanted(w, File(w))] /\ UNCHANGED files
     ELSE files' = [files EXCEPT ![File(w)].content = Wanted(w, File(w))]
          /\ UNCHANGED beside
  /\ UNCHANGED <<account, legacy, yours, taken, runs, edits, deaths>>

\* A file that nobody has beside any more cannot be renamed: the wizard fails.
Rename(w) ==
  /\ At(w, "renaming")
  /\ LET f == File(w) IN
     IF beside[f] = <<"absent">>
     THEN Ends(w, "failed") /\ UNCHANGED <<files, beside, taken>>
     ELSE /\ files' = [files EXCEPT ![f] = [content |-> beside[f], exec |-> FALSE]]
          /\ beside' = [beside EXCEPT ![f] = <<"absent">>]
          /\ taken' = IF files[f].content = <<"user">> THEN taken \cup {f} ELSE taken
          /\ wizard' = [v \in Wizards |->
               IF v = w
               THEN IF f = "hook" THEN [wizard[w] EXCEPT !.at = "chmodding"]
                                  ELSE Turned(w)[w]
               ELSE IF wizard[v].handle = "beside" /\ wizard[v].next = wizard[w].next
                    THEN [wizard[v] EXCEPT !.handle = "file"]
                    ELSE wizard[v]]
  /\ UNCHANGED <<account, legacy, yours, runs, edits, deaths>>

Chmod(w) ==
  /\ At(w, "chmodding")
  /\ files' = [files EXCEPT !["hook"].exec = files["hook"].content # <<"absent">>]
  /\ wizard' = Turned(w)
  /\ UNCHANGED <<account, beside, legacy, yours, taken, runs, edits, deaths>>

-----------------------------------------------------------------------------
\* The user writes or deletes a file; what is written replaces the old file.
Edit(f) ==
  /\ edits < MaxEdits
  /\ edits' = edits + 1
  /\ files' \in {[files EXCEPT ![f] = Absent],
                 [files EXCEPT ![f] = [content |-> <<"user">>, exec |-> TRUE]]}
  /\ yours' = yours \cup {f}
  /\ taken' = taken \ {f}
  /\ UNCHANGED <<account, beside, legacy, wizard, runs, deaths>>

Die(w) ==
  /\ deaths < MaxDeaths /\ wizard[w].at # "off"
  /\ deaths' = deaths + 1
  /\ wizard' = [wizard EXCEPT ![w] = Off]
  /\ UNCHANGED <<account, files, beside, legacy, yours, taken, runs, edits>>

Next ==
  \/ \E w \in Wizards :
       \/ \E mode \in Modes, dry, board, claude \in BOOLEAN :
            Start(w, mode, dry, board, claude)
       \/ \E roles \in SUBSET {"active", "terminal"} : Ask(w, roles)
       \/ Plan(w) \/ DryRun(w) \/ Confirm(w) \/ Cleanup(w)
       \/ PlanRest(w) \/ LeaveAsIs(w) \/ OpenBeside(w) \/ Fill(w) \/ Rename(w)
       \/ Chmod(w) \/ Die(w)
  \/ \E f \in FileSet : Edit(f)

Spec == Init /\ [][Next]_vars

-----------------------------------------------------------------------------
(* Properties.                                                              *)

TypeOK ==
  /\ \A f \in FileSet :
       \/ files[f].content \in {<<c>> : c \in {"absent", "user", "legacy", "stock", "part"}}
       \/ f = "policy" /\ Len(files[f].content) = 3
  /\ \A w \in Wizards : wizard[w].next \in 1 .. 4

\* Whoever opens a file of the folder finds a whole one, whenever a wizard was
\* stopped: what was half written is still beside it.
WholeFiles == \A f \in FileSet : files[f].content # <<"part">>

\* What its user put in place of a template is kept, unless it was written
\* after the wizard looked for it the second time.
UsersFilesAreKept == taken \ {"policy"} \subseteq yours

\* A wizard that says it saved the setup has: its WORKFLOW.md is the one
\* answered for, the other files are there, and the hook its user did not write
\* runs -- unless the folder was edited, or an earlier wizard died in it.
FinishedIsThere ==
  \A w \in Wizards :
    (wizard[w].exit = "saved" /\ yours = {} /\ edits = 0) =>
      /\ files["policy"].content = wizard[w].answer
      /\ \A f \in {"hook", "skill"} : files[f].content \in {<<"stock">>, <<"user">>}
      /\ deaths = 0 => files["hook"].exec

\* What the wizards owe the folder.
FoldersHold == WholeFiles /\ UsersFilesAreKept /\ FinishedIsThere

\* Refuted by hand: a wizard that died between the rename and the mode leaves a
\* hook that later wizards find unchanged and never make executable.
HooksAreExecutable ==
  \A w \in Wizards :
    (wizard[w].exit = "saved" /\ edits = 0) => files["hook"].exec

\* Refuted by hand: WORKFLOW.md is written, or left, by the plan that was shown;
\* what its user wrote while the questions were open is lost unannounced.
PreviewIsKept ==
  \A w \in Wizards :
    (wizard[w].at = "off" /\ wizard[w].exit = "saved" /\ "policy" \in taken)
      => wizard[w].plan["policy"] = "update"
=============================================================================
