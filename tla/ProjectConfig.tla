---------------------------- MODULE ProjectConfig ----------------------------
(***************************************************************************)
(* Starting projects that share one configuration directory: each start    *)
(* derives the project from the WORKFLOW.md of its folder, compares the    *)
(* issues it would pick up with those of every other saved project, asks   *)
(* where they may overlap, saves, and then runs what is saved.  All of it  *)
(* but the running happens under a lock file of the directory.             *)
(* (packages/cli/src: commands/project.ts, config.ts,                      *)
(* project-selection.ts, daemon-liveness.ts)                               *)
(*                                                                         *)
(* That two starts of one project do not both run is DaemonControl's.      *)
(***************************************************************************)
EXTENDS Naturals, FiniteSets

CONSTANTS
    Projects,
    Labels, States,   \* of issues
    Mappings,         \* what a WORKFLOW.md may say is picked up
    MaxStarts, MaxAtOnce,   \* starts, and how many of them are under way at once
    MaxMishaps   \* edits, deaths, and looks at the lock that find no identity of its owner

AllMappings == [bound : {"board", "another"}, states : SUBSET States,
                include : SUBSET Labels, exclude : SUBSET Labels]
ConfigAssumption ==
    /\ {MaxStarts, MaxAtOnce, MaxMishaps} \subseteq Nat
    /\ Mappings \subseteq AllMappings

Starts == 1..MaxStarts

VARIABLES
    workflow,    \* the WORKFLOW.md of each folder
    saved,       \* the saved configuration of each project, and who saved it knowing of whom
    lock,        \* the start that the lock file names, 0: no file
    daemon,      \* the start that runs each project, 0: none
    start,
    collided,    \* two starts have been in the lock's section at once
    overtaken,   \* a lock has been removed that was not the one judged
    edits, deaths, blind

marks == <<collided, overtaken>>
configVars == <<workflow, saved, lock, daemon, start, marks, edits, deaths, blind>>

Nothing == [bound |-> "none", states |-> {}, include |-> {}, exclude |-> {}]
Unsaved == [mapping |-> Nothing, knowing |-> {}]
NoStart == [at |-> "new", project |-> CHOOSE p \in Projects : TRUE, tty |-> FALSE,
            detached |-> FALSE, mapping |-> Nothing, overlap |-> {}, agreed |-> {}, named |-> 0]
Inside == {"lists", "judges", "asks", "refreshes", "saves", "releases"}

TypeOK ==
    /\ workflow \in [Projects -> Mappings]
    /\ saved \in [Projects -> [mapping : Mappings \cup {Nothing}, knowing : SUBSET Projects]]
    /\ lock \in {0} \cup Starts /\ daemon \in [Projects -> {0} \cup Starts]
    /\ \A s \in Starts :
          /\ start[s].at \in Inside \cup {"new", "derives", "waits", "probes", "breaks", "leaves",
                                          "removes", "quits", "loads", "launches", "runs", "over"}
          /\ start[s].named \in {0} \cup Starts
          /\ start[s].overlap \subseteq Projects /\ start[s].agreed \subseteq Projects
    /\ collided \in BOOLEAN /\ overtaken \in BOOLEAN
    /\ edits + deaths + blind \in 0..MaxMishaps

Init ==
    /\ workflow \in [Projects -> Mappings]
    /\ saved = [p \in Projects |-> Unsaved]
    /\ lock = 0 /\ daemon = [p \in Projects |-> 0]
    /\ start = [s \in Starts |-> NoStart]
    /\ collided = FALSE /\ overtaken = FALSE /\ edits = 0 /\ deaths = 0 /\ blind = 0

-----------------------------------------------------------------------------
(* Which mappings may pick up the same issue.                               *)

Intersects(left, right) == left = {} \/ right = {} \/ left \cap right # {}

(* Without a label to include, an issue without labels stands for all.      *)
NoLabel == "no label"
Candidates(labels) == IF labels = {} THEN {NoLabel} ELSE labels
PickupLabelsMayOverlap(left, right) ==
    \E l \in Candidates(left.include) \ right.exclude :
       \E r \in Candidates(right.include) : r \notin left.exclude

MappingsOverlap(left, right) ==
    /\ left.bound = right.bound
    /\ Intersects(left.states, right.states)
    /\ PickupLabelsMayOverlap(left, right)

(* What the daemon of a mapping picks up: an issue of the board in a state  *)
(* the mapping lists, if it lists any, by the labels on it.                 *)
PicksUp(mapping, issue) ==
    /\ mapping.bound = issue.bound
    /\ mapping.states = {} \/ issue.state \in mapping.states
    /\ mapping.exclude \cap issue.labels = {}
    /\ mapping.include = {} \/ mapping.include \cap issue.labels # {}
Issues == [bound : {"board", "another"}, state : States, labels : SUBSET Labels]
Compete(left, right) == \E i \in Issues : PicksUp(left, i) /\ PicksUp(right, i)

-----------------------------------------------------------------------------
(* The lock file.                                                           *)

Alive(s) == start[s].at \notin {"new", "over"}
Goes(s, at) == start' = [start EXCEPT ![s].at = at]
IsOver(s, at) == start' = [start EXCEPT ![s] = [NoStart EXCEPT !.at = at]]
disk == <<workflow, saved>>
counts == <<edits, deaths, blind>>
Mishap == edits + deaths + blind < MaxMishaps

(* From a terminal, from a terminal for a process of its own, by a script.  *)
Ways == {[tty |-> TRUE, detached |-> FALSE], [tty |-> TRUE, detached |-> TRUE],
         [tty |-> FALSE, detached |-> FALSE]}

Derive(s) ==
    /\ \/ /\ start[s].at = "new" /\ \A t \in 1..(s - 1) : start[t].at # "new"
          /\ Cardinality({t \in Starts : Alive(t) /\ start[t].at # "runs"}) < MaxAtOnce
          /\ \E p \in Projects, way \in Ways :
                start' = [start EXCEPT ![s] = [NoStart EXCEPT
                             !.at = "waits", !.project = p, !.tty = way.tty,
                             !.detached = way.detached, !.mapping = workflow[p]]]
       \/ /\ start[s].at = "derives"
          /\ start' = [start EXCEPT ![s].at = "waits", ![s].mapping = workflow[start[s].project]]
    /\ UNCHANGED <<disk, lock, daemon, marks, counts>>

PublishConfigLock(s) ==
    /\ start[s].at = "waits" /\ lock = 0
    /\ lock' = s
    /\ Goes(s, "lists")
    /\ collided' = (collided \/ \E t \in Starts : start[t].at \in Inside)
    /\ UNCHANGED <<disk, daemon, overtaken, counts>>

ReadLock(s) ==
    /\ start[s].at = "waits" /\ lock # 0
    /\ start' = [start EXCEPT ![s].at = "probes", ![s].named = lock]
    /\ UNCHANGED <<disk, lock, daemon, marks, counts>>

(* Stale is the lock of a process that is gone; and, where the identity of  *)
(* one that lives cannot be read, a file of that name older than the TTL.   *)
IsStaleConfigLock(s) ==
    /\ start[s].at = "probes"
    /\ \/ ~Alive(start[s].named) /\ UNCHANGED blind
       \/ Alive(start[s].named) /\ lock # 0 /\ Mishap /\ blind' = blind + 1
    /\ Goes(s, "breaks")
    /\ UNCHANGED <<disk, lock, daemon, marks, edits, deaths>>

(* Held: the start waits on, or has waited long enough.                     *)
IsHeld(s) ==
    /\ start[s].at = "probes" /\ Alive(start[s].named)
    /\ \/ start' = [start EXCEPT ![s].at = "waits", ![s].named = 0]
       \/ IsOver(s, "over")
    /\ UNCHANGED <<disk, lock, daemon, marks, counts>>

(* Whatever has that name by then is removed.                               *)
Break(s) ==
    /\ start[s].at = "breaks"
    /\ lock' = 0
    /\ overtaken' = (overtaken \/ lock \notin {0, start[s].named})
    /\ start' = [start EXCEPT ![s].at = "waits", ![s].named = 0]
    /\ UNCHANGED <<disk, daemon, collided, counts>>

(* Only a file that carries the start's own token is removed, by its name.  *)
Leaves(s) == IF start[s].at \in {"releases", "removes"} THEN Goes(s, "loads") ELSE IsOver(s, "over")

Release(s) ==
    /\ start[s].at \in {"releases", "leaves"}
    /\ IF lock = s THEN Goes(s, IF start[s].at = "releases" THEN "removes" ELSE "quits")
       ELSE Leaves(s)
    /\ UNCHANGED <<disk, lock, daemon, marks, counts>>

Remove(s) ==
    /\ start[s].at \in {"removes", "quits"}
    /\ lock' = 0
    /\ overtaken' = (overtaken \/ lock \notin {0, s})
    /\ Leaves(s)
    /\ UNCHANGED <<disk, daemon, collided, counts>>

-----------------------------------------------------------------------------
(* Under the lock.                                                          *)

FindOverlappingProjects(s) ==
    /\ start[s].at = "lists"
    /\ LET found == {q \in Projects \ {start[s].project} :
                       saved[q] # Unsaved /\ MappingsOverlap(start[s].mapping, saved[q].mapping)}
       IN  start' = [start EXCEPT ![s].at = "judges", ![s].overlap = found]
    /\ UNCHANGED <<disk, lock, daemon, marks, counts>>

Running(s) == \E q \in start[s].overlap : daemon[q] # 0

Judge(s) ==
    /\ start[s].at = "judges"
    /\ Goes(s, IF Running(s) THEN "leaves"
               ELSE IF start[s].overlap = {} THEN "saves"
               ELSE IF start[s].tty THEN "asks" ELSE "leaves")
    /\ UNCHANGED <<disk, lock, daemon, marks, counts>>

Confirm(s) ==
    /\ start[s].at = "asks"
    /\ \/ start' = [start EXCEPT ![s].at = "refreshes", ![s].agreed = start[s].overlap]
       \/ Goes(s, "leaves")
    /\ UNCHANGED <<disk, lock, daemon, marks, counts>>

RunningOverlaps(s) ==
    /\ start[s].at = "refreshes"
    /\ Goes(s, IF Running(s) THEN "leaves" ELSE "saves")
    /\ UNCHANGED <<disk, lock, daemon, marks, counts>>

SaveProjectConfigWithinLock(s) ==
    /\ start[s].at = "saves"
    /\ saved' = [saved EXCEPT ![start[s].project] =
                   [mapping |-> start[s].mapping, knowing |-> start[s].agreed]]
    /\ Goes(s, "releases")
    /\ UNCHANGED <<workflow, lock, daemon, marks, counts>>

-----------------------------------------------------------------------------
(* After it: what is saved is loaded and run. A start with `--daemon` has a *)
(* command line of its own started for that, without a terminal, and that   *)
(* one derives the project again.                                           *)

Load(s) ==
    /\ start[s].at = "loads"
    /\ IF start[s].detached
         THEN start' = [start EXCEPT ![s].at = "derives", ![s].tty = FALSE, ![s].detached = FALSE]
         ELSE start' = [start EXCEPT ![s].at = "launches",
                                     ![s].mapping = saved[start[s].project].mapping,
                                     ![s].tty = FALSE, ![s].overlap = {}, ![s].agreed = {}]
    /\ UNCHANGED <<disk, lock, daemon, marks, counts>>

Launch(s) ==
    /\ start[s].at = "launches"
    /\ LET p == start[s].project IN
       IF daemon[p] = 0 THEN daemon' = [daemon EXCEPT ![p] = s] /\ Goes(s, "runs")
       ELSE IsOver(s, "over") /\ UNCHANGED daemon
    /\ UNCHANGED <<disk, lock, marks, counts>>

(* A daemon is stopped, or dies.                                            *)
End(s) ==
    /\ start[s].at = "runs"
    /\ daemon' = [daemon EXCEPT ![start[s].project] = 0]
    /\ IsOver(s, "over")
    /\ UNCHANGED <<disk, lock, marks, counts>>

(* A command dies on its way: interrupted at the question, for one.         *)
Die(s) ==
    /\ Mishap /\ Alive(s) /\ start[s].at # "runs"
    /\ IsOver(s, "over")
    /\ deaths' = deaths + 1
    /\ UNCHANGED <<disk, lock, daemon, marks, edits, blind>>

Edit(p) ==
    /\ Mishap
    /\ \E m \in Mappings \ {workflow[p]} : workflow' = [workflow EXCEPT ![p] = m]
    /\ edits' = edits + 1
    /\ UNCHANGED <<saved, lock, daemon, start, marks, deaths, blind>>

Next ==
    \/ \E s \in Starts :
          \/ Derive(s) \/ PublishConfigLock(s) \/ ReadLock(s) \/ IsStaleConfigLock(s)
          \/ IsHeld(s) \/ Break(s) \/ Release(s) \/ Remove(s)
          \/ FindOverlappingProjects(s) \/ Judge(s) \/ Confirm(s) \/ RunningOverlaps(s)
          \/ SaveProjectConfigWithinLock(s) \/ Load(s) \/ Launch(s) \/ End(s) \/ Die(s)
    \/ \E p \in Projects : Edit(p)

Spec == Init /\ [][Next]_configVars

-----------------------------------------------------------------------------
Known(p, q) == p \in saved[q].knowing \/ q \in saved[p].knowing

(* Two projects whose saved configurations pick up one issue have been      *)
(* confirmed: the start that saved the later of the two knew of the other.  *)
(* So it is as long as no two starts are in the lock's section at once.     *)
OverlapsAreConfirmed ==
    collided \/
    \A p, q \in Projects :
      (p # q /\ saved[p] # Unsaved /\ saved[q] # Unsaved
         /\ Compete(saved[p].mapping, saved[q].mapping)) => Known(p, q)

(* Two daemons that run what is saved dispatch one issue only where someone *)
(* confirmed that they may.                                                 *)
RunsWhatIsSaved(p) ==
    daemon[p] # 0 /\ saved[p] # Unsaved /\ start[daemon[p]].mapping = saved[p].mapping
SavedRunApart ==
    collided \/
    \A p, q \in Projects :
      (p # q /\ RunsWhatIsSaved(p) /\ RunsWhatIsSaved(q)
         /\ Compete(start[daemon[p]].mapping, start[daemon[q]].mapping)) => Known(p, q)

(* Two starts are in the lock's section at once only after a lock has been  *)
(* removed that was not the one judged, or has been judged by its age,      *)
(* whoever died with it or gave up behind it.                               *)
OnlyTheOvertakenCollide == ~overtaken /\ blind = 0 => ~collided

ProjectsAreApart == OverlapsAreConfirmed /\ SavedRunApart /\ OnlyTheOvertakenCollide

-----------------------------------------------------------------------------
(* What the code's comments say and does not hold.                          *)

(* "an edited `pickup_labels` cannot leave two projects competing for the   *)
(* same issues" (commands/project.ts:200): a start of a project that runs   *)
(* saves the edited labels and is then refused, and the daemon that goes on *)
(* with the old ones is no longer what other starts compare with.           *)
RunApart ==
    \A p, q \in Projects :
      (p # q /\ daemon[p] # 0 /\ daemon[q] # 0
         /\ Compete(start[daemon[p]].mapping, start[daemon[q]].mapping)) => Known(p, q)

(* "a config-wide lock" (docs/designs/2026-08-11-standalone-project-model-  *)
(* design.md:24): a start that has read the lock of one that is then over   *)
(* removes by its name the one that another has since taken; and one that   *)
(* cannot identify the owner takes a lock that is held over a long question *)
(* for an orphan.                                                           *)
OneIsInside == ~collided

(* "Re-run interactively to confirm" (commands/project.ts:112): the command *)
(* line that `--daemon` starts has no terminal, and refuses what was        *)
(* confirmed.                                                               *)
ConfirmedStartsGoOn ==
    \A s \in Starts : start[s].at = "leaves" /\ start[s].agreed # {} => Running(s)
=============================================================================
