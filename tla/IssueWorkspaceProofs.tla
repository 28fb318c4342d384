------------------------ MODULE IssueWorkspaceProofs ------------------------
(* Checkouts are kept and populations are whole, for any set of roots and   *)
(* any number of starts, moves, faults and edits.                           *)
EXTENDS IssueWorkspace, TLAPS

Kinds == {"starts", "moves", "faults", "edits", "roots"}
Cleaning == {"unhooking", "removing", "removed"}
Preparing == Starting \cup {"fenced"}

Records == [at : Places \cup {Nowhere}, unpub : BOOLEAN,
            status : {"none", "active", "cleanup_pending", "removed"}]
Contents == [repo : {"absent", "part", "whole", "torn"}, work : BOOLEAN,
             branch : {"none", "own", "foreign"}]
Runs == [status : {"none", "running", "retrying", "failed", "succeeded", "suppressed"},
         at : Places \cup {Nowhere}, pid : BOOLEAN, unpub : BOOLEAN, pushed : BOOLEAN,
         conf : BOOLEAN]
Tasks == [at : Places \cup {Nowhere}, fresh : BOOLEAN, save : BOOLEAN,
          again : {"no", "clean", "reported"}]

(* The types, with names for those of the records and of the directories.   *)
Typed ==
    /\ root \in Roots /\ record \in Records /\ disk \in [Places -> Contents]
    /\ run \in Runs /\ worker \in {"none", "working", "stopping"} /\ strays \subseteq Places
    /\ mail \in {"none", "pushed", "unpublished"}
    /\ tracker \in {"active", "idle", "terminal"}
    /\ pc \in Steps /\ task \in Tasks
    /\ scarred \subseteq Places /\ kept \subseteq Places /\ overwritten \subseteq kept
    /\ bounds \in [Kinds -> Nat]

(* A worker that nobody has told to stop works for the run on record, in    *)
(* the checkout on record, and neither a start nor a cleanup goes on; its   *)
(* pid is on record once its start is over.                                 *)
Employed ==
    /\ worker = "working" => /\ run.status = "running" /\ (run.pid \/ pc = "spawned")
                             /\ pc \in {"idle", "publishing", "signalling", "spawned"}
    /\ pc \in {"fenced", "spawned", "publishing", "signalling"} => run.status = "running"
    /\ pc \in Starting \cup {"superseding"} => run.status # "running"
    /\ run.status = "running" => run.at = record.at

(* Where a start and a cleanup are at work.  Once an issue has its recovery *)
(* checkout, a start aims at that.                                          *)
Aimed ==
    /\ record.status # "none" \/ pc \in Cleaning => record.at \in Places
    /\ run.status # "none" => run.at \in Places
    /\ pc \in Preparing => task.at \in {Main, Recovery}
    /\ pc \in Starting /\ record.at = Recovery => task.at = Recovery
    /\ pc \in Starting /\ (pc = "launching" \/ ~task.save) => record.at = task.at
    /\ pc = "fenced" => record.at = task.at
    /\ pc \in {"clearing", "hooking", "cloned", "abandoning", "saving"} => task.fresh
    /\ pc = "checking" /\ task.save => task.fresh
    /\ pc \in Starting \cup {"superseding"} /\ task.again # "no" =>
          run.status # "none" /\ (task.again = "clean" => ~run.unpub)

(* What the record names was populated to the end, unless a removal or a    *)
(* second population has been at it, and so is what a start goes on with.   *)
Populated ==
    /\ record.at \in Places =>
          disk[record.at].repo \in {"absent", "whole"} \/ record.at \in scarred
    /\ pc \in {"checking", "saving", "launching", "fenced"} =>
          disk[task.at].repo = "whole" \/ task.at \in scarred
    /\ pc \in {"clearing", "hooking", "cloned"} =>
          task.at # record.at \/ task.at \in scarred

(* As long as the root stays: where work was reported and the report was    *)
(* not written over, it is whole; if that is where the record points, the   *)
(* record or the run on record says so, which keeps a cleanup away; if it   *)
(* is not, no start comes back to it.                                       *)
Retained == bounds.roots = 0 =>
    /\ kept \subseteq {Main, Recovery}
    /\ {record.at, run.at} \subseteq {Nowhere, Main, Recovery}
    /\ Recovery \in kept \/ run.at = Recovery => record.at = Recovery
    /\ Main \in kept \/ run.at # Nowhere => record.at # Nowhere
    /\ record.at \in Held => record.unpub \/ (run.unpub /\ run.at = record.at)
    /\ run.status = "running" /\ run.pushed /\ ~run.unpub => run.at \notin kept
    /\ \A p \in Held : disk[p].repo = "whole"
    /\ pc = "clearing" => task.at \notin Held \/ disk[task.at].branch = "foreign"
    /\ pc \in {"hooking", "cloned", "abandoning", "saving"} \/ (pc = "checking" /\ task.fresh)
          => task.at \notin Held
    /\ pc \in Cleaning => ~record.unpub /\ ~run.unpub

IInv == Typed /\ Employed /\ Aimed /\ Populated /\ Retained

-----------------------------------------------------------------------------
(* Places, and what a directory may hold.                                   *)

LEMMA PlaceFacts ==
    /\ Nowhere \notin Places /\ Main # Recovery /\ Main # Nowhere /\ Recovery # Nowhere
    /\ root \in Roots => Main \in Places /\ Recovery \in Places
BY DEF Nowhere, Places, Main, Recovery

LEMMA TypedIs == Typed <=> TypeOK /\ bounds \in [Kinds -> Nat]
BY DEF Typed, TypeOK, Records, Contents, Runs, Tasks

LEMMA NoTaskIs == NoTask \in Tasks
BY DEF NoTask, Tasks

LEMMA Directories ==
    ASSUME NEW d \in [Places -> Contents], NEW p
    PROVE  /\ \A c \in Contents : [d EXCEPT ![p] = c] \in [Places -> Contents]
           /\ \A w \in BOOLEAN : [d EXCEPT ![p].work = w] \in [Places -> Contents]
           /\ \A b \in {"none", "own", "foreign"} :
                 [d EXCEPT ![p].branch = b] \in [Places -> Contents]
           /\ [d EXCEPT ![p].repo = IF @ = "whole" THEN "torn" ELSE @] \in [Places -> Contents]
           /\ Bare \in Contents /\ Absent \in Contents
<1>1. ASSUME NEW c \in Contents PROVE [d EXCEPT ![p] = c] \in [Places -> Contents]
  OBVIOUS
<1>2. CASE p \notin Places
  BY <1>2 DEF Contents, Bare, Absent
<1>3. CASE p \in Places
  <2>1. d[p] \in Contents
    BY <1>3
  <2>2. ASSUME NEW w \in BOOLEAN PROVE [d[p] EXCEPT !.work = w] \in Contents
    BY <2>1 DEF Contents
  <2>3. ASSUME NEW b \in {"none", "own", "foreign"} PROVE [d[p] EXCEPT !.branch = b] \in Contents
    BY <2>1 DEF Contents
  <2>4. [d[p] EXCEPT !.repo = IF @ = "whole" THEN "torn" ELSE @] \in Contents
    BY <2>1 DEF Contents
  <2>5. Bare \in Contents /\ Absent \in Contents
    BY DEF Contents, Bare, Absent
  <2> QED
    BY <1>1, <2>2, <2>3, <2>4, <2>5
<1> QED
  BY <1>2, <1>3

LEMMA Counted ==
    ASSUME bounds \in [Kinds -> Nat], NEW what \in Kinds, Counts(what)
    PROVE  bounds' \in [Kinds -> Nat]
BY DEF Counts

(* What the three ways to speak of a checkout leave of the reports.         *)
LEMMA Reporting ==
    ASSUME NEW p \in Places, kept \subseteq Places, overwritten \subseteq kept,
           NEW said \in BOOLEAN, Unreport(p) \/ Overwrite(p) \/ Report(p, said)
    PROVE  kept' \subseteq Places /\ overwritten' \subseteq kept'
BY DEF Unreport, Overwrite, Report

LEMMA InitHolds ==
    ASSUME WorkspaceAssumption, Init PROVE IInv
<1>1. Typed
  BY TypedIs DEF Init, TypeOK, NoRecord, NoRun, NoTask, Absent, Steps, Kinds,
     WorkspaceAssumption
<1>2. Employed /\ Aimed
  BY PlaceFacts DEF Init, Employed, Aimed, NoRecord, NoRun, NoTask, Cleaning, Starting,
     Preparing
<1>3. Populated /\ Retained
  BY PlaceFacts DEF Init, Populated, Retained, Held, NoRecord, NoRun, NoTask, Cleaning
<1> QED
  BY <1>1, <1>2, <1>3 DEF IInv

(* Every step keeps the types.                                              *)

LEMMA TypedNext ==
    ASSUME Typed, Employed, Aimed, [Next]_vars PROVE Typed'
<1> USE DEF Typed, durable, reports, history
<1>1. CASE Start
  <2> DEFINE p == Target
  <2>1. p \in Places
    BY PlaceFacts DEF Target
  <2>2. disk' \in [Places -> Contents]
    BY <1>1, Directories DEF Start
  <2>3. task' \in Tasks
    BY <1>1, <2>1 DEF Start, NeedsPopulation, Tasks
  <2>4. scarred' \subseteq Places
    BY <1>1, <2>1 DEF Start
  <2>5. pc' \in Steps
    BY <1>1 DEF Start, Steps
  <2>6. bounds' \in [Kinds -> Nat]
    <3>1. CASE Counts("starts")
      BY <3>1, Counted DEF Kinds
    <3>2. CASE UNCHANGED bounds
      BY <3>2
    <3> QED
      BY <1>1, <3>1, <3>2 DEF Start
  <2> QED
    BY <1>1, <2>2, <2>3, <2>4, <2>5, <2>6 DEF Start
<1>2. CASE Clear
  <2>1. disk' \in [Places -> Contents]
    BY <1>2, Directories DEF Clear
  <2>2. kept' \subseteq Places /\ overwritten' \subseteq kept'
    BY <1>2 DEF Clear, Unreport
  <2> QED
    BY <1>2, <2>1, <2>2 DEF Clear, Steps
<1>3. CASE Clone
  <2>1. disk' \in [Places -> Contents]
    BY <1>3, Directories DEF Clone
  <2> QED
    BY <1>3, <2>1 DEF Clone, Steps
<1>4. CASE HookSucceeds
  <2>1. \A branch \in {"own", "foreign", "none"} :
           [repo |-> "whole", branch |-> branch, work |-> FALSE] \in Contents
    BY DEF Contents
  <2>2. disk' \in [Places -> Contents]
    <3>1. PICK branch \in {"own", "foreign", "none"} :
             disk' = [disk EXCEPT ![task.at] =
                         [repo |-> "whole", branch |-> branch, work |-> FALSE]]
      BY <1>4 DEF HookSucceeds
    <3> QED
      BY <2>1, <3>1, Directories
  <2> QED
    BY <1>4, <2>2 DEF HookSucceeds, Steps
<1>5. CASE HookFails \/ Check
  BY <1>5, NoTaskIs DEF HookFails, Check, Steps
<1>6. CASE Abandon
  <2>1. disk' \in [Places -> Contents]
    <3>1. CASE disk' = [disk EXCEPT ![task.at] = Absent]
      BY <3>1, Directories
    <3>2. CASE disk' = disk
      BY <3>2
    <3> QED
      BY <1>6, <3>1, <3>2 DEF Abandon
  <2>2. bounds' \in [Kinds -> Nat]
    BY <1>6, Counted DEF Abandon, Kinds
  <2> QED
    BY <1>6, <2>1, <2>2, NoTaskIs DEF Abandon, Steps
<1>7. CASE SaveRecord
  <2>1. record' \in Records
    BY <1>7 DEF SaveRecord, Records, Tasks
  <2> QED
    BY <1>7, <2>1 DEF SaveRecord, Steps
<1>8. CASE Fence
  <2>1. run' \in Runs
    BY <1>8 DEF Fence, Runs, Tasks, NoRun
  <2>2. overwritten' \subseteq kept'
    BY <1>8 DEF Fence, Overwrite
  <2> QED
    BY <1>8, <2>1, <2>2 DEF Fence, Overwrite, Steps
<1>9. CASE LaunchFails
  <2>1. run' \in Runs
    BY <1>9 DEF LaunchFails, Runs
  <2> QED
    BY <1>9, <2>1, NoTaskIs DEF LaunchFails, Steps
<1>10. CASE Deliver
  <2>1. run' \in Runs
    BY <1>10 DEF Deliver, Runs
  <2>2. kept' \subseteq Places /\ overwritten' \subseteq kept'
    BY <1>10 DEF Deliver, Report, Aimed
  <2> QED
    BY <1>10, <2>1, <2>2 DEF Deliver
<1>11. CASE Settle
  <2>1. record' \in Records
    <3>1. CASE record' = record
      BY <3>1
    <3>2. CASE record' = [record EXCEPT !.unpub = run.unpub]
      BY <3>2 DEF Records, Runs
    <3> QED
      BY <1>11, <3>1, <3>2 DEF Settle, TransportState
  <2>2. run' \in Runs
    <3>1. PICK status \in {"succeeded", "retrying", "failed"} :
             run' = [run EXCEPT !.status = status, !.pid = FALSE]
      BY <1>11 DEF Settle
    <3> QED
      BY <3>1 DEF Runs
  <2> QED
    BY <1>11, <2>1, <2>2 DEF Settle
<1>12. CASE Release
  <2>1. run' \in Runs
    BY <1>12 DEF Release, Runs
  <2>2. /\ UNCHANGED <<root, record, disk, worker, strays, mail, tracker>>
        /\ UNCHANGED <<pc, task, scarred, kept, overwritten, bounds>>
    BY <1>12 DEF Release
  <2> QED
    BY <2>1, <2>2
<1>13. CASE Suppress
  BY <1>13 DEF Suppress, Steps
<1>14. CASE Publish
  <2>1. run' \in Runs
    BY <1>14 DEF Publish, Runs
  <2>2. disk' \in [Places -> Contents]
    <3>1. CASE disk' = [disk EXCEPT ![run.at].work = FALSE]
      BY <3>1, Directories
    <3>2. CASE disk' = disk
      BY <3>2
    <3> QED
      BY <1>14, <3>1, <3>2 DEF Publish
  <2>3. kept' \subseteq Places /\ overwritten' \subseteq kept'
    BY <1>14 DEF Publish, Report, Aimed, Employed
  <2> QED
    BY <1>14, <2>1, <2>2, <2>3 DEF Publish, Steps
<1>15. CASE Signal
  <2>1. run' \in Runs
    BY <1>15 DEF Signal, Runs
  <2> QED
    BY <1>15, <2>1 DEF Signal, Told, Steps
<1>16. CASE Retire
  <2>1. run' \in Runs
    BY <1>16 DEF Retire, Runs
  <2> QED
    BY <1>16, <2>1 DEF Retire, Told, Steps
<1>17. CASE BeginCleanup
  <2>1. record' \in Records
    BY <1>17 DEF BeginCleanup, Records
  <2> QED
    BY <1>17, <2>1 DEF BeginCleanup, Steps
<1>18. CASE Unhook
  <2>1. disk' \in [Places -> Contents]
    BY <1>18, Directories DEF Unhook
  <2>2. scarred' \subseteq Places
    BY <1>18 DEF Unhook, Aimed, Cleaning
  <2> QED
    BY <1>18, <2>1, <2>2 DEF Unhook, Steps
<1>19. CASE Remove
  <2>1. disk' \in [Places -> Contents]
    BY <1>19, Directories DEF Remove
  <2> QED
    BY <1>19, <2>1 DEF Remove, Steps
<1>20. CASE RemoveFails
  <2>1. bounds' \in [Kinds -> Nat]
    BY <1>20, Counted DEF RemoveFails, Kinds
  <2> QED
    BY <1>20, <2>1 DEF RemoveFails, Steps
<1>21. CASE EndCleanup
  <2>1. record' \in Records
    BY <1>21 DEF EndCleanup, Records
  <2> QED
    BY <1>21, <2>1 DEF EndCleanup, Steps
<1>22. CASE Work
  <2>1. disk' \in [Places -> Contents]
    <3>1. PICK p \in Places : disk' = [disk EXCEPT ![p].work = TRUE]
      BY <1>22 DEF Work, Employed, Aimed
    <3> QED
      BY <3>1, Directories
  <2> QED
    BY <1>22, <2>1 DEF Work
<1>23. CASE Confirm
  <2>1. run' \in Runs
    BY <1>23 DEF Confirm, Runs
  <2>2. bounds' \in [Kinds -> Nat]
    BY <1>23, Counted DEF Confirm, Kinds
  <2> QED
    BY <1>23, <2>1, <2>2 DEF Confirm
<1>24. CASE Exit
  <2>1. disk' \in [Places -> Contents]
    <3>1. CASE disk' = [disk EXCEPT ![run.at].work = FALSE]
      BY <3>1, Directories
    <3>2. CASE disk' = disk
      BY <3>2
    <3> QED
      BY <1>24, <3>1, <3>2 DEF Exit
  <2> QED
    BY <1>24, <2>1 DEF Exit
<1>25. CASE Stop
  <2>1. worker' \in {"none", worker} /\ strays' \subseteq strays
    BY <1>25 DEF Stop
  <2> QED
    BY <1>25, <2>1 DEF Stop
<1>26. CASE Move
  <2>1. bounds' \in [Kinds -> Nat]
    BY <1>26, Counted DEF Move, Kinds
  <2> QED
    BY <1>26, <2>1 DEF Move
<1>27. CASE Edit
  <2>1. disk' \in [Places -> Contents]
    <3> HIDE DEF Typed
    <3>1. PICK p \in Places : \/ disk' = [disk EXCEPT ![p].branch = "foreign"]
                               \/ disk' = [disk EXCEPT ![p] = Absent]
      BY <1>27 DEF Edit
    <3> USE DEF Typed
    <3>2. [disk EXCEPT ![p].branch = "foreign"] \in [Places -> Contents]
      BY Directories
    <3>3. [disk EXCEPT ![p] = Absent] \in [Places -> Contents]
      BY Directories
    <3> QED
      BY <3>1, <3>2, <3>3
  <2>2. bounds' \in [Kinds -> Nat]
    BY <1>27, Counted DEF Edit, Kinds
  <2>3. kept' \subseteq Places /\ overwritten' \subseteq kept'
    BY <1>27 DEF Edit, Unreport
  <2> QED
    BY <1>27, <2>1, <2>2, <2>3 DEF Edit
<1>28. CASE Relocate
  <2>1. bounds' \in [Kinds -> Nat]
    BY <1>28, Counted DEF Relocate, Kinds
  <2> QED
    BY <1>28, <2>1 DEF Relocate
<1>29. CASE Crash
  <2>1. bounds' \in [Kinds -> Nat]
    BY <1>29, Counted DEF Crash, Kinds
  <2>2. worker' \in {"none", worker} /\ strays' \subseteq Places
    BY <1>29 DEF Crash, Employed, Aimed
  <2> QED
    BY <1>29, <2>1, <2>2, NoTaskIs DEF Crash, Steps
<1>30. CASE UNCHANGED vars
  BY <1>30 DEF vars
<1>31. CASE Supersede
  <2>1. run' \in Runs
    BY <1>31 DEF Supersede, Runs
  <2>2. task' \in Tasks
    BY <1>31, NoTaskIs DEF Supersede, Tasks
  <2>3. kept' \subseteq Places /\ overwritten' \subseteq kept'
    BY <1>31 DEF Supersede, Overwrite
  <2>4. bounds' \in [Kinds -> Nat]
    BY <1>31, Counted DEF Supersede, Kinds
  <2> QED
    BY <1>31, <2>1, <2>2, <2>3, <2>4 DEF Supersede, Steps
<1>32. CASE Requeue
  <2>1. run' \in Runs
    BY <1>32 DEF Requeue, Runs
  <2> QED
    BY <1>32, <2>1, NoTaskIs DEF Requeue, Steps
<1>33. CASE Spawn
  <2>1. kept' \subseteq Places /\ overwritten' \subseteq kept'
    BY <1>33 DEF Spawn, Unreport
  <2> QED
    BY <1>33, <2>1 DEF Spawn, Steps
<1>34. CASE RecordPid
  <2>1. run' \in Runs
    BY <1>34 DEF RecordPid, Runs
  <2> QED
    BY <1>34, <2>1, NoTaskIs DEF RecordPid, Steps
<1> QED
  BY <1>1, <1>2, <1>3, <1>4, <1>5, <1>6, <1>7, <1>8, <1>9, <1>10, <1>11, <1>12, <1>13, <1>14,
     <1>15, <1>16, <1>17, <1>18, <1>19, <1>20, <1>21, <1>22, <1>23, <1>24, <1>25, <1>26, <1>27,
     <1>28, <1>29, <1>30, <1>31, <1>32, <1>33, <1>34 DEF Next, DaemonSteps

LEMMA EmployedNext ==
    ASSUME Typed, Employed, Aimed, [Next]_vars PROVE Employed'
<1> USE DEF durable, reports, history
<1>1. CASE Start
  BY <1>1 DEF Start, Target, Foreign, NeedsPopulation, Bare, Absent, Counts, Employed
<1>2. CASE Clear
  BY <1>2 DEF Clear, Bare, Absent, Employed, Starting
<1>3. CASE Clone
  BY <1>3 DEF Clone, Employed, Starting
<1>4. CASE HookSucceeds
  BY <1>4 DEF HookSucceeds, Employed, Starting
<1>5. CASE HookFails
  BY <1>5 DEF HookFails, Employed, Starting
<1>6. CASE Check
  BY <1>6 DEF Check, Employed, Starting
<1>7. CASE Abandon
  BY <1>7 DEF Abandon, Absent, Counts, Employed, Starting
<1>8. CASE SaveRecord
  BY <1>8 DEF SaveRecord, Employed, Starting
<1>9. CASE Fence
  BY <1>9 DEF Fence, Overwrite, NoRun, Employed, Starting, Aimed
<1>10. CASE LaunchFails
  BY <1>10 DEF LaunchFails, Employed, Starting
<1>11. CASE Deliver
  BY <1>11 DEF Deliver, Employed, Starting, Aimed, Typed, Runs
<1>12. CASE Settle
  BY <1>12 DEF Settle, Alive, TransportState, Employed, Starting, Typed, Runs
<1>13. CASE Release
  BY <1>13 DEF Release, Employed
<1>14. CASE Suppress
  BY <1>14 DEF Suppress, Employed, Starting
<1>15. CASE Publish
  BY <1>15 DEF Publish, Employed, Starting, Aimed, Typed, Runs
<1>16. CASE Signal
  BY <1>16 DEF Signal, Told, Employed
<1>17. CASE Retire
  BY <1>17 DEF Retire, Told, Employed
<1>18. CASE BeginCleanup
  BY <1>18 DEF BeginCleanup, Alive, Evidence, Employed, Starting
<1>19. CASE Unhook
  BY <1>19 DEF Unhook, Employed, Starting
<1>20. CASE Remove
  BY <1>20 DEF Remove, Absent, Employed, Starting
<1>21. CASE RemoveFails
  BY <1>21 DEF RemoveFails, Counts, Employed, Starting
<1>22. CASE EndCleanup
  BY <1>22 DEF EndCleanup, Employed, Starting
<1>23. CASE Work
  BY <1>23 DEF Work, Employed
<1>24. CASE Confirm
  BY <1>24 DEF Confirm, Counts, Employed
<1>25. CASE Exit
  BY <1>25 DEF Exit, Employed
<1>26. CASE Stop
  BY <1>26 DEF Stop, Employed
<1>27. CASE Move
  BY <1>27 DEF Move, Counts, Employed
<1>28. CASE Edit
  BY <1>28 DEF Edit, Counts, Absent, Employed
<1>29. CASE Relocate
  BY <1>29 DEF Relocate, Counts, MayEdit, Employed
<1>30. CASE Crash
  BY <1>30 DEF Crash, Counts, NoTask, Employed, Starting
<1>31. CASE UNCHANGED vars
  BY <1>31 DEF vars, Employed, Starting
<1>32. CASE Supersede
  BY <1>32 DEF Supersede, Counts, Employed, Starting, Typed, Runs
<1>33. CASE Requeue
  BY <1>33 DEF Requeue, Employed, Starting, Typed, Runs
<1>34. CASE Spawn
  BY <1>34 DEF Spawn, Employed, Starting
<1>35. CASE RecordPid
  BY <1>35 DEF RecordPid, Employed, Starting, Typed, Runs
<1> QED
  BY <1>1, <1>2, <1>3, <1>4, <1>5, <1>6, <1>7, <1>8, <1>9, <1>10, <1>11, <1>12, <1>13, <1>14,
     <1>15, <1>16, <1>17, <1>18, <1>19, <1>20, <1>21, <1>22, <1>23, <1>24, <1>25, <1>26, <1>27,
     <1>28, <1>29, <1>30, <1>31, <1>32, <1>33, <1>34, <1>35 DEF Next, DaemonSteps

LEMMA AimedNext ==
    ASSUME Typed, Employed, Aimed, [Next]_vars PROVE Aimed'
<1> USE DEF durable, reports, history, Preparing, Starting
<1>1. CASE Start
  BY <1>1 DEF Start, Target, Foreign, NeedsPopulation, Bare, Absent, Counts, Aimed, Starting,
     Cleaning, Main, Recovery
<1>2. CASE Clear
  BY <1>2 DEF Clear, Bare, Absent, Aimed, Starting, Cleaning, Main, Recovery
<1>3. CASE Clone
  BY <1>3 DEF Clone, Aimed, Starting, Cleaning, Main, Recovery
<1>4. CASE HookSucceeds
  BY <1>4 DEF HookSucceeds, Aimed, Starting, Cleaning, Main, Recovery
<1>5. CASE HookFails
  BY <1>5 DEF HookFails, Aimed, Starting, Cleaning, Main, Recovery
<1>6. CASE Check
  BY <1>6 DEF Check, Aimed, Starting, Cleaning, Main, Recovery
<1>7. CASE Abandon
  BY <1>7 DEF Abandon, Absent, Counts, Aimed, Starting, Cleaning
<1>8. CASE SaveRecord
  BY <1>8, PlaceFacts DEF SaveRecord, Aimed, Starting, Cleaning, Main, Recovery, Typed,
     Records, Tasks
<1>9. CASE Fence
  BY <1>9, PlaceFacts DEF Fence, Overwrite, NoRun, Aimed, Starting, Cleaning, Main, Recovery, Typed,
     Records, Tasks
<1>10. CASE LaunchFails
  BY <1>10 DEF LaunchFails, Employed, Aimed, Starting, Cleaning, Typed, Runs
<1>11. CASE Deliver
  <2>1. /\ run'.at = run.at /\ run'.status = run.status
        /\ root' = root /\ record' = record /\ pc = "idle" /\ pc' = pc /\ task' = task
    BY <1>11 DEF Deliver, Typed, Runs
  <2> QED
    BY <2>1 DEF Aimed, Starting, Cleaning, Main, Recovery
<1>12. CASE Settle
  BY <1>12 DEF Settle, TransportState, Aimed, Starting, Cleaning
<1>13. CASE Release
  BY <1>13 DEF Release, Aimed, Starting, Cleaning
<1>14. CASE Suppress
  BY <1>14 DEF Suppress, Aimed, Starting, Cleaning
<1>15. CASE Publish
  <2>1. /\ run'.at = run.at /\ run'.status = run.status
        /\ root' = root /\ record' = record /\ pc' = "signalling" /\ task' = task
    BY <1>15 DEF Publish, Typed, Runs
  <2> QED
    BY <2>1 DEF Aimed, Starting, Cleaning, Main, Recovery
<1>16. CASE Signal
  <2>1. /\ run'.at = run.at /\ run.at \in Places
        /\ root' = root /\ record' = record /\ pc' = "idle" /\ task' = task
    <3>1. run.at \in Places
      BY <1>16 DEF Signal, Employed, Aimed
    <3> QED
      BY <1>16, <3>1 DEF Signal, Typed, Runs
  <2> QED
    BY <2>1 DEF Aimed, Starting, Cleaning, Main, Recovery
<1>17. CASE Retire
  BY <1>17 DEF Retire, Told, Aimed, Starting, Cleaning
<1>18. CASE BeginCleanup
  <2>1. /\ record.at \in Places /\ record'.at = record.at
        /\ UNCHANGED <<run, task>> /\ pc' = "unhooking"
    BY <1>18 DEF BeginCleanup, Aimed, Typed, Records
  <2> QED
    BY <2>1 DEF Aimed, Starting, Cleaning
<1>19. CASE Unhook
  BY <1>19 DEF Unhook, Aimed, Starting, Cleaning
<1>20. CASE Remove
  BY <1>20 DEF Remove, Absent, Aimed, Starting, Cleaning
<1>21. CASE RemoveFails
  BY <1>21 DEF RemoveFails, Counts, Aimed, Starting, Cleaning
<1>22. CASE EndCleanup
  BY <1>22 DEF EndCleanup, Aimed, Starting, Cleaning
<1>23. CASE Work
  BY <1>23 DEF Work, Aimed, Starting, Cleaning, Main, Recovery
<1>24. CASE Confirm
  BY <1>24 DEF Confirm, Counts, Aimed, Starting, Cleaning
<1>25. CASE Exit
  BY <1>25 DEF Exit, Aimed, Starting, Cleaning, Main, Recovery
<1>26. CASE Stop
  BY <1>26 DEF Stop, Aimed, Starting, Cleaning, Main, Recovery
<1>27. CASE Move
  BY <1>27 DEF Move, Counts, Aimed, Starting, Cleaning, Main, Recovery
<1>28. CASE Edit
  BY <1>28 DEF Edit, Counts, Absent, Aimed, Starting, Cleaning, Main, Recovery
<1>29. CASE Relocate
  BY <1>29 DEF Relocate, Counts, MayEdit, Aimed, Starting, Cleaning
<1>30. CASE Crash
  BY <1>30 DEF Crash, Counts, NoTask, Aimed, Starting, Cleaning
<1>31. CASE UNCHANGED vars
  BY <1>31 DEF vars, Aimed, Starting, Main, Recovery
<1>32. CASE Supersede
  BY <1>32 DEF Supersede, Counts, NoTask, Aimed, Preparing, Starting, Cleaning, Typed, Runs
<1>33. CASE Requeue
  BY <1>33 DEF Requeue, Aimed, Preparing, Starting, Cleaning, Main, Recovery, Typed, Runs
<1>34. CASE Spawn
  BY <1>34 DEF Spawn, Aimed, Preparing, Starting, Cleaning
<1>35. CASE RecordPid
  BY <1>35 DEF RecordPid, Aimed, Preparing, Starting, Cleaning, Typed, Runs
<1> QED
  BY <1>1, <1>2, <1>3, <1>4, <1>5, <1>6, <1>7, <1>8, <1>9, <1>10, <1>11, <1>12, <1>13, <1>14,
     <1>15, <1>16, <1>17, <1>18, <1>19, <1>20, <1>21, <1>22, <1>23, <1>24, <1>25, <1>26, <1>27,
     <1>28, <1>29, <1>30, <1>31, <1>32, <1>33, <1>34, <1>35 DEF Next, DaemonSteps

LEMMA PopulatedNext ==
    ASSUME Typed, Aimed, Populated, [Next]_vars PROVE Populated'
<1> USE DEF durable, reports, history, Preparing, Starting
<1>1. CASE Start
  BY <1>1, PlaceFacts DEF Start, Target, Foreign, NeedsPopulation, Bare, Absent, Counts,
     Populated, Typed
<1>2. CASE Clear
  BY <1>2 DEF Clear, Bare, Absent, Populated
<1>3. CASE Clone
  BY <1>3 DEF Clone, Populated
<1>4. CASE HookSucceeds
  <2>1. /\ disk'[task.at].repo = "whole" /\ UNCHANGED <<record, task, scarred>>
        /\ \A p \in Places : p # task.at => disk'[p] = disk[p]
    BY <1>4, PlaceFacts DEF HookSucceeds, Aimed, Starting, Typed
  <2> QED
    BY <1>4, <2>1 DEF HookSucceeds, Populated
<1>5. CASE HookFails
  BY <1>5 DEF HookFails, Populated
<1>6. CASE Check
  BY <1>6 DEF Check, Populated
<1>7. CASE Abandon
  BY <1>7 DEF Abandon, Absent, Counts, Populated, Typed
<1>8. CASE SaveRecord
  BY <1>8 DEF SaveRecord, Populated
<1>9. CASE Fence
  BY <1>9 DEF Fence, Overwrite, NoRun, Populated
<1>10. CASE LaunchFails
  BY <1>10 DEF LaunchFails, Populated
<1>11. CASE Deliver
  BY <1>11 DEF Deliver, Populated
<1>12. CASE Settle
  BY <1>12 DEF Settle, TransportState, Populated
<1>13. CASE Release
  BY <1>13 DEF Release, Populated
<1>14. CASE Suppress
  BY <1>14 DEF Suppress, Populated
<1>15. CASE Publish
  BY <1>15 DEF Publish, Populated, Typed, Records, Contents, Tasks
<1>16. CASE Signal
  BY <1>16 DEF Signal, Told, Populated
<1>17. CASE Retire
  BY <1>17 DEF Retire, Told, Populated
<1>18. CASE BeginCleanup
  BY <1>18 DEF BeginCleanup, Alive, Evidence, Populated
<1>19. CASE Unhook
  BY <1>19 DEF Unhook, Populated
<1>20. CASE Remove
  BY <1>20 DEF Remove, Absent, Populated
<1>21. CASE RemoveFails
  BY <1>21 DEF RemoveFails, Counts, Populated
<1>22. CASE EndCleanup
  BY <1>22 DEF EndCleanup, Populated
<1>23. CASE Work
  BY <1>23 DEF Work, Populated
<1>24. CASE Confirm
  BY <1>24 DEF Confirm, Counts, Populated
<1>25. CASE Exit
  <2>1. \A p \in Places : disk'[p].repo = disk[p].repo
    BY <1>25 DEF Exit, Typed, Contents
  <2>2. pc \in Preparing => task.at \in Places
    BY PlaceFacts DEF Aimed, Typed
  <2> QED
    BY <1>25, <2>1, <2>2 DEF Exit, Populated, Starting
<1>26. CASE Stop
  BY <1>26 DEF Stop, Populated
<1>27. CASE Move
  BY <1>27 DEF Move, Counts, Populated
<1>28. CASE Edit
  <2>1. UNCHANGED <<record, pc, task, scarred>>
    BY <1>28 DEF Edit
  <2>2. pc \in Preparing => task.at \in Places
    BY PlaceFacts DEF Aimed, Typed
  <2>3. PICK p \in Places :
           \/ disk' = [disk EXCEPT ![p].branch = "foreign"]
           \/ disk' = [disk EXCEPT ![p] = Absent] /\ pc = "idle"
    BY <1>28 DEF Edit
  <2>4. CASE disk' = [disk EXCEPT ![p].branch = "foreign"]
    <3>1. \A q \in Places : disk'[q].repo = disk[q].repo
      BY <2>4 DEF Typed, Contents
    <3> QED
      BY <2>1, <2>2, <3>1 DEF Populated, Starting
  <2>5. CASE disk' = [disk EXCEPT ![p] = Absent] /\ pc = "idle"
    <3>1. \A q \in Places : disk'[q].repo \in {disk[q].repo, "absent"}
      BY <2>5 DEF Typed, Absent
    <3> QED
      BY <2>1, <2>5, <3>1 DEF Populated
  <2> QED
    BY <2>3, <2>4, <2>5
<1>29. CASE Relocate
  BY <1>29 DEF Relocate, Counts, MayEdit, Populated
<1>30. CASE Crash
  BY <1>30 DEF Crash, Counts, NoTask, Populated
<1>31. CASE UNCHANGED vars
  BY <1>31 DEF vars, Populated
<1>32. CASE Supersede
  BY <1>32 DEF Supersede, Counts, Populated
<1>33. CASE Requeue
  BY <1>33 DEF Requeue, Populated
<1>34. CASE Spawn
  BY <1>34 DEF Spawn, Populated
<1>35. CASE RecordPid
  BY <1>35 DEF RecordPid, Populated
<1> QED
  BY <1>1, <1>2, <1>3, <1>4, <1>5, <1>6, <1>7, <1>8, <1>9, <1>10, <1>11, <1>12, <1>13, <1>14,
     <1>15, <1>16, <1>17, <1>18, <1>19, <1>20, <1>21, <1>22, <1>23, <1>24, <1>25, <1>26, <1>27,
     <1>28, <1>29, <1>30, <1>31, <1>32, <1>33, <1>34, <1>35 DEF Next, DaemonSteps

LEMMA RetainedNext ==
    ASSUME Typed, Employed, Aimed, Retained, [Next]_vars PROVE Retained'
<1> USE DEF durable, reports, history, Held
<1>1. CASE Start
  BY <1>1 DEF Start, Target, Foreign, NeedsPopulation, Bare, Absent, Counts, Retained, Main,
     Recovery, Cleaning, Typed, Kinds
<1>2. CASE Clear
  BY <1>2 DEF Clear, Unreport, Bare, Absent, Retained, Main, Recovery, Cleaning, Typed, Contents
<1>3. CASE Clone
  BY <1>3 DEF Clone, Retained, Main, Recovery, Cleaning
<1>4. CASE HookSucceeds
  <2> SUFFICES ASSUME bounds'.roots = 0 PROVE Retained'
    BY DEF Retained
  <2>1. /\ UNCHANGED <<root, record, run, reports, bounds, task>>
        /\ pc = "cloned" /\ pc' = "checking"
        /\ \A p \in Places : p # task.at => disk'[p] = disk[p]
    BY <1>4 DEF HookSucceeds, Typed
  <2>2. task.at \notin Held /\ Held \subseteq Places /\ Held' = Held
    BY <2>1 DEF Retained, Typed
  <2>3. \A p \in Held' : disk'[p] = disk[p]
    BY <2>1, <2>2
  <2> QED
    BY <2>1, <2>2, <2>3 DEF Retained, Main, Recovery, Cleaning
<1>5. CASE HookFails
  BY <1>5 DEF HookFails, Retained, Main, Recovery, Cleaning
<1>6. CASE Check
  BY <1>6 DEF Check, Aimed, Starting, Retained, Main, Recovery, Cleaning
<1>7. CASE Abandon
  <2>1. /\ UNCHANGED <<root, record, run, reports>> /\ pc = "abandoning" /\ pc' = "idle"
        /\ bounds'.roots = bounds.roots
        /\ \A p \in Places : p # task.at => disk'[p] = disk[p]
    BY <1>7 DEF Abandon, Counts, Typed, Kinds
  <2> SUFFICES ASSUME bounds'.roots = 0 PROVE Retained'
    BY DEF Retained
  <2>2. task.at \notin Held /\ Held \subseteq Places /\ Held' = Held
    BY <2>1 DEF Retained, Typed
  <2>3. \A p \in Held' : disk'[p] = disk[p]
    BY <2>1, <2>2
  <2> QED
    BY <2>1, <2>2, <2>3 DEF Retained, Main, Recovery, Cleaning
<1>8. CASE SaveRecord
  <2>1. /\ pc = "saving" /\ pc' = "launching" /\ UNCHANGED <<root, disk, run, task, reports, bounds>>
        /\ record'.at = task.at /\ record'.unpub = FALSE
    BY <1>8 DEF SaveRecord
  <2>2. task.at \in {Main, Recovery} /\ (record.at = Recovery => task.at = Recovery)
    BY <2>1 DEF Aimed, Starting, Preparing
  <2> SUFFICES ASSUME bounds'.roots = 0 PROVE Retained'
    BY DEF Retained
  <2>3. task.at \notin Held /\ Held' = Held
    BY <2>1 DEF Retained
  <2> QED
    BY <2>1, <2>2, <2>3, PlaceFacts DEF Retained, Main, Recovery, Cleaning
<1>9. CASE Fence
  BY <1>9 DEF Fence, Overwrite, NoRun, Retained, Main, Recovery, Cleaning, Starting, Aimed, Typed,
     Kinds, Contents
<1>10. CASE LaunchFails
  BY <1>10 DEF LaunchFails, Retained, Main, Recovery, Cleaning
<1>11. CASE Deliver
  <2>1. CASE UNCHANGED <<run, reports>>
    BY <1>11, <2>1 DEF Deliver, Retained, Main, Recovery, Cleaning
  <2>2. CASE ~UNCHANGED <<run, reports>>
    <3> SUFFICES ASSUME bounds'.roots = 0 PROVE Retained'
      BY DEF Retained
    <3>1. /\ UNCHANGED <<root, record, disk, task, bounds>> /\ pc = "idle" /\ pc' = pc
          /\ run.status \in {"running", "retrying"} /\ run' \in Runs
          /\ run'.unpub = (mail = "unpublished") /\ run'.at = run.at
          /\ run'.status = run.status /\ run'.pushed = (mail = "pushed")
          /\ Report(run.at, mail = "unpublished")
      BY <1>11, <2>2, TypedNext DEF Deliver, Typed, Runs
    <3>2. run.at \in {Main, Recovery}
      BY <3>1, PlaceFacts DEF Aimed, Retained
    <3>3. (\A p \in Held : disk[p].repo = "whole") /\ kept \subseteq {Main, Recovery}
      BY <3>1 DEF Retained
    <3>4. /\ kept' \subseteq kept \cup {run.at} /\ \A p \in Held' : p \in Held \/ p = run.at
          /\ \A p \in Held' : disk'[p].repo = "whole"
      BY <3>1, <3>3 DEF Report, Typed
    <3>5. run.at \in kept' => run'.unpub
      BY <3>1 DEF Report
    <3>6. record.at \in Held => record.unpub \/ run.at = record.at
      BY <3>1 DEF Retained
    <3> QED
      BY <3>1, <3>2, <3>3, <3>4, <3>5, <3>6, PlaceFacts DEF Retained, Main, Recovery, Cleaning
  <2> QED
    BY <2>1, <2>2
<1>12. CASE Settle
  BY <1>12 DEF Settle, TransportState, Employed, Retained, Main, Recovery, Cleaning, Typed, Runs,
     Records
<1>13. CASE Release
  BY <1>13 DEF Release, Retained, Main, Recovery
<1>14. CASE Suppress
  BY <1>14 DEF Suppress, Retained, Main, Recovery, Cleaning
<1>15. CASE Publish
  <2> SUFFICES ASSUME bounds'.roots = 0 PROVE Retained'
    BY DEF Retained
  <2>1. /\ UNCHANGED <<root, record, task, bounds>> /\ pc' = "signalling" /\ run'.at = run.at
        /\ Report(run.at, run'.unpub) /\ run'.unpub \in BOOLEAN
    BY <1>15 DEF Publish, Typed, Runs
  <2>2. \A p \in Places : disk'[p].repo = disk[p].repo
    BY <1>15 DEF Publish, Typed, Contents
  <2>3. run.at \in {Main, Recovery} /\ run.at = record.at
    BY <1>15, <2>1, PlaceFacts DEF Publish, Employed, Aimed, Retained
  <2>4. (\A p \in Held : disk[p].repo = "whole") /\ kept \subseteq {Main, Recovery}
    BY <2>1 DEF Retained
  <2>5. kept' \subseteq kept \cup {run.at} /\ \A p \in Held' : disk[p].repo = "whole"
    BY <2>1, <2>4 DEF Report, Typed
  <2>6. run.at \in kept' => run'.unpub
    BY <2>1 DEF Report
  <2>7. \A p \in Held' : disk'[p].repo = "whole"
    BY <2>2, <2>3, <2>4, <2>5, PlaceFacts DEF Typed
  <2> QED
    BY <2>1, <2>3, <2>4, <2>5, <2>6, <2>7, PlaceFacts DEF Retained, Main, Recovery, Cleaning
<1>16. CASE Signal
  BY <1>16 DEF Signal, Told, Retained, Main, Recovery, Cleaning
<1>17. CASE Retire
  BY <1>17 DEF Retire, Told, Retained, Main, Recovery
<1>18. CASE BeginCleanup
  BY <1>18 DEF BeginCleanup, Alive, Evidence, Retained, Main, Recovery
<1>19. CASE Unhook
  BY <1>19 DEF Unhook, Retained, Main, Recovery, Cleaning
<1>20. CASE Remove
  BY <1>20 DEF Remove, Absent, Retained, Main, Recovery, Cleaning
<1>21. CASE RemoveFails
  BY <1>21 DEF RemoveFails, Counts, Retained, Main, Recovery, Cleaning
<1>22. CASE EndCleanup
  BY <1>22 DEF EndCleanup, Retained, Main, Recovery, Cleaning
<1>23. CASE Work
  BY <1>23 DEF Work, Retained, Main, Recovery
<1>24. CASE Confirm
  BY <1>24 DEF Confirm, Counts, Retained, Main, Recovery
<1>25. CASE Exit
  BY <1>25 DEF Exit, Retained, Main, Recovery, Cleaning, Starting, Aimed, Typed, Kinds,
     Contents
<1>26. CASE Stop
  BY <1>26 DEF Stop, Retained, Main, Recovery
<1>27. CASE Move
  BY <1>27 DEF Move, Counts, Retained, Main, Recovery
<1>28. CASE Edit
  BY <1>28 DEF Edit, Unreport, Counts, Absent, Retained, Main, Recovery, Cleaning, Starting, Aimed,
     Typed, Kinds, Contents
<1>29. CASE Relocate
  BY <1>29 DEF Relocate, Counts, MayEdit, Retained, Main, Recovery, Cleaning, Typed, Kinds
<1>30. CASE Crash
  BY <1>30 DEF Crash, Counts, NoTask, Retained, Main, Recovery, Cleaning
<1>31. CASE UNCHANGED vars
  BY <1>31 DEF vars, Retained, Main, Recovery
<1>32. CASE Supersede
  <2>1. /\ UNCHANGED <<root, record, disk, kept>> /\ pc' = "superseding"
        /\ run'.at = run.at /\ run'.status = "failed" /\ bounds'.roots = bounds.roots
    BY <1>32 DEF Supersede, Overwrite, Counts, Typed, Runs, Kinds
  <2>2. Held' \subseteq Held /\ (run'.unpub = run.unpub \/ record.unpub \/ run.at \notin Held')
    BY <1>32 DEF Supersede, Overwrite, Typed, Runs
  <2> QED
    BY <2>1, <2>2 DEF Retained, Main, Recovery, Cleaning
<1>33. CASE Requeue
  BY <1>33 DEF Requeue, Aimed, Starting, Retained, Held, Main, Recovery, Cleaning, Typed, Runs,
     Tasks
<1>34. CASE Spawn
  BY <1>34 DEF Spawn, Unreport, Retained, Held, Main, Recovery, Cleaning, Typed
<1>35. CASE RecordPid
  BY <1>35 DEF RecordPid, Retained, Held, Main, Recovery, Cleaning, Typed, Runs
<1> QED
  BY <1>1, <1>2, <1>3, <1>4, <1>5, <1>6, <1>7, <1>8, <1>9, <1>10, <1>11, <1>12, <1>13, <1>14,
     <1>15, <1>16, <1>17, <1>18, <1>19, <1>20, <1>21, <1>22, <1>23, <1>24, <1>25, <1>26, <1>27,
     <1>28, <1>29, <1>30, <1>31, <1>32, <1>33, <1>34, <1>35 DEF Next, DaemonSteps

-----------------------------------------------------------------------------
(* The theorems.                                                            *)

LEMMA Invariant ==
    ASSUME WorkspaceAssumption PROVE Spec => []IInv
<1>i. Init => IInv
  BY InitHolds
<1>1. IInv /\ [Next]_vars => IInv'
  BY TypedNext, EmployedNext, AimedNext, PopulatedNext, RetainedNext DEF IInv
<1> QED
  BY <1>i, <1>1, PTL DEF Spec

THEOREM WorkspaceTypeCorrect ==
    ASSUME WorkspaceAssumption PROVE Spec => []TypeOK
<1>1. IInv => TypeOK
  BY TypedIs DEF IInv
<1> QED
  BY Invariant, <1>1, PTL

LEMMA DiskSteps ==
    ASSUME Next
    PROVE  \/ Start \/ Clear \/ Clone \/ HookSucceeds \/ Abandon \/ Publish \/ Unhook \/ Remove
           \/ Work \/ Exit \/ Edit \/ disk' = disk
BY DEF Next, DaemonSteps, HookFails, Check, SaveRecord, Supersede, Requeue, Fence,
       Spawn, RecordPid, LaunchFails, Deliver, Settle,
       Release, Suppress, Signal, Retire, BeginCleanup, RemoveFails, EndCleanup, Confirm, Stop,
       Move, Relocate, Crash

(* No directory goes from under a worker that nobody has told to stop       *)
(* (service.ts:6519-6548, 3261): no start, no cleanup and no operator who   *)
(* looks at the daemon's state takes it.                                    *)
THEOREM WorkersKeepTheirs ==
    ASSUME WorkspaceAssumption PROVE Spec => WorkersKeepTheirDirectory
<1>1. ASSUME IInv, Next, worker = "working" PROVE disk'[run.at].repo = disk[run.at].repo
  <2>1. /\ run.status = "running" /\ pc \in {"idle", "publishing", "signalling", "spawned"}
        /\ run.at \in Places /\ disk \in [Places -> Contents]
    BY <1>1 DEF IInv, Typed, Employed, Aimed
  <2>2. CASE Publish
    BY <2>1, <2>2 DEF Publish, Contents
  <2>3. CASE Work
    BY <2>1, <2>3 DEF Work, Contents
  <2>4. CASE Exit
    BY <2>1, <2>4 DEF Exit, Contents
  <2>5. CASE Edit
    BY <1>1, <2>1, <2>5 DEF Edit, Contents
  <2>6. CASE disk' = disk
    BY <2>6
  <2> QED
    BY <1>1, <2>1, <2>2, <2>3, <2>4, <2>5, <2>6, DiskSteps
    DEF Start, Clear, Clone, HookSucceeds, Abandon, Unhook, Remove
<1>2. IInv /\ [Next]_vars
      => [worker = "working" => disk'[run.at].repo = disk[run.at].repo]_vars
  BY <1>1
<1> QED
  BY Invariant, <1>2, PTL DEF Spec, WorkersKeepTheirDirectory

(* The daemon never touches a checkout that a foreign branch made the       *)
(* operator's, for any number of roots, moves of the root and edits         *)
(* (service.ts:3261-3297): the next start goes to the recovery checkout,    *)
(* and so does every later one, for as long as the record names it.         *)
THEOREM ForeignAreKept ==
    ASSUME WorkspaceAssumption PROVE Spec => ForeignCheckoutsAreKept
<1> DEFINE Guarded == /\ bounds'.edits = bounds.edits /\ worker = "none"
                      /\ strays = {}
                      /\ \/ record.at = Recovery
                         \/ pc \in Starting /\ record.at = Main /\ task.at = Recovery
<1>1. ASSUME IInv, Next, Guarded PROVE disk'[Main] = disk[Main]
  <2>1. /\ Main # Recovery /\ Main \in Places
        /\ disk \in [Places -> Contents] /\ bounds \in [Kinds -> Nat]
        /\ pc \in Starting => task.at # Main
        /\ pc \in {"publishing", "signalling"} => run.at = record.at
    BY <1>1, PlaceFacts DEF IInv, Typed, Employed, Aimed
  <2>2. pc \in Starting \/ record.at = Recovery
    BY <1>1
  <2>3. CASE Start
    BY <1>1, <2>1, <2>3 DEF Start, Target, Starting
  <2>4. CASE Clear \/ Clone \/ HookSucceeds \/ Abandon
    BY <2>1, <2>4 DEF Clear, Clone, HookSucceeds, Abandon, Starting
  <2>5. CASE Publish
    BY <2>1, <2>2, <2>5 DEF Publish, Starting
  <2>6. CASE Unhook \/ Remove
    BY <2>1, <2>2, <2>6 DEF Unhook, Remove, Starting
  <2>7. CASE Edit
    BY <1>1, <2>1, <2>7 DEF Edit, Counts, Kinds
  <2> QED
    BY <1>1, <2>3, <2>4, <2>5, <2>6, <2>7, DiskSteps DEF Work, Exit
<1>2. IInv /\ [Next]_vars => [Guarded => disk'[Main] = disk[Main]]_vars
  BY <1>1
<1> QED
  BY Invariant, <1>2, PTL DEF Spec, ForeignCheckoutsAreKept

(* Work that a run has reported as unpublished stays where it is while the  *)
(* root stays (service.ts:6550-6597, 6644-6664), until a later start writes *)
(* over the report (3715, 5671-5680) or another run has gone to work there. *)
THEOREM ReportedIsKept ==
    ASSUME WorkspaceAssumption PROVE Spec => ReportedWorkIsKept
<1>1. IInv => (bounds.roots = 0 => \A p \in Held : disk[p].repo = "whole")
  BY DEF IInv, Retained
<1>2. IInv /\ IInv' /\ [Next]_vars
      => [bounds.roots = 0 =>
             \A p \in Held \cap Held' : disk[p].repo = "whole" => disk'[p].repo = "whole"]_vars
  <2> SUFFICES ASSUME IInv, IInv', Next, bounds.roots = 0, NEW p \in Held \cap Held'
               PROVE  disk'[p].repo = "whole"
    OBVIOUS
  <2>1. CASE Relocate
    BY <1>1, <2>1 DEF Relocate
  <2>2. CASE ~Relocate
    <3>1. bounds'.roots = 0
      BY <2>2 DEF IInv, Typed, Kinds, Next, DaemonSteps, Counts, Start, Clear, Clone, HookSucceeds,
         HookFails, Check, Abandon, SaveRecord, Supersede, Requeue, Fence,
       Spawn, RecordPid, LaunchFails, Deliver, Settle, Release,
         Suppress, Publish, Signal, Retire, BeginCleanup, Unhook, Remove, RemoveFails, EndCleanup,
         Work, Confirm, Exit, Stop, Move, Edit, Crash
    <3> QED
      BY <3>1 DEF IInv, Retained
  <2> QED
    BY <2>1, <2>2
<1> QED
  BY Invariant, <1>2, PTL DEF Spec, ReportedWorkIsKept

(* The three of them, as the model is checked for.                          *)
THEOREM CheckoutsStay ==
    ASSUME WorkspaceAssumption PROVE Spec => CheckoutsAreKept
BY ForeignAreKept, ReportedIsKept, WorkersKeepTheirs DEF CheckoutsAreKept

(* No worker starts in a checkout whose after_create hook has not finished, *)
(* unless a removal or a second population has been at it before            *)
(* (service.ts:3425-3461).                                                  *)
THEOREM PopulationsAreWhole ==
    ASSUME WorkspaceAssumption PROVE Spec => FirstPopulationIsWhole
<1>1. ASSUME IInv, Next, worker # "working", worker' = "working"
      PROVE  disk[task.at].repo = "whole" \/ task.at \in scarred
  <2>1. Spawn
    BY <1>1 DEF Next, DaemonSteps, Told, Start, Clear, Clone, HookSucceeds,
       HookFails, Check, Abandon, SaveRecord, Supersede, Requeue,
       Fence, RecordPid, LaunchFails, Deliver, Settle, Release,
       Suppress, Publish, Signal, Retire, BeginCleanup, Unhook, Remove, RemoveFails, EndCleanup,
       Work, Confirm, Exit, Stop, Move, Edit, Relocate, Crash
  <2> QED
    BY <1>1, <2>1 DEF Spawn, IInv, Populated
<1>2. IInv /\ [Next]_vars
      => [worker # "working" /\ worker' = "working"
             => disk[task.at].repo = "whole" \/ task.at \in scarred]_vars
  BY <1>1
<1> QED
  BY Invariant, <1>2, PTL DEF Spec, FirstPopulationIsWhole
=============================================================================
