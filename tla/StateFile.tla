------------------------------ MODULE StateFile ------------------------------
(***************************************************************************)
(* One JSON file of the state store (orchestrator/src/fs-store.ts) and the *)
(* atomic write every save of it goes through (durable-file.ts): the       *)
(* directory if it is missing, a new temporary file, its bytes, fsync,     *)
(* rename over the name, fsync of the directory.  The operating system may *)
(* hold back whatever has not been synced, and a crash of the machine      *)
(* loses any part of it.  The entry of a directory just made stands in its *)
(* parent, which no save syncs: until the system has written it back, a    *)
(* crash may take the directory and all that is in it.                     *)
(***************************************************************************)
EXTENDS Naturals, Sequences, FiniteSets, FiniteSetsExt, SequencesExt

CONSTANTS
    Saves,          \* calls that write the file, by any process
    Migrations      \* those made by a load that found only the legacy file

(* Assumed of the constants, by the modules that check this one.            *)
StateFileAssumption == IsFiniteSet(Saves) /\ Migrations \subseteq Saves

VARIABLES
    dir,        \* the file's directory: none, made, or kept on the disk
    stage,      \* how far each save has come
    whole,      \* the bytes of its file are complete
    firm,       \* ... and synced
    order,      \* the renames over the name: readers see the last one's file
    disk        \* how many of them the directory on disk is sure to have

vars == <<dir, stage, whole, firm, order, disk>>

Stages == {"idle", "legacy", "opened", "written", "synced", "renamed", "saved", "failed", "lost"}

Init ==
    /\ dir \in {"none", "kept"}
    /\ stage = [s \in Saves |-> "idle"]
    /\ whole = [s \in Saves |-> FALSE]
    /\ firm = [s \in Saves |-> FALSE]
    /\ order = <<>> /\ disk = 0

To(s, st) == stage' = [stage EXCEPT ![s] = st]

(* A load of issues.json reads the project's file, then the legacy ones.    *)
LoadLegacy(s) ==
    /\ s \in Migrations /\ stage[s] = "idle" /\ order = <<>>
    /\ To(s, "legacy")
    /\ UNCHANGED <<dir, whole, firm, order, disk>>

(* mkdir, recursive, and open of a name nobody else has.                    *)
Open(s) ==
    /\ stage[s] = IF s \in Migrations THEN "legacy" ELSE "idle"
    /\ To(s, "opened") /\ dir' = IF dir = "none" THEN "made" ELSE dir
    /\ UNCHANGED <<whole, firm, order, disk>>

Write(s) ==
    /\ stage[s] = "opened"
    /\ To(s, "written") /\ whole' = [whole EXCEPT ![s] = TRUE]
    /\ UNCHANGED <<dir, firm, order, disk>>

Sync(s) ==
    /\ stage[s] = "written"
    /\ To(s, "synced") /\ firm' = [firm EXCEPT ![s] = TRUE]
    /\ UNCHANGED <<dir, whole, order, disk>>

Rename(s) ==
    /\ stage[s] = "synced"
    /\ To(s, "renamed") /\ order' = Append(order, s)
    /\ UNCHANGED <<dir, whole, firm, disk>>

(* Slip: the directory is not synced.                                       *)
SkipDirectory(s) ==
    /\ stage[s] = "renamed" /\ To(s, "saved")
    /\ UNCHANGED <<dir, whole, firm, order, disk>>

SyncDirectory(s) ==
    /\ stage[s] = "renamed"
    /\ To(s, "saved") /\ disk' = Len(order)
    /\ UNCHANGED <<dir, whole, firm, order>>

(* A step throws: the temporary file is removed.  After the rename there is *)
(* none, and a save that reports an error stays visible.                    *)
Fail(s) ==
    /\ stage[s] \in {"opened", "written", "synced", "renamed"}
    /\ To(s, "failed")
    /\ UNCHANGED <<dir, whole, firm, order, disk>>

(* The system writes the parent of a new directory, in its own time.        *)
WriteBack ==
    /\ dir = "made" /\ dir' = "kept"
    /\ UNCHANGED <<stage, whole, firm, order, disk>>

(* The machine stops.  The writers are gone; the name points where one of   *)
(* the renames since the last sync of the directory left it, and bytes that *)
(* were not synced may be missing.                                          *)
Crash ==
    /\ \E n \in disk..Len(order) : order' = SubSeq(order, 1, n) /\ disk' = n
    /\ \E kept \in SUBSET {s \in Saves : whole[s] /\ ~firm[s]} :
           whole' = [s \in Saves |-> firm[s] \/ s \in kept]
    /\ stage' = [s \in Saves |-> IF stage[s] \in {"idle", "saved"} THEN stage[s] ELSE "failed"]
    /\ dir' = IF dir = "made" THEN "kept" ELSE dir
    /\ UNCHANGED firm

(* ... and the directory was not on the disk yet.                           *)
Ruin ==
    /\ dir = "made" /\ dir' = "none"
    /\ order' = <<>> /\ disk' = 0
    /\ stage' = [s \in Saves |-> IF stage[s] = "idle" THEN "idle" ELSE "lost"]
    /\ UNCHANGED <<whole, firm>>

Next ==
    \/ WriteBack \/ Crash \/ Ruin
    \/ \E s \in Saves :
          LoadLegacy(s) \/ Open(s) \/ Write(s) \/ Sync(s) \/ Rename(s)
              \/ SyncDirectory(s) \/ Fail(s)

Spec == Init /\ [][Next]_vars

-----------------------------------------------------------------------------

TypeOK ==
    /\ dir \in {"none", "made", "kept"} /\ stage \in [Saves -> Stages]
    /\ whole \in [Saves -> BOOLEAN] /\ firm \in [Saves -> BOOLEAN]
    /\ order \in BoundedSeq(Saves, Cardinality(Saves)) /\ disk \in 0..Len(order)

(* A reader never sees a file that is cut short: neither while a save runs, *)
(* nor after one failed, nor after a crash.                                 *)
ReadsAreWhole == order = <<>> \/ whole[Last(order)]

(* What the file promises: once its directory is on the disk, no crash      *)
(* loses an acknowledged save; before, one may lose them all.               *)
Acknowledged == Max({0} \union {i \in DOMAIN order : stage[order[i]] = "saved"})

Register == INSTANCE DurableRegister WITH past <- order, floor <- Acknowledged,
    place <- IF dir = "kept" THEN "kept" ELSE "new"

SavesAreDurable == Register!Spec
==============================================================================
