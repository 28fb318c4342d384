------------------------------ MODULE EventTrail ------------------------------
(***************************************************************************)
(* A run's events: FsStateStore.appendRunEvent writes a line to            *)
(* events.ndjson and syncs it, mirrors it, and offers the event to the log *)
(* pipeline; loadRecentRunEvents reads the lines back.  The process may    *)
(* shut its telemetry down or die with the machine; the disk keeps what    *)
(* was synced, and of the rest any beginning, cut anywhere.  The entry of  *)
(* a directory the append had to make is synced by nobody (StateFile).     *)
(***************************************************************************)
EXTENDS LogPipeline

VARIABLES
    folder,     \* the log's directory: none, made, or kept on the disk
    append,     \* how far the append of each event has come
    file,       \* the log: its pieces in order, a whole line or the head of one
    short,      \* events of which the disk took the head and reported no error
    synced,     \* pieces that are synced
    entry,      \* the directory entry of the log is synced
    up          \* "up", "closing" (shutdown of the telemetry) or "gone"

trail == <<folder, append, file, short, synced, entry>>
vars == <<trail, up, logVars>>

AppendStages == {"new", "written", "synced", "durable", "offered", "failed"}

TrailInit ==
    /\ folder \in {"none", "kept"} /\ append = [e \in Events |-> "new"]
    /\ file = <<>> /\ short = {} /\ synced = 0 /\ entry = FALSE /\ up = "up"

Init == TrailInit /\ LogInit

Stage(e, from, to) == append[e] = from /\ append' = [append EXCEPT ![e] = to]
Elsewhere == UNCHANGED <<up, logVars>>

(* mkdir, open and handle.write: the whole line, or its head when the disk  *)
(* is full, with or without an error (the count it returns is not looked    *)
(* at).                                                                     *)
Write(e) ==
    /\ up # "gone"
    /\ folder' = IF folder = "none" THEN "made" ELSE folder
    /\ \/ /\ Stage(e, "new", "written") /\ file' = Append(file, [of |-> e, got |-> "line"])
          /\ UNCHANGED short
       \/ /\ Stage(e, "new", "written") /\ file' = Append(file, [of |-> e, got |-> "head"])
          /\ short' = short \union {e}
       \/ /\ Stage(e, "new", "failed") /\ file' = Append(file, [of |-> e, got |-> "head"])
          /\ UNCHANGED short
    /\ UNCHANGED <<synced, entry>> /\ Elsewhere

Sync(e) ==
    /\ Stage(e, "written", "synced") /\ synced' = Len(file)
    /\ UNCHANGED <<folder, file, short, entry>> /\ Elsewhere

SyncDirectory(e) ==
    /\ Stage(e, "synced", "durable") /\ entry' = TRUE
    /\ UNCHANGED <<folder, file, short, synced>> /\ Elsewhere

Fail(e) ==
    /\ append[e] \in {"written", "synced"}
    /\ append' = [append EXCEPT ![e] = "failed"]
    /\ UNCHANGED <<folder, file, short, synced, entry>> /\ Elsewhere

Publish(e) ==
    /\ Stage(e, "durable", "offered")
    /\ \/ up = "up" /\ Offer(e)
       \/ up = "closing" /\ UNCHANGED logVars
    /\ UNCHANGED <<folder, file, short, synced, entry, up>>

(* The system writes the parent of a new directory, in its own time.        *)
WriteBack ==
    /\ folder = "made" /\ folder' = "kept"
    /\ UNCHANGED <<append, file, short, synced, entry>> /\ Elsewhere

(* lifecycle.shutdown: the pipelines are closed, with one deadline.         *)
Shutdown ==
    /\ up = "up" /\ up' = "closing"
    /\ Close
    /\ UNCHANGED trail

Gone ==
    /\ up' = "gone"
    /\ LogsGone
    /\ append' = [e \in Events |-> IF append[e] \in {"durable", "offered"} THEN append[e] ELSE "failed"]

(* They are done, or the deadline of the lifecycle itself is over.          *)
Over ==
    /\ up = "closing" /\ Gone
    /\ UNCHANGED <<folder, file, short, synced, entry>>

Crash ==
    /\ up # "gone" /\ Gone
    /\ \/ /\ folder' = IF folder = "made" THEN "kept" ELSE folder
          /\ \E n \in (IF entry THEN synced ELSE 0)..Len(file) :
                \/ file' = SubSeq(file, 1, n)
                \/ /\ n < Len(file)
                   /\ file' = Append(SubSeq(file, 1, n), [file[n + 1] EXCEPT !.got = "head"])
       \/ folder = "made" /\ folder' = "none" /\ file' = <<>>
    /\ synced' = Len(file')
    /\ UNCHANGED <<short, entry>>

Logs == up # "gone" /\ UNCHANGED <<trail, up>>

Next ==
    \/ \E e \in Events :
          \/ Write(e) \/ Sync(e) \/ SyncDirectory(e) \/ Fail(e) \/ Publish(e)
    \/ WriteBack
    \/ ExportSteps /\ Logs
    \/ Interval /\ Logs
    \/ Expire /\ Logs
    \/ (\E b \in transit : Arrive(b)) /\ UNCHANGED <<trail, up>>
    \/ Shutdown \/ Over \/ Crash

Spec == Init /\ [][Next]_vars

-----------------------------------------------------------------------------

TypeOK ==
    /\ folder \in {"none", "made", "kept"} /\ append \in [Events -> AppendStages]
    /\ short \subseteq Events
    /\ synced \in 0..Len(file) /\ entry \in BOOLEAN /\ up \in {"up", "closing", "gone"}
    /\ LogTypeOK

(* The event's line is in the part of the log that survives a crash: all of *)
(* it, unless the disk was full, if the log's directory is on the disk.     *)
Survives(e) ==
    folder = "kept" =>
        entry /\ \E i \in 1..synced : file[i].of = e /\ (file[i].got = "head" => e \in short)

(* An append that returned survives a crash.                                *)
AcknowledgedLinesSurvive ==
    \A e \in Events : append[e] \in {"durable", "offered"} => Survives(e)

(* The collector never knows an event that a crash could take out of the    *)
(* log it was read from.                                                    *)
ExportedIsDurable == \A e \in collector : Survives(e)

(* docs/architecture.md:402, "durable primary append [...]. Primary failure *)
(* propagates and offers nothing": an event that was offered is in the log. *)
OfferedIsInTheLog ==
    \A e \in Events : append[e] = "offered" => \E i \in DOMAIN file : file[i] = [of |-> e, got |-> "line"]
==============================================================================
