--------------------------- MODULE WorkerChannel ---------------------------
(***************************************************************************)
(* What a worker tells the daemon about its run.  The worker writes events *)
(* to its stderr and, while the stream pushes back, keeps the newest of    *)
(* them in a short queue; the daemon cuts the bytes it reads into lines    *)
(* and applies each event to the run's record, one serialized operation    *)
(* after the other; a tick is such an operation, and may find the worker   *)
(* gone while its last words wait behind it.                               *)
(* (packages/worker/src/index.ts, packages/orchestrator/src/service.ts,    *)
(* packages/core/src/contracts/orchestrator-channel.ts)                    *)
(***************************************************************************)
EXTENDS Naturals, Sequences, FiniteSets, SequencesExt

CONSTANTS
    MaxSessions,    \* runs, each the restart of the one before
    MaxSaid,        \* bound: events the first worker emits, one fewer each restart
    MaxPending      \* MAX_PENDING_ORCHESTRATOR_CHANNEL_PAYLOADS

ChannelAssumption ==
    MaxSessions \in Nat \ {0} /\ MaxSaid \in Nat /\ MaxPending \in Nat \ {0}

VARIABLES
    latest,     \* the newest run
    worker,     \* its worker: where it is, its turns, its phase, events emitted
    pending,    \* pendingOrchestratorChannelPayloads
    out,        \* what the stream has taken and not yet written
    pipe,       \* halves of lines between worker and daemon
    rest,       \* the daemon's buffer holds the first half of a line
    closed,     \* the daemon has seen the stream's end
    work,       \* operations that wait for runSerialized
    tick,       \* "idle", or the records a tick in progress has read
    record      \* run records on disk

channelVars == <<latest, worker, pending, out, pipe, rest, closed, work, tick, record>>

Runs == 1..MaxSessions
Phases == {"running", "succeeded"}
Kinds == {"state", "turn"}
Messages == [run : Runs, n : 1..MaxSaid, kind : Kinds, turns : 0..MaxSaid, phase : Phases]
Halves == [m : Messages, half : {1, 2}]
Operations == [op : {"event"}, m : Messages] \cup [op : {"exit"}, run : Runs]
Records == [status : {"none", "running", "retrying", "succeeded", "failed"}, turns : 0..MaxSaid,
            total : 0..(MaxSaid * MaxSessions), phase : Phases, heard : 0..MaxSaid, exit : BOOLEAN]

TypeOK ==
    /\ latest \in Runs
    /\ worker \in [at : {"up", "flushing", "gone"}, turns : 0..MaxSaid, phase : Phases,
                   said : 0..MaxSaid, cut : BOOLEAN]
    /\ pending \in Seq(Messages) /\ out \in Seq(Messages) /\ pipe \in Seq(Halves)
    /\ rest \in BOOLEAN /\ closed \in BOOLEAN
    /\ work \in Seq(Operations)
    /\ tick \in [at : {"idle"}] \cup [at : {"open"}, read : [Runs -> Records]]
    /\ record \in [Runs -> Records]

Unused == [status |-> "none", turns |-> 0, total |-> 0, phase |-> "running", heard |-> 0,
           exit |-> FALSE]
Fresh(carried) == [Unused EXCEPT !.status = "running", !.total = carried]
NewWorker == [at |-> "up", turns |-> 0, phase |-> "running", said |-> 0, cut |-> FALSE]

Init ==
    /\ latest = 1 /\ worker = NewWorker
    /\ pending = <<>> /\ out = <<>> /\ pipe = <<>>
    /\ rest = FALSE /\ closed = FALSE /\ work = <<>>
    /\ tick = [at |-> "idle"]
    /\ record = [r \in Runs |-> IF r = 1 THEN Fresh(0) ELSE Unused]

-----------------------------------------------------------------------------
(* The worker.                                                              *)

Draining == out # <<>>
Lines(messages) == FlattenSeq([i \in DOMAIN messages |->
                        <<[m |-> messages[i], half |-> 1], [m |-> messages[i], half |-> 2]>>])

(* The newest MaxPending messages stay.                                     *)
Enqueue(m) ==
    IF Len(pending) >= MaxPending THEN Append(Tail(pending), m) ELSE Append(pending, m)

(* A write may fill the stream's buffer: what follows is queued until it    *)
(* has drained.                                                             *)
Write(m) ==
    \/ /\ Draining
       /\ pending' = Enqueue(m)
       /\ UNCHANGED <<out, pipe>>
    \/ /\ ~Draining
       /\ \/ pipe' = pipe \o Lines(<<m>>) /\ UNCHANGED out
          \/ out' = <<m>> /\ UNCHANGED pipe
       /\ UNCHANGED pending

Emit(kind, w) ==
    /\ worker.said + latest <= MaxSaid
    /\ worker' = [w EXCEPT !.said = @ + 1]
    /\ Write([run |-> latest, n |-> worker.said + 1, kind |-> kind, turns |-> w.turns,
              phase |-> w.phase])
    /\ UNCHANGED <<latest, rest, closed, work, tick, record>>

TurnStarts ==
    /\ worker.at = "up"
    /\ Emit("turn", [worker EXCEPT !.turns = @ + 1])

(* An event of the agent, or the heartbeat's timer.                         *)
Report ==
    /\ worker.at = "up"
    /\ Emit("state", worker)

(* The last heartbeat, then the wait for what is still queued.              *)
Finish ==
    /\ worker.at = "up"
    /\ \E phase \in Phases : Emit("state", [worker EXCEPT !.at = "flushing", !.phase = phase])

(* "drain": the queue is written until the stream pushes back again.        *)
Drain ==
    /\ worker.at # "gone" /\ Draining
    /\ \E k \in 0..Len(pending) :
          /\ pipe' = pipe \o Lines(out \o SubSeq(pending, 1, k))
          /\ out' = SubSeq(pending, k + 1, IF k < Len(pending) THEN k + 1 ELSE k)
          /\ pending' = SubSeq(pending, k + 2, Len(pending))
    /\ UNCHANGED <<latest, worker, rest, closed, work, tick, record>>

(* The flush is over, or its timer is: the process exits and what was not   *)
(* written is lost.                                                         *)
Exit ==
    /\ worker.at = "flushing"
    /\ worker' = [worker EXCEPT !.at = "gone", !.cut = Draining]
    /\ out' = <<>> /\ pending' = <<>>
    /\ UNCHANGED <<latest, pipe, rest, closed, work, tick, record>>

(* The worker is killed, perhaps in the middle of a line.                   *)
Die ==
    /\ worker.at # "gone"
    /\ worker' = [worker EXCEPT !.at = "gone", !.cut = TRUE]
    /\ \/ UNCHANGED pipe
       \/ Draining /\ pipe' = Append(pipe, Lines(out)[1])
    /\ out' = <<>> /\ pending' = <<>>
    /\ UNCHANGED <<latest, rest, closed, work, tick, record>>

-----------------------------------------------------------------------------
(* The daemon reads.                                                        *)

Completed(halves) == [i \in DOMAIN SelectSeq(halves, LAMBDA h : h.half = 2) |->
                        [op |-> "event", m |-> SelectSeq(halves, LAMBDA h : h.half = 2)[i].m]]

(* A chunk ends anywhere; an incomplete line waits for the next chunk.      *)
ReadChunk ==
    /\ pipe # <<>>
    /\ \E k \in 1..Len(pipe) :
          /\ work' = work \o Completed(SubSeq(pipe, 1, k))
          /\ rest' = (pipe[k].half = 1)
          /\ pipe' = SubSeq(pipe, k + 1, Len(pipe))
    /\ UNCHANGED <<latest, worker, pending, out, closed, tick, record>>

(* The process is gone and its stderr read to the end: half a line is no    *)
(* event, and the exit is recorded after the events before it.              *)
Close ==
    /\ worker.at = "gone" /\ pipe = <<>> /\ ~closed
    /\ closed' = TRUE /\ rest' = FALSE
    /\ work' = Append(work, [op |-> "exit", run |-> latest])
    /\ UNCHANGED <<latest, worker, pending, out, pipe, tick, record>>

-----------------------------------------------------------------------------
(* The daemon applies, one operation at a time.                             *)

Live(r) == r.status \in {"running", "retrying"}

(* The turns of earlier sessions, and those of this one.                    *)
CumulativeTurns(r, turns) == (IF r.total > r.turns THEN r.total - r.turns ELSE 0) + turns

Applied(r, m) ==
    IF m.kind = "turn" THEN r
    ELSE [r EXCEPT !.total = CumulativeTurns(r, m.turns), !.turns = m.turns,
                   !.phase = m.phase, !.heard = m.n]

(* Slip: an event is applied while a tick is open.                          *)
Unserialized == work # <<>>

Serialized == tick.at = "idle" /\ work # <<>>

Apply ==
    /\ Serialized
    /\ LET o == Head(work) IN
          record' = IF o.op = "event"
                    THEN [record EXCEPT ![o.m.run] = IF Live(@) THEN Applied(@, o.m) ELSE @]
                    ELSE [record EXCEPT ![o.run] =
                             IF @.status = "running" THEN [@ EXCEPT !.exit = TRUE] ELSE @]
    /\ work' = Tail(work)
    /\ UNCHANGED <<latest, worker, pending, out, pipe, rest, closed, tick>>

(* A tick waits for its turn like the others, but here it may start at any  *)
(* point between two of them.                                               *)
StartTick ==
    /\ tick.at = "idle"
    /\ Live(record[latest])
    /\ tick' = [at |-> "open", read |-> record]
    /\ UNCHANGED <<latest, worker, pending, out, pipe, rest, closed, work, record>>

(* reconcileRun: a running worker's record is saved as it was read, a gone  *)
(* one's is judged by the phase that has been applied, a due retry is       *)
(* restarted in a run that carries the turns on.                            *)
Reconcile ==
    /\ tick.at = "open"
    /\ LET r == tick.read[latest] IN
          \/ /\ r.status = "running" /\ worker.at # "gone"
             /\ record' = [record EXCEPT ![latest] = r]
             /\ UNCHANGED <<latest, worker, closed>>
          \/ /\ r.status = "running" /\ worker.at = "gone"
             /\ record' = [record EXCEPT ![latest] =
                   [r EXCEPT !.total = CumulativeTurns(r, r.turns), !.exit = closed \/ @,
                             !.status = IF r.phase = "succeeded" THEN "succeeded"
                                        ELSE "retrying"]]
             /\ UNCHANGED <<latest, worker, closed>>
          \/ /\ r.status = "retrying" /\ closed /\ latest < MaxSessions
             /\ latest' = latest + 1
             /\ record' = [record EXCEPT ![latest].status = "failed",
                                         ![latest + 1] = Fresh(r.total)]
             /\ worker' = NewWorker /\ closed' = FALSE
          \/ /\ r.status = "retrying"                   \* not due yet
             /\ UNCHANGED <<latest, worker, closed, record>>
    /\ tick' = [at |-> "idle"]
    /\ UNCHANGED <<pending, out, pipe, rest, work>>

Next ==
    \/ TurnStarts \/ Report \/ Finish \/ Drain \/ Exit \/ Die
    \/ ReadChunk \/ Close
    \/ Apply \/ StartTick \/ Reconcile

ChannelFairness ==
    /\ WF_channelVars(Exit) /\ WF_channelVars(ReadChunk) /\ WF_channelVars(Close)
    /\ SF_channelVars(Apply) /\ WF_channelVars(Reconcile)

Spec == Init /\ [][Next]_channelVars /\ ChannelFairness

-----------------------------------------------------------------------------
(* A run's record never goes back to an older word of its worker: events    *)
(* are applied in the order they were emitted, and no tick writes back what *)
(* it read before one of them.                                              *)
RecordsFollow ==
    [][\A r \in Runs : record'[r].heard >= record[r].heard /\ record'[r].turns >= record[r].turns]_record

(* Turns add up over restarts: a run's total is what the runs before it did *)
(* and what it has done itself, however late its last event was applied.    *)
TurnsAddUp ==
    \A r \in Runs \ {1} : record[r].status # "none" =>
        record[r].total = record[r - 1].total + record[r].turns

(* A full queue loses old events: what waits is the newest, without a gap.  *)
QueueKeepsTheNewest ==
    pending # <<>> =>
        \A i \in DOMAIN pending : pending[i].n = worker.said - Len(pending) + i

(* Once everything that was read is applied, the record of a worker that    *)
(* flushed in time and is not yet judged over holds its last word.          *)
LastWordIsHeard ==
    closed /\ ~worker.cut /\ work = <<>> /\ tick.at = "idle" /\ Live(record[latest])
        => record[latest].heard = worker.said

(* What was emitted is applied in the end, when it was written.             *)
NothingWaits == work = <<>>
WordsAreApplied == []<>NothingWaits

ChannelIsTrue ==
    /\ [](TurnsAddUp /\ QueueKeepsTheNewest /\ LastWordIsHeard)
    /\ RecordsFollow

(* Does not hold: a tick that owns the slot judges a worker that is gone    *)
(* while its last heartbeat, with the success, still waits behind the tick. *)
JudgedByTheLastWord ==
    [][\A r \in Runs : record[r].status = "running" /\ record'[r].status = "retrying"
          => worker.cut \/ record[r].heard = worker.said]_record
=============================================================================
