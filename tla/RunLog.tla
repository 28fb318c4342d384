------------------------------- MODULE RunLog -------------------------------
(***************************************************************************)
(* A log on its way to an operator's page: the page's model and its one    *)
(* read in flight (fleet-control-plane/src/run-log-model.ts,               *)
(* log-read-client.ts), the fleet's read lane (reads.ts), the agent's lane *)
(* (cli/src/agent-runtime.ts) and the chunk it reads                       *)
(* (management-agent/src/local-read.ts).  Names follow them.               *)
(*                                                                         *)
(* A log grows by whole characters, is rotated, and between reads may be   *)
(* rewritten in place; the digest of up to 64 bytes before a cursor tells  *)
(* one content from another.  The page's 256 KiB of retained text, and the *)
(* browser's own session, are left out.                                    *)
(***************************************************************************)
EXTENDS LogChunks

CONSTANTS
    Contents,       \* what a log may come to hold
    MaxBodies,      \* bound: contents one after another
    MaxJson,        \* bytes of a payload the fleet accepts, metadata apart
    MaxFaults       \* bound: losses, deadlines, disconnects, restarts

(* Assumed of the constants, by the modules that check this one.            *)
RunLogAssumption ==
    /\ {MaxBytes, MaxBodies} \subseteq Nat \ {0}
    /\ {MaxJson, MaxFaults} \subseteq Nat

Bodies == 1..MaxBodies

VARIABLES
    content,    \* the contents
    log,        \* the file: inode, content, and how much of it is there
    model,      \* RunLogModel, and whether a chunk it shows was overrun
    active,     \* BoundedLogReader's read: its stage and the cursor it sends
    entry,      \* the fleet's entry of the project's last read
    online,     \* the agent has a connection, in the fleet's eyes and its own
    agent,      \* the read the agent is at
    faults

vars == <<content, log, model, active, entry, online, agent, faults>>

(* The key that signs cursors is of one connection of the agent: "live"     *)
(* says it still is.                                                        *)
NoCursor == [ino |-> 0, body |-> 0, offset |-> 0, live |-> TRUE]
NoPayload == [text |-> <<>>, cursor |-> NoCursor, reset |-> FALSE, overrun |-> FALSE]
NoEntry == [id |-> 1, state |-> "none", cursor |-> NoCursor, payload |-> NoPayload]
Idle == [at |-> "idle", id |-> 0, offset |-> 0, reset |-> FALSE, stat |-> [ino |-> 0, body |-> 0, size |-> 0],
         state |-> "none", payload |-> NoPayload]
NoRead == [stage |-> "none", cursor |-> NoCursor]
Fresh == [phase |-> "empty", text |-> <<>>, cursor |-> NoCursor, pending |-> FALSE,
          online |-> TRUE, needsReset |-> FALSE, overrun |-> FALSE]

(* Sizes at which no character is cut.                                      *)
Whole(bytes) == {n \in 0..Len(bytes) : n = Len(bytes) \/ ~Owned(bytes, n + 1)}

Init ==
    /\ content \in [Bodies -> Contents]
    /\ log \in {[ino |-> 1, body |-> 1, size |-> n] : n \in Whole(content[1])}
    /\ model = Fresh /\ active = NoRead /\ entry = NoEntry
    /\ online = TRUE /\ agent = Idle /\ faults = 0

Fault == faults < MaxFaults /\ faults' = faults + 1

-----------------------------------------------------------------------------
(* The page.                                                                *)

(* begin(): one read at a time, and none before a rotation is acknowledged. *)
Begin ==
    /\ active.stage = "none" /\ model.online /\ ~model.pending
    /\ model.phase # "reset-required"
    /\ model' = [model EXCEPT !.pending = TRUE, !.phase = "loading"]
    /\ active' = [stage |-> "submitting", cursor |-> model.cursor]
    /\ UNCHANGED <<content, log, entry, online, agent, faults>>

(* receive() of a read that ended without a chunk.                          *)
Without(m, state) == IF m.pending THEN [m EXCEPT !.pending = FALSE, !.phase = state] ELSE m

Offline(m) ==
    [m EXCEPT !.online = FALSE, !.pending = FALSE, !.phase = "offline"]

Joined(m, chunk) ==
    IF chunk.reset
    THEN [m EXCEPT !.pending = FALSE, !.needsReset = TRUE, !.phase = "reset-required"]
    ELSE [m EXCEPT !.pending = FALSE, !.phase = "ready", !.text = @ \o chunk.text,
                   !.cursor = chunk.cursor, !.overrun = @ \/ chunk.overrun]

(* submitRead: refused while the agent is away or a read is pending.        *)
Submit ==
    /\ active.stage = "submitting"
    /\ IF online /\ entry.state # "pending"
       THEN \E id \in {1, 2} \ {agent.id} :
            /\ entry' = [NoEntry EXCEPT !.id = id, !.state = "pending", !.cursor = active.cursor]
            /\ active' = [active EXCEPT !.stage = "polling"]
            /\ UNCHANGED model
       ELSE /\ active' = NoRead /\ UNCHANGED entry
            /\ model' = IF online THEN Without(model, "unavailable") ELSE Offline(model)
    /\ UNCHANGED <<content, log, online, agent, faults>>

(* The answer to a poll of the read, once it is not pending.                *)
Receive ==
    /\ active.stage = "polling" /\ entry.state # "pending"
    /\ model' = CASE entry.state = "completed" /\ model.pending -> Joined(model, entry.payload)
                  [] entry.state = "offline" -> Offline(model)
                  [] OTHER -> Without(model, entry.state)
    /\ active' = NoRead
    /\ UNCHANGED <<content, log, entry, online, agent, faults>>

(* The page's own deadline, or an answer that is an error.                  *)
GiveUp ==
    /\ active.stage \in {"submitting", "polling"} /\ Fault
    /\ active' = NoRead /\ \E state \in {"expired", "unavailable"} : model' = Without(model, state)
    /\ UNCHANGED <<content, log, entry, online, agent>>

(* disconnect(): a request under way is aborted and comes back later.       *)
Disconnect ==
    /\ model.online /\ Fault
    /\ model' = Offline(model)
    /\ active' = IF active.stage = "none" THEN active ELSE [active EXCEPT !.stage = "aborted"]
    /\ UNCHANGED <<content, log, entry, online, agent>>

Unwind ==
    /\ active.stage = "aborted" /\ active' = NoRead
    /\ model' = Without(model, "unavailable")
    /\ UNCHANGED <<content, log, entry, online, agent, faults>>

(* checkConnection() and the model's reconnect().                           *)
Reconnect ==
    /\ ~model.online /\ online
    /\ model' = [model EXCEPT !.online = TRUE,
                     !.phase = IF model.needsReset THEN "reset-required" ELSE "ready"]
    /\ UNCHANGED <<content, log, active, entry, online, agent, faults>>

(* The reset button is there for a rotation only.                           *)
Reset ==
    /\ model.phase = "reset-required" /\ model.online
    /\ model' = [Fresh EXCEPT !.phase = "empty"]
    /\ UNCHANGED <<content, log, active, entry, online, agent, faults>>

-----------------------------------------------------------------------------
(* The fleet's read lane.                                                   *)

Ends(state) == entry' = [entry EXCEPT !.state = state]

(* sweep(): a pending read of an agent that is gone, or back with another   *)
(* session.                                                                 *)
Sweep ==
    /\ entry.state = "pending" /\ ~online /\ Ends("offline")
    /\ UNCHANGED <<content, log, model, active, online, agent, faults>>

(* A deadline of 30 seconds.                                                *)
Expire ==
    /\ entry.state = "pending" /\ Fault /\ Ends("expired")
    /\ UNCHANGED <<content, log, model, active, online, agent>>

(* A new process knows no read.                                             *)
FleetRestarts ==
    /\ entry.state # "none" /\ Fault /\ Ends("unavailable")
    /\ UNCHANGED <<content, log, model, active, online, agent>>

-----------------------------------------------------------------------------
(* The agent.                                                               *)

Dead(c) == IF c = NoCursor THEN c ELSE [c EXCEPT !.live = FALSE]

(* A connection that failed ends the handler of its deliveries; the next    *)
(* has an adapter, and a cursorKey, of its own.                             *)
Drops ==
    /\ agent' = Idle /\ online' = FALSE
    /\ model' = [model EXCEPT !.cursor = Dead(@)]
    /\ active' = [active EXCEPT !.cursor = Dead(@)]
    /\ entry' = [entry EXCEPT !.cursor = Dead(@), !.payload.cursor = Dead(@)]

ConnectionLost ==
    /\ online /\ Fault /\ Drops /\ UNCHANGED <<content, log>>

Connect ==
    /\ ~online /\ online' = TRUE
    /\ UNCHANGED <<content, log, model, active, entry, agent, faults>>

(* poll() delivers what is pending; the adapter opens the file, looks at    *)
(* its size and compares the cursor.                                        *)
Open ==
    /\ online /\ agent.at = "idle" /\ entry.state = "pending"
    /\ LET c == entry.cursor
           reset == c # NoCursor /\ (c.ino # log.ino \/ c.offset > log.size
                                       \/ (c.offset > 0 /\ c.body # log.body))
       IN agent' = IF c.live
            THEN [Idle EXCEPT !.at = "opened", !.id = entry.id, !.reset = reset, !.stat = log,
                              !.offset = IF reset THEN 0 ELSE c.offset]
            ELSE [Idle EXCEPT !.at = "publishing", !.id = entry.id, !.state = "unavailable"]
    /\ UNCHANGED <<content, log, model, active, entry, online, faults>>

(* The bytes are read, from the file as it is now, and its path looked at.  *)
Read ==
    /\ agent.at = "opened"
    /\ LET last == Min({log.size, agent.offset + MaxBytes})
           bytes == SubSeq(content[log.body], agent.offset + 1, last)
           chunk == Chunk(bytes, agent.offset, agent.stat.size)
           next == agent.offset + chunk.consumed
       IN agent' = IF log.ino # agent.stat.ino \/ (bytes # <<>> /\ chunk.consumed = 0)
            THEN [agent EXCEPT !.at = "publishing", !.state = "unavailable"]
            ELSE [agent EXCEPT !.at = "publishing", !.state = "completed",
                    !.payload = [text |-> chunk.text, reset |-> agent.reset,
                        cursor |-> [ino |-> log.ino, body |-> log.body, offset |-> next, live |-> TRUE],
                        overrun |-> next > agent.stat.size]]
    /\ UNCHANGED <<content, log, model, active, entry, online, faults>>

(* publishResult: the first result of a pending read is kept, a late one    *)
(* acknowledged; a payload too large is refused, and a refusal is the       *)
(* failure of the connection.                                               *)
Publish ==
    /\ agent.at = "publishing"
    /\ IF entry.id # agent.id \/ entry.state # "pending"
       THEN /\ agent' = Idle /\ UNCHANGED <<model, active, entry, online>>
       ELSE IF agent.state = "completed" /\ Json(agent.payload.text) > MaxJson
       THEN Drops
       ELSE /\ entry' = [entry EXCEPT !.state = agent.state, !.payload = agent.payload]
            /\ agent' = Idle /\ UNCHANGED <<model, active, online>>
    /\ UNCHANGED <<content, log, faults>>

-----------------------------------------------------------------------------
(* The log.                                                                 *)

Grow ==
    /\ \E n \in Whole(content[log.body]) : n > log.size /\ log' = [log EXCEPT !.size = n]
    /\ UNCHANGED <<content, model, active, entry, online, agent, faults>>

(* A new file under the path, or new content in the old one.                *)
Replace(ino) ==
    /\ log.body + 1 \in Bodies /\ (ino = log.ino => agent.at # "opened")
    /\ \E n \in Whole(content[log.body + 1]) : log' = [ino |-> ino, body |-> log.body + 1, size |-> n]
    /\ UNCHANGED <<content, model, active, entry, online, agent, faults>>

Page == Begin \/ Submit \/ Receive \/ Unwind \/ Reconnect \/ Reset
Lane == Sweep \/ Connect \/ Open \/ Publish

Next ==
    \/ Page \/ GiveUp \/ Disconnect
    \/ Lane \/ Read \/ Expire \/ FleetRestarts \/ ConnectionLost
    \/ Grow \/ Replace(log.ino) \/ Replace(log.ino + 1)

Spec == Init /\ [][Next]_vars

(* The operator keeps asking, the agent comes back and serves, and a read   *)
(* that was opened ends.                                                    *)
Fairness ==
    /\ WF_vars(Page) /\ WF_vars(Sweep) /\ WF_vars(Connect) /\ WF_vars(Open) /\ WF_vars(Publish)
    /\ []<>(agent.at # "opened")

FairSpec == Spec /\ Fairness

-----------------------------------------------------------------------------
Characters(text) == SelectSeq(text, LAMBDA t : t # "?")
Unread(bytes, offset) == SubSeq(bytes, offset + 1, Len(bytes))

(* However the chunks were cut, delayed, given up or asked for again, and   *)
(* whatever became of the file, the page shows the characters of one        *)
(* content of the log up to its cursor, each once                           *)
(* (RunLogModel.receive, LocalReadAdapter.read).  A chunk read beyond the   *)
(* size that was looked at may cut a character.                             *)
ShownIsTheLog ==
    IF model.cursor.body = 0 THEN model.text = <<>>
    ELSE ~model.overrun =>
        LET bytes == content[model.cursor.body] IN
        Characters(model.text) \o Characters(Decode(Unread(bytes, model.cursor.offset), FALSE))
            = Characters(Decode(bytes, FALSE))

(* A page that keeps asking reaches the end of the log, as long as its      *)
(* cursor is of the agent's connection and the text is not longer in JSON   *)
(* than the fleet takes.                                                    *)
AtEnd == model.cursor.body = log.body /\ model.cursor.offset >= log.size
Plain == \A b \in Bodies : \A i \in 1..Len(content[b]) : content[b][i] # "n"
ReadersCatchUp == (Plain /\ <>[](model.cursor.live)) => <>AtEnd

(* The package's README: "malformed UTF-8 is replaced once across           *)
(* successive chunks".                                                      *)
ReplacedOnce ==
    model.cursor.body # 0 /\ ~model.overrun =>
        LET bytes == content[model.cursor.body] IN
        model.text \o Decode(Unread(bytes, model.cursor.offset), FALSE) = Decode(bytes, FALSE)

(* The package's README: "Callers restart with no cursor after an adapter   *)
(* restart."                                                                *)
CallersRestart == ~model.cursor.live ~> model.cursor.live
=============================================================================
