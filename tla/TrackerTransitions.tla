------------------------- MODULE TrackerTransitions -------------------------
(* Changes of an issue's state in the tracker: a worker asks the daemon for *)
(* them (packages/orchestrator/src/service.ts, requestTrackerState), and    *)
(* the reconciliation pass makes one itself when a run has converged        *)
(* (returnConvergedIssueToRetryableState); both go through the GitHub       *)
(* adapter (packages/tracker-github/src/adapter.ts), which compares, writes *)
(* and reads back, one request of a token at a time. Three locks are taken  *)
(* on the way: the one of state requests, the daemon's, and the adapter's.  *)
(*                                                                          *)
(* One issue, the runs it has had, and people who move it on the board. How *)
(* the quota of the token is kept is module RateLimits's.                   *)
EXTENDS Naturals, Sequences, SequencesExt, FiniteSets

CONSTANTS
    MaxRuns,       \* runs of the issue
    MaxRequests,   \* requests of their workers
    Pass,          \* the reconciliation pass
    Active,        \* the active workflow states
    Retryable,     \* the first of them
    Others,        \* other states of the board
    NoEpoch,
    Tries,         \* TRANSITION_RETRY_ATTEMPTS
    MaxMoves, MaxEdits

(* Assumed of the constants, by the modules that check this one.            *)
TransitionAssumption ==
    /\ MaxRuns \in Nat \ {0} /\ MaxRequests \in Nat /\ Pass \notin Nat
    /\ Retryable \in Active /\ Tries \in Nat \ {0} /\ NoEpoch \notin Nat
    /\ {MaxMoves, MaxEdits} \subseteq Nat

Runs == 1 .. MaxRuns
Requests == 1 .. MaxRequests
States == Active \cup Others
Callers == Requests \cup {Pass}

VARIABLES
    item,      \* the state of the issue on the board
    epoch,     \* edits of the board's status field: each gives its options new ids
    cache,     \* the edit that the cached ids are of
    run,       \* the saved run records
    current,   \* the run that the issue's record names
    held,      \* the reconciliation pass holds the daemon's lock
    waiting,   \* requests in the order of requestTrackerState
    queue,     \* callers in the order of requestGithubProjectItemState
    call,      \* each caller
    moved,     \* callers since whose comparison somebody moved the issue
    bounds

vars == <<item, epoch, cache, run, current, held, waiting, queue, call, moved, bounds>>
service == <<run, current, held, waiting>>

Pcs == {"new", "waiting", "resolving", "queued", "choosing", "mutating", "rereading",
        "routing", "settling", "answered"}
Outcomes == {"none", "rejected", "confirmed", "expected_state_mismatch",
             "readback_mismatch", "failed"}

NoCall == [pc |-> "new", kind |-> "transition", run |-> 1, from |-> Retryable,
           to |-> Retryable, ids |-> NoEpoch, tries |-> 0, fresh |-> FALSE,
           outcome |-> "none", seen |-> Retryable]

Init ==
    /\ item \in Active
    /\ epoch = 0 /\ cache = NoEpoch
    /\ run = [r \in Runs |-> [status |-> "unused", state |-> item, progress |-> "none"]]
    /\ current = 0 /\ held = FALSE
    /\ waiting = <<>> /\ queue = <<>>
    /\ call = [c \in Callers |-> NoCall]
    /\ moved = {}
    /\ bounds = [moves |-> 0, edits |-> 0]

(* The caller has its answer.                                               *)
Leaves(c) == call' = [call EXCEPT ![c] = [NoCall EXCEPT !.pc = "answered"]]

To(c, pc) == call' = [call EXCEPT ![c].pc = pc]
Turn(c) == queue # <<>> /\ Head(queue) = c
-----------------------------------------------------------------------------
(* The daemon.                                                              *)

Ask(c, r, kind, from, to) ==
    /\ call[c].pc = "new" /\ \A b \in 1 .. c - 1 : call[b].pc # "new"
    /\ run[r].status = "running"
    /\ IF kind = "read" THEN from = Retryable /\ to = Retryable ELSE from # to
    /\ call' = [call EXCEPT ![c].pc = "waiting", ![c].run = r, ![c].kind = kind,
                            ![c].from = from, ![c].to = to]
    /\ waiting' = Append(waiting, c)
    /\ UNCHANGED <<item, epoch, cache, run, current, held, queue, moved, bounds>>

(* Only the current run of the issue may ask.                               *)
MayAsk(r) == current = r /\ run[r].status = "running"

Authorize(c) ==
    /\ call[c].pc = "waiting" /\ Head(waiting) = c /\ ~held
    /\ IF MayAsk(call[c].run)
       THEN To(c, "resolving") /\ UNCHANGED waiting
       ELSE /\ Leaves(c)
            /\ waiting' = Tail(waiting)
    /\ UNCHANGED <<item, epoch, cache, run, current, held, queue, moved, bounds>>

(* returnConvergedIssueToRetryableState, with the daemon's lock held.       *)
Return(r) ==
    /\ ~held /\ MayAsk(r) /\ run[r].state # Retryable
    /\ call[Pass].pc = "new"
    /\ held' = TRUE
    /\ call' = [call EXCEPT ![Pass] = [NoCall EXCEPT !.pc = "resolving", !.run = r,
                                             !.from = run[r].state]]
    /\ UNCHANGED <<item, epoch, cache, run, current, waiting, queue, moved, bounds>>

(* The item of the issue is known or looked up; the provider's call begins. *)
Resolve(c) ==
    /\ call[c].pc = "resolving"
    /\ \/ To(c, "queued") /\ queue' = Append(queue, c)
       \/ /\ call' = [call EXCEPT ![c].pc = "settling", ![c].outcome = "rejected"]
          /\ UNCHANGED queue
    /\ UNCHANGED <<item, epoch, cache, service, moved, bounds>>

Progress(c) ==
    /\ call[c].kind = "transition" /\ call[c].outcome = "confirmed"
    /\ call[c].seen \notin Active

(* What the request has brought, over the record as it is by now.           *)
Merged(c, record) ==
    [record EXCEPT
        !.state = IF call[c].outcome \in {"rejected", "failed"} THEN @ ELSE call[c].seen,
        !.progress = IF Progress(c) THEN call[c].seen ELSE @]

(* The record may not be saved; the answer is the same.                     *)
Settle(c) ==
    /\ call[c].pc = "settling" /\ c # Pass /\ ~held
    /\ LET r == call[c].run IN
          \/ run' = [run EXCEPT ![r] = Merged(c, @)]
          \/ UNCHANGED run
    /\ waiting' = Tail(waiting)
    /\ Leaves(c)
    /\ UNCHANGED <<item, epoch, cache, current, held, queue, moved, bounds>>

(* A confirmed return ends the run, as failed, and frees the issue.         *)
SettlePass ==
    /\ call[Pass].pc = "settling"
    /\ held' = FALSE
    /\ Leaves(Pass)
    /\ LET r == call[Pass].run IN
       IF call[Pass].outcome = "confirmed"
       THEN /\ run' = [run EXCEPT ![r].status = "failed", ![r].state = call[Pass].seen]
            /\ current' = 0
       ELSE UNCHANGED <<run, current>>
    /\ UNCHANGED <<item, epoch, cache, waiting, queue, moved, bounds>>

(* A pass ends the current run, or starts the next one.                     *)
Retire ==
    /\ ~held /\ current # 0
    /\ run' = [run EXCEPT ![current].status = "ended"]
    /\ current' = 0
    /\ UNCHANGED <<item, epoch, cache, held, waiting, queue, call, moved, bounds>>

Dispatch ==
    /\ ~held /\ current = 0
    /\ \E r \in Runs :
          /\ run[r].status = "unused" /\ \A q \in 1 .. r - 1 : run[q].status # "unused"
          /\ run' = [run EXCEPT ![r] = [@ EXCEPT !.status = "running", !.state = item]]
          /\ current' = r
    /\ UNCHANGED <<item, epoch, cache, held, waiting, queue, call, moved, bounds>>
-----------------------------------------------------------------------------
(* The adapter, at the head of its queue.                                   *)

(* The result is ready: the next caller's turn.                             *)
Finish(c, outcome, seen) ==
    /\ call' = [call EXCEPT ![c].outcome = outcome, ![c].seen = seen,
                            ![c].ids = NoEpoch, ![c].tries = 0, ![c].fresh = FALSE,
                            ![c].from = Retryable, ![c].to = Retryable,
                            ![c].pc = IF call[c].kind = "read" THEN "routing"
                                      ELSE "settling"]
    /\ queue' = Tail(queue)
    /\ moved' = moved \ {c}

(* Slip: without waiting for the turn.                                      *)
CompareAtOnce(c) ==
    /\ call[c].pc = "queued"
    /\ IF call[c].kind = "read"
       THEN Finish(c, "confirmed", item)
       ELSE IF item # call[c].from
       THEN Finish(c, "expected_state_mismatch", item)
       ELSE To(c, "choosing") /\ UNCHANGED <<queue, moved>>
    /\ UNCHANGED <<item, epoch, cache, service, bounds>>

(* readExactProjectItemState, and the comparison.                           *)
Compare(c) ==
    /\ call[c].pc = "queued" /\ Turn(c)
    /\ IF call[c].kind = "read"
       THEN Finish(c, "confirmed", item)
       ELSE IF item # call[c].from
       THEN Finish(c, "expected_state_mismatch", item)
       ELSE To(c, "choosing") /\ UNCHANGED <<queue, moved>>
    /\ UNCHANGED <<item, epoch, cache, service, bounds>>

(* resolveStatusFieldConfiguration: the ids of the options, cached unless   *)
(* they have just been found stale.                                         *)
Choose(c) ==
    /\ call[c].pc = "choosing"
    /\ LET ids == IF call[c].fresh \/ cache = NoEpoch THEN epoch ELSE cache IN
          /\ cache' = ids
          /\ call' = [call EXCEPT ![c].pc = "mutating", ![c].ids = ids, ![c].tries = 0]
    /\ UNCHANGED <<item, epoch, service, queue, moved, bounds>>

(* The mutation takes effect, and the answer arrives.                       *)
Mutate(c) ==
    /\ call[c].pc = "mutating" /\ call[c].ids = epoch
    /\ item' = call[c].to
    /\ To(c, "rereading")
    /\ UNCHANGED <<epoch, cache, service, queue, moved, bounds>>

(* The provider is overloaded, whether or not the mutation took effect: it  *)
(* is tried again, and after Tries attempts the request fails.              *)
Overload(c) ==
    /\ call[c].pc = "mutating"
    /\ \/ item' = call[c].to /\ call[c].ids = epoch
       \/ UNCHANGED item
    /\ IF call[c].tries + 1 < Tries
       THEN /\ call' = [call EXCEPT ![c].tries = @ + 1]
            /\ UNCHANGED <<queue, moved>>
       ELSE Finish(c, "failed", Retryable)
    /\ UNCHANGED <<epoch, cache, service, bounds>>

(* The ids are not the board's any more: they are fetched anew, once.       *)
Stale(c) ==
    /\ call[c].pc = "mutating" /\ call[c].ids # epoch
    /\ IF call[c].fresh
       THEN Finish(c, "failed", Retryable) /\ UNCHANGED cache
       ELSE /\ cache' = NoEpoch
            /\ call' = [call EXCEPT ![c].pc = "choosing", ![c].fresh = TRUE]
            /\ UNCHANGED <<queue, moved>>
    /\ UNCHANGED <<item, epoch, service, bounds>>

Reread(c) ==
    /\ call[c].pc = "rereading"
    /\ Finish(c, IF item = call[c].to THEN "confirmed" ELSE "readback_mismatch", item)
    /\ UNCHANGED <<item, epoch, cache, service, bounds>>

(* Any call may throw: a timeout (after the mutation, too), a refusal.      *)
Throw(c) ==
    /\ \/ call[c].pc \in {"choosing", "mutating", "rereading"}
       \/ call[c].pc = "queued" /\ Turn(c)
    /\ call' = [call EXCEPT ![c].outcome = "failed", ![c].pc = "settling",
                            ![c].ids = NoEpoch, ![c].tries = 0, ![c].fresh = FALSE,
                            ![c].from = Retryable, ![c].to = Retryable]
    /\ queue' = Tail(queue) /\ moved' = moved \ {c}
    /\ UNCHANGED <<item, epoch, cache, service, bounds>>

(* The second look of a state read, outside the queue: does the workflow    *)
(* route the issue on.                                                      *)
Route(c) ==
    /\ call[c].pc = "routing"
    /\ \/ To(c, "settling")
       \/ call' = [call EXCEPT ![c].outcome = "failed", ![c].pc = "settling"]
    /\ UNCHANGED <<item, epoch, cache, service, queue, moved, bounds>>
-----------------------------------------------------------------------------
(* The board.                                                               *)

Between(c) == call[c].pc \in {"choosing", "mutating", "rereading"}

Move(s) ==
    /\ s # item /\ bounds.moves < MaxMoves
    /\ item' = s
    /\ moved' = moved \cup {c \in Callers : Between(c)}
    /\ bounds' = [bounds EXCEPT !.moves = @ + 1]
    /\ UNCHANGED <<epoch, cache, service, queue, call>>

Edit ==
    /\ bounds.edits < MaxEdits
    /\ epoch' = epoch + 1
    /\ bounds' = [bounds EXCEPT !.edits = @ + 1]
    /\ UNCHANGED <<item, cache, service, queue, call, moved>>
-----------------------------------------------------------------------------
Handle(c) ==
    \/ Authorize(c) \/ Settle(c)

Provide(c) ==
    \/ Resolve(c) \/ Compare(c) \/ Choose(c) \/ Mutate(c) \/ Overload(c)
    \/ Stale(c) \/ Reread(c) \/ Throw(c) \/ Route(c)

Next ==
    \/ \E c \in Requests, r \in Runs, kind \in {"read", "transition"},
          from, to \in States : Ask(c, r, kind, from, to)
    \/ \E c \in Requests : Handle(c)
    \/ \E c \in Callers : Provide(c)
    \/ \E r \in Runs : Return(r)
    \/ SettlePass \/ Retire \/ Dispatch
    \/ \E s \in States : Move(s)
    \/ Edit

Spec == Init /\ [][Next]_vars

(* Calls are answered or time out, and what waits for a lock gets it.       *)
Fairness ==
    /\ \A c \in Requests : SF_vars(Handle(c))
    /\ \A c \in Callers : WF_vars(Provide(c))
    /\ WF_vars(SettlePass)

FairSpec == Spec /\ Fairness
-----------------------------------------------------------------------------
TypeOK ==
    /\ item \in States /\ epoch \in 0 .. MaxEdits /\ cache \in (0 .. MaxEdits) \cup {NoEpoch}
    /\ run \in [Runs -> [status : {"unused", "running", "failed", "ended"},
                         state : States, progress : States \cup {"none"}]]
    /\ current \in Runs \cup {0} /\ held \in BOOLEAN
    /\ Range(waiting) \subseteq Requests /\ IsInjective(waiting)
    /\ Range(queue) \subseteq Callers /\ IsInjective(queue)
    /\ call \in [Callers ->
          [pc : Pcs, kind : {"read", "transition"}, run : Runs, from : States,
           to : States, ids : (0 .. MaxEdits) \cup {NoEpoch}, tries : 0 .. Tries - 1,
           fresh : BOOLEAN, outcome : Outcomes, seen : States]]
    /\ moved \subseteq Callers

(* A request changes the issue only from the state it expects (or from the  *)
(* one it has set itself, when it tries again): no other request's change   *)
(* comes between its comparison and its mutation, from whichever side of    *)
(* the daemon. A person's can: GitHub knows no conditional update.          *)
TransitionsCompare ==
    [][\A c \in Callers :
          (Mutate(c) \/ Overload(c)) /\ c \notin moved
             => item \in {call[c].from, call[c].to}]_vars

(* The readback is of the request's own mutation: a request that nobody's   *)
(* move has crossed never reads another state than the one it wrote.        *)
ReadbacksAreOwn ==
    [][\A c \in Callers : Reread(c) /\ c \notin moved => item = call[c].to]_vars

(* A request whose run was ended while it waited for the tracker does not   *)
(* bring the run back with what it read before.                             *)
EndedRunsStayEnded ==
    [][\A r \in Runs : run[r].status \in {"failed", "ended"}
                          => run'[r].status = run[r].status]_vars

(* An edit of the status field costs a request nothing: stale ids are       *)
(* noticed and fetched anew, and only a second edit makes it fail.          *)
OneEditIsAbsorbed ==
    [][\A c \in Callers :
          Stale(c) /\ call'[c].outcome = "failed" => bounds.edits > 1]_vars

(* Every request is answered, although it takes the three locks in turn and *)
(* the pass holds the daemon's while it waits for the adapter's: time and   *)
(* again nobody waits.                                                      *)
RequestsAreAnswered ==
    []<>(\A c \in Requests : call[c].pc \in {"new", "answered"})
=============================================================================
