---------------------------- MODULE TrackerPoll ----------------------------
(***************************************************************************)
(* One poll of the tracker by a tick: the board is listed page by page     *)
(* while people edit it, the issues of runs and workspaces that the list   *)
(* does not hold are looked up by id, stale items are closed, candidates   *)
(* are started in order until a limit is reached, and runs whose issue is  *)
(* no longer theirs to work on are stopped.  The GitHub adapter filters    *)
(* what is terminal and judges blockers by the list; the Linear adapter    *)
(* lists what is active and judges them by the relation.  How pages are    *)
(* cut is the provider's: after the place of the last item.                *)
(* (packages/orchestrator/src/service.ts, dispatch-eligibility.ts,         *)
(* packages/tracker-github/src, packages/tracker-linear/src)               *)
(***************************************************************************)
EXTENDS Naturals, Sequences, FiniteSets, SequencesExt

CONSTANTS
    MaxIssues,      \* issues are numbered, which is the order of identifiers
    Adapters,       \* "github", "unfiltered" (its board has no Status field), "linear"
    Dependent,      \* the issue that is blocked by
    Blocker,        \* this one
    Urgent,         \* the issues of a higher priority
    StateLimit,     \* max_concurrent_agents_by_state, for "doing"
    MaxEdits,       \* edits of an item
    MaxUpsets       \* requests that fail, and items dragged to another place

(* Assumed of the constants, by the module that checks this one.            *)
PollAssumption ==
    /\ MaxIssues \in Nat \ {0} /\ Dependent # Blocker /\ Urgent \subseteq 1..MaxIssues
    /\ Adapters \subseteq {"github", "unfiltered", "linear"}
    /\ StateLimit \in Nat \ {0} /\ {MaxEdits, MaxUpsets} \subseteq Nat

Issues == 1..MaxIssues
Active == {"todo", "doing"}
Checked == {"todo"}                     \* blockerCheckStates
States == Active \cup {"review", "done", "broken"}

VARIABLES
    adapter, slots,     \* configuration: the tracker and max_concurrent_agents
    board,      \* per issue its item: state, "broken" without one; eligible; source open
    order,      \* the board's order
    runs,       \* per issue: no run, a live one, one that waits for its retry
    spaces,     \* issues with a workspace
    at,         \* where the poll is
    p,          \* what it has read and chosen
    steady,     \* issues whose item has not changed since the poll began
    shuffled,   \* an item was dragged since then
    edits, upsets

pollVars == <<adapter, slots, board, order, runs, spaces, at, p, steady, shuffled, edits, upsets>>
configured == <<adapter, slots>>
outside == <<board, order, steady, shuffled, edits>>

Unread == [state |-> "unread", eligible |-> FALSE, blocked |-> FALSE, open |-> FALSE]
NoRun == [at |-> "none", state |-> "todo", handed |-> FALSE]
LiveIn(state) == [at |-> "live", state |-> state, handed |-> FALSE]
Read == [state : States \cup {"unread"}, eligible : BOOLEAN, blocked : BOOLEAN, open : BOOLEAN]

Empty == [cursor |-> 0,             \* the last item of the pages read
          items |-> <<>>,           \* what was listed, then the candidates in order
          tracked |-> [i \in Issues |-> Unread],    \* the last that was read of an issue
          actionable |-> {},        \* issues listed as work to do
          lost |-> {},              \* issues of runs that no read has answered for
          stale |-> {},             \* issues whose item the poll has closed, or tried to
          gone |-> {},              \* issues of workspaces read in a terminal state
          free |-> 0,               \* slotsRemaining
          todo |-> {}]              \* records left to settle

TypeOK ==
    /\ adapter \in Adapters /\ slots \in 1..MaxIssues
    /\ board \in [Issues -> [state : States, eligible : BOOLEAN, open : BOOLEAN]]
    /\ order \in [Issues -> Issues]
    /\ runs \in [Issues -> [at : {"none", "live", "retry"}, state : States, handed : BOOLEAN]]
    /\ at \in {"idle", "list", "facts", "active", "spaces", "choose", "dispatch", "settle", "clean"}
    /\ p.cursor \in 0..MaxIssues /\ p.items \in Seq([issue : Issues, read : Read])
    /\ p.tracked \in [Issues -> Read] /\ p.free \in 0..MaxIssues
    /\ \A s \in {spaces, p.actionable, p.lost, p.stale, p.gone, p.todo, steady} : s \subseteq Issues
    /\ shuffled \in BOOLEAN /\ edits \in 0..MaxEdits /\ upsets \in 0..MaxUpsets

Init ==
    /\ adapter \in Adapters /\ slots \in 1..MaxIssues
    /\ board = [i \in Issues |-> [state |-> "todo", eligible |-> TRUE, open |-> TRUE]]
    /\ order = [i \in Issues |-> i]
    /\ runs = [i \in Issues |-> NoRun] /\ spaces = {}
    /\ at = "idle" /\ p = Empty /\ steady = {} /\ shuffled = FALSE
    /\ edits = 0 /\ upsets = 0

-----------------------------------------------------------------------------
(* Reading an issue.                                                        *)

(* What the answer says of the blockers: GitHub their source's state,       *)
(* Linear their workflow state.                                             *)
Unresolved(i) ==
    /\ i = Dependent
    /\ IF adapter = "linear" THEN board[Blocker].state # "done" ELSE board[Blocker].open

Answer(i) == [state |-> board[i].state, eligible |-> board[i].eligible,
              blocked |-> Unresolved(i), open |-> board[i].open]

(* Blockers count in some states only; for GitHub an open one that was read *)
(* by the same request in a terminal state is resolved.                     *)
Judged(read, reads) ==
    [read EXCEPT !.blocked = /\ @ /\ read.state \in Checked
                             /\ adapter # "linear" => reads[Blocker].state # "done"]
AllJudged(reads) == [i \in Issues |-> Judged(reads[i], reads)]

Dispatchable(read) == read.eligible /\ ~read.blocked

(* A lookup asks neither for assignment nor for labels on GitHub, and drops *)
(* what the labels exclude on Linear; one record without a usable state     *)
(* fails it.                                                                *)
Fails(ids) == \E i \in ids : board[i].state = "broken"
LookedUp(ids) ==
    AllJudged([i \in Issues |->
        IF i \notin ids \/ (adapter = "linear" /\ ~board[i].eligible) THEN Unread
        ELSE [Answer(i) EXCEPT !.eligible = TRUE]])

(* The items of a listing, by the provider's filter.                        *)
Visible(i) ==
    CASE adapter = "github" -> board[i].state # "done"
      [] adapter = "linear" -> board[i].state \in Active \cup {"broken"}
      [] OTHER -> TRUE

(* Items without a usable record are skipped; labels exclude on Linear.     *)
Listed(i) == board[i].state # "broken" /\ (adapter = "linear" => board[i].eligible)

Claimed(i) == runs[i].at # "none"

-----------------------------------------------------------------------------
(* The tick.                                                                *)

(* resolveRetryRestartAction: a due retry asks for its issue alone.         *)
RetryIsDue(i) ==
    /\ at = "idle" /\ runs[i].at = "retry"
    /\ LET r == LookedUp({i})[i] IN
          runs' = [runs EXCEPT ![i] =
             IF Fails({i}) THEN @
             ELSE IF r.state \in Active /\ Dispatchable(r) THEN LiveIn(r.state) ELSE NoRun]
    /\ UNCHANGED <<configured, outside, spaces, at, p, upsets>>

StartPoll ==
    /\ at = "idle" /\ at' = "list"
    /\ steady' = Issues /\ shuffled' = FALSE
    /\ UNCHANGED <<configured, board, order, runs, spaces, p, edits, upsets>>

(* What a poll has read is its own.                                         *)
Over == at' = "idle" /\ p' = Empty /\ steady' = {} /\ shuffled' = FALSE

(* A page is one item.  A dragged item may come twice or never; the later   *)
(* of two answers is the issue's, and both are items of the list.           *)
ReadPage ==
    /\ at = "list"
    /\ LET ahead == {n \in (p.cursor + 1)..MaxIssues : Visible(order[n])} IN
          IF ahead = {} THEN
             /\ at' = IF adapter = "linear" THEN "active" ELSE "facts"
             /\ p' = [p EXCEPT !.tracked = AllJudged(@),
                               !.items = [k \in DOMAIN @ |->
                                   [@[k] EXCEPT !.read = Judged(@, p.tracked)]]]
          ELSE LET n == CHOOSE m \in ahead : \A l \in ahead : m <= l
                   i == order[n] IN
             /\ p' = IF Listed(i)
                     THEN [p EXCEPT !.cursor = n, !.tracked[i] = Answer(i),
                                    !.items = Append(@, [issue |-> i, read |-> Answer(i)])]
                     ELSE [p EXCEPT !.cursor = n]
             /\ UNCHANGED at
    /\ UNCHANGED <<configured, outside, runs, spaces, upsets>>

Work(item) == item.read.state \in Active /\ Dispatchable(item.read)

(* reconcileTerminalCandidates: an active, dispatchable item of a closed    *)
(* issue is moved to the terminal state, if it is still where it was read,  *)
(* and is no candidate, whatever comes of it.                               *)
IsStale(item) ==
    Work(item) /\ ~item.read.open /\ ~Claimed(item.issue) /\ item.issue \notin p.stale

CloseStale ==
    /\ at = "facts"
    /\ \E k \in DOMAIN p.items :
          LET i == p.items[k].issue IN
          /\ IsStale(p.items[k])
          /\ p' = [p EXCEPT !.stale = @ \cup {i}]
          /\ IF board[i].state = p.items[k].read.state
             THEN \/ /\ board' = [board EXCEPT ![i].state = "done"]
                     /\ steady' = steady \ {i} /\ UNCHANGED upsets
                  \/ /\ upsets < MaxUpsets /\ upsets' = upsets + 1
                     /\ UNCHANGED <<board, steady>>
             ELSE UNCHANGED <<board, steady, upsets>>
    /\ UNCHANGED <<configured, order, shuffled, edits, runs, spaces, at>>

FactsEnd ==
    /\ at = "facts" /\ ~\E k \in DOMAIN p.items : IsStale(p.items[k])
    /\ at' = "active"
    /\ UNCHANGED <<configured, outside, runs, spaces, p, upsets>>

(* A lookup is answered, or fails for a record or for the provider.         *)
LookUp(ids, answered, failed) ==
    \/ ~Fails(ids) /\ p' = answered /\ UNCHANGED upsets
    \/ ids # {} /\ Fails(ids) /\ p' = failed /\ UNCHANGED upsets
    \/ ids # {} /\ upsets < MaxUpsets /\ p' = failed /\ upsets' = upsets + 1

(* The issues of active runs that the list does not hold.  A lookup that    *)
(* fails leaves all of them alone.                                          *)
Missing == {i \in Issues : Claimed(i) /\ p.tracked[i] = Unread}

LookUpActive ==
    /\ at = "active" /\ at' = "spaces"
    /\ LookUp(Missing,
              [p EXCEPT !.tracked = [i \in Issues |-> IF i \in Missing THEN LookedUp(Missing)[i]
                                                      ELSE @[i]]],
              [p EXCEPT !.lost = Missing])
    /\ UNCHANGED <<configured, outside, runs, spaces>>

(* The issues of workspaces, for the cleanup.                               *)
Untracked == {i \in spaces : p.tracked[i] = Unread}

LookUpSpaces ==
    /\ at = "spaces" /\ at' = "choose"
    /\ LookUp(Untracked,
              [p EXCEPT !.gone = {i \in Untracked : LookedUp(Untracked)[i].state = "done"}],
              p)
    /\ UNCHANGED <<configured, outside, runs, spaces>>

(* The runs take over the state that was read; candidates are chosen from   *)
(* the list, and sorted by priority and identifier.                         *)
Actionable == {i \in Issues \ p.stale : \E k \in DOMAIN p.items :
                                            p.items[k].issue = i /\ Work(p.items[k])}

Precedes(i, j) == IF (i \in Urgent) = (j \in Urgent) THEN i < j ELSE i \in Urgent
Candidates ==
    SortSeq(SelectSeq(p.items, LAMBDA t : Work(t) /\ t.issue \notin p.stale /\ ~Claimed(t.issue)),
            LAMBDA s, t : Precedes(s.issue, t.issue))

InUse == Cardinality({i \in Issues : Claimed(i)})

Choose ==
    /\ at = "choose" /\ at' = "dispatch"
    /\ runs' = [i \in Issues |-> IF Claimed(i) /\ p.tracked[i] # Unread
                                 THEN [runs[i] EXCEPT !.state = p.tracked[i].state] ELSE runs[i]]
    /\ p' = [p EXCEPT !.actionable = Actionable, !.items = Candidates,
                      !.free = IF slots > InUse THEN slots - InUse ELSE 0]
    /\ UNCHANGED <<configured, outside, spaces, upsets>>

(* Slip: a state's limit is checked against what was read before the tick.  *)
FullBefore(s) ==
    s = "doing" /\ Cardinality({i \in Issues : Claimed(i) /\ p.tracked[i].state = s}) > StateLimit

(* The next candidate is started, unless its state has its fill.            *)
InState(s) == Cardinality({i \in Issues : Claimed(i) /\ runs[i].state = s})
Full(s) == s = "doing" /\ InState(s) >= StateLimit

Dispatch ==
    /\ at = "dispatch" /\ p.items # <<>> /\ p.free > 0
    /\ LET t == Head(p.items) IN
          IF Full(t.read.state)
          THEN p' = [p EXCEPT !.items = Tail(@)] /\ UNCHANGED <<runs, spaces>>
          ELSE /\ runs' = [runs EXCEPT ![t.issue] = LiveIn(t.read.state)]
               /\ spaces' = spaces \cup {t.issue}
               /\ p' = [p EXCEPT !.items = Tail(@), !.free = @ - 1]
    /\ UNCHANGED <<configured, outside, at, upsets>>

DispatchEnds ==
    /\ at = "dispatch" /\ (p.items = <<>> \/ p.free = 0)
    /\ at' = "settle"
    /\ p' = [p EXCEPT !.todo = {i \in Issues : Claimed(i)}]
    /\ UNCHANGED <<configured, outside, runs, spaces, upsets>>

(* A run's issue that was not found, or is not among the actionable ones of *)
(* the list: the run is stopped, unless it has just moved the issue itself  *)
(* and may have the grace to exit.                                          *)
Stops(i) ==
    IF p.tracked[i] = Unread THEN i \notin p.lost /\ runs[i].at = "live"
    ELSE i \notin p.actionable

Settle(i) ==
    /\ at = "settle" /\ i \in p.todo
    /\ p' = [p EXCEPT !.todo = @ \ {i}]
    /\ \/ /\ ~Claimed(i) \/ ~Stops(i) \/ (runs[i].handed /\ p.tracked[i] # Unread)
          /\ UNCHANGED runs
       \/ /\ Claimed(i) /\ Stops(i)
          /\ runs' = [runs EXCEPT ![i] = NoRun]
    /\ UNCHANGED <<configured, outside, spaces, at, upsets>>

SettleEnds ==
    /\ at = "settle" /\ p.todo = {} /\ at' = "clean"
    /\ UNCHANGED <<configured, outside, runs, spaces, p, upsets>>

(* The workspaces of issues that were read in a terminal state.             *)
CleanUp ==
    /\ at = "clean"
    /\ spaces' = {i \in spaces : Claimed(i) \/ (p.tracked[i].state # "done" /\ i \notin p.gone)}
    /\ Over
    /\ UNCHANGED <<configured, board, order, edits, runs, upsets>>

(* A page that does not come, or has no cursor, ends the poll.              *)
PollFails ==
    /\ at = "list" /\ upsets < MaxUpsets
    /\ upsets' = upsets + 1 /\ Over
    /\ UNCHANGED <<configured, board, order, edits, runs, spaces>>

-----------------------------------------------------------------------------
(* Workers and people.                                                      *)

(* A worker ends, well or to be retried; or it moves its issue on.          *)
WorkerEnds(i) ==
    /\ at = "idle" /\ runs[i].at = "live"
    /\ \/ runs' = [runs EXCEPT ![i] = NoRun]
       \/ runs' = [runs EXCEPT ![i].at = "retry", ![i].handed = FALSE]
    /\ UNCHANGED <<configured, outside, spaces, at, p, upsets>>

Touch(i, item) ==
    /\ edits < MaxEdits /\ edits' = edits + 1
    /\ board' = [board EXCEPT ![i] = item] /\ steady' = steady \ {i}
    /\ UNCHANGED <<configured, order, shuffled, spaces, at, p, upsets>>

HandOver(i) ==
    /\ runs[i].at = "live" /\ board[i].state \in Active
    /\ \E s \in {"review", "done"} : Touch(i, [board[i] EXCEPT !.state = s])
    /\ runs' = [runs EXCEPT ![i].handed = TRUE]

Edit(i) ==
    /\ \/ \E s \in States \ {board[i].state} : Touch(i, [board[i] EXCEPT !.state = s])
       \/ Touch(i, [board[i] EXCEPT !.eligible = ~@])
       \/ Touch(i, [board[i] EXCEPT !.open = ~@])
    /\ UNCHANGED runs

Drag ==
    /\ upsets < MaxUpsets /\ upsets' = upsets + 1
    /\ \E m, n \in Issues :
          m < n /\ order' = [order EXCEPT ![m] = order[n], ![n] = order[m]]
    /\ shuffled' = (at # "idle")
    /\ UNCHANGED <<configured, board, steady, edits, runs, spaces, at, p>>

Next ==
    \/ StartPoll \/ ReadPage \/ CloseStale \/ FactsEnd \/ LookUpActive \/ LookUpSpaces \/ Choose
    \/ Dispatch \/ DispatchEnds \/ SettleEnds \/ CleanUp \/ PollFails \/ Drag
    \/ \E i \in Issues :
          Settle(i) \/ RetryIsDue(i) \/ WorkerEnds(i) \/ HandOver(i) \/ Edit(i)

Spec == Init /\ [][Next]_pollVars

-----------------------------------------------------------------------------
(* An issue that is to be worked on, by what the board says now.            *)
Workable(i) ==
    /\ board[i].state \in Active /\ board[i].eligible
    /\ board[i].state \in Checked => ~Unresolved(i)

(* What is started is to be worked on: unless somebody has touched the item *)
(* or its blocker since the poll began, it still is; a closed issue is not. *)
Starts(i) == at = "dispatch" /\ p'.items # p.items /\ runs'[i] # runs[i]
StartsAreWorkable ==
    [][\A i \in Issues : Starts(i) /\ {i, Blocker} \subseteq steady =>
          /\ Workable(i) \/ (i = Dependent /\ board[Blocker].state = "done")
          /\ adapter = "linear" \/ board[i].open]_pollVars

(* A run is not stopped while its issue is to be worked on, for as long as  *)
(* the poll takes and nobody drags items across the page that is read.      *)
RunsGoOn ==
    [][\A i \in Issues :
          /\ at = "settle" /\ Claimed(i) /\ runs'[i] = NoRun
          /\ {i, Blocker} \subseteq steady /\ ~shuffled
          => ~Workable(i)]_pollVars

(* No issue is started while it has a run, unless items were dragged.       *)
StartedOnce == [][\A i \in Issues : Starts(i) /\ ~shuffled => ~Claimed(i)]_pollVars

(* A state has no more starts than its limit, whatever else runs.           *)
StateLimitHolds ==
    [][\A i \in Issues : Starts(i) /\ runs'[i].state = "doing" /\ ~Claimed(i) =>
          Cardinality({j \in Issues : runs'[j].at # "none" /\ runs'[j].state = "doing"})
             <= StateLimit]_pollVars

(* Dispatch leaves no slot unused: an issue that was listed as work to do   *)
(* and has no run when the starts are over was left behind for the slots or *)
(* for its state's limit.                                                   *)
SlotsAreUsed ==
    [][at = "dispatch" /\ at' = "settle" =>
          \A i \in p.actionable :
              ~Claimed(i) => InUse >= slots \/ Full(p.tracked[i].state)]_pollVars

PollsAreSound ==
    /\ StartsAreWorkable /\ RunsGoOn /\ StartedOnce /\ StateLimitHolds
    /\ SlotsAreUsed

(* Do not hold.  tracker-github.test.ts:4313 "treats a project-terminal     *)
(* GitHub blocker as resolved": the filter keeps it out of the list.  And   *)
(* symphony-spec.md:836 lets an issue that is still active go on: one found *)
(* by id only is stopped.                                                   *)
TerminalBlockersAreResolved ==
    at = "dispatch" /\ {Dependent, Blocker} \subseteq steady /\ board[Blocker].state = "done"
        => ~p.tracked[Dependent].blocked
ActiveRunsGoOn ==
    [][\A i \in Issues : at = "settle" /\ Claimed(i) /\ runs'[i] = NoRun =>
          ~(p.tracked[i].state \in Active /\ Dispatchable(p.tracked[i]))]_pollVars
=============================================================================
