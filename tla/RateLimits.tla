----------------------------- MODULE RateLimits -----------------------------
(***************************************************************************)
(* The budget of a GitHub token, spent by processes that share it: the     *)
(* daemon's polls and transitions, a worker's tool calls.  Each process    *)
(* sends one request at a time and remembers what the last answer said of  *)
(* the budget; it waits for a reset that is near, refuses to send when one *)
(* that is far away is all there is, and retries what was limited.         *)
(* (packages/tool-github-graphql/src, tracker-github/src/adapter.ts,       *)
(* orchestrator/src/service.ts, worker/src)                                *)
(***************************************************************************)
EXTENDS Integers, Sequences, FiniteSets

CONSTANTS
    Daemon, Worker,         \* processes
    Polls, Moves, Tools,    \* callers: the daemon's polls, its transitions, tool calls
    Limit, Window,          \* the budget, and how long it is for
    Soft,                   \* softThreshold; the hard one is 0
    MaxWait, RetryBase, Attempts,
    BaseInterval,           \* of the polls
    PollSize,               \* bound: requests of a poll
    MaxCalls, MaxTime, MaxFaults    \* bounds

Callers == Polls \cup Moves \cup Tools
Processes == {Daemon, Worker}
Home(c) == IF c \in Tools THEN Worker ELSE Daemon

RateLimitsAssumption ==
    /\ Daemon # Worker /\ Polls \cap Moves = {} /\ (Polls \cup Moves) \cap Tools = {}
    /\ {Limit, Window, MaxWait, RetryBase, Attempts, BaseInterval} \subseteq Nat \ {0}
    /\ {Soft, PollSize, MaxCalls, MaxTime, MaxFaults} \subseteq Nat

VARIABLES
    now,
    left, reset,    \* the provider's: what is left of the budget, when it is renewed
    known,          \* per process: the budget as the last answer had it
    told,           \* and as the last tool answer had it, which the worker keeps too
    queue,          \* per process: the callers that wait for the token, and the one at it
    call,           \* per caller
    reply,          \* per caller: the answer on its way
    cycle,          \* the costs that the poll under way has added up
    shown,          \* the budget the polls go by
    due,            \* when the next poll may start
    last,           \* history: per process, the budget after its last request
    spent,          \* history: requests the token was charged for
    calls, faults

limitVars == <<now, left, reset, known, told, queue, call, reply, cycle, shown, due, last, spent,
               calls, faults>>

None == [left |-> Limit, reset |-> -1]
NoReply == [kind |-> "none", budget |-> None, wait |-> 0]
NoCall == [at |-> "idle", until |-> 0, try |-> 0, again |-> 0]
NoCycle == [open |-> FALSE, from |-> 0, used |-> -1, cost |-> 0, asked |-> 0]

Init ==
    /\ now = 0 /\ left = Limit /\ reset = Window
    /\ known = [p \in Processes |-> None] /\ told = None
    /\ queue = [p \in Processes |-> <<>>]
    /\ call = [c \in Callers |-> NoCall] /\ reply = [c \in Callers |-> NoReply]
    /\ cycle = NoCycle /\ shown = None /\ due = 0
    /\ last = [p \in Processes |-> None] /\ spent = 0
    /\ calls = 0 /\ faults = 0

-----------------------------------------------------------------------------
(* guardGitHubGraphQLRateLimitState: what to do about a remembered budget.  *)

Wait(b) == IF b.reset > now THEN b.reset - now ELSE 0
Low(b) == b # None /\ b.left <= Soft
Refuses(b) == Low(b) /\ b.left <= 0 /\ Wait(b) > MaxWait
Sleeps(b) == Low(b) /\ Wait(b) > 0 /\ Wait(b) <= MaxWait
Passes(b) == ~Refuses(b) /\ ~Sleeps(b)

Turn(c) == call[c].at = "queued" /\ Head(queue[Home(c)]) = c

At(c, stage) == call' = [call EXCEPT ![c].at = stage]
Leaves(c) == queue' = [queue EXCEPT ![Home(c)] = Tail(@)]
Joins(c) ==
    /\ queue' = [queue EXCEPT ![Home(c)] = Append(@, c)]
    /\ call' = [call EXCEPT ![c] = [NoCall EXCEPT !.at = "queued"]]

provider == <<left, reset, spent>>
others == <<cycle, shown, due>>

-----------------------------------------------------------------------------
(* Callers.                                                                 *)

(* A tool call first goes by what the last tool answer said, which is not   *)
(* forgotten when the wait is over; what is refused is the agent's answer.  *)
AskTool(c) ==
    /\ c \in Tools /\ call[c].at = "idle" /\ calls < MaxCalls /\ calls' = calls + 1
    /\ \/ Refuses(told) /\ UNCHANGED <<call, queue>>
       \/ Passes(told) /\ Joins(c)
       \/ /\ Sleeps(told)
          /\ call' = [call EXCEPT ![c] = [NoCall EXCEPT !.at = "early", !.until = told.reset]]
          /\ UNCHANGED queue
    /\ UNCHANGED <<now, provider, known, told, reply, others, last, faults>>

EarlyEnds(c) ==
    /\ call[c].at = "early" /\ now >= call[c].until
    /\ Joins(c)
    /\ UNCHANGED <<now, provider, known, told, reply, others, last, calls, faults>>

AskMove(c) ==
    /\ c \in Moves /\ call[c].at = "idle" /\ calls < MaxCalls /\ calls' = calls + 1
    /\ Joins(c)
    /\ UNCHANGED <<now, provider, known, told, reply, others, last, faults>>

(* A poll begins its count of costs with its first request, and sends one   *)
(* request after the other.                                                 *)
AskPoll(c) ==
    /\ c \in Polls /\ (\A d \in Polls : call[d].at = "idle") /\ calls < MaxCalls /\ calls' = calls + 1
    /\ cycle.open \/ now >= due
    /\ cycle.asked < PollSize
    /\ cycle' = [IF cycle.open THEN cycle ELSE [NoCycle EXCEPT !.open = TRUE, !.from = spent]
                 EXCEPT !.asked = @ + 1]
    /\ Joins(c)
    /\ UNCHANGED <<now, provider, known, told, reply, shown, due, last, faults>>

(* resolveAdaptivePollIntervalMs: full speed above half the budget, ten     *)
(* times slower at its end.                                                 *)
RoundUp(n, d) == (n + d - 1) \div d
Interval(b) ==
    CASE b = None \/ 2 * b.left > Limit -> BaseInterval
      [] b.left <= 0 -> 10 * BaseInterval
      [] OTHER -> LET slow == RoundUp(BaseInterval * Limit, 2 * b.left) IN
                  IF slow > 10 * BaseInterval THEN 10 * BaseInterval ELSE slow

(* The poll is over, complete or not.                                       *)
PollEnds(budget) ==
    /\ shown' = IF budget = None THEN shown ELSE budget
    /\ due' = now + Interval(shown')
    /\ cycle' = NoCycle

PollIsComplete ==
    /\ cycle.open /\ cycle.asked > 0 /\ \A c \in Polls : call[c].at = "idle"
    /\ PollEnds(None)
    /\ UNCHANGED <<now, provider, known, told, queue, call, reply, last, calls, faults>>

-----------------------------------------------------------------------------
(* GitHubGraphQLRateLimitPolicy.execute                                     *)

(* A call is refused, or given up, and so is the poll it is of.             *)
GiveUp(c, budget) ==
    /\ Leaves(c) /\ call' = [call EXCEPT ![c] = NoCall]
    /\ IF c \in Polls THEN PollEnds(budget) ELSE UNCHANGED others

Guard(c) ==
    LET b == known[Home(c)] IN
    /\ Turn(c)
    /\ \/ Passes(b) /\ At(c, "sending") /\ UNCHANGED <<queue, others>>
       \/ /\ Sleeps(b) /\ UNCHANGED <<queue, others>>
          /\ call' = [call EXCEPT ![c].at = "asleep", ![c].until = b.reset]
       \/ Refuses(b) /\ GiveUp(c, b)
    /\ UNCHANGED <<now, provider, known, told, reply, last, calls, faults>>

(* What was remembered is forgotten: it was of the window before.           *)
Wake(c) ==
    /\ call[c].at = "asleep" /\ now >= call[c].until
    /\ known' = [known EXCEPT ![Home(c)] = None]
    /\ At(c, "sending")
    /\ UNCHANGED <<now, provider, told, queue, reply, others, last, calls, faults>>

TryAgain(c) ==
    /\ call[c].at = "pausing" /\ now >= call[c].until
    /\ queue' = [queue EXCEPT ![Home(c)] = Append(@, c)]
    /\ call' = [call EXCEPT ![c].at = "queued"]
    /\ UNCHANGED <<now, provider, known, told, reply, others, last, calls, faults>>

Rest(c) ==
    /\ call[c].at = "resting" /\ now >= call[c].until
    /\ At(c, "sending")
    /\ UNCHANGED <<now, provider, known, told, queue, reply, others, last, calls, faults>>

(* The provider answers: with what was asked for; with a refusal, the       *)
(* budget being gone or the caller too fast; with an error, which may say   *)
(* nothing of the budget; or with nothing that arrives.                     *)
Answers(c, kind, wait, cost, b) ==
    /\ left' = left - cost /\ spent' = spent + cost
    /\ reply' = [reply EXCEPT ![c] = [kind |-> kind, budget |-> b, wait |-> wait]]
    /\ last' = IF kind = "lost" THEN last ELSE [last EXCEPT ![Home(c)] = b]
    /\ UNCHANGED <<now, reset, known, told, queue, call, others, calls>>

Serve(c) ==
    LET cost == IF left > 0 THEN 1 ELSE 0
        charged == [left |-> left - cost, reset |-> reset] IN
    /\ call[c].at = "sending" /\ reply[c] = NoReply
    /\ \/ /\ Answers(c, IF left > 0 THEN "ok" ELSE "limited", 0, cost, charged)
          /\ UNCHANGED faults
       \/ /\ faults < MaxFaults /\ faults' = faults + 1
          /\ \/ \E wait \in 1 .. MaxWait + 1 :
                   Answers(c, "limited", wait, 0, [left |-> left, reset |-> reset])
             \/ Answers(c, "error", 0, 0, None)
             \/ left > 0 /\ Answers(c, "error", 0, cost, charged)
             \/ Answers(c, "lost", 0, cost, None)

(* Slip: what the answer asks for is all that counts.                      *)
RetryAfterOnly(r) == IF r.wait > 0 THEN now + r.wait ELSE -1

(* buildRateLimitError: the later of the reset, when the budget is gone,    *)
(* and of what the answer asks to wait.                                     *)
RetryAt(r) ==
    LET primary == IF r.budget.left <= 0 THEN r.budget.reset ELSE -1
        after == IF r.wait > 0 THEN now + r.wait ELSE -1 IN
    IF primary > after THEN primary ELSE after

(* resolveRetryDelay                                                        *)
Exponential(try) ==
    LET e == RetryBase * 2 ^ try IN IF e > MaxWait THEN MaxWait ELSE e
Delay(c, r) ==
    LET wanted == RetryAt(r) - now IN
    IF wanted > Exponential(call[c].try) THEN wanted ELSE Exponential(call[c].try)

Limited(c) ==
    LET r == reply[c] IN
    /\ r.kind = "limited"
    /\ IF call[c].try + 1 >= Attempts \/ Delay(c, r) > MaxWait
       THEN GiveUp(c, r.budget)
       ELSE /\ call' = [call EXCEPT ![c].at = "resting", ![c].until = now + Delay(c, r), ![c].try = @ + 1]
            /\ UNCHANGED <<queue, others>>
    /\ UNCHANGED told

(* resolveTransitionRetryDelay, which waits for a reset whatever is left.   *)
Pause(c) ==
    LET e == RetryBase * 2 ^ call[c].again
        wait == Wait(reply[c].budget) IN
    IF wait > e THEN wait ELSE e
TooLong(c) == Wait(reply[c].budget) > MaxWait

(* The requests of a poll add up: each is the use since the one before.     *)
Added(b) ==
    LET used == Limit - b.left
        grown == cycle.used # -1 /\ used >= cycle.used IN
    [cycle EXCEPT !.used = used, !.cost = IF grown THEN @ + used - cycle.used ELSE @]

Done(c) ==
    /\ reply[c].kind = "ok" /\ Leaves(c) /\ call' = [call EXCEPT ![c] = NoCall]
    /\ told' = IF c \in Tools THEN reply[c].budget ELSE told
    /\ IF c \in Polls
       THEN cycle' = Added(reply[c].budget) /\ shown' = reply[c].budget /\ UNCHANGED due
       ELSE UNCHANGED others

(* An error that has nothing to do with limits is the caller's.  A          *)
(* transition whose provider failed pauses and asks again.                  *)
Failed(c) ==
    /\ reply[c].kind \in {"error", "lost"} /\ UNCHANGED told
    /\ \/ GiveUp(c, None)
       \/ /\ reply[c].kind = "error" /\ c \in Moves
          /\ call[c].again + 1 < Attempts /\ ~TooLong(c)
          /\ Leaves(c)
          /\ call' = [call EXCEPT ![c] = [NoCall EXCEPT
                 !.at = "pausing", !.until = now + Pause(c), !.again = call[c].again + 1]]
          /\ UNCHANGED others

Receive(c) ==
    /\ call[c].at = "sending" /\ reply[c] # NoReply
    /\ known' = IF reply[c].kind = "lost" THEN known
                ELSE [known EXCEPT ![Home(c)] = reply[c].budget]
    /\ Limited(c) \/ Done(c) \/ Failed(c)
    /\ reply' = [reply EXCEPT ![c] = NoReply]
    /\ UNCHANGED <<now, provider, last, calls, faults>>

Tick ==
    /\ now < MaxTime /\ now' = now + 1
    /\ IF now' >= reset THEN left' = Limit /\ reset' = reset + Window ELSE UNCHANGED <<left, reset>>
    /\ UNCHANGED <<known, told, queue, call, reply, others, last, spent, calls, faults>>

Next ==
    \/ \E c \in Callers :
          \/ AskTool(c) \/ EarlyEnds(c) \/ AskMove(c) \/ AskPoll(c)
          \/ Guard(c) \/ Wake(c) \/ Rest(c) \/ TryAgain(c) \/ Serve(c) \/ Receive(c)
    \/ PollIsComplete \/ Tick

Spec == Init /\ [][Next]_limitVars

-----------------------------------------------------------------------------
(* Properties.                                                              *)

Sending(c) == call[c].at = "sending"

(* A process that knows the budget to be gone sends nothing before it is    *)
(* renewed, whichever of its calls learned of it.                           *)
NothingIsSentInVain ==
    \A c \in Callers :
        Sending(c) /\ reply[c] = NoReply =>
            LET b == last[Home(c)] IN b.left > 0 \/ now >= b.reset

(* What is remembered is the last word of the provider to this process,     *)
(* forgotten at most: answers never overtake each other.                    *)
TheLastWordCounts ==
    \A p \in Processes :
        (\A c \in Callers : Home(c) = p => reply[c] = NoReply) => known[p] \in {None, last[p]}

(* A poll is never charged for more than the token was while it ran.        *)
CostsAreReal == cycle.open => cycle.cost <= spent - cycle.from

(* The budget is spent with care, as each process knows it from its own     *)
(* answers, and is accounted for as it was spent.                           *)
BudgetIsKept == NothingIsSentInVain /\ TheLastWordCounts /\ CostsAreReal
=============================================================================
