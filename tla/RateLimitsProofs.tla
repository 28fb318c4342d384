-------------------------- MODULE RateLimitsProofs --------------------------
(* The budget of the token is kept, for any number of polls, transitions    *)
(* and tool calls, any budget and thresholds, and any faults: what a        *)
(* process remembers is the provider's last word to it, what it sends has   *)
(* a chance, and no poll is charged for more than the token was.            *)
EXTENDS RateLimits, SequenceTheorems, TLAPS

Stages == {"idle", "early", "queued", "asleep", "sending", "resting", "pausing"}
Active == {"asleep", "sending", "resting"}
Budgets == [left : 0 .. Limit, reset : Int]
Calls == [at : Stages, until : Int, try : Nat, again : Nat]
Replies == [kind : {"none", "ok", "limited", "error", "lost"}, budget : Budgets, wait : Nat]
Cycles == [open : BOOLEAN, from : Nat, used : Int, cost : Nat, asked : Nat]

TypeOK ==
    /\ now \in Nat /\ left \in 0 .. Limit /\ reset \in Nat /\ spent \in Nat
    /\ known \in [Processes -> Budgets] /\ last \in [Processes -> Budgets] /\ told \in Budgets
    /\ queue \in [Processes -> Seq(Callers)]
    /\ call \in [Callers -> Calls] /\ reply \in [Callers -> Replies]
    /\ cycle \in Cycles

(* Only the caller at the head of its process's queue is at the token, and  *)
(* only one that is sending has an answer on its way.                       *)
Serial ==
    /\ \A p \in Processes : \A i \in 1 .. Len(queue[p]) :
          /\ Home(queue[p][i]) = p
          /\ call[queue[p][i]].at \in IF i = 1 THEN {"queued"} \cup Active ELSE {"queued"}
          /\ \A j \in 1 .. Len(queue[p]) : i # j => queue[p][i] # queue[p][j]
    /\ \A c \in Callers :
          /\ call[c].at = "queued" => \E i \in 1 .. Len(queue[Home(c)]) : queue[Home(c)][i] = c
          /\ call[c].at \in Active => queue[Home(c)] # <<>> /\ Head(queue[Home(c)]) = c
          /\ reply[c].kind # "none" => call[c].at = "sending"
          /\ reply[c].kind = "none" => reply[c] = NoReply

Spendable(b) == b.left > 0 \/ now >= b.reset
Heard(c) == reply[c].kind \notin {"none", "lost"}

(* What a process remembers is what it was told last, or nothing, when that *)
(* cannot keep it from sending; an answer on its way is the last word.      *)
Remembered ==
    /\ \A p \in Processes :
          \/ \E c \in Callers : Home(c) = p /\ Heard(c)
          \/ known[p] = last[p]
          \/ known[p] = None /\ Spendable(last[p])
    /\ \A c \in Callers :
          /\ Heard(c) => reply[c].budget = last[Home(c)]
          /\ call[c].at = "sending" /\ reply[c].kind = "none" => Spendable(last[Home(c)])
          /\ call[c].at = "resting" =>
                last[Home(c)].left > 0 \/ call[c].until >= last[Home(c)].reset
          /\ call[c].at = "asleep" =>
                known[Home(c)] = last[Home(c)] /\ call[c].until = last[Home(c)].reset

Used(b) == Limit - b.left

(* A poll under way has one request at a time, and its costs, with what an  *)
(* answer on its way adds and what the token was charged since the last one *)
(* counted, are covered by what was spent.                                  *)
Charged ==
    /\ \A c, d \in Polls : call[c].at # "idle" /\ call[d].at # "idle" => c = d
    /\ \A c \in Polls : call[c].at # "idle" => cycle.open
    /\ cycle.used \in {-1} \cup 0 .. Limit
    /\ cycle.open =>
          /\ cycle.from + cycle.cost <= spent
          /\ cycle.used # -1 => cycle.from + cycle.cost + (Limit - left) - cycle.used <= spent
    /\ \A c \in Polls : reply[c].kind = "ok" =>
          LET used == Used(reply[c].budget) IN
          /\ cycle.used # -1 /\ used >= cycle.used =>
                cycle.from + cycle.cost + used - cycle.used <= spent
          /\ cycle.from + cycle.cost + (Limit - left) - used <= spent

IInv == TypeOK /\ Serial /\ Remembered /\ Charged

-----------------------------------------------------------------------------
(* Types.                                                                   *)

LEMMA Constants ==
    ASSUME RateLimitsAssumption
    PROVE  /\ Limit \in Nat \ {0} /\ Window \in Nat \ {0} /\ MaxWait \in Nat \ {0}
           /\ RetryBase \in Nat \ {0} /\ Soft \in Nat
           /\ \A c \in Callers : Home(c) \in Processes
           /\ None \in Budgets /\ NoReply \in Replies /\ NoCall \in Calls /\ NoCycle \in Cycles
           /\ Polls \subseteq Callers /\ Moves \subseteq Callers /\ Tools \subseteq Callers
           /\ \A c \in Polls \cup Moves : Home(c) = Daemon
  BY DEF RateLimitsAssumption, Callers, Home, Processes, None, Budgets, NoReply, Replies, NoCall,
         Calls, Stages, NoCycle, Cycles

LEMMA InitTyped == ASSUME RateLimitsAssumption, Init PROVE TypeOK
<1> USE Constants
<1>1. now \in Nat /\ left \in 0 .. Limit /\ reset \in Nat /\ spent \in Nat /\ told \in Budgets
      /\ cycle \in Cycles
  BY DEF Init
<1>2. known \in [Processes -> Budgets] /\ last \in [Processes -> Budgets]
      /\ queue \in [Processes -> Seq(Callers)]
  BY DEF Init
<1>3. call \in [Callers -> Calls] /\ reply \in [Callers -> Replies]
  BY DEF Init
<1> QED
  BY <1>1, <1>2, <1>3 DEF TypeOK

LEMMA JoinsTyped ==
    ASSUME RateLimitsAssumption, TypeOK, NEW c \in Callers, Joins(c)
    PROVE  queue' \in [Processes -> Seq(Callers)] /\ call' \in [Callers -> Calls]
<1>1. Home(c) \in Processes /\ NoCall \in Calls
  BY Constants
<1>2. [NoCall EXCEPT !.at = "queued"] \in Calls
  BY <1>1 DEF Calls, Stages
<1> QED
  BY <1>1, <1>2 DEF Joins, TypeOK

LEMMA LeavesTyped ==
    ASSUME RateLimitsAssumption, TypeOK, NEW c \in Callers, Leaves(c),
           queue[Home(c)] # <<>>
    PROVE  queue' \in [Processes -> Seq(Callers)]
<1>1. Home(c) \in Processes
  BY Constants
<1>2. Tail(queue[Home(c)]) \in Seq(Callers)
  BY <1>1 DEF TypeOK
<1> QED
  BY <1>1, <1>2 DEF Leaves, TypeOK

LEMMA IntervalTyped == 
    ASSUME RateLimitsAssumption, TypeOK, NEW c \in Callers, NEW b \in Budgets, GiveUp(c, b)
    PROVE  call' \in [Callers -> Calls] /\ cycle' \in Cycles
  BY Constants DEF GiveUp, PollEnds, others, TypeOK

LEMMA AddedTyped ==
    ASSUME RateLimitsAssumption, TypeOK, NEW b \in Budgets, cycle.used \in {-1} \cup 0 .. Limit
    PROVE  /\ Added(b) \in Cycles /\ Added(b).used = Limit - b.left /\ Added(b).used \in 0 .. Limit
           /\ Added(b).open = cycle.open /\ Added(b).from = cycle.from
           /\ cycle.used # -1 /\ Limit - b.left >= cycle.used =>
                 Added(b).cost = cycle.cost + (Limit - b.left) - cycle.used
           /\ ~(cycle.used # -1 /\ Limit - b.left >= cycle.used) => Added(b).cost = cycle.cost
<1>1. b.left \in 0 .. Limit /\ Limit \in Nat /\ cycle \in Cycles
  BY Constants DEF Budgets, TypeOK
<1> DEFINE used == Limit - b.left
           grown == cycle.used # -1 /\ used >= cycle.used
           cost == IF grown THEN cycle.cost + used - cycle.used ELSE cycle.cost
<1>2. Added(b) = [[cycle EXCEPT !.used = used] EXCEPT !.cost = cost]
  BY <1>1 DEF Added, Cycles
<1>3. used \in 0 .. Limit /\ cost \in Nat
  BY <1>1 DEF Cycles
<1> HIDE DEF used, cost
<1>4. /\ Added(b) \in Cycles /\ Added(b).used = used /\ Added(b).cost = cost
      /\ Added(b).open = cycle.open /\ Added(b).from = cycle.from
  <2> DEFINE seen == [cycle EXCEPT !.used = used]
  <2>1. seen \in Cycles /\ seen.used = used /\ seen.open = cycle.open /\ seen.from = cycle.from
    BY <1>1, <1>3 DEF Cycles
  <2>2. Added(b) = [seen EXCEPT !.cost = cost]
    BY <1>2
  <2> HIDE DEF seen
  <2> QED
    BY <1>3, <2>1, <2>2 DEF Cycles
<1> QED
  BY <1>1, <1>3, <1>4 DEF used, cost

LEMMA PowersAreIntegers == \A n \in Nat : 2 ^ n \in Int
  BY Z3

(* The waits are numbers, and the wait of a limited call is not over before *)
(* the budget that is gone is renewed.                                      *)
LEMMA DelayCovers ==
    ASSUME RateLimitsAssumption, TypeOK, NEW c \in Callers
    PROVE  LET r == reply[c] IN
           /\ Delay(c, r) \in Int
           /\ r.budget.left <= 0 => now + Delay(c, r) >= r.budget.reset
<1> DEFINE r == reply[c]  try == call[c].try
<1>1. r \in Replies /\ try \in Nat /\ now \in Nat
  BY DEF TypeOK, Calls
<1>2. r.budget.left \in Nat /\ r.budget.reset \in Int /\ r.wait \in Nat
  BY <1>1, Constants DEF Replies, Budgets
<1>3. 2 ^ try \in Int
  BY <1>1, PowersAreIntegers
<1>4. Exponential(try) \in Int
  BY <1>3, Constants DEF Exponential
<1>5. RetryAt(r) \in Int /\ (r.budget.left <= 0 => RetryAt(r) >= r.budget.reset)
  BY <1>1, <1>2 DEF RetryAt
<1> QED
  BY <1>1, <1>2, <1>4, <1>5 DEF Delay

LEMMA PauseTyped ==
    ASSUME RateLimitsAssumption, TypeOK, NEW c \in Callers
    PROVE  Pause(c) \in Int
<1> DEFINE again == call[c].again
<1>1. again \in Nat /\ now \in Nat /\ reply[c] \in Replies
  BY DEF TypeOK, Calls
<1>2. Wait(reply[c].budget) \in Int
  BY <1>1 DEF Wait, Replies, Budgets
<1>3. 2 ^ again \in Int
  BY <1>1, PowersAreIntegers
<1>4. RetryBase * 2 ^ again \in Int
  BY <1>3, Constants
<1> QED
  BY <1>2, <1>4 DEF Pause

(* An answer is of one of a few kinds, tells the budget as it is afterwards *)
(* or nothing of it, and charges what there is.                             *)
LEMMA ServeAnswers ==
    ASSUME RateLimitsAssumption, TypeOK, NEW c \in Callers, Serve(c)
    PROVE  /\ call[c].at = "sending" /\ reply[c] = NoReply
           /\ \E kind \in {"ok", "limited", "error", "lost"}, wait \in Nat, cost \in {0, 1},
                 b \in Budgets :
                 /\ Answers(c, kind, wait, cost, b) /\ left - cost \in 0 .. Limit
                 /\ kind = "ok" => b.left = left - cost
<1> DEFINE cost == IF left > 0 THEN 1 ELSE 0
           charged == [left |-> left - cost, reset |-> reset]
<1>1. left \in 0 .. Limit /\ reset \in Nat /\ Limit \in Nat /\ MaxWait \in Nat
  BY Constants DEF TypeOK
<1>2. cost \in {0, 1} /\ left - cost \in 0 .. Limit /\ charged \in Budgets /\ None \in Budgets
      /\ [left |-> left, reset |-> reset] \in Budgets
  BY <1>1, Constants DEF Budgets
<1>3. charged.left = left - cost
  OBVIOUS
<1> HIDE DEF charged
<1> SUFFICES \E kind \in {"ok", "limited", "error", "lost"}, wait \in Nat, k \in {0, 1}, b \in Budgets :
                /\ Answers(c, kind, wait, k, b) /\ left - k \in 0 .. Limit
                /\ kind = "ok" => b.left = left - k
  BY DEF Serve
<1>4. CASE Answers(c, IF left > 0 THEN "ok" ELSE "limited", 0, cost, charged)
  <2>1. PICK kind \in {"ok", "limited"} : kind = IF left > 0 THEN "ok" ELSE "limited"
    OBVIOUS
  <2>2. Answers(c, kind, 0, cost, charged)
    BY <1>4, <2>1
  <2> QED
    BY <1>2, <1>3, <2>2
<1>5. ASSUME NEW wait \in 1 .. MaxWait + 1,
             Answers(c, "limited", wait, 0, [left |-> left, reset |-> reset])
      PROVE  \E w \in Nat, b \in Budgets : Answers(c, "limited", w, 0, b)
  BY <1>1, <1>2, <1>5
<1>6. CASE Answers(c, "error", 0, 0, None) \/ Answers(c, "lost", 0, cost, None)
           \/ Answers(c, "error", 0, cost, charged)
  <2>1. PICK kind \in {"error", "lost"}, k \in {0, 1}, b \in Budgets :
           Answers(c, kind, 0, k, b) /\ left - k \in 0 .. Limit
    BY <1>1, <1>2, <1>6
  <2> QED
    BY <2>1
<1> QED
  BY <1>1, <1>4, <1>5, <1>6 DEF Serve, charged

LEMMA StepTyped == ASSUME RateLimitsAssumption, TypeOK, Serial, Charged, Next PROVE TypeOK'
<1> USE DEF others, provider
<1>n. Limit \in Nat \ {0} /\ None \in Budgets /\ NoReply \in Replies /\ NoCall \in Calls
      /\ NoCycle \in Cycles /\ \A c \in Callers : Home(c) \in Processes
  BY Constants
<1>q. ASSUME NEW c \in Callers, call[c].at \in Active
      PROVE  queue[Home(c)] # <<>>
  BY <1>q DEF Serial
<1>s. ASSUME NEW c \in Callers, NEW s \in Stages, At(c, s)
      PROVE  call' \in [Callers -> Calls]
  BY <1>s DEF At, TypeOK, Calls
<1>1. ASSUME NEW c \in Callers, AskTool(c) PROVE TypeOK'
  <2>1. UNCHANGED <<now, left, reset, spent, known, last, told, reply, cycle>>
    BY <1>1 DEF AskTool
  <2>2. CASE Joins(c)
    BY <2>1, <2>2, JoinsTyped DEF TypeOK
  <2>3. CASE Sleeps(told) /\ call' = [call EXCEPT ![c] = [NoCall EXCEPT !.at = "early", !.until = told.reset]]
             /\ UNCHANGED queue
    <3>1. [NoCall EXCEPT !.at = "early", !.until = told.reset] \in Calls
      BY <1>n DEF TypeOK, Calls, Stages, Budgets
    <3> QED
      BY <2>1, <2>3, <3>1 DEF TypeOK
  <2>4. CASE UNCHANGED <<call, queue>>
    BY <2>1, <2>4 DEF TypeOK
  <2> QED
    BY <1>1, <2>2, <2>3, <2>4 DEF AskTool
<1>2. ASSUME NEW c \in Callers, EarlyEnds(c) \/ AskMove(c) PROVE TypeOK'
  <2>1. Joins(c) /\ UNCHANGED <<now, left, reset, spent, known, last, told, reply, cycle>>
    BY <1>2 DEF EarlyEnds, AskMove
  <2> QED
    BY <2>1, JoinsTyped DEF TypeOK
<1>3. ASSUME NEW c \in Callers, AskPoll(c) PROVE TypeOK'
  <2>1. Joins(c) /\ UNCHANGED <<now, left, reset, spent, known, last, told, reply>>
    BY <1>3 DEF AskPoll
  <2>2. cycle' \in Cycles
    <3>1. [NoCycle EXCEPT !.open = TRUE, !.from = spent] \in Cycles
      BY <1>n DEF Cycles, TypeOK
    <3>2. PICK k \in Cycles : cycle' = [k EXCEPT !.asked = @ + 1]
      BY <1>3, <3>1 DEF AskPoll, TypeOK
    <3> QED
      BY <3>2 DEF Cycles
  <2> QED
    BY <2>1, <2>2, JoinsTyped DEF TypeOK
<1>4. ASSUME NEW c \in Callers, Guard(c) PROVE TypeOK'
  <2> DEFINE b == known[Home(c)]
  <2>1. UNCHANGED <<now, left, reset, spent, known, last, told, reply>> /\ b \in Budgets
    BY <1>4, <1>n DEF Guard, TypeOK
  <2>2. CASE At(c, "sending") /\ UNCHANGED <<queue, others>>
    BY <2>1, <2>2, <1>s DEF TypeOK, Stages
  <2>3. CASE UNCHANGED <<queue, others>> /\ call' = [call EXCEPT ![c].at = "asleep", ![c].until = b.reset]
    <3>1. call' \in [Callers -> Calls]
      BY <2>1, <2>3 DEF TypeOK, Calls, Stages, Budgets
    <3> QED
      BY <2>1, <2>3, <3>1 DEF TypeOK
  <2>4. CASE GiveUp(c, b)
    <3>1. Leaves(c) /\ call' \in [Callers -> Calls] /\ cycle' \in Cycles
      BY <2>1, <2>4, IntervalTyped DEF GiveUp
    <3>2. queue[Home(c)] # <<>>
      BY <1>4 DEF Guard, Turn, Serial
    <3>3. queue' \in [Processes -> Seq(Callers)]
      BY <3>1, <3>2, LeavesTyped
    <3> QED
      BY <2>1, <3>1, <3>3 DEF TypeOK
  <2> QED
    BY <1>4, <2>2, <2>3, <2>4 DEF Guard
<1>5. ASSUME NEW c \in Callers, Wake(c) \/ Rest(c) PROVE TypeOK'
  <2>1. call' \in [Callers -> Calls]
    BY <1>5, <1>s DEF Wake, Rest, Stages
  <2>2. known' \in [Processes -> Budgets]
    BY <1>5, <1>n DEF Wake, Rest, TypeOK
  <2> QED
    BY <1>5, <2>1, <2>2 DEF Wake, Rest, TypeOK
<1>6. ASSUME NEW c \in Callers, TryAgain(c) PROVE TypeOK'
  <2>1. call' \in [Callers -> Calls]
    BY <1>6 DEF TryAgain, TypeOK, Calls, Stages
  <2>2. queue' \in [Processes -> Seq(Callers)]
    BY <1>6, <1>n DEF TryAgain, TypeOK
  <2> QED
    BY <1>6, <2>1, <2>2 DEF TryAgain, TypeOK
<1>7. ASSUME NEW c \in Callers, Serve(c) PROVE TypeOK'
  <2>1. PICK kind \in {"ok", "limited", "error", "lost"}, wait \in Nat, cost \in {0, 1}, b \in Budgets :
           Answers(c, kind, wait, cost, b) /\ left - cost \in 0 .. Limit
    BY <1>7, ServeAnswers
  <2>2. [kind |-> kind, budget |-> b, wait |-> wait] \in Replies
    BY <2>1 DEF Replies
  <2> QED
    BY <2>1, <2>2, <1>n DEF Answers, TypeOK
<1>8. ASSUME NEW c \in Callers, Receive(c) PROVE TypeOK'
  <2>1. UNCHANGED <<now, left, reset, spent, last>> /\ reply[c] \in Replies /\ reply[c].budget \in Budgets
    BY <1>8 DEF Receive, TypeOK, Replies
  <2>2. reply' \in [Callers -> Replies] /\ known' \in [Processes -> Budgets]
    BY <1>8, <1>n, <2>1 DEF Receive, TypeOK
  <2>3. queue[Home(c)] # <<>>
    BY <1>8, <1>q DEF Receive, Active
  <2>4. CASE Limited(c)
    <3>1. told' = told
      BY <2>4 DEF Limited
    <3>2. CASE GiveUp(c, reply[c].budget)
      BY <2>1, <2>2, <2>3, <3>1, <3>2, IntervalTyped, LeavesTyped DEF GiveUp, TypeOK
    <3>3. CASE /\ call' = [call EXCEPT ![c].at = "resting", ![c].until = now + Delay(c, reply[c]),
                                       ![c].try = @ + 1]
               /\ UNCHANGED <<queue, others>>
      <4>1. now + Delay(c, reply[c]) \in Int
        BY DelayCovers DEF TypeOK
      <4>2. call' \in [Callers -> Calls]
        BY <3>3, <4>1 DEF TypeOK, Calls, Stages
      <4> QED
        BY <2>1, <2>2, <3>1, <3>3, <4>2 DEF TypeOK
    <3> QED
      BY <2>4, <3>2, <3>3 DEF Limited
  <2>5. CASE Done(c)
    <3>1. told' \in Budgets
      BY <2>1, <2>5 DEF Done, TypeOK
    <3>2. call' \in [Callers -> Calls] /\ queue' \in [Processes -> Seq(Callers)]
      BY <2>3, <2>5, <1>n, LeavesTyped DEF Done, TypeOK
    <3>3. Added(reply[c].budget) \in Cycles
      BY <2>1, AddedTyped DEF Charged
    <3>4. cycle' \in Cycles
      BY <2>5, <3>3 DEF Done, TypeOK
    <3> QED
      BY <2>1, <2>2, <3>1, <3>2, <3>4 DEF TypeOK
  <2>6. CASE Failed(c)
    <3>1. told' = told
      BY <2>6 DEF Failed
    <3>2. CASE GiveUp(c, None)
      BY <1>n, <2>1, <2>2, <2>3, <3>1, <3>2, IntervalTyped, LeavesTyped DEF GiveUp, TypeOK
    <3>3. CASE /\ Leaves(c)
               /\ call' = [call EXCEPT ![c] = [NoCall EXCEPT
                     !.at = "pausing", !.until = now + Pause(c), !.again = call[c].again + 1]]
               /\ UNCHANGED others
      <4>1. now + Pause(c) \in Int /\ call[c].again + 1 \in Nat
        BY PauseTyped DEF TypeOK, Calls
      <4>2. [NoCall EXCEPT !.at = "pausing", !.until = now + Pause(c), !.again = call[c].again + 1]
            \in Calls
        BY <4>1, <1>n DEF Calls, Stages
      <4> QED
        BY <2>1, <2>2, <2>3, <3>1, <3>3, <4>2, LeavesTyped DEF TypeOK
    <3> QED
      BY <2>6, <3>2, <3>3 DEF Failed
  <2> QED
    BY <1>8, <2>4, <2>5, <2>6 DEF Receive
<1>9. CASE PollIsComplete
  BY <1>9, <1>n DEF PollIsComplete, PollEnds, TypeOK
<1>10. CASE Tick
  BY <1>10, Constants DEF Tick, TypeOK
<1> QED
  BY <1>1, <1>2, <1>3, <1>4, <1>5, <1>6, <1>7, <1>8, <1>9, <1>10 DEF Next

-----------------------------------------------------------------------------
(* The queues: a caller joins at the end, and leaves from the head.         *)

InQueue == {"queued"} \cup Active

LEMMA InitSerial == ASSUME RateLimitsAssumption, Init PROVE Serial
  BY Constants DEF Init, Serial, NoCall, NoReply, Active

LEMMA JoinSerial ==
    ASSUME RateLimitsAssumption, TypeOK, TypeOK', Serial, NEW c \in Callers,
           call[c].at \notin InQueue, call'[c].at = "queued",
           \A d \in Callers : d # c => call'[d].at = call[d].at,
           queue' = [queue EXCEPT ![Home(c)] = Append(@, c)], reply' = reply
    PROVE  Serial'
<1> DEFINE p == Home(c)  q == queue[p]
<1>1. p \in Processes /\ q \in Seq(Callers)
  BY Constants DEF TypeOK
<1>2. queue'[p] = Append(q, c) /\ \A o \in Processes : o # p => queue'[o] = queue[o]
  BY <1>1 DEF TypeOK
<1>3. /\ Len(queue'[p]) = Len(q) + 1 /\ queue'[p][Len(q) + 1] = c
      /\ \A i \in 1 .. Len(q) : queue'[p][i] = q[i]
  BY <1>1, <1>2
<1>4. \A o \in Processes : \A i \in 1 .. Len(queue[o]) :
         queue[o][i] \in Callers /\ queue[o][i] # c /\ call'[queue[o][i]].at = call[queue[o][i]].at
  BY DEF Serial, InQueue, TypeOK
<1>5. ASSUME NEW o \in Processes, NEW i \in 1 .. Len(queue'[o])
      PROVE  /\ Home(queue'[o][i]) = o
             /\ call'[queue'[o][i]].at \in IF i = 1 THEN {"queued"} \cup Active ELSE {"queued"}
             /\ \A j \in 1 .. Len(queue'[o]) : i # j => queue'[o][i] # queue'[o][j]
  <2>1. CASE o # p
    BY <1>2, <1>4, <1>5, <2>1 DEF Serial
  <2>2. CASE o = p /\ i = Len(q) + 1
    <3>1. queue'[o][i] = c /\ Len(q) \in Nat
      BY <1>1, <1>3, <2>2
    <3>2. \A j \in 1 .. Len(queue'[o]) : i # j => queue'[o][j] # c
      BY <1>1, <1>3, <1>4, <2>2
    <3> QED
      BY <2>2, <3>1, <3>2
  <2>3. CASE o = p /\ i \in 1 .. Len(q)
    <3>1. queue'[o][i] = q[i]
      BY <1>3, <2>3
    <3>2. \A j \in 1 .. Len(queue'[o]) : i # j => q[i] # queue'[o][j]
      <4> SUFFICES ASSUME NEW j \in 1 .. Len(queue'[o]), i # j PROVE q[i] # queue'[o][j]
        OBVIOUS
      <4>1. CASE j \in 1 .. Len(q)
        BY <1>1, <1>3, <2>3, <4>1 DEF Serial
      <4>2. CASE j = Len(q) + 1
        BY <1>1, <1>3, <1>4, <2>3, <4>2
      <4> QED
        BY <1>1, <1>3, <2>3, <4>1, <4>2
    <3> QED
      BY <1>1, <1>4, <2>3, <3>1, <3>2 DEF Serial
  <2> QED
    BY <1>1, <1>3, <1>5, <2>1, <2>2, <2>3
<1>6. ASSUME NEW d \in Callers
      PROVE  /\ call'[d].at = "queued" =>
                   \E i \in 1 .. Len(queue'[Home(d)]) : queue'[Home(d)][i] = d
             /\ call'[d].at \in Active => queue'[Home(d)] # <<>> /\ Head(queue'[Home(d)]) = d
             /\ reply'[d].kind # "none" => call'[d].at = "sending"
             /\ reply'[d].kind = "none" => reply'[d] = NoReply
  <2>1. CASE d = c
    <3>1. Len(q) + 1 \in 1 .. Len(queue'[p])
      BY <1>1, <1>3
    <3>2. reply[c].kind = "none"
      BY DEF Serial, InQueue, Active
    <3> QED
      BY <1>3, <2>1, <3>1, <3>2 DEF Serial, Active
  <2>2. CASE d # c
    <3>1. Home(d) \in Processes /\ queue[Home(d)] \in Seq(Callers) /\ call'[d].at = call[d].at
      BY <2>2, Constants DEF TypeOK
    <3>2. /\ Len(queue'[Home(d)]) >= Len(queue[Home(d)])
          /\ \A i \in 1 .. Len(queue[Home(d)]) : queue'[Home(d)][i] = queue[Home(d)][i]
      BY <1>1, <1>2, <1>3, <3>1
    <3>3. call'[d].at = "queued" => \E i \in 1 .. Len(queue'[Home(d)]) : queue'[Home(d)][i] = d
      BY <3>1, <3>2, <2>2 DEF Serial
    <3>4. ASSUME call'[d].at \in Active
          PROVE  queue'[Home(d)] # <<>> /\ Head(queue'[Home(d)]) = d
      <4>1. queue[Home(d)] # <<>> /\ Head(queue[Home(d)]) = d
        BY <2>2, <3>1, <3>4 DEF Serial
      <4>2. 1 \in 1 .. Len(queue[Home(d)]) /\ queue[Home(d)][1] = d
        BY <3>1, <4>1
      <4>3. queue'[Home(d)] \in Seq(Callers)
        BY <3>1 DEF TypeOK
      <4> QED
        BY <3>1, <3>2, <4>2, <4>3
    <3> QED
      BY <2>2, <3>1, <3>3, <3>4 DEF Serial
  <2> QED
    BY <2>1, <2>2
<1> QED
  BY <1>5, <1>6 DEF Serial

LEMMA LeaveSerial ==
    ASSUME RateLimitsAssumption, TypeOK, TypeOK', Serial, NEW c \in Callers,
           queue[Home(c)] # <<>>, Head(queue[Home(c)]) = c, call'[c].at \notin InQueue,
           \A d \in Callers : d # c => call'[d].at = call[d].at /\ reply'[d] = reply[d],
           reply'[c] = NoReply, Leaves(c)
    PROVE  Serial'
<1> DEFINE p == Home(c)  q == queue[p]
<1>1. p \in Processes /\ q \in Seq(Callers) /\ q # <<>> /\ q[1] = c /\ Len(q) \in Nat \ {0}
  BY Constants DEF TypeOK
<1>2. queue'[p] = Tail(q) /\ \A o \in Processes : o # p => queue'[o] = queue[o]
  BY <1>1 DEF TypeOK, Leaves
<1>3. Len(queue'[p]) = Len(q) - 1 /\ \A i \in 1 .. Len(q) - 1 : queue'[p][i] = q[i + 1]
  BY <1>1, <1>2
<1>4. \A i \in 2 .. Len(q) : q[i] \in Callers /\ q[i] # c /\ call'[q[i]].at = "queued" /\ Home(q[i]) = p
  BY <1>1 DEF Serial
<1>5. ASSUME NEW o \in Processes, NEW i \in 1 .. Len(queue'[o])
      PROVE  /\ Home(queue'[o][i]) = o
             /\ call'[queue'[o][i]].at \in IF i = 1 THEN {"queued"} \cup Active ELSE {"queued"}
             /\ \A j \in 1 .. Len(queue'[o]) : i # j => queue'[o][i] # queue'[o][j]
  <2>1. CASE o # p
    <3>1. queue'[o] = queue[o] /\ queue[o][i] \in Callers /\ queue[o][i] # c
      BY <1>2, <1>5, <2>1 DEF Serial, TypeOK
    <3> QED
      BY <1>5, <3>1 DEF Serial
  <2>2. CASE o = p
    <3>1. i + 1 \in 2 .. Len(q) /\ queue'[o][i] = q[i + 1]
      BY <1>1, <1>3, <1>5, <2>2
    <3>2. \A j \in 1 .. Len(queue'[o]) : i # j => q[i + 1] # queue'[o][j]
      <4> SUFFICES ASSUME NEW j \in 1 .. Len(queue'[o]), i # j PROVE q[i + 1] # queue'[o][j]
        OBVIOUS
      <4>1. j + 1 \in 1 .. Len(q) /\ i + 1 \in 1 .. Len(q) /\ i + 1 # j + 1 /\ queue'[o][j] = q[j + 1]
        BY <1>1, <1>3, <1>5, <2>2
      <4> QED
        BY <1>1, <4>1 DEF Serial
    <3> QED
      BY <1>4, <2>2, <3>1, <3>2
  <2> QED
    BY <2>1, <2>2
<1>6. ASSUME NEW d \in Callers
      PROVE  /\ call'[d].at = "queued" =>
                   \E i \in 1 .. Len(queue'[Home(d)]) : queue'[Home(d)][i] = d
             /\ call'[d].at \in Active => queue'[Home(d)] # <<>> /\ Head(queue'[Home(d)]) = d
             /\ reply'[d].kind # "none" => call'[d].at = "sending"
             /\ reply'[d].kind = "none" => reply'[d] = NoReply
  <2>1. CASE d = c
    BY <2>1 DEF InQueue, NoReply
  <2>2. CASE d # c /\ Home(d) # p
    BY <1>2, <2>2, Constants DEF Serial
  <2>3. CASE d # c /\ Home(d) = p
    <3>1. call'[d].at \notin Active
      BY <1>1, <2>3 DEF Serial
    <3>2. ASSUME call'[d].at = "queued" PROVE \E i \in 1 .. Len(queue'[p]) : queue'[p][i] = d
      <4>1. PICK i \in 1 .. Len(q) : q[i] = d
        BY <2>3, <3>2 DEF Serial
      <4>2. PICK n \in 1 .. Len(q) - 1 : n + 1 = i
        BY <1>1, <2>3, <4>1
      <4>3. n \in 1 .. Len(queue'[p]) /\ queue'[p][n] = d
        BY <1>1, <1>3, <4>1, <4>2
      <4> QED
        BY <4>3
    <3> QED
      BY <2>3, <3>1, <3>2 DEF Serial
  <2> QED
    BY <2>1, <2>2, <2>3
<1> QED
  BY <1>5, <1>6 DEF Serial

(* The head goes on, or somebody who does not wait.                         *)
LEMMA StaySerial ==
    ASSUME RateLimitsAssumption, TypeOK, Serial, NEW c \in Callers, queue' = queue,
           \/ /\ queue[Home(c)] # <<>> /\ Head(queue[Home(c)]) = c
              /\ call'[c].at \in Active
           \/ call[c].at \notin InQueue /\ call'[c].at \notin InQueue,
           \A d \in Callers : d # c => call'[d].at = call[d].at /\ reply'[d] = reply[d],
           reply'[c].kind # "none" => call'[c].at = "sending",
           reply'[c].kind = "none" => reply'[c] = NoReply
    PROVE  Serial'
<1>1. ASSUME NEW o \in Processes, NEW i \in 1 .. Len(queue[o])
      PROVE  call'[queue[o][i]].at \in IF i = 1 THEN {"queued"} \cup Active ELSE {"queued"}
  <2>1. queue[o] \in Seq(Callers) /\ queue[o][i] \in Callers /\ Home(queue[o][i]) = o
    BY <1>1 DEF TypeOK, Serial
  <2>2. CASE queue[o][i] # c
    BY <1>1, <2>1, <2>2 DEF Serial
  <2>3. CASE queue[o][i] = c
    <3>1. call[c].at \in InQueue /\ o = Home(c)
      BY <1>1, <2>1, <2>3 DEF Serial, InQueue
    <3>2. queue[o][1] = c /\ 1 \in 1 .. Len(queue[o]) /\ call'[c].at \in Active
      BY <2>1, <3>1
    <3>3. i = 1
      BY <1>1, <2>1, <2>3, <3>2 DEF Serial
    <3> QED
      BY <2>3, <3>2, <3>3
  <2> QED
    BY <2>2, <2>3
<1>2. ASSUME NEW d \in Callers, d # c
      PROVE  /\ call'[d].at = "queued" =>
                   \E i \in 1 .. Len(queue[Home(d)]) : queue[Home(d)][i] = d
             /\ call'[d].at \in Active => queue[Home(d)] # <<>> /\ Head(queue[Home(d)]) = d
             /\ reply'[d].kind # "none" => call'[d].at = "sending"
             /\ reply'[d].kind = "none" => reply'[d] = NoReply
  BY <1>2 DEF Serial
<1>3. call'[c].at # "queued" /\ (call'[c].at \in Active => queue[Home(c)] # <<>> /\ Head(queue[Home(c)]) = c)
  BY DEF InQueue, Active
<1> QED
  BY <1>1, <1>2, <1>3 DEF Serial

LEMMA StepSerial ==
    ASSUME RateLimitsAssumption, TypeOK, TypeOK', Serial, Next
    PROVE  Serial'
<1> USE DEF Active, InQueue
<1>c. ASSUME NEW c \in Callers, Joins(c)
      PROVE  /\ queue' = [queue EXCEPT ![Home(c)] = Append(@, c)]
             /\ call'[c].at = "queued" /\ \A d \in Callers : d # c => call'[d] = call[d]
  BY <1>c DEF Joins, TypeOK, NoCall
<1>g. ASSUME NEW c \in Callers, NEW b, GiveUp(c, b)
      PROVE  Leaves(c) /\ call'[c].at = "idle" /\ \A d \in Callers : d # c => call'[d] = call[d]
  BY <1>g DEF GiveUp, TypeOK, NoCall
<1>h. ASSUME NEW c \in Callers, call[c].at \in Active
      PROVE  queue[Home(c)] # <<>> /\ Head(queue[Home(c)]) = c
  BY <1>h DEF Serial
<1>r. \A c \in Callers : /\ reply[c].kind # "none" => call[c].at = "sending"
                         /\ reply[c].kind = "none" => reply[c] = NoReply
  BY DEF Serial
<1>1. ASSUME NEW c \in Callers, AskTool(c) \/ EarlyEnds(c) \/ AskMove(c) \/ AskPoll(c) PROVE Serial'
  <2>1. call[c].at \notin InQueue /\ reply' = reply
    BY <1>1 DEF AskTool, EarlyEnds, AskMove, AskPoll
  <2>2. CASE Joins(c)
    BY <1>c, <2>1, <2>2, JoinSerial
  <2>3. CASE UNCHANGED <<call, queue>>
    BY <2>1, <2>3 DEF Serial
  <2>4. CASE call' = [call EXCEPT ![c] = [NoCall EXCEPT !.at = "early", !.until = told.reset]]
             /\ UNCHANGED queue
    <3>1. call'[c].at = "early" /\ \A d \in Callers : d # c => call'[d] = call[d]
      BY <2>4 DEF TypeOK, NoCall
    <3> QED
      BY <1>r, <2>1, <2>4, <3>1, StaySerial
  <2> QED
    BY <1>1, <2>2, <2>3, <2>4 DEF AskTool, EarlyEnds, AskMove, AskPoll
<1>2. ASSUME NEW c \in Callers, Guard(c) PROVE Serial'
  <2>1. queue[Home(c)] # <<>> /\ Head(queue[Home(c)]) = c /\ reply' = reply /\ reply[c].kind = "none"
    BY <1>2 DEF Guard, Turn, Serial
  <2>2. CASE At(c, "sending") /\ UNCHANGED <<queue, others>>
    <3>1. call'[c].at = "sending" /\ \A d \in Callers : d # c => call'[d] = call[d]
      BY <2>2 DEF At, TypeOK, Calls
    <3> QED
      BY <1>r, <2>1, <2>2, <3>1, StaySerial
  <2>3. CASE UNCHANGED <<queue, others>>
             /\ call' = [call EXCEPT ![c].at = "asleep", ![c].until = known[Home(c)].reset]
    <3>1. call'[c].at = "asleep" /\ \A d \in Callers : d # c => call'[d] = call[d]
      BY <2>3 DEF TypeOK, Calls
    <3> QED
      BY <1>r, <2>1, <2>3, <3>1, StaySerial
  <2>4. CASE GiveUp(c, known[Home(c)])
    BY <1>g, <1>r, <2>1, <2>4, LeaveSerial
  <2> QED
    BY <1>2, <2>2, <2>3, <2>4 DEF Guard
<1>3. ASSUME NEW c \in Callers, Wake(c) \/ Rest(c) PROVE Serial'
  <2>1. call[c].at \in Active /\ UNCHANGED <<queue, reply>> /\ At(c, "sending")
    BY <1>3 DEF Wake, Rest
  <2>2. call'[c].at = "sending" /\ \A d \in Callers : d # c => call'[d] = call[d]
    BY <2>1 DEF At, TypeOK, Calls
  <2> QED
    BY <1>h, <1>r, <2>1, <2>2, StaySerial
<1>4. ASSUME NEW c \in Callers, TryAgain(c) PROVE Serial'
  <2>1. call'[c].at = "queued" /\ \A d \in Callers : d # c => call'[d] = call[d]
    BY <1>4 DEF TryAgain, TypeOK, Calls
  <2>2. call[c].at \notin InQueue /\ reply' = reply
    BY <1>4 DEF TryAgain
  <2> QED
    BY <1>4, <2>1, <2>2, JoinSerial DEF TryAgain
<1>5. ASSUME NEW c \in Callers, Serve(c) PROVE Serial'
  <2>1. PICK kind \in {"ok", "limited", "error", "lost"}, wait \in Nat, cost \in {0, 1}, b \in Budgets :
           Answers(c, kind, wait, cost, b)
    BY <1>5, ServeAnswers
  <2>2. UNCHANGED <<queue, call>> /\ call[c].at = "sending"
    BY <1>5, <2>1, ServeAnswers DEF Answers
  <2>3. reply'[c].kind = kind /\ \A d \in Callers : d # c => reply'[d] = reply[d]
    BY <2>1 DEF Answers, TypeOK
  <2> QED
    BY <1>h, <2>2, <2>3, StaySerial
<1>6. ASSUME NEW c \in Callers, Receive(c) PROVE Serial'
  <2>1. call[c].at = "sending" /\ queue[Home(c)] # <<>> /\ Head(queue[Home(c)]) = c
    BY <1>6, <1>h DEF Receive
  <2>2. reply'[c] = NoReply /\ \A d \in Callers : d # c => reply'[d] = reply[d]
    BY <1>6 DEF Receive, TypeOK
  <2>3. ASSUME Leaves(c), call'[c].at \notin InQueue,
               \A d \in Callers : d # c => call'[d] = call[d]
        PROVE  Serial'
    BY <2>1, <2>2, <2>3, LeaveSerial
  <2>4. ASSUME NEW b, GiveUp(c, b) PROVE Serial'
    BY <1>g, <2>3, <2>4
  <2>5. CASE Limited(c)
    <3>1. CASE call' = [call EXCEPT ![c].at = "resting", ![c].until = now + Delay(c, reply[c]),
                                    ![c].try = @ + 1]
               /\ UNCHANGED queue
      <4>1. call'[c].at = "resting" /\ \A d \in Callers : d # c => call'[d] = call[d]
        BY <3>1 DEF TypeOK, Calls
      <4>2. reply'[c].kind = "none"
        BY <2>2 DEF NoReply
      <4>3. call'[c].at \in Active
        BY <4>1
      <4> QED
        BY <2>1, <2>2, <3>1, <4>1, <4>2, <4>3, StaySerial
    <3> QED
      BY <2>4, <2>5, <3>1 DEF Limited
  <2>6. CASE Done(c)
    <3>1. Leaves(c) /\ call'[c].at = "idle" /\ \A d \in Callers : d # c => call'[d] = call[d]
      BY <2>6 DEF Done, TypeOK, NoCall
    <3> QED
      BY <2>3, <3>1
  <2>7. CASE Failed(c)
    <3>1. CASE Leaves(c) /\ call' = [call EXCEPT ![c] = [NoCall EXCEPT
                   !.at = "pausing", !.until = now + Pause(c), !.again = call[c].again + 1]]
      <4>1. call'[c].at = "pausing" /\ \A d \in Callers : d # c => call'[d] = call[d]
        BY <3>1 DEF TypeOK, NoCall
      <4> QED
        BY <2>3, <3>1, <4>1
    <3> QED
      BY <2>4, <2>7, <3>1 DEF Failed
  <2> QED
    BY <1>6, <2>5, <2>6, <2>7 DEF Receive
<1>7. CASE PollIsComplete \/ Tick
  BY <1>7 DEF PollIsComplete, Tick, Serial
<1> QED
  BY <1>1, <1>2, <1>3, <1>4, <1>5, <1>6, <1>7 DEF Next

-----------------------------------------------------------------------------
(* What is remembered.                                                      *)

LEMMA InitRemembered == ASSUME RateLimitsAssumption, Init PROVE Remembered
  BY Constants DEF Init, Remembered, Heard, NoReply, NoCall

(* One caller of a process is at the token at a time.                       *)
LEMMA OneAtTheToken ==
    ASSUME Serial, NEW c \in Callers, NEW d \in Callers, Home(c) = Home(d),
           call[c].at \in Active, call[d].at \in Active
    PROVE  c = d
  BY DEF Serial

(* What the guard lets pass, and the wait it asks for.                      *)
LEMMA GuardKnows ==
    ASSUME RateLimitsAssumption, NEW b \in Budgets, now \in Nat
    PROVE  /\ Passes(b) => Spendable(b)
           /\ Sleeps(b) => b # None
  BY Constants DEF Passes, Refuses, Sleeps, Low, Wait, Spendable, Budgets, None

LEMMA StepRemembered ==
    ASSUME RateLimitsAssumption, TypeOK, TypeOK', Serial, Remembered, Next
    PROVE  Remembered'
<1> USE DEF Active
<1>n. /\ \A c \in Callers : Home(c) \in Processes
      /\ \A b \in Budgets : b.left \in Nat /\ b.reset \in Int
  BY Constants DEF Budgets
<1>h. ASSUME NEW c \in Callers, Heard(c) PROVE call[c].at = "sending"
  BY <1>h DEF Heard, Serial
<1>t. ASSUME NEW p \in Processes PROVE last[p] \in Budgets /\ known[p] \in Budgets /\ now \in Nat
  BY DEF TypeOK
(* A step of one caller that leaves what is known alone.                    *)
<1>k. ASSUME UNCHANGED <<known, last, reply, now>>, NEW c \in Callers,
             \A d \in Callers : d # c => call'[d] = call[d],
             call'[c].at \in {"idle", "early", "queued", "pausing"}
      PROVE  Remembered'
  BY <1>k DEF Remembered, Heard, Spendable
<1>1. ASSUME NEW c \in Callers, AskTool(c) \/ EarlyEnds(c) \/ AskMove(c) \/ AskPoll(c) \/ TryAgain(c)
      PROVE  Remembered'
  <2>1. UNCHANGED <<known, last, reply, now>>
    BY <1>1 DEF AskTool, EarlyEnds, AskMove, AskPoll, TryAgain
  <2>2. CASE call' = call
    BY <2>1, <2>2 DEF Remembered, Heard, Spendable
  <2>3. CASE Joins(c)
    <3>1. call'[c].at = "queued" /\ \A d \in Callers : d # c => call'[d] = call[d]
      BY <2>3 DEF Joins, TypeOK, NoCall
    <3> QED
      BY <1>k, <2>1, <3>1
  <2>4. CASE call' = [call EXCEPT ![c] = [NoCall EXCEPT !.at = "early", !.until = told.reset]]
    <3>1. call'[c].at = "early" /\ \A d \in Callers : d # c => call'[d] = call[d]
      BY <2>4 DEF TypeOK, NoCall
    <3> QED
      BY <1>k, <2>1, <3>1
  <2>5. CASE call' = [call EXCEPT ![c].at = "queued"]
    <3>1. call'[c].at = "queued" /\ \A d \in Callers : d # c => call'[d] = call[d]
      BY <2>5 DEF TypeOK, Calls
    <3> QED
      BY <1>k, <2>1, <3>1
  <2> QED
    BY <1>1, <2>2, <2>3, <2>4, <2>5 DEF AskTool, EarlyEnds, AskMove, AskPoll, TryAgain
<1>2. ASSUME NEW c \in Callers, Guard(c) PROVE Remembered'
  <2> DEFINE p == Home(c)  b == known[p]
  <2>1. UNCHANGED <<known, last, reply, now>> /\ p \in Processes /\ b \in Budgets
        /\ queue[p] # <<>> /\ Head(queue[p]) = c /\ call[c].at = "queued"
    BY <1>2, <1>n, <1>t DEF Guard, Turn, Serial
  <2>2. \A d \in Callers : Home(d) = p => ~Heard(d) /\ (d # c => call[d].at \notin Active)
    BY <1>h, <2>1 DEF Serial
  <2>3. b = last[p] \/ (b = None /\ Spendable(last[p]))
    BY <2>1, <2>2 DEF Remembered
  <2>4. CASE Passes(b) /\ At(c, "sending")
    <3>1. Spendable(last[p])
      BY <1>t, <2>1, <2>3, <2>4, GuardKnows
    <3>2. call'[c].at = "sending" /\ \A d \in Callers : d # c => call'[d] = call[d]
      BY <2>4 DEF At, TypeOK, Calls
    <3> QED
      BY <2>1, <2>2, <3>1, <3>2 DEF Remembered, Heard, Spendable
  <2>5. CASE Sleeps(b) /\ call' = [call EXCEPT ![c].at = "asleep", ![c].until = b.reset]
    <3>1. b = last[p]
      BY <1>t, <2>1, <2>3, <2>5, GuardKnows
    <3>2. call'[c].at = "asleep" /\ call'[c].until = b.reset
          /\ \A d \in Callers : d # c => call'[d] = call[d]
      BY <2>5 DEF TypeOK, Calls
    <3> QED
      BY <2>1, <2>2, <3>1, <3>2 DEF Remembered, Heard, Spendable
  <2>6. CASE GiveUp(c, b)
    <3>1. call'[c].at = "idle" /\ \A d \in Callers : d # c => call'[d] = call[d]
      BY <2>6 DEF GiveUp, TypeOK, NoCall
    <3> QED
      BY <1>k, <2>1, <3>1
  <2> QED
    BY <1>2, <2>4, <2>5, <2>6 DEF Guard
<1>3. ASSUME NEW c \in Callers, Wake(c) PROVE Remembered'
  <2> DEFINE p == Home(c)
  <2>1. /\ call[c].at = "asleep" /\ UNCHANGED <<last, reply, now>> /\ now >= call[c].until
        /\ p \in Processes
    BY <1>3, <1>n DEF Wake
  <2>2. \A d \in Callers : Home(d) = p /\ d # c => ~Heard(d) /\ call[d].at \notin Active
    BY <1>h, <2>1, OneAtTheToken
  <2>3. known'[p] = None /\ \A o \in Processes : o # p => known'[o] = known[o]
    BY <1>3, <2>1 DEF Wake, TypeOK
  <2>4. call'[c].at = "sending" /\ \A d \in Callers : d # c => call'[d] = call[d]
    BY <1>3 DEF Wake, At, TypeOK, Calls
  <2>5. Spendable(last[p])
    BY <2>1 DEF Remembered, Spendable
  <2>6. \A d \in Callers : Home(d) # p => known'[Home(d)] = known[Home(d)]
    BY <1>n, <2>3
  <2>7. ~Heard(c)
    BY <1>h, <2>1
  <2> QED
    BY <2>1, <2>2, <2>3, <2>4, <2>5, <2>6, <2>7 DEF Remembered, Heard, Spendable
<1>4. ASSUME NEW c \in Callers, Rest(c) PROVE Remembered'
  <2>1. /\ call[c].at = "resting" /\ UNCHANGED <<last, reply, now, known>> /\ now >= call[c].until
    BY <1>4 DEF Rest
  <2>2. call'[c].at = "sending" /\ \A d \in Callers : d # c => call'[d] = call[d]
    BY <1>4 DEF Rest, At, TypeOK, Calls
  <2>3. Spendable(last[Home(c)])
    <3>1. last[Home(c)].reset \in Int /\ call[c].until \in Int /\ now \in Int
      BY <1>n, <1>t DEF TypeOK, Calls
    <3> QED
      BY <2>1, <3>1 DEF Remembered, Spendable
  <2> QED
    BY <2>1, <2>2, <2>3 DEF Remembered, Heard, Spendable
<1>5. ASSUME NEW c \in Callers, Serve(c) PROVE Remembered'
  <2> DEFINE p == Home(c)
  <2>1. PICK kind \in {"ok", "limited", "error", "lost"}, wait \in Nat, cost \in {0, 1}, b \in Budgets :
           Answers(c, kind, wait, cost, b)
    BY <1>5, ServeAnswers
  <2>2. call[c].at = "sending" /\ reply[c] = NoReply /\ UNCHANGED <<known, call, now>> /\ p \in Processes
    BY <1>5, <1>n, <2>1, ServeAnswers DEF Answers
  <2>3. reply'[c].kind = kind /\ reply'[c].budget = b /\ \A d \in Callers : d # c => reply'[d] = reply[d]
    BY <2>1 DEF Answers, TypeOK
  <2>4. \A d \in Callers : Home(d) = p /\ d # c => ~Heard(d) /\ call[d].at \notin Active
    BY <1>h, <2>2, OneAtTheToken
  <2>5. CASE kind = "lost"
    <3>1. last' = last
      BY <2>1, <2>5 DEF Answers
    <3> QED
      BY <2>2, <2>3, <2>4, <2>5, <3>1 DEF Remembered, Heard, Spendable, NoReply
  <2>6. CASE kind # "lost"
    <3>1. last'[p] = b /\ \A o \in Processes : o # p => last'[o] = last[o]
      BY <2>1, <2>2, <2>6 DEF Answers, TypeOK
    <3>2. \A d \in Callers : Home(d) # p => last'[Home(d)] = last[Home(d)]
      BY <1>n, <3>1
    <3>3. Heard(c)'
      BY <2>3, <2>6 DEF Heard
    <3>4. \A o \in Processes : o # p =>
             \/ \E d \in Callers : Home(d) = o /\ Heard(d)'
             \/ known'[o] = last'[o]
             \/ known'[o] = None /\ Spendable(last[o])'
      BY <2>2, <2>3, <3>1 DEF Remembered, Heard, Spendable, NoReply
    <3>5. ASSUME NEW d \in Callers
          PROVE  /\ Heard(d)' => reply'[d].budget = last'[Home(d)]
                 /\ call'[d].at = "sending" /\ reply'[d].kind = "none" => Spendable(last[Home(d)])'
                 /\ call'[d].at = "resting" =>
                       last'[Home(d)].left > 0 \/ call'[d].until >= last'[Home(d)].reset
                 /\ call'[d].at = "asleep" =>
                       known'[Home(d)] = last'[Home(d)] /\ call'[d].until = last'[Home(d)].reset
      <4>1. CASE d = c
        BY <2>2, <2>3, <3>1, <4>1 DEF Heard
      <4>2. CASE d # c /\ Home(d) = p
        BY <2>2, <2>3, <2>4, <4>2 DEF Heard
      <4>3. CASE d # c /\ Home(d) # p
        BY <2>2, <2>3, <3>2, <4>3 DEF Remembered, Heard, Spendable
      <4> QED
        BY <4>1, <4>2, <4>3
    <3> QED
      BY <3>3, <3>4, <3>5 DEF Remembered
  <2> QED
    BY <2>5, <2>6
<1>6. ASSUME NEW c \in Callers, Receive(c) PROVE Remembered'
  <2> DEFINE p == Home(c)
  <2>1. call[c].at = "sending" /\ UNCHANGED <<last, now>> /\ p \in Processes /\ reply[c].kind # "none"
    BY <1>6, <1>n DEF Receive, Serial
  <2>2. reply'[c] = NoReply /\ \A d \in Callers : d # c => reply'[d] = reply[d]
    BY <1>6 DEF Receive, TypeOK
  <2>3. \A d \in Callers : Home(d) = p /\ d # c => ~Heard(d) /\ call[d].at \notin Active
    BY <1>h, <2>1, OneAtTheToken
  <2>4. /\ \A o \in Processes : o # p => known'[o] = known[o]
        /\ Heard(c) => known'[p] = last[p]
        /\ ~Heard(c) => known'[p] = known[p]
    BY <1>6, <2>1 DEF Receive, TypeOK, Heard, Remembered
  <2>5. \A d \in Callers : d # c => call'[d] = call[d]
    BY <1>6 DEF Receive, Limited, Done, Failed, GiveUp, TypeOK
  <2>6. /\ call'[c].at \in {"idle", "resting", "pausing"}
        /\ call'[c].at = "resting" => last[p].left > 0 \/ call'[c].until >= last[p].reset
    <3>1. CASE Done(c) \/ Failed(c)
      <4>1. CASE call' = [call EXCEPT ![c] = NoCall]
        BY <4>1 DEF TypeOK, NoCall
      <4>2. CASE call' = [call EXCEPT ![c] = [NoCall EXCEPT
                   !.at = "pausing", !.until = now + Pause(c), !.again = call[c].again + 1]]
        BY <4>2 DEF TypeOK, NoCall
      <4> QED
        BY <3>1, <4>1, <4>2 DEF Done, Failed, GiveUp
    <3>2. CASE Limited(c)
      <4>1. CASE GiveUp(c, reply[c].budget)
        BY <4>1 DEF GiveUp, TypeOK, NoCall
      <4>2. CASE call' = [call EXCEPT ![c].at = "resting", ![c].until = now + Delay(c, reply[c]),
                                      ![c].try = @ + 1]
        <5>1. call'[c].at = "resting" /\ call'[c].until = now + Delay(c, reply[c])
          BY <4>2 DEF TypeOK, Calls
        <5>2. reply[c].budget = last[p]
          BY <3>2 DEF Limited, Heard, Remembered
        <5>3. last[p].left \in Nat
          BY <1>n, <1>t, <2>1
        <5> QED
          BY <5>1, <5>2, <5>3, DelayCovers
      <4> QED
        BY <3>2, <4>1, <4>2 DEF Limited
    <3> QED
      BY <1>6, <3>1, <3>2 DEF Receive
  <2>7. \A o \in Processes :
           \/ \E d \in Callers : Home(d) = o /\ Heard(d)'
           \/ known'[o] = last'[o]
           \/ known'[o] = None /\ Spendable(last[o])'
    <3> SUFFICES ASSUME NEW o \in Processes
                 PROVE  \/ \E d \in Callers : Home(d) = o /\ Heard(d)'
                        \/ known'[o] = last'[o]
                        \/ known'[o] = None /\ Spendable(last[o])'
      OBVIOUS
    <3>1. CASE o # p
      BY <2>1, <2>2, <2>4, <3>1 DEF Remembered, Heard, Spendable
    <3>2. CASE o = p
      BY <2>1, <2>3, <2>4, <3>2 DEF Remembered, Spendable
    <3> QED
      BY <3>1, <3>2
  <2>8. ASSUME NEW d \in Callers
        PROVE  /\ Heard(d)' => reply'[d].budget = last'[Home(d)]
               /\ call'[d].at = "sending" /\ reply'[d].kind = "none" => Spendable(last[Home(d)])'
               /\ call'[d].at = "resting" =>
                     last'[Home(d)].left > 0 \/ call'[d].until >= last'[Home(d)].reset
               /\ call'[d].at = "asleep" =>
                     known'[Home(d)] = last'[Home(d)] /\ call'[d].until = last'[Home(d)].reset
    <3>1. CASE d = c
      BY <2>1, <2>2, <2>6, <3>1 DEF Heard, NoReply
    <3>2. CASE d # c /\ Home(d) = p
      BY <2>1, <2>2, <2>3, <2>5, <3>2 DEF Heard
    <3>3. CASE d # c /\ Home(d) # p
      BY <1>n, <2>1, <2>2, <2>4, <2>5, <3>3 DEF Remembered, Heard, Spendable
    <3> QED
      BY <3>1, <3>2, <3>3
  <2> QED
    BY <2>7, <2>8 DEF Remembered
<1>7. CASE PollIsComplete
  BY <1>7 DEF PollIsComplete, Remembered, Heard, Spendable
<1>8. CASE Tick
  <2>1. UNCHANGED <<known, last, reply, call>> /\ now' = now + 1
    BY <1>8 DEF Tick
  <2>2. \A p \in Processes : Spendable(last[p]) => Spendable(last[p])'
    BY <1>n, <1>t, <2>1 DEF Spendable
  <2>3. \A c \in Callers : Spendable(last[Home(c)]) => Spendable(last[Home(c)])'
    BY <1>n, <2>2
  <2> QED
    BY <2>1, <2>2, <2>3 DEF Remembered, Heard
<1> QED
  BY <1>1, <1>2, <1>3, <1>4, <1>5, <1>6, <1>7, <1>8 DEF Next

-----------------------------------------------------------------------------
(* What a poll is charged for.                                              *)

LEMMA InitCharged == ASSUME RateLimitsAssumption, Init PROVE Charged
  BY Constants DEF Init, Charged, NoCycle, NoReply, NoCall

(* Nothing was charged, renewed, answered or counted.                       *)
LEMMA CostsStay ==
    ASSUME Charged, UNCHANGED <<left, spent, cycle, reply>>, NEW c \in Callers,
           \A d \in Callers : d # c => call'[d].at = call[d].at,
           c \in Polls => call[c].at # "idle" \/ call'[c].at = "idle",
           Polls \subseteq Callers
    PROVE  Charged'
  BY DEF Charged

(* A poll that is over has no request left.                                 *)
LEMMA PollOver ==
    ASSUME RateLimitsAssumption, TypeOK, cycle' = NoCycle,
           \A c \in Polls : call'[c].at = "idle" /\ reply'[c].kind # "ok"
    PROVE  Charged'
  BY Constants DEF Charged, NoCycle

LEMMA StepCharged ==
    ASSUME RateLimitsAssumption, TypeOK, TypeOK', Serial, Serial', Remembered, Charged, Next
    PROVE  Charged'
<1>n. /\ Polls \subseteq Callers /\ \A c \in Polls : Home(c) = Daemon
      /\ Daemon \in Processes /\ Limit \in Nat \ {0}
      /\ \A c \in Callers \ Polls : c \in Moves \cup Tools
  BY Constants DEF Processes, Callers
<1>t. /\ left \in 0 .. Limit /\ spent \in Nat /\ cycle.from \in Nat /\ cycle.cost \in Nat
      /\ cycle.used \in Int /\ \A c \in Callers : reply[c].budget.left \in 0 .. Limit
  BY DEF TypeOK, Cycles, Replies, Budgets
<1>r. \A c \in Callers : /\ reply[c].kind # "none" => call[c].at = "sending"
                         /\ reply'[c].kind # "none" => call'[c].at = "sending"
  BY DEF Serial
<1>p. \A c, d \in Polls : call[c].at # "idle" /\ call[d].at # "idle" => c = d
  BY DEF Charged
(* A poll's request that is given up ends the poll.                         *)
<1>g. ASSUME NEW c \in Callers, NEW b, GiveUp(c, b), call[c].at # "idle",
             UNCHANGED <<left, spent>>, \A d \in Callers : d # c => reply'[d] = reply[d]
      PROVE  c \in Polls => Charged'
  <2> HAVE c \in Polls
  <2>1. call'[c].at = "idle" /\ \A d \in Callers : d # c => call'[d] = call[d]
    BY <1>g DEF GiveUp, TypeOK, NoCall
  <2>2. cycle' = NoCycle
    BY <1>g DEF GiveUp, PollEnds
  <2>3. \A d \in Polls : call'[d].at = "idle"
    BY <1>g, <1>n, <1>p, <2>1
  <2> QED
    BY <1>n, <1>r, <2>2, <2>3, PollOver
<1>1. ASSUME NEW c \in Callers, AskTool(c) \/ EarlyEnds(c) \/ AskMove(c) \/ TryAgain(c) \/ Wake(c) \/ Rest(c)
      PROVE  Charged'
  <2>1. UNCHANGED <<left, spent, cycle, reply>>
    BY <1>1 DEF AskTool, EarlyEnds, AskMove, TryAgain, Wake, Rest, provider, others
  <2>2. \A d \in Callers : d # c => call'[d] = call[d]
    BY <1>1 DEF AskTool, EarlyEnds, AskMove, TryAgain, Wake, Rest, Joins, At, TypeOK
  <2>3. c \in Polls => call[c].at # "idle"
    BY <1>1 DEF AskTool, EarlyEnds, AskMove, TryAgain, Wake, Rest, RateLimitsAssumption
  <2> QED
    BY <1>n, <2>1, <2>2, <2>3, CostsStay
<1>2. ASSUME NEW c \in Callers, AskPoll(c) PROVE Charged'
  <2>1. c \in Polls /\ UNCHANGED <<left, spent, reply>> /\ \A d \in Polls : call[d].at = "idle"
    BY <1>2 DEF AskPoll, provider
  <2>2. \A d \in Polls : d # c => call'[d].at = "idle"
    BY <1>2, <1>n, <2>1 DEF AskPoll, Joins, TypeOK
  <2>3. \A d \in Polls : reply[d].kind # "ok"
    BY <1>n, <1>r, <2>1
  <2>4. cycle'.open /\ cycle'.used \in {-1} \cup 0 .. Limit
        /\ cycle'.from + cycle'.cost <= spent
        /\ (cycle'.used # -1 => cycle'.from + cycle'.cost + (Limit - left) - cycle'.used <= spent)
    <3>1. CASE cycle.open
      <4>1. cycle' = [cycle EXCEPT !.asked = @ + 1]
        BY <1>2, <3>1 DEF AskPoll
      <4>2. cycle'.open = cycle.open /\ cycle'.used = cycle.used /\ cycle'.from = cycle.from
            /\ cycle'.cost = cycle.cost
        BY <4>1 DEF TypeOK, Cycles
      <4> QED
        BY <3>1, <4>2 DEF Charged
    <3>2. CASE ~cycle.open
      <4>1. cycle' = [[NoCycle EXCEPT !.open = TRUE, !.from = spent] EXCEPT !.asked = @ + 1]
        BY <1>2, <3>2 DEF AskPoll
      <4>2. cycle'.open /\ cycle'.used = -1 /\ cycle'.from = spent /\ cycle'.cost = 0
        BY <4>1 DEF NoCycle
      <4> QED
        BY <1>t, <4>2
    <3> QED
      BY <3>1, <3>2
  <2> QED
    BY <2>1, <2>2, <2>3, <2>4 DEF Charged
<1>3. ASSUME NEW c \in Callers, Guard(c) PROVE Charged'
  <2>1. UNCHANGED <<left, spent, reply>> /\ call[c].at = "queued"
    BY <1>3 DEF Guard, Turn, provider
  <2>2. \A d \in Callers : d # c => call'[d] = call[d]
    BY <1>3 DEF Guard, At, GiveUp, TypeOK
  <2>3. CASE UNCHANGED others
    BY <1>n, <2>1, <2>2, <2>3, CostsStay DEF others
  <2>4. CASE GiveUp(c, known[Home(c)]) /\ c \in Polls
    BY <1>g, <2>1, <2>4
  <2> QED
    BY <1>3, <2>3, <2>4 DEF Guard, GiveUp
<1>4. ASSUME NEW c \in Callers, Serve(c) PROVE Charged'
  <2>1. PICK kind \in {"ok", "limited", "error", "lost"}, wait \in Nat, cost \in {0, 1}, b \in Budgets :
           /\ Answers(c, kind, wait, cost, b) /\ left - cost \in 0 .. Limit
           /\ kind = "ok" => b.left = left - cost
    BY <1>4, ServeAnswers
  <2>2. UNCHANGED <<call, cycle>> /\ left' = left - cost /\ spent' = spent + cost /\ call[c].at = "sending"
    BY <1>4, <2>1, ServeAnswers DEF Answers, others
  <2>3. /\ reply'[c].kind = kind /\ reply'[c].budget = b
        /\ \A d \in Callers : d # c => reply'[d] = reply[d]
    BY <2>1 DEF Answers, TypeOK
  <2>4. ASSUME NEW d \in Polls, reply'[d].kind = "ok"
        PROVE  /\ cycle.used # -1 /\ Used(reply'[d].budget) >= cycle.used =>
                    cycle.from + cycle.cost + Used(reply'[d].budget) - cycle.used <= spent'
               /\ cycle.from + cycle.cost + (Limit - left') - Used(reply'[d].budget) <= spent'
    <3>0. cycle.open
      BY <1>n, <1>r, <2>2, <2>4 DEF Charged
    <3>1. CASE d = c
      BY <1>n, <1>t, <2>1, <2>2, <2>3, <2>4, <3>0, <3>1 DEF Charged, Used
    <3>2. CASE d # c
      <4>1. reply'[d] = reply[d] /\ reply[d].budget.left \in 0 .. Limit
        BY <1>n, <1>t, <2>3, <3>2
      <4>2. /\ cycle.used # -1 /\ Used(reply[d].budget) >= cycle.used =>
                 cycle.from + cycle.cost + Used(reply[d].budget) - cycle.used <= spent
            /\ cycle.from + cycle.cost + (Limit - left) - Used(reply[d].budget) <= spent
        BY <2>4, <4>1 DEF Charged
      <4> QED
        BY <1>n, <1>t, <2>1, <2>2, <4>1, <4>2 DEF Used
    <3> QED
      BY <3>1, <3>2
  <2>5. cycle.open => /\ cycle.from + cycle.cost <= spent'
                      /\ cycle.used # -1 =>
                            cycle.from + cycle.cost + (Limit - left') - cycle.used <= spent'
    BY <1>n, <1>t, <2>1, <2>2 DEF Charged
  <2> QED
    BY <2>2, <2>4, <2>5 DEF Charged
<1>5. ASSUME NEW c \in Callers, Receive(c) PROVE Charged'
  <2>1. UNCHANGED <<left, spent>> /\ call[c].at = "sending" /\ reply'[c] = NoReply
        /\ \A d \in Callers : d # c => reply'[d] = reply[d]
    BY <1>5 DEF Receive, provider, TypeOK
  <2>2. \A d \in Callers : d # c => call'[d] = call[d]
    BY <1>5 DEF Receive, Limited, Done, Failed, GiveUp, TypeOK
  <2>3. ASSUME UNCHANGED cycle PROVE Charged'
    <3>1. \A d \in Polls : reply'[d].kind = "ok" => d # c /\ reply'[d] = reply[d]
      BY <1>n, <2>1 DEF NoReply
    <3> QED
      BY <1>n, <2>1, <2>2, <2>3, <3>1 DEF Charged
  <2>4. ASSUME NEW b, GiveUp(c, b) PROVE Charged'
    <3>1. CASE c \in Polls
      BY <1>g, <2>1, <2>4, <3>1
    <3>2. CASE c \notin Polls
      BY <2>3, <2>4, <3>2 DEF GiveUp, others
    <3> QED
      BY <3>1, <3>2
  <2>5. CASE Done(c) /\ c \in Polls
    <3> DEFINE b == reply[c].budget
    <3>1. cycle' = Added(b) /\ reply[c].kind = "ok" /\ b \in Budgets
      BY <2>5 DEF Done, TypeOK, Replies
    <3>2. cycle.open /\ cycle.used \in {-1} \cup 0 .. Limit
      BY <2>1, <2>5 DEF Charged
    <3>3. /\ cycle'.used = Used(b) /\ cycle'.used \in 0 .. Limit /\ cycle'.open /\ cycle'.from = cycle.from
          /\ cycle.used # -1 /\ Used(b) >= cycle.used => cycle'.cost = cycle.cost + Used(b) - cycle.used
          /\ ~(cycle.used # -1 /\ Used(b) >= cycle.used) => cycle'.cost = cycle.cost
      BY <3>1, <3>2, AddedTyped DEF Used
    <3>4. /\ cycle.used # -1 /\ Used(b) >= cycle.used =>
               cycle.from + cycle.cost + Used(b) - cycle.used <= spent
          /\ cycle.from + cycle.cost + (Limit - left) - Used(b) <= spent
          /\ cycle.from + cycle.cost <= spent
          /\ cycle.used # -1 => cycle.from + cycle.cost + (Limit - left) - cycle.used <= spent
      BY <2>5, <3>1, <3>2 DEF Charged
    <3>5. /\ cycle'.from + cycle'.cost <= spent
          /\ cycle'.from + cycle'.cost + (Limit - left) - cycle'.used <= spent
      BY <1>t, <1>n, <3>3, <3>4
    <3>6. \A d \in Polls : d # c => call'[d].at = "idle" /\ reply'[d].kind # "ok"
      BY <1>n, <1>p, <1>r, <2>1, <2>2, <2>5
    <3>7. reply'[c].kind # "ok"
      BY <2>1 DEF NoReply
    <3> QED
      BY <2>1, <3>3, <3>5, <3>6, <3>7 DEF Charged
  <2>6. CASE Limited(c) \/ Failed(c) \/ (Done(c) /\ c \notin Polls)
    BY <2>3, <2>4, <2>6 DEF Limited, Failed, Done, others
  <2> QED
    BY <1>5, <2>5, <2>6 DEF Receive
<1>6. CASE PollIsComplete
  <2>1. cycle' = NoCycle /\ UNCHANGED <<call, reply>> /\ \A c \in Polls : call[c].at = "idle"
    BY <1>6 DEF PollIsComplete, PollEnds
  <2> QED
    BY <1>n, <1>r, <2>1, PollOver
<1>7. CASE Tick
  <2>1. UNCHANGED <<call, cycle, reply, spent>> /\ left' \in {left, Limit}
    BY <1>7 DEF Tick, others
  <2>2. cycle.open => /\ cycle.used \in {-1} \cup 0 .. Limit
                      /\ cycle.used # -1 =>
                            cycle.from + cycle.cost + (Limit - left') - cycle.used <= spent
    BY <1>n, <1>t, <2>1 DEF Charged
  <2>3. ASSUME NEW c \in Polls, reply[c].kind = "ok"
        PROVE  cycle.from + cycle.cost + (Limit - left') - Used(reply[c].budget) <= spent
    <3>1. cycle.open /\ reply[c].budget.left \in 0 .. Limit
      BY <1>n, <1>r, <1>t, <2>3 DEF Charged
    <3>2. cycle.from + cycle.cost <= spent
          /\ cycle.from + cycle.cost + (Limit - left) - Used(reply[c].budget) <= spent
      BY <2>3, <3>1 DEF Charged
    <3> QED
      BY <1>n, <1>t, <2>1, <3>1, <3>2 DEF Used
  <2> QED
    BY <2>1, <2>2, <2>3 DEF Charged
<1> QED
  BY <1>1, <1>2, <1>3, <1>4, <1>5, <1>6, <1>7 DEF Next

-----------------------------------------------------------------------------
LEMMA InvariantHolds == ASSUME RateLimitsAssumption PROVE Spec => []IInv
<1>1. Init => IInv
  BY InitTyped, InitSerial, InitRemembered, InitCharged DEF IInv
<1>2. IInv /\ [Next]_limitVars => IInv'
  <2> SUFFICES ASSUME IInv, [Next]_limitVars PROVE IInv'
    OBVIOUS
  <2>1. CASE Next
    BY <2>1, StepTyped, StepSerial, StepRemembered, StepCharged DEF IInv
  <2>2. CASE UNCHANGED limitVars
    BY <2>2 DEF limitVars, IInv, TypeOK, Serial, Remembered, Charged, Heard, Spendable
  <2> QED
    BY <2>1, <2>2
<1> QED
  BY <1>1, <1>2, PTL DEF Spec

(* For any processes' callers, any budget, thresholds, waits and attempts,  *)
(* and any faults: a process that was told that the budget is gone sends    *)
(* nothing before it is renewed, what it remembers is the provider's last   *)
(* word to it or nothing, and a poll is never charged for more than the     *)
(* token was while it ran (GitHubGraphQLRateLimitPolicy, the adapter's      *)
(* inferGraphQLHeaderCost).                                                 *)
THEOREM BudgetIsAlwaysKept == ASSUME RateLimitsAssumption PROVE Spec => []BudgetIsKept
<1>1. IInv => NothingIsSentInVain
  BY DEF IInv, NothingIsSentInVain, Sending, Remembered, Spendable, NoReply
<1>2. IInv => TheLastWordCounts
  BY DEF IInv, TheLastWordCounts, Remembered, Heard, NoReply
<1>3. IInv => CostsAreReal
  BY DEF IInv, CostsAreReal, Charged, TypeOK, Cycles
<1>4. IInv => BudgetIsKept
  BY <1>1, <1>2, <1>3 DEF BudgetIsKept
<1> QED
  BY <1>4, InvariantHolds, PTL
=============================================================================
