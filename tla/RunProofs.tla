------------------------------ MODULE RunProofs ------------------------------
(* What holds of a run's worker and of what is kept of the run, for any     *)
(* number of turns, saves, events and losses.                               *)
EXTENDS MCRun, NaturalsInduction, WellFoundedInduction, FiniteSetTheorems, TLAPS

-----------------------------------------------------------------------------
(* The worker.  Only the gates and the leases count: a gate that lets a     *)
(* turn pass unanswered has counted a miss more, and a turn is begun with a *)
(* lease that was current when it was asked for.                            *)

Over == {"push", "flush", "delay", "abort"}

(* Turns begun without an answer are misses, until a gate ends the session. *)
Blind ==
    /\ misses \in Nat /\ hist.blind \in Nat /\ hist.blind < MaxMisses
    /\ pc \notin Over => hist.blind <= misses

(* No lease is granted to a run that was superseded; one may be on its way. *)
Stale ==
    /\ hist.stale \in {0, 1}
    /\ world.current \/ pc = "leased" => hist.stale = 0

HistTyped == hist \in [started : SUBSET Nat, blind : Nat, stale : Nat, pushed : {"no", "ok", "failed"}]
WorldTyped == world \in [current : BOOLEAN, actionable : BOOLEAN, supported : BOOLEAN]

Fenced == HistTyped /\ WorldTyped /\ turn \in Nat /\ Blind /\ Stale

LEMMA FencedInit == ASSUME Worker!SessionAssumption, Worker!Init PROVE Fenced
<1>1. hist = [started |-> {}, blind |-> 0, stale |-> 0, pushed |-> "no"] /\ turn = 0 /\ misses = 0
  BY DEF Worker!Init
<1>2. WorldTyped
  BY DEF Worker!Init, WorldTyped
<1>3. MaxMisses \in Nat \ {0}
  BY DEF Worker!SessionAssumption
<1> QED
  BY <1>1, <1>2, <1>3 DEF Fenced, HistTyped, Blind, Stale

(* The main flow goes where no turn is begun, or stays.                     *)
LEMMA FlowFenced ==
    ASSUME Fenced, hist.blind = hist'.blind, hist'.stale = hist.stale, HistTyped',
           UNCHANGED <<turn, misses, world>>,
           pc' = pc \/ (pc' # "leased" /\ (pc' \in Over \/ pc \notin Over))
    PROVE  Fenced'
  BY DEF Fenced, HistTyped, WorldTyped, Blind, Stale

(* Where the flow goes from a gate or an await.                             *)
LEMMA TopGoes == \A q : Worker!LoopTop(q) => pc' \in {"push", "lease", "gate"}
  BY DEF Worker!LoopTop, Worker!Finish

LEMMA ThrowGoes == \A e : Worker!Throw(e) => pc' = "push"
  BY DEF Worker!Throw, Worker!Catch, Worker!CatchAdapter

LEMMA GateFenced == ASSUME Worker!SessionAssumption, Fenced, Worker!BetweenTurns PROVE Fenced'
<1>1. PICK s \in Worker!Refresh :
         /\ misses' = Worker!MissesAfter(s)
         /\ CASE Worker!GateAction(s, "between-turn") = "complete" ->
                     Worker!Finish(p) /\ UNCHANGED <<caught, hist>>
               [] Worker!GateAction(s, "between-turn") = "fail-closed" ->
                     Worker!Throw("gate") /\ UNCHANGED hist
               [] OTHER -> pc' = "lease" /\ Worker!Heard(s) /\ UNCHANGED <<p, caught>>
  BY DEF Worker!BetweenTurns
<1>2. s \in {"unknown", "unsupported", "active", "non-actionable"}
  BY DEF Worker!Refresh
<1>3. /\ pc = "gate" /\ turn' = turn /\ world' = world
      /\ misses \in Nat /\ hist.blind \in Nat /\ hist.blind <= misses /\ MaxMisses \in Nat \ {0}
  BY DEF Worker!BetweenTurns, Fenced, Blind, Over, Worker!SessionAssumption
<1>4. misses' \in Nat /\ (s = "unknown" => misses' = misses + 1)
  BY <1>1, <1>2, <1>3 DEF Worker!MissesAfter
<1>5. CASE hist' = hist /\ pc' = "push"
  BY <1>3, <1>4, <1>5 DEF Fenced, HistTyped, WorldTyped, Blind, Stale, Over
<1>6. CASE /\ Worker!GateAction(s, "between-turn") \notin {"complete", "fail-closed"}
           /\ pc' = "lease" /\ Worker!Heard(s)
  <2>1. s = "unknown" => ~Worker!FailClosed(Worker!MissesAfter(s))
    BY <1>6 DEF Worker!GateAction
  <2>2. hist' = [hist EXCEPT !.blind = IF s = "unknown" THEN hist.blind + 1 ELSE 0]
    BY <1>6 DEF Worker!Heard
  <2>3. hist'.blind = (IF s = "unknown" THEN hist.blind + 1 ELSE 0) /\ hist'.stale = hist.stale
        /\ HistTyped'
    BY <1>3, <2>2 DEF Fenced, HistTyped
  <2>4. s = "unknown" => misses + 1 < MaxMisses
    BY <1>1, <1>3, <1>4, <2>1 DEF Worker!FailClosed
  <2> QED
    BY <1>3, <1>4, <1>6, <2>3, <2>4 DEF Fenced, WorldTyped, Blind, Stale, Over
<1> QED
  BY <1>1, <1>5, <1>6, ThrowGoes DEF Worker!Finish

LEMMA ConvergenceFenced ==
    ASSUME Worker!SessionAssumption, Fenced, Worker!ConfirmConvergence PROVE Fenced'
<1>1. PICK s \in Worker!Refresh :
         /\ misses' = Worker!MissesAfter(s)
         /\ LET action == Worker!GateAction(s, "convergence") IN
             CASE action = "complete" -> Worker!Finish(p) /\ UNCHANGED caught
               [] action = "fail-closed" -> Worker!Catch(p, "gate")
               [] action = "defer" -> Worker!LoopTop(p) /\ UNCHANGED caught
               [] action = "converge" -> Worker!Finish([p EXCEPT !.converged = TRUE]) /\ UNCHANGED caught
  BY DEF Worker!ConfirmConvergence
<1>2. s \in {"unknown", "unsupported", "active", "non-actionable"}
  BY DEF Worker!Refresh
<1>3. /\ pc = "confirm" /\ turn' = turn /\ world' = world /\ hist' = hist
      /\ misses \in Nat /\ hist.blind \in Nat /\ hist.blind <= misses
  BY DEF Worker!ConfirmConvergence, Fenced, Blind, Over
<1>4. misses' \in Nat /\ (s = "unknown" => misses' = misses + 1)
  BY <1>1, <1>2, <1>3 DEF Worker!MissesAfter
<1>5. pc' = "push" \/ (s = "unknown" /\ pc' \in {"push", "lease", "gate"})
  <2>1. CASE s = "unknown"
    <3>1. Worker!GateAction(s, "convergence") \in {"fail-closed", "defer"}
      BY <2>1 DEF Worker!GateAction
    <3> QED
      BY <1>1, <2>1, <3>1, TopGoes DEF Worker!Catch
  <2>2. CASE s # "unknown"
    <3>1. Worker!GateAction(s, "convergence") \in {"complete", "converge"}
      BY <1>2, <2>2 DEF Worker!GateAction
    <3> QED
      BY <1>1, <3>1 DEF Worker!Finish
  <2> QED
    BY <2>1, <2>2
<1> QED
  BY <1>3, <1>4, <1>5 DEF Fenced, HistTyped, WorldTyped, Blind, Stale, Over

(* A turn is begun with its lease.                                          *)
LEMMA TurnFenced == ASSUME Fenced, Worker!StartTurn \/ Worker!SpawnTurn PROVE Fenced'
<1>1. /\ pc = "leased" /\ pc' \in {"start", "spawn"} /\ turn' = turn + 1 /\ misses' = misses
      /\ world' = world /\ turn \in Nat /\ hist.stale = 0 /\ world.current \in BOOLEAN
  BY DEF Worker!StartTurn, Worker!SpawnTurn, Worker!Begin, Fenced, Stale, WorldTyped
<1>2. PICK S \in {hist.started, hist.started \union {turn + 1}} :
         hist' = [hist EXCEPT !.started = S, !.stale = IF world.current THEN 0 ELSE hist.stale + 1]
  BY DEF Worker!StartTurn, Worker!SpawnTurn, Worker!Begin, Fenced, HistTyped
<1>3. hist'.blind = hist.blind /\ hist'.stale \in {0, 1} /\ (world.current => hist'.stale = 0)
      /\ HistTyped'
  <2>1. HistTyped /\ S \in SUBSET Nat
    BY <1>1, <1>2 DEF Fenced, HistTyped
  <2>2. CASE world.current
    <3>1. hist' = [hist EXCEPT !.started = S, !.stale = 0]
      BY <1>2, <2>2
    <3> QED
      BY <2>1, <3>1 DEF HistTyped
  <2>3. CASE ~world.current
    <3>1. hist.stale + 1 = 1
      BY <1>1
    <3>2. hist' = [hist EXCEPT !.started = S, !.stale = 1]
      BY <1>2, <2>3, <3>1
    <3> QED
      BY <2>1, <2>3, <3>2 DEF HistTyped
  <2> QED
    BY <2>2, <2>3
<1> QED
  BY <1>1, <1>3 DEF Fenced, WorldTyped, Blind, Stale, Over

LEMMA OthersFenced ==
    ASSUME Fenced,
           \/ Worker!StartupFails \/ Worker!AbortExit
           \/ Worker!LaunchCodex \/ Worker!Initialized \/ Worker!ThreadStarted
           \/ Worker!RequestFails \/ Worker!ResponseTimeout \/ Worker!TurnStarted
           \/ Worker!SilenceTimeout \/ Worker!TurnOver
           \/ Worker!PrepareAdapter \/ Worker!AdapterTurnEnds
           \/ Worker!LeaseFails \/ Worker!Push \/ Worker!Flushed \/ Worker!Exit
           \/ Worker!Chunk \/ Worker!ChildExit \/ Worker!PipeError \/ Worker!AdapterEvent
           \/ Worker!Signal \/ Worker!SignalExit
    PROVE  Fenced'
<1>1. /\ turn' = turn /\ misses' = misses /\ world' = world
      /\ \/ hist' = hist
         \/ hist' = [hist EXCEPT !.started = hist.started \union {turn}]
         \/ \E x \in {"ok", "failed"} : hist' = [hist EXCEPT !.pushed = x]
  BY DEF Worker!StartupFails, Worker!AbortExit, Worker!LaunchCodex, Worker!Initialized,
         Worker!ThreadStarted, Worker!RequestFails, Worker!ResponseTimeout, Worker!TurnStarted,
         Worker!SilenceTimeout, Worker!TurnOver, Worker!PrepareAdapter, Worker!AdapterTurnEnds,
         Worker!LeaseFails, Worker!Push, Worker!Flushed, Worker!Exit, Worker!Chunk,
         Worker!ChildExit, Worker!PipeError, Worker!AdapterEvent, Worker!Signal,
         Worker!SignalExit, Worker!flow
<1>2. hist'.blind = hist.blind /\ hist'.stale = hist.stale /\ HistTyped'
  <2>0. HistTyped /\ turn \in Nat
    BY DEF Fenced
  <2>1. CASE hist' = hist
    BY <2>0, <2>1 DEF HistTyped
  <2>2. CASE hist' = [hist EXCEPT !.started = hist.started \union {turn}]
    BY <2>0, <2>2 DEF HistTyped
  <2>3. ASSUME NEW x \in {"ok", "failed"}, hist' = [hist EXCEPT !.pushed = x]
        PROVE  hist'.blind = hist.blind /\ hist'.stale = hist.stale /\ HistTyped'
    BY <2>0, <2>3 DEF HistTyped
  <2> QED
    BY <1>1, <2>1, <2>2, <2>3
<1>3. pc' = pc \/ (pc' # "leased" /\ (pc' \in Over \/ pc \notin Over))
  <2>1. CASE \/ Worker!AbortExit \/ Worker!Exit \/ Worker!Chunk \/ Worker!ChildExit
             \/ Worker!PipeError \/ Worker!AdapterEvent \/ Worker!Signal \/ Worker!SignalExit
    BY <2>1 DEF Worker!AbortExit, Worker!Exit, Worker!Chunk, Worker!ChildExit, Worker!PipeError,
                Worker!AdapterEvent, Worker!Signal, Worker!SignalExit, Worker!flow
  <2>2. CASE Worker!StartupFails \/ Worker!Push \/ Worker!Flushed \/ Worker!LaunchCodex
             \/ Worker!Initialized \/ Worker!TurnStarted
    BY <2>2 DEF Worker!StartupFails, Worker!Push, Worker!Flushed, Worker!LaunchCodex,
                Worker!Initialized, Worker!TurnStarted, Over
  <2>3. CASE Worker!RequestFails \/ Worker!ResponseTimeout \/ Worker!SilenceTimeout \/ Worker!LeaseFails
    BY <2>3, ThrowGoes DEF Worker!RequestFails, Worker!ResponseTimeout, Worker!SilenceTimeout,
                           Worker!LeaseFails, Worker!Catch, Over
  <2>4. CASE Worker!ThreadStarted
    BY <2>4, TopGoes DEF Worker!ThreadStarted, Over
  <2>5. CASE Worker!TurnOver
    <3>1. pc' \in {"push", "confirm", "lease", "gate"} /\ pc = "wait"
      BY <2>5, TopGoes DEF Worker!TurnOver, Worker!Finish
    <3> QED
      BY <3>1 DEF Over
  <2>6. CASE Worker!PrepareAdapter
    BY <2>6, TopGoes DEF Worker!PrepareAdapter, Worker!CatchAdapter, Over
  <2>7. CASE Worker!AdapterTurnEnds
    <3>1. pc' \in {"push", "lease", "gate"} /\ pc = "spawn"
      BY <2>7, TopGoes DEF Worker!AdapterTurnEnds, Worker!Finish, Worker!CatchAdapter
    <3> QED
      BY <3>1 DEF Over
  <2> QED
    BY <2>1, <2>2, <2>3, <2>4, <2>5, <2>6, <2>7
<1> QED
  BY <1>1, <1>2, <1>3, FlowFenced

LEMMA FencedNext == ASSUME Worker!SessionAssumption, Fenced, Worker!Next PROVE Fenced'
<1>1. ASSUME Worker!LeaseGranted PROVE Fenced'
  BY <1>1 DEF Worker!LeaseGranted, Fenced, HistTyped, WorldTyped, Blind, Stale, Over
<1>2. ASSUME Worker!Supersede \/ Worker!Retire PROVE Fenced'
  BY <1>2 DEF Worker!Supersede, Worker!Retire, Worker!flow, Fenced, HistTyped, WorldTyped, Blind, Stale
<1> QED
  BY <1>1, <1>2, GateFenced, ConvergenceFenced, TurnFenced, OthersFenced
  DEF Worker!Next, Worker!Main, Worker!Prompt, Worker!Untimed, Worker!Codex

(* Turns that nobody can vouch for are few, whatever agent, tracker and     *)
(* scheduler do: the misses of both gates (the refresh between turns and    *)
(* the confirmation of convergence, turn-lease.ts) are one count, and the   *)
(* lease of a superseded run is at most on its way.                         *)
THEOREM TurnsFenced == Spec => []TurnsAreFenced
<1>a. Worker!SessionAssumption
  BY RunAssumption
<1>1. Init => Fenced
  BY <1>a, FencedInit DEF Init
<1>2. Fenced /\ [Next]_vars => Fenced'
  <2> SUFFICES ASSUME Fenced, [Next]_vars PROVE Fenced'
    OBVIOUS
  <2>1. CASE Worker!Next
    BY <1>a, <2>1, FencedNext
  <2>2. CASE UNCHANGED workerVars
    BY <2>2 DEF workerVars, Fenced, HistTyped, WorldTyped, Blind, Stale
  <2> QED
    BY <2>1, <2>2 DEF Next, vars
<1>3. Fenced => TurnsAreFenced
  BY DEF Fenced, Blind, Stale, TurnsAreFenced, Worker!OneStaleTurn, Worker!BlindTurnsBounded
<1> QED
  BY <1>1, <1>2, <1>3, PTL DEF Spec

-----------------------------------------------------------------------------
(* The state file.  What is renamed over the name is synced, and what is    *)
(* acknowledged is in the part of the directory that is.                    *)

FileTyped ==
    /\ dir \in {"none", "made", "kept"}
    /\ stage \in [Saves -> File!Stages]
    /\ whole \in [Saves -> BOOLEAN] /\ firm \in [Saves -> BOOLEAN]
    /\ order \in Seq(Saves) /\ disk \in 0..Len(order)

InOrder(s) == \E i \in 1..Len(order) : order[i] = s

Renames ==
    /\ \A i \in 1..Len(order) :
          /\ firm[order[i]] /\ stage[order[i]] \in {"renamed", "saved", "failed"}
          /\ stage[order[i]] = "saved" => i <= disk
    /\ \A i, j \in 1..Len(order) : order[i] = order[j] => i = j
    /\ \A s \in Saves :
          /\ firm[s] => whole[s]
          /\ stage[s] = "written" => whole[s]
          /\ stage[s] = "synced" => firm[s]
          /\ stage[s] \in {"renamed", "saved"} => InOrder(s)

Place == IF dir = "kept" THEN "kept" ELSE "new"

Kept == FileTyped /\ Renames

(* The last acknowledged rename.                                            *)
Answered == {i \in DOMAIN order : stage[order[i]] = "saved"}

LEMMA Greatest ==
    ASSUME NEW S \in SUBSET Nat, NEW n \in Nat, S # {}, \A i \in S : i <= n
    PROVE  \E m \in S : \A i \in S : i <= m
<1> DEFINE T == {k \in Nat : n - k \in S}
<1>1. T \subseteq Nat /\ T # {}
  <2>1. PICK i \in S : TRUE
    OBVIOUS
  <2>2. n - i \in Nat /\ n - (n - i) = i
    BY <2>1
  <2> QED
    BY <2>1, <2>2
<1> HIDE DEF T
<1>2. PICK k \in T : \A j \in T : ~(<<j, k>> \in OpToRel(<, Nat))
  BY <1>1, NatLessThanWellFounded, WFMin
<1>3. k \in Nat /\ n - k \in S
  BY DEF T
<1>4. ASSUME NEW i \in S PROVE i <= n - k
  <2>1. n - i \in Nat /\ n - (n - i) = i
    BY <1>4
  <2>2. n - i \in T
    BY <2>1, <1>4 DEF T
  <2>3. ~(n - i < k)
    BY <1>2, <1>3, <2>1, <2>2 DEF OpToRel
  <2> QED
    BY <1>3, <2>1, <2>3
<1> QED
  BY <1>3, <1>4

LEMMA AcknowledgedIs ==
    ASSUME Kept
    PROVE  /\ File!Acknowledged \in {0} \union Answered /\ File!Acknowledged \in 0..disk
           /\ \A i \in Answered : i <= File!Acknowledged
<1> DEFINE S == {0} \union Answered
<1>1. Len(order) \in Nat /\ DOMAIN order = 1..Len(order) /\ disk \in 0..Len(order)
  BY DEF Kept, FileTyped
<1>2. S \subseteq Nat /\ \A i \in S : i <= disk
  BY <1>1 DEF Kept, Renames, Answered
<1>3. PICK m \in S : \A i \in S : i <= m
  <2>1. S # {} /\ disk \in Nat
    BY <1>1
  <2> HIDE DEF S
  <2> QED
    BY <1>2, <2>1, Greatest
<1>4. File!Acknowledged = CHOOSE x \in S : \A y \in S : x >= y
  BY DEF File!Acknowledged, File!Max, Answered
<1>5. m \in S /\ \A y \in S : m >= y
  BY <1>2, <1>3
<1> HIDE DEF S
<1>6. File!Acknowledged \in S /\ \A y \in S : File!Acknowledged >= y
  BY <1>4, <1>5
<1> QED
  BY <1>1, <1>2, <1>6 DEF S

(* There is one greatest.                                                   *)
LEMMA MaxOnly ==
    ASSUME NEW S \in SUBSET Nat, NEW m \in S, \A i \in S : i <= m
    PROVE  File!Max(S) = m
<1>1. File!Max(S) = CHOOSE x \in S : \A y \in S : x >= y
  BY DEF File!Max
<1>2. \A y \in S : m >= y
  OBVIOUS
<1>3. File!Max(S) \in S /\ \A y \in S : File!Max(S) >= y
  BY <1>1, <1>2
<1>4. File!Max(S) \in Nat /\ m \in Nat /\ File!Max(S) >= m /\ File!Max(S) <= m
  BY <1>3
<1> QED
  BY <1>4

LEMMA NextAcknowledged ==
    ASSUME FileTyped', NEW a \in ({0} \union Answered)', \A i \in Answered' : i <= a
    PROVE  File!Acknowledged' = a
<1> DEFINE S == ({0} \union Answered)'
<1>1. S \in SUBSET Nat /\ a \in Nat /\ a \in S
  BY DEF FileTyped, Answered
<1>2. \A i \in S : i <= a
  BY <1>1
<1>3. File!Acknowledged' = File!Max(S)
  BY DEF File!Acknowledged, Answered
<1> HIDE DEF S
<1> QED
  BY <1>1, <1>2, <1>3, MaxOnly

(* A step that renames nothing and acknowledges nothing.                    *)
LEMMA QuietKept ==
    ASSUME Kept, UNCHANGED <<order, disk>>, FileTyped',
           \A s \in Saves : /\ firm[s] => firm'[s]
                            /\ firm'[s] => whole'[s]
                            /\ stage'[s] = "written" => whole'[s]
                            /\ stage'[s] = "synced" => firm'[s]
                            /\ InOrder(s) => stage'[s] \in {stage[s], "failed"}
                            /\ ~InOrder(s) => stage'[s] \notin {"renamed", "saved"}
                            /\ stage'[s] = "saved" <=> stage[s] = "saved"
    PROVE  Kept' /\ File!Acknowledged' = File!Acknowledged
<1>1. Len(order) \in Nat /\ \A i \in 1..Len(order) : order[i] \in Saves /\ InOrder(order[i])
  BY DEF Kept, FileTyped, InOrder
<1>2. Kept'
  BY <1>1 DEF Kept, Renames, InOrder
<1>3. Answered' = Answered
  BY <1>1 DEF Answered, Kept, FileTyped
<1> QED
  BY <1>2, <1>3, AcknowledgedIs, NextAcknowledged

Registered == Kept' /\ [File!Register!Next]_(File!Register!vars)

LEMMA RegisterVars ==
    UNCHANGED <<order, File!Acknowledged, Place>> <=> UNCHANGED File!Register!vars
  BY DEF File!Register!vars, Place

(* The steps of a save before its rename, its failure, and a load.          *)
LEMMA SavingRegistered ==
    ASSUME Kept, NEW s \in Saves,
           File!LoadLegacy(s) \/ File!Open(s) \/ File!Write(s) \/ File!Sync(s) \/ File!Fail(s)
    PROVE  Registered
<1>1. /\ stage[s] \in File!Stages /\ stage \in [Saves -> File!Stages]
      /\ whole \in [Saves -> BOOLEAN] /\ firm \in [Saves -> BOOLEAN]
      /\ \A d \in Saves : /\ firm[d] => whole[d]
                          /\ stage[d] = "written" => whole[d]
                          /\ stage[d] = "synced" => firm[d]
                          /\ InOrder(d) => stage[d] \in {"renamed", "saved", "failed"}
                          /\ ~InOrder(d) => stage[d] \notin {"renamed", "saved"}
  BY DEF Kept, FileTyped, Renames, InOrder
<1>2. /\ UNCHANGED <<order, disk>>
      /\ dir' \in {"none", "made", "kept"} /\ Place' = Place
  BY DEF File!LoadLegacy, File!Open, File!Write, File!Sync, File!Fail, Place, Kept, FileTyped
<1>3. PICK st \in {"legacy", "opened", "written", "synced", "failed"} :
         /\ stage' = [stage EXCEPT ![s] = st]
         /\ stage[s] \in {"idle", "legacy", "opened", "written", "synced", "renamed"}
         /\ st # "failed" => stage[s] \notin {"synced", "renamed"}
         /\ \/ st \notin {"written", "synced"} /\ UNCHANGED <<whole, firm>>
            \/ st = "written" /\ whole' = [whole EXCEPT ![s] = TRUE] /\ UNCHANGED firm
            \/ /\ st = "synced" /\ stage[s] = "written"
               /\ firm' = [firm EXCEPT ![s] = TRUE] /\ UNCHANGED whole
  BY DEF File!LoadLegacy, File!Open, File!Write, File!Sync, File!Fail, File!To
<1>4. FileTyped'
  <2>1. st \in File!Stages
    BY DEF File!Stages
  <2> QED
    BY <1>1, <1>2, <1>3, <2>1 DEF Kept, FileTyped
<1>5. /\ stage'[s] = st /\ \A d \in Saves : d # s => stage'[d] = stage[d]
      /\ \A d \in Saves : /\ firm[d] => firm'[d]
                          /\ whole[d] => whole'[d]
                          /\ d # s => firm'[d] = firm[d] /\ whole'[d] = whole[d]
  BY <1>1, <1>3
<1>6. firm'[s] => whole'[s]
  BY <1>1, <1>3
<1>7. (st = "written" => whole'[s]) /\ (st = "synced" => firm'[s])
  BY <1>1, <1>3
<1>8. ASSUME NEW d \in Saves
      PROVE  /\ firm[d] => firm'[d]
             /\ firm'[d] => whole'[d]
             /\ stage'[d] = "written" => whole'[d]
             /\ stage'[d] = "synced" => firm'[d]
             /\ InOrder(d) => stage'[d] \in {stage[d], "failed"}
             /\ ~InOrder(d) => stage'[d] \notin {"renamed", "saved"}
             /\ stage'[d] = "saved" <=> stage[d] = "saved"
  <2>1. CASE d = s
    BY <1>1, <1>3, <1>5, <1>6, <1>7, <2>1
  <2>2. CASE d # s
    BY <1>1, <1>5, <2>2
  <2> QED
    BY <2>1, <2>2
<1>9. Kept' /\ File!Acknowledged' = File!Acknowledged
  BY <1>2, <1>4, <1>8, QuietKept
<1> QED
  BY <1>2, <1>9, RegisterVars DEF Registered

(* A rename takes effect: the save was not in force before.                 *)
LEMMA RenameRegistered == ASSUME Kept, NEW s \in Saves, File!Rename(s) PROVE Registered
<1>1. /\ stage[s] = "synced" /\ stage' = [stage EXCEPT ![s] = "renamed"] /\ order' = Append(order, s)
      /\ UNCHANGED <<dir, whole, firm, disk>>
  BY DEF File!Rename, File!To
<1>2. /\ FileTyped /\ firm[s] /\ ~InOrder(s)
      /\ \A i \in 1..Len(order) : order[i] \in Saves /\ order[i] # s
  BY <1>1 DEF Kept, FileTyped, Renames, InOrder
<1>3. /\ order' \in Seq(Saves) /\ Len(order') = Len(order) + 1 /\ order'[Len(order) + 1] = s
      /\ \A i \in 1..Len(order) : order'[i] = order[i]
      /\ Len(order) \in Nat /\ disk \in 0..Len(order)
  BY <1>1, <1>2 DEF FileTyped
<1>4. FileTyped'
  BY <1>1, <1>2, <1>3 DEF FileTyped, File!Stages
<1>5. stage'[s] = "renamed" /\ \A d \in Saves : d # s => stage'[d] = stage[d]
  BY <1>1, <1>2 DEF FileTyped
<1>6. Renames'
  <2>1. ASSUME NEW i \in 1..Len(order')
        PROVE  /\ firm'[order'[i]] /\ stage'[order'[i]] \in {"renamed", "saved", "failed"}
               /\ stage'[order'[i]] = "saved" => i <= disk'
               /\ order'[i] = s => i = Len(order) + 1
    BY <1>1, <1>2, <1>3, <1>5 DEF Kept, Renames
  <2>2. ASSUME NEW i \in 1..Len(order'), NEW j \in 1..Len(order'), order'[i] = order'[j]
        PROVE  i = j
    BY <1>2, <1>3, <2>1, <2>2 DEF Kept, Renames
  <2>3. ASSUME NEW d \in Saves
        PROVE  /\ firm'[d] => whole'[d]
               /\ stage'[d] = "written" => whole'[d]
               /\ stage'[d] = "synced" => firm'[d]
    BY <1>1, <1>5 DEF Kept, Renames
  <2>4. ASSUME NEW d \in Saves, stage'[d] \in {"renamed", "saved"} PROVE InOrder(d)'
    <3>1. CASE d = s
      BY <1>3, <3>1 DEF InOrder
    <3>2. CASE d # s
      <4>1. PICK i \in 1..Len(order) : order[i] = d
        BY <1>5, <2>4, <3>2 DEF Kept, Renames, InOrder
      <4>2. i \in 1..Len(order') /\ order'[i] = d
        BY <1>3, <4>1
      <4> QED
        BY <4>2 DEF InOrder
    <3> QED
      BY <3>1, <3>2
  <2> QED
    BY <2>1, <2>2, <2>3, <2>4 DEF Renames
<1>7. Answered' = Answered
  <2>1. \A i : i \in Answered' <=> i \in Answered
    BY <1>2, <1>3, <1>5 DEF Answered
  <2> QED
    BY <2>1
<1>8. File!Acknowledged' = File!Acknowledged
  BY <1>4, <1>7, AcknowledgedIs, NextAcknowledged
<1>9. s \notin File!Register!ToSet(order)
  BY <1>2, <1>3 DEF File!Register!ToSet, FileTyped
<1>10. File!Register!TakeEffect(s)
  BY <1>1, <1>8, <1>9 DEF File!Register!TakeEffect
<1> QED
  BY <1>4, <1>6, <1>10 DEF Registered, Kept, File!Register!Next

(* The directory is synced, and with it every rename before this save's     *)
(* own.                                                                     *)
LEMMA SyncRegistered == ASSUME Kept, NEW s \in Saves, File!SyncDirectory(s) PROVE Registered
<1>1. /\ stage[s] = "renamed" /\ stage' = [stage EXCEPT ![s] = "saved"] /\ disk' = Len(order)
      /\ UNCHANGED <<dir, whole, firm, order>>
  BY DEF File!SyncDirectory, File!To
<1>2. FileTyped /\ Len(order) \in Nat /\ \A i \in 1..Len(order) : order[i] \in Saves
  BY DEF Kept, FileTyped
<1>3. PICK k \in 1..Len(order) : order[k] = s
  BY <1>1 DEF Kept, Renames, InOrder
<1>4. FileTyped'
  BY <1>1, <1>2 DEF FileTyped, File!Stages
<1>5. stage'[s] = "saved" /\ \A d \in Saves : d # s => stage'[d] = stage[d]
  BY <1>1, <1>2 DEF FileTyped
<1>6. Renames'
  <2>1. \A i \in 1..Len(order') : firm'[order'[i]] /\ stage'[order'[i]] \in {"renamed", "saved", "failed"}
                                  /\ i <= disk'
    BY <1>1, <1>2, <1>5 DEF Kept, Renames
  <2>2. \A d \in Saves : /\ firm'[d] => whole'[d]
                         /\ stage'[d] = "written" => whole'[d]
                         /\ stage'[d] = "synced" => firm'[d]
                         /\ stage'[d] \in {"renamed", "saved"} => InOrder(d)
    BY <1>1, <1>5 DEF Kept, Renames
  <2> QED
    BY <1>1, <2>1, <2>2 DEF Kept, Renames, InOrder
<1>7. Answered' = Answered \union {k}
  <2>1. \A i \in 1..Len(order) : order[i] = s <=> i = k
    BY <1>3 DEF Kept, Renames
  <2>2. \A i : i \in Answered' <=> i \in Answered \/ i = k
    BY <1>1, <1>2, <1>3, <1>5, <2>1 DEF Answered, FileTyped
  <2> QED
    BY <2>2
<1> DEFINE a == IF k > File!Acknowledged THEN k ELSE File!Acknowledged
<1>8. /\ File!Acknowledged \in {0} \union Answered /\ File!Acknowledged \in Nat
      /\ \A i \in Answered : i <= File!Acknowledged
      /\ \A i \in Answered : i \in Nat
  BY <1>2, AcknowledgedIs DEF Answered, FileTyped
<1>9. a \in ({0} \union Answered)' /\ \A i \in Answered' : i <= a
  BY <1>3, <1>7, <1>8
<1>10. File!Acknowledged' = a
  <2> HIDE DEF a
  <2> QED
    BY <1>4, <1>9, NextAcknowledged
<1>11. File!Register!Acknowledge(s)
  BY <1>1, <1>2, <1>3, <1>10 DEF File!Register!Acknowledge, FileTyped
<1> QED
  BY <1>4, <1>6, <1>11 DEF Registered, Kept, File!Register!Next

(* A crash takes back renames after the last sync of the directory.         *)
LEMMA CrashRegistered == ASSUME Kept, File!Crash PROVE Registered
<1>1. PICK n \in disk..Len(order) : order' = SubSeq(order, 1, n) /\ disk' = n
  BY DEF File!Crash
<1>2. PICK kept \in SUBSET {s \in Saves : whole[s] /\ ~firm[s]} :
         whole' = [s \in Saves |-> firm[s] \/ s \in kept]
  BY DEF File!Crash
<1>3. /\ stage' = [s \in Saves |-> IF stage[s] \in {"idle", "saved"} THEN stage[s] ELSE "failed"]
      /\ firm' = firm /\ dir' = IF dir = "made" THEN "kept" ELSE dir
  BY DEF File!Crash
<1>4. /\ FileTyped /\ Len(order) \in Nat /\ disk \in 0..Len(order) /\ n \in 0..Len(order)
      /\ \A i \in 1..Len(order) : order[i] \in Saves
      /\ order \in Seq(Saves)
  BY DEF Kept, FileTyped
<1>5. /\ order' \in Seq(Saves) /\ Len(order') = n /\ \A i \in 1..n : order'[i] = order[i]
  BY <1>1, <1>4
<1>6. \A s \in Saves : /\ stage'[s] = IF stage[s] \in {"idle", "saved"} THEN stage[s] ELSE "failed"
                       /\ firm'[s] = firm[s] /\ (firm[s] => whole'[s])
  BY <1>2, <1>3, <1>4 DEF FileTyped
<1>7. FileTyped'
  <2>1. stage' \in [Saves -> File!Stages]
    BY <1>3, <1>4 DEF FileTyped, File!Stages
  <2>2. whole' \in [Saves -> BOOLEAN] /\ firm' \in [Saves -> BOOLEAN]
    BY <1>2, <1>3, <1>4 DEF FileTyped
  <2> QED
    BY <1>1, <1>3, <1>4, <1>5, <2>1, <2>2 DEF FileTyped
<1>8. Renames'
  <2>1. ASSUME NEW i \in 1..Len(order')
        PROVE  /\ firm'[order'[i]] /\ stage'[order'[i]] \in {"renamed", "saved", "failed"}
               /\ stage'[order'[i]] = "saved" => i <= disk'
    BY <1>1, <1>4, <1>5, <1>6 DEF Kept, Renames
  <2>2. \A i, j \in 1..Len(order') : order'[i] = order'[j] => i = j
    BY <1>4, <1>5 DEF Kept, Renames
  <2>3. ASSUME NEW s \in Saves
        PROVE  /\ firm'[s] => whole'[s]
               /\ stage'[s] \notin {"written", "synced", "renamed"}
    BY <1>6
  <2>4. ASSUME NEW s \in Saves, stage'[s] = "saved" PROVE InOrder(s)'
    <3>1. PICK i \in 1..Len(order) : order[i] = s /\ stage[s] = "saved"
      BY <1>6, <2>4 DEF Kept, Renames, InOrder
    <3>2. i <= disk
      BY <3>1 DEF Kept, Renames
    <3>3. i \in 1..Len(order') /\ order'[i] = s
      BY <1>4, <1>5, <3>1, <3>2
    <3> QED
      BY <3>3 DEF InOrder
  <2> QED
    BY <2>1, <2>2, <2>3, <2>4 DEF Renames
<1>9. Answered' = Answered
  <2>1. ASSUME NEW i \in Answered PROVE i \in Answered'
    <3>1. i \in 1..Len(order) /\ stage[order[i]] = "saved" /\ i <= disk
      BY <1>4 DEF Answered, Kept, Renames, FileTyped
    <3>2. i \in 1..n /\ stage'[order'[i]] = "saved"
      BY <1>4, <1>5, <1>6, <3>1
    <3> QED
      BY <1>5, <3>2 DEF Answered
  <2>2. ASSUME NEW i \in Answered' PROVE i \in Answered
    <3>1. i \in 1..n /\ stage'[order'[i]] = "saved"
      BY <1>5 DEF Answered
    <3>2. i \in 1..Len(order) /\ stage[order[i]] = "saved"
      BY <1>4, <1>5, <1>6, <3>1
    <3> QED
      BY <1>4, <3>2 DEF Answered
  <2> QED
    BY <2>1, <2>2
<1>10. File!Acknowledged' = File!Acknowledged
  BY <1>7, <1>9, AcknowledgedIs, NextAcknowledged
<1>11. File!Register!Crash
  <2>1. n \in File!Acknowledged..Len(order)
    BY <1>1, <1>4, AcknowledgedIs
  <2> QED
    BY <1>1, <1>3, <1>10, <2>1 DEF File!Register!Crash
<1> QED
  BY <1>7, <1>8, <1>11 DEF Registered, Kept, File!Register!Next

(* The system writes the parent of the directory, or a crash takes the      *)
(* directory away.                                                          *)
LEMMA PlaceRegistered == ASSUME Kept, File!WriteBack \/ File!Ruin PROVE Registered
<1>1. CASE File!WriteBack
  <2>1. dir = "made" /\ dir' = "kept" /\ UNCHANGED <<stage, whole, firm, order, disk>>
    BY <1>1 DEF File!WriteBack
  <2>2. Kept'
    BY <2>1 DEF Kept, FileTyped, Renames, InOrder
  <2>3. File!Register!Settle
    BY <2>1 DEF File!Register!Settle, File!Acknowledged
  <2> QED
    BY <2>2, <2>3 DEF Registered, File!Register!Next
<1>2. CASE File!Ruin
  <2>1. /\ dir = "made" /\ dir' = "none" /\ order' = <<>> /\ disk' = 0
        /\ stage' = [s \in Saves |-> IF stage[s] = "idle" THEN "idle" ELSE "lost"]
        /\ UNCHANGED <<whole, firm>>
    BY <1>2 DEF File!Ruin
  <2>2. Len(order') = 0 /\ order' \in Seq(Saves)
    BY <2>1
  <2>3. FileTyped'
    BY <2>1, <2>2 DEF Kept, FileTyped, File!Stages
  <2>4. Renames'
    BY <2>1, <2>2 DEF Kept, FileTyped, Renames
  <2>5. Answered' = {}
    BY <2>2 DEF Answered
  <2>6. File!Acknowledged' = 0
    BY <2>3, <2>5, NextAcknowledged
  <2>7. File!Register!Ruin
    BY <2>1, <2>6 DEF File!Register!Ruin
  <2> QED
    BY <2>3, <2>4, <2>7 DEF Registered, Kept, File!Register!Next
<1> QED
  BY <1>1, <1>2

LEMMA KeptInit == Init => Kept /\ File!Register!Init
<1> SUFFICES ASSUME Init PROVE Kept /\ File!Register!Init
  OBVIOUS
<1>1. File!Init
  BY DEF Init
<1>2. Len(<<>>) = 0 /\ order = <<>> /\ order \in Seq(Saves)
  BY <1>1 DEF File!Init
<1>3. FileTyped
  BY <1>1, <1>2 DEF File!Init, FileTyped, File!Stages
<1>4. Renames
  BY <1>1, <1>2 DEF File!Init, Renames
<1>5. Answered = {}
  BY <1>2 DEF Answered
<1>6. File!Acknowledged = 0
  <2>1. File!Acknowledged = File!Max({0})
    BY <1>5 DEF File!Acknowledged, Answered
  <2> QED
    BY <2>1, MaxOnly
<1> QED
  BY <1>2, <1>3, <1>4, <1>6 DEF Kept, File!Register!Init

LEMMA KeptNext == Kept /\ [Next]_vars => Registered
<1> SUFFICES ASSUME Kept, [Next]_vars PROVE Registered
  OBVIOUS
<1>1. CASE File!Next
  BY <1>1, SavingRegistered, RenameRegistered, SyncRegistered, CrashRegistered,
     PlaceRegistered DEF File!Next
<1>2. CASE UNCHANGED fileVars
  BY <1>2, RegisterVars
  DEF fileVars, Registered, Kept, FileTyped, Renames, InOrder, File!Acknowledged, Place
<1> QED
  BY <1>1, <1>2 DEF Next, vars, storeVars

(* A state file is a register: saves take effect one after the other, and   *)
(* once its directory is on the disk no crash takes back one that was       *)
(* acknowledged, wherever between the writing, the two syncs and the rename *)
(* of writeFileAtomically the machine stops and however many saves run      *)
(* beside it.  Of a directory the first save had to make, whose own entry   *)
(* is synced by nobody, a crash takes all or keeps all (durable-file.ts).   *)
THEOREM FileIsARegister == Spec => File!SavesAreDurable
<1>1. Kept /\ [Next]_vars => Kept' /\ [File!Register!Next]_(File!Register!vars)
  BY KeptNext DEF Registered
<1> QED
  BY <1>1, KeptInit, PTL DEF Spec, File!SavesAreDurable, File!Register!Spec

(* A reader sees no file that is cut short: only what was synced whole is   *)
(* renamed over the name (writeFileAtomically), and a crash leaves one of   *)
(* the files that were.                                                     *)
THEOREM ReadersSeeWholeFiles == Spec => []File!ReadsAreWhole
<1>1. Kept => File!ReadsAreWhole
  <2>1. ASSUME Kept, order # <<>> PROVE whole[order[Len(order)]]
    <3>1. Len(order) \in 1..Len(order) /\ order[Len(order)] \in Saves
      BY <2>1 DEF Kept, FileTyped
    <3> QED
      BY <2>1, <3>1 DEF Kept, Renames
  <2> QED
    BY <2>1 DEF File!ReadsAreWhole, File!Last
<1>2. Kept /\ [Next]_vars => Kept'
  BY KeptNext DEF Registered
<1> QED
  BY <1>1, <1>2, KeptInit, PTL DEF Spec

-----------------------------------------------------------------------------
(* The losses of the log pipeline, copied into a counter of the metrics.    *)

Copied ==
    /\ losses \in Nat /\ counted \in Nat /\ shown \in Nat
    /\ seen = counted /\ counted <= losses /\ shown <= counted
    /\ op \in [pc : {"idle", "top", "export"}, aborted : BOOLEAN, carries : Nat]
    /\ op.carries <= counted /\ ctl \in BOOLEAN

LEMMA CopiedNext == ASSUME Copied, Metrics!MetricNext PROVE Copied'
<1> USE DEF Copied
<1>1. CASE Metrics!LogsLose
  BY <1>1 DEF Metrics!LogsLose
<1>2. CASE Metrics!Tick \/ Metrics!Shutdown
  BY <1>2 DEF Metrics!Tick, Metrics!Shutdown, Metrics!Asked
<1>3. CASE Metrics!Collect
  <2>1. /\ losses' = losses /\ ctl' = ctl /\ shown' = shown
        /\ \/ UNCHANGED <<seen, counted>>
           \/ counted' = counted + (losses - seen) /\ seen' = losses
    BY <1>3 DEF Metrics!Collect, Metrics!CopyLosses
  <2>2. (counted' = losses /\ seen' = losses) \/ UNCHANGED <<seen, counted>>
    BY <2>1
  <2>3. \/ op' = op
        \/ op' = Metrics!Resting
        \/ op' = [pc |-> "export", aborted |-> ctl, carries |-> counted']
    BY <1>3 DEF Metrics!Collect
  <2>4. /\ op' \in [pc : {"idle", "top", "export"}, aborted : BOOLEAN, carries : Nat]
        /\ op'.carries <= counted'
    <3>1. CASE op' = op
      BY <2>2, <3>1
    <3>2. CASE op' = [pc |-> "idle", aborted |-> FALSE, carries |-> 0]
      BY <2>2, <3>2
    <3>3. CASE op' = [pc |-> "export", aborted |-> ctl, carries |-> counted']
      BY <2>2, <3>3
    <3> QED
      BY <2>3, <3>1, <3>2, <3>3 DEF Metrics!Resting
  <2> QED
    BY <2>1, <2>2, <2>4
<1>4. CASE Metrics!FlushExpires \/ Metrics!FlushEnds
  BY <1>4 DEF Metrics!FlushExpires, Metrics!FlushEnds
<1>5. ASSUME NEW ok \in BOOLEAN, Metrics!Exported(ok) PROVE Copied'
  BY <1>5 DEF Metrics!Exported
<1> QED
  BY <1>1, <1>2, <1>3, <1>4, <1>5 DEF Metrics!MetricNext

(* The published counter of lost log records is never ahead of the losses:  *)
(* one collection runs at a time, and each adds what was lost since the     *)
(* last, whether it fails, is aborted or is repeated (metric-pipeline.ts).  *)
THEOREM CountersNeverAhead == Spec => []Metrics!LossesCountedOnce
<1>1. Init => Copied
  <2>1. Metrics!Resting \in [pc : {"idle", "top", "export"}, aborted : BOOLEAN, carries : Nat]
        /\ Metrics!Resting.carries = 0
    BY DEF Metrics!Resting
  <2> QED
    <3> SUFFICES ASSUME Init PROVE Copied
      OBVIOUS
    <3>1. /\ losses = 0 /\ counted = 0 /\ shown = 0 /\ seen = 0
          /\ op = Metrics!Resting
      BY DEF Init, Metrics!MetricInit
    <3>2. ctl \in BOOLEAN
      BY DEF Init, Metrics!MetricInit
    <3>3. op.carries = 0 /\ op \in [pc : {"idle", "top", "export"}, aborted : BOOLEAN, carries : Nat]
      BY <2>1, <3>1
    <3> QED
      BY <3>1, <3>2, <3>3 DEF Copied
<1>2. Copied /\ [Next]_vars => Copied'
  <2> SUFFICES ASSUME Copied, [Next]_vars PROVE Copied'
    OBVIOUS
  <2>1. CASE Metrics!MetricNext
    BY <2>1, CopiedNext
  <2>2. CASE UNCHANGED metricVars
    BY <2>2 DEF metricVars, Copied
  <2> QED
    BY <2>1, <2>2 DEF Next, vars, storeVars
<1>3. Copied => Metrics!LossesCountedOnce
  BY DEF Copied, Metrics!LossesCountedOnce
<1> QED
  BY <1>1, <1>2, <1>3, PTL DEF Spec

-----------------------------------------------------------------------------
(* The trail of a run.  An event goes forward, to the queue, a batch, the   *)
(* wire and the collector, when its append has returned.                    *)

Onward == Trail!ToSet(queue) \union batch.of \union (UNION transit) \union collector

Carried ==
    /\ queue \in Seq(RunEvents) /\ transit \subseteq SUBSET RunEvents
    /\ batch \in [of : SUBSET RunEvents, released : BOOLEAN]

Lines == Seq([of : RunEvents, got : {"line", "head"}])

IsLine(i, e) == file[i].of = e /\ (file[i].got = "head" => e \in short)

(* A line that was written is in the file, one that was synced below what   *)
(* is synced, and one whose append returned in a log with an entry too, in  *)
(* a directory that is there unless a crash took it.                        *)
Written ==
    /\ append \in [RunEvents -> Trail!AppendStages]
    /\ folder \in {"none", "made", "kept"}
    /\ file \in Lines /\ synced \in 0..Len(file) /\ entry \in BOOLEAN
    /\ \A e \in RunEvents :
          /\ up # "gone" /\ append[e] # "new" => folder # "none"
          /\ append[e] = "written" => \E i \in 1..Len(file) : IsLine(i, e)
          /\ append[e] = "synced" => \E i \in 1..synced : IsLine(i, e)
          /\ append[e] \in {"durable", "offered"} /\ folder # "none" =>
                entry /\ \E i \in 1..synced : IsLine(i, e)

Traced == part = "trail" => Carried /\ Written /\ \A e \in Onward : e \in RunEvents /\ append[e] = "offered"

(* The pipeline passes on what it has, and drops some of it.                *)
Passed == Carried' /\ Onward' \subseteq Onward

LEMMA HeadPassed == ASSUME Carried, Trail!NextBatch PROVE Passed
<1> USE DEF Carried
<1>1. CASE UNCHANGED <<queue, batch, transit, collector>>
  BY <1>1 DEF Passed, Onward
<1>2. CASE ~UNCHANGED <<queue, batch, transit, collector>>
  <2> DEFINE n == Trail!Min({1, Len(queue)})
  <2>1. queue # <<>> /\ Len(queue) \in Nat /\ Len(queue) >= 1
    BY <1>2 DEF Trail!NextBatch
  <2>2. n = 1
    BY <2>1 DEF Trail!Min
  <2> HIDE DEF n
  <2>3. /\ batch' = [of |-> Trail!ToSet(SubSeq(queue, 1, n)), released |-> FALSE]
        /\ queue' = SubSeq(queue, n + 1, Len(queue))
        /\ transit' = transit \union {batch'.of} /\ collector' = collector
    BY <1>2 DEF Trail!NextBatch, n
  <2>4. SubSeq(queue, 1, 1) \in Seq(RunEvents) /\ Len(SubSeq(queue, 1, 1)) = 1
        /\ SubSeq(queue, 1, 1)[1] = queue[1]
    BY <2>1
  <2>5. SubSeq(queue, 2, Len(queue)) \in Seq(RunEvents)
        /\ \A i \in DOMAIN SubSeq(queue, 2, Len(queue)) :
              i + 1 \in DOMAIN queue /\ SubSeq(queue, 2, Len(queue))[i] = queue[i + 1]
    BY <2>1
  <2>6. Trail!ToSet(SubSeq(queue, 1, 1)) \subseteq Trail!ToSet(queue) \cap RunEvents
    BY <2>1, <2>4 DEF Trail!ToSet
  <2>7. Trail!ToSet(SubSeq(queue, 2, Len(queue))) \subseteq Trail!ToSet(queue)
    BY <2>5 DEF Trail!ToSet
  <2>8. batch'.of \subseteq Trail!ToSet(queue) \cap RunEvents
        /\ Trail!ToSet(queue') \subseteq Trail!ToSet(queue)
    BY <2>2, <2>3, <2>6, <2>7
  <2>9. Carried'
    BY <2>2, <2>3, <2>5, <2>8
  <2> QED
    BY <2>3, <2>8, <2>9 DEF Passed, Onward
<1> QED
  BY <1>1, <1>2

LEMMA PipelinePassed ==
    ASSUME Carried, Trail!ExportSteps \/ Trail!Interval \/ Trail!Expire \/ Trail!Close
           \/ Trail!LogsGone \/ \E b \in transit : Trail!Arrive(b)
    PROVE  Passed
<1> USE DEF Carried
<1>1. CASE UNCHANGED <<queue, batch, transit, collector>>
  BY <1>1 DEF Passed, Onward
<1>2. ASSUME NEW reason, NEW es, Trail!Returns(reason, es) PROVE Passed
  <2>1. batch' = [of |-> {}, released |-> TRUE] /\ UNCHANGED <<queue, transit, collector>>
    BY <1>2 DEF Trail!Returns, Trail!NoBatch
  <2> QED
    BY <2>1 DEF Passed, Onward
<1>3. CASE Trail!Accepted \/ Trail!Refused \/ Trail!GiveUp \/ Trail!Aborted
  BY <1>2, <1>3 DEF Trail!Accepted, Trail!Refused, Trail!GiveUp, Trail!Aborted
<1>4. CASE Trail!Transient \/ Trail!FlushTurns \/ Trail!Interval \/ Trail!Close
  BY <1>1, <1>4 DEF Trail!Transient, Trail!FlushTurns, Trail!Interval, Trail!Close
<1>5. CASE Trail!Retry
  <2>1. transit' = transit \union {batch.of} /\ UNCHANGED <<queue, batch, collector>>
    BY <1>5 DEF Trail!Retry
  <2> QED
    BY <2>1 DEF Passed, Onward
<1>6. ASSUME NEW b \in transit, Trail!Arrive(b) PROVE Passed
  <2>1. transit' = transit \ {b} /\ UNCHANGED <<queue, batch>>
    BY <1>6 DEF Trail!Arrive
  <2>2. collector' \subseteq collector \union b
    BY <1>6 DEF Trail!Arrive
  <2>3. UNION transit' \subseteq UNION transit /\ b \subseteq UNION transit
    BY <2>1
  <2>4. Onward' \subseteq Onward
    BY <2>1, <2>2, <2>3 DEF Onward
  <2> QED
    BY <2>1, <2>4 DEF Passed
<1>7. CASE Trail!Expire
  <2>1. batch' = [batch EXCEPT !.released = TRUE] /\ queue' = <<>> /\ UNCHANGED <<transit, collector>>
    BY <1>7 DEF Trail!Expire
  <2>2. batch' \in [of : SUBSET RunEvents, released : BOOLEAN] /\ batch'.of = batch.of
    BY <2>1
  <2>3. Trail!ToSet(<<>>) = {}
    BY DEF Trail!ToSet
  <2> QED
    BY <2>1, <2>2, <2>3 DEF Passed, Onward
<1>8. CASE Trail!LogsGone
  <2>1. batch' = [of |-> {}, released |-> TRUE] /\ queue' = <<>> /\ UNCHANGED <<transit, collector>>
    BY <1>8 DEF Trail!LogsGone, Trail!NoBatch
  <2>2. Trail!ToSet(<<>>) = {}
    BY DEF Trail!ToSet
  <2> QED
    BY <2>1, <2>2 DEF Passed, Onward
<1> QED
  BY <1>3, <1>4, <1>5, <1>6, <1>7, <1>8, HeadPassed DEF Trail!ExportSteps

LEMMA OfferPassed ==
    ASSUME Carried, NEW e \in RunEvents, Trail!Offer(e)
    PROVE  Carried' /\ Onward' \subseteq Onward \union {e}
<1> USE DEF Carried
<1>1. /\ UNCHANGED <<batch, transit, collector>>
      /\ queue' = queue \/ queue' = Append(queue, e)
  BY DEF Trail!Offer
<1>2. queue' \in Seq(RunEvents) /\ Trail!ToSet(queue') \subseteq Trail!ToSet(queue) \union {e}
  BY <1>1 DEF Trail!ToSet
<1> QED
  BY <1>1, <1>2 DEF Onward

(* A step of the log that leaves the pipeline alone.                        *)
LEMMA AppendWritten ==
    ASSUME Written, NEW e \in RunEvents,
           Trail!Write(e) \/ Trail!Sync(e) \/ Trail!SyncDirectory(e) \/ Trail!Fail(e)
    PROVE  /\ Written' /\ UNCHANGED logVars
           /\ \A o \in RunEvents : append[o] = "offered" => append'[o] = "offered"
<1> USE DEF Written, Lines, IsLine, Trail!AppendStages, Trail!Stage
<1>1. CASE Trail!Write(e)
  <2>1. PICK to \in {"written", "failed"}, got \in {"line", "head"} :
           /\ append[e] = "new" /\ append' = [append EXCEPT ![e] = to]
           /\ file' = Append(file, [of |-> e, got |-> got])
           /\ to = "written" /\ got = "head" => e \in short'
           /\ short \subseteq short'
    BY <1>1 DEF Trail!Write
  <2>2. /\ UNCHANGED <<synced, entry, up>> /\ UNCHANGED logVars
        /\ up # "gone" /\ folder' = IF folder = "none" THEN "made" ELSE folder
    BY <1>1 DEF Trail!Write, Trail!Elsewhere, Trail!logVars, logVars
  <2>3. /\ file' \in Lines /\ Len(file') = Len(file) + 1
        /\ file'[Len(file) + 1].of = e /\ file'[Len(file) + 1].got = got
        /\ \A i \in 1..Len(file) : file'[i] = file[i]
    BY <2>1
  <2>4. folder' \in {"made", "kept"}
    BY <2>2
  <2>5. ASSUME NEW o \in RunEvents, o # e
        PROVE  /\ append'[o] = append[o]
               /\ \A i \in 1..Len(file) : IsLine(i, o) => IsLine(i, o)'
    BY <2>1, <2>3, <2>5
  <2>6. ASSUME NEW o \in RunEvents, o # e
        PROVE  /\ append'[o] = "written" => \E i \in 1..Len(file') : IsLine(i, o)'
               /\ append'[o] = "synced" => \E i \in 1..synced' : IsLine(i, o)'
               /\ append'[o] \in {"durable", "offered"} =>
                     entry' /\ \E i \in 1..synced' : IsLine(i, o)'
    BY <2>2, <2>3, <2>5, <2>6
  <2>7. append'[e] = to /\ (to = "written" => \E i \in 1..Len(file') : IsLine(i, e)')
    <3> DEFINE last == Len(file) + 1
    <3>1. append'[e] = to
      BY <2>1
    <3>2. last \in 1..Len(file') /\ file'[last].of = e /\ file'[last].got = got
      BY <2>3
    <3>3. to = "written" /\ file'[last].got = "head" => e \in short'
      BY <2>1, <3>2
    <3> QED
      BY <3>1, <3>2, <3>3
  <2>8. Written'
    BY <2>1, <2>2, <2>3, <2>4, <2>6, <2>7
  <2> QED
    BY <2>1, <2>2, <2>8
<1>2. CASE Trail!Sync(e)
  <2>1. /\ append[e] = "written" /\ append' = [append EXCEPT ![e] = "synced"]
        /\ synced' = Len(file) /\ UNCHANGED <<folder, file, short, entry, up>> /\ UNCHANGED logVars
    BY <1>2 DEF Trail!Sync, Trail!Elsewhere, Trail!logVars, logVars
  <2> QED
    BY <2>1
<1>3. CASE Trail!SyncDirectory(e)
  <2>1. /\ append[e] = "synced" /\ append' = [append EXCEPT ![e] = "durable"] /\ entry' = TRUE
        /\ UNCHANGED <<folder, file, short, synced, up>> /\ UNCHANGED logVars
    BY <1>3 DEF Trail!SyncDirectory, Trail!Elsewhere, Trail!logVars, logVars
  <2> QED
    BY <2>1
<1>4. CASE Trail!Fail(e)
  <2>1. /\ append[e] \in {"written", "synced"} /\ append' = [append EXCEPT ![e] = "failed"]
        /\ UNCHANGED <<folder, file, short, synced, entry, up>> /\ UNCHANGED logVars
    BY <1>4 DEF Trail!Fail, Trail!Elsewhere, Trail!logVars, logVars
  <2> QED
    BY <2>1
<1> QED
  BY <1>1, <1>2, <1>3, <1>4

LEMMA Beginning ==
    ASSUME NEW S, NEW s \in Seq(S), NEW n \in 0..Len(s)
    PROVE  SubSeq(s, 1, n) \in Seq(S) /\ Len(SubSeq(s, 1, n)) = n
           /\ \A i \in 1..n : SubSeq(s, 1, n)[i] = s[i]
  OBVIOUS

LEMMA CutTyped ==
    ASSUME NEW S, NEW s \in Seq([of : S, got : {"line", "head"}]), NEW i \in 1..Len(s)
    PROVE  [s[i] EXCEPT !.got = "head"] \in [of : S, got : {"line", "head"}]
<1>1. \A T : s \in Seq(T) => s[i] \in T
  OBVIOUS
<1>2. s[i] \in [of : S, got : {"line", "head"}]
  BY <1>1
<1> QED
  BY <1>2

(* The process ends, with the machine or without it.                        *)
LEMMA EndWritten ==
    ASSUME Written, Trail!Over \/ Trail!Crash
    PROVE  /\ Written' /\ Trail!LogsGone
           /\ \A o \in RunEvents : append[o] = "offered" => append'[o] = "offered"
<1> USE DEF Written, Lines, Trail!AppendStages
<1>1. /\ append' = [e \in RunEvents |-> IF append[e] \in {"durable", "offered"} THEN append[e] ELSE "failed"]
      /\ entry' = entry /\ short' = short /\ up' = "gone" /\ Trail!LogsGone
  BY DEF Trail!Over, Trail!Crash, Trail!Gone
<1>2. \A e \in RunEvents :
         /\ append'[e] \in {"durable", "offered", "failed"}
         /\ append'[e] \in {"durable", "offered"} => append[e] = append'[e]
  BY <1>1
<1>3. /\ file' \in Lines /\ synced' \in 0..Len(file')
      /\ folder' \in {"none", "made", "kept"}
      /\ folder' # "none" =>
            /\ folder # "none"
            /\ entry => synced <= synced' /\ \A i \in 1..synced : file'[i] = file[i]
  <2>1. CASE UNCHANGED <<folder, file, synced>>
    BY <2>1
  <2>2. ASSUME folder' = IF folder = "made" THEN "kept" ELSE folder, synced' = Len(file'),
               NEW n \in (IF entry THEN synced ELSE 0)..Len(file),
               \/ file' = SubSeq(file, 1, n)
               \/ n < Len(file) /\ file' = Append(SubSeq(file, 1, n), [file[n + 1] EXCEPT !.got = "head"])
        PROVE  /\ file' \in Lines /\ synced' \in 0..Len(file')
               /\ folder' \in {"none", "made", "kept"} /\ (folder' # "none" => folder # "none")
               /\ entry => synced <= synced' /\ \A i \in 1..synced : file'[i] = file[i]
    <3>1. folder' \in {"none", "made", "kept"} /\ (folder' # "none" => folder # "none")
      BY <2>2
    <3>2. /\ n \in Nat /\ n <= Len(file) /\ entry => synced <= n
          /\ SubSeq(file, 1, n) \in Lines /\ Len(SubSeq(file, 1, n)) = n
          /\ \A i \in 1..n : SubSeq(file, 1, n)[i] = file[i]
      <4>1. n \in Nat /\ n <= Len(file) /\ (entry => synced <= n)
        OBVIOUS
      <4>2. SubSeq(file, 1, n) \in Seq([of : RunEvents, got : {"line", "head"}])
            /\ Len(SubSeq(file, 1, n)) = n /\ \A i \in 1..n : SubSeq(file, 1, n)[i] = file[i]
        <5> HIDE DEF Written
        <5>1. file \in Seq([of : RunEvents, got : {"line", "head"}]) /\ n \in 0..Len(file)
          BY <4>1 DEF Written
        <5> QED
          BY <5>1, Beginning
      <4> QED
        BY <4>1, <4>2
    <3>3. CASE file' = SubSeq(file, 1, n)
      BY <2>2, <3>1, <3>2, <3>3
    <3>4. CASE n < Len(file) /\ file' = Append(SubSeq(file, 1, n), [file[n + 1] EXCEPT !.got = "head"])
      <4>1. [file[n + 1] EXCEPT !.got = "head"] \in [of : RunEvents, got : {"line", "head"}]
        <5>1. n + 1 \in 1..Len(file)
          BY <3>2, <3>4
        <5> QED
          BY <5>1, CutTyped
      <4>2. file' \in Lines /\ Len(file') = n + 1 /\ \A i \in 1..n : file'[i] = SubSeq(file, 1, n)[i]
        BY <3>2, <3>4, <4>1
      <4> QED
        BY <2>2, <3>1, <3>2, <4>2
    <3> QED
      BY <2>2, <3>3, <3>4
  <2>3. ASSUME folder' = "none", file' = <<>>, synced' = Len(file')
        PROVE  file' \in Lines /\ synced' \in 0..Len(file')
    BY <2>3
  <2> QED
    BY <2>1, <2>2, <2>3 DEF Trail!Over, Trail!Crash
<1>4. ASSUME NEW e \in RunEvents, append'[e] \in {"durable", "offered"}, folder' # "none"
      PROVE  entry' /\ \E i \in 1..synced' : IsLine(i, e)'
  <2>1. entry /\ folder # "none" /\ \E i \in 1..synced : IsLine(i, e)
    BY <1>2, <1>3, <1>4
  <2>2. PICK i \in 1..synced : IsLine(i, e)
    BY <2>1
  <2>3. i \in 1..synced' /\ file'[i] = file[i]
    BY <1>3, <1>4, <2>1
  <2> QED
    BY <1>1, <2>1, <2>2, <2>3 DEF IsLine
<1> QED
  BY <1>1, <1>2, <1>3, <1>4

LEMMA TracedInit == Init => Traced
<1> SUFFICES ASSUME Init, part = "trail" PROVE Carried /\ Written /\ Onward = {}
  BY DEF Traced
<1>1. /\ queue = <<>> /\ transit = {} /\ collector = {}
      /\ batch = [of |-> {}, released |-> TRUE]
  BY DEF Init, Trail!LogInit, Trail!NoBatch
<1>2. /\ append = [e \in RunEvents |-> "new"] /\ file = <<>> /\ synced = 0 /\ entry = FALSE
      /\ folder \in {"none", "kept"}
  BY DEF Init, Trail!TrailInit
<1>3. Carried
  BY <1>1 DEF Carried
<1>4. Trail!ToSet(<<>>) = {}
  BY DEF Trail!ToSet
<1>5. Onward = {}
  BY <1>1, <1>4 DEF Onward
<1>6. Written
  <2>1. entry \in BOOLEAN /\ \A e \in RunEvents : append[e] = "new"
    BY <1>2
  <2>2. append \in [RunEvents -> Trail!AppendStages]
    BY <1>2 DEF Trail!AppendStages
  <2>3. file \in Lines /\ synced \in 0..Len(file)
    BY <1>2 DEF Lines
  <2> QED
    BY <1>2, <2>1, <2>2, <2>3 DEF Written
<1> QED
  BY <1>3, <1>5, <1>6

LEMMA TrailTraced ==
    ASSUME Traced, part = "trail", part' = "trail", Trail!Next
    PROVE  Traced'
<1>1. Carried /\ Written /\ \A e \in Onward : e \in RunEvents /\ append[e] = "offered"
  BY DEF Traced
<1>2. SUFFICES Carried' /\ Written' /\ \A e \in Onward' : e \in RunEvents /\ append'[e] = "offered"
  BY DEF Traced
<1>3. ASSUME UNCHANGED <<append, file, short, synced, entry>>, Passed,
             \/ UNCHANGED folder /\ (up' # "gone" => up # "gone")
             \/ folder = "made" /\ folder' = "kept"
      PROVE  Carried' /\ Written' /\ \A e \in Onward' : e \in RunEvents /\ append'[e] = "offered"
  BY <1>1, <1>3 DEF Passed, Written, Lines, IsLine
<1>4. ASSUME NEW e \in RunEvents,
             Trail!Write(e) \/ Trail!Sync(e) \/ Trail!SyncDirectory(e) \/ Trail!Fail(e)
      PROVE  Carried' /\ Written' /\ \A o \in Onward' : o \in RunEvents /\ append'[o] = "offered"
  <2>1. /\ Written' /\ UNCHANGED logVars
        /\ \A o \in RunEvents : append[o] = "offered" => append'[o] = "offered"
    BY <1>1, <1>4, AppendWritten
  <2>2. Carried' /\ Onward' = Onward
    BY <1>1, <2>1 DEF logVars, Carried, Onward
  <2> QED
    BY <1>1, <2>1, <2>2
<1>5. ASSUME NEW e \in RunEvents, Trail!Publish(e)
      PROVE  Carried' /\ Written' /\ \A o \in Onward' : o \in RunEvents /\ append'[o] = "offered"
  <2>1. /\ append[e] = "durable" /\ append' = [append EXCEPT ![e] = "offered"]
        /\ UNCHANGED <<folder, file, short, synced, entry, up>>
    BY <1>5 DEF Trail!Publish, Trail!Stage
  <2>2. Carried' /\ Onward' \subseteq Onward \union {e}
    <3>1. CASE Trail!Offer(e)
      BY <1>1, <3>1, OfferPassed
    <3>2. CASE UNCHANGED logVars
      BY <1>1, <3>2 DEF logVars, Carried, Onward
    <3> QED
      BY <1>5, <3>1, <3>2 DEF Trail!Publish, Trail!logVars, logVars
  <2>3. Written'
    BY <1>1, <2>1 DEF Written, Lines, IsLine, Trail!AppendStages
  <2>4. append'[e] = "offered" /\ \A o \in RunEvents : append[o] = "offered" => append'[o] = "offered"
    BY <1>1, <2>1 DEF Written
  <2> QED
    BY <1>1, <2>2, <2>3, <2>4
<1>6. CASE Trail!Over \/ Trail!Crash
  <2>1. /\ Written' /\ Trail!LogsGone
        /\ \A o \in RunEvents : append[o] = "offered" => append'[o] = "offered"
    BY <1>1, <1>6, EndWritten
  <2>2. Passed
    BY <1>1, <2>1, PipelinePassed
  <2> QED
    BY <1>1, <2>1, <2>2 DEF Passed
<1>7. CASE Trail!Shutdown
  <2>1. UNCHANGED <<folder, append, file, short, synced, entry>> /\ up = "up" /\ Trail!Close
    BY <1>7 DEF Trail!Shutdown, Trail!trail
  <2> QED
    BY <1>1, <1>3, <2>1, PipelinePassed
<1>8. CASE \/ Trail!ExportSteps /\ Trail!Logs
           \/ Trail!Interval /\ Trail!Logs
           \/ Trail!Expire /\ Trail!Logs
           \/ (\E b \in transit : Trail!Arrive(b)) /\ UNCHANGED <<Trail!trail, up>>
  <2>1. UNCHANGED <<folder, append, file, short, synced, entry, up>>
    BY <1>8 DEF Trail!Logs, Trail!trail
  <2> QED
    BY <1>1, <1>3, <1>8, <2>1, PipelinePassed
<1>9. CASE Trail!WriteBack
  <2>1. /\ UNCHANGED <<append, file, short, synced, entry>> /\ UNCHANGED logVars
        /\ folder = "made" /\ folder' = "kept"
    BY <1>9 DEF Trail!WriteBack, Trail!Elsewhere, Trail!logVars, logVars
  <2>2. Passed
    BY <1>1, <2>1 DEF logVars, Passed, Carried, Onward
  <2> QED
    BY <1>3, <2>1, <2>2
<1> QED
  BY <1>4, <1>5, <1>6, <1>7, <1>8, <1>9 DEF Trail!Next

LEMMA TracedNext == Traced /\ [Next]_vars => Traced'
<1> SUFFICES ASSUME Traced, [Next]_vars PROVE Traced'
  OBVIOUS
<1>1. part' = part
  BY DEF Next, vars, Worker!Next
<1>2. CASE part = "trail" /\ Trail!Next
  BY <1>1, <1>2, TrailTraced
<1>3. CASE part # "trail"
  BY <1>1, <1>3 DEF Traced
<1>4. CASE UNCHANGED vars
  <2>1. UNCHANGED <<part, folder, append, file, short, synced, entry, up, queue, batch, transit, collector>>
    BY <1>4 DEF vars, storeVars, trailOnly, logVars
  <2> QED
    BY <2>1 DEF Traced, Carried, Written, Lines, IsLine, Onward
<1> QED
  BY <1>2, <1>3, <1>4 DEF Next

(* An append of appendRunEvent that has returned survives a crash, and the  *)
(* collector knows no event that a crash could take out of the run's log:   *)
(* the event is offered when its line and the log's name in its directory   *)
(* are synced, however many appends run beside it (fs-store.ts).  Both up   *)
(* to what the disk did not take of a line, and once the log's directory is *)
(* on the disk.                                                             *)
THEOREM TrailIsDurable ==
    Spec => [](part = "trail" => Trail!AcknowledgedLinesSurvive /\ Trail!ExportedIsDurable)
<1>1. Traced => (part = "trail" => Trail!AcknowledgedLinesSurvive /\ Trail!ExportedIsDurable)
  <2> SUFFICES ASSUME Traced, part = "trail"
               PROVE  Trail!AcknowledgedLinesSurvive /\ Trail!ExportedIsDurable
    OBVIOUS
  <2>1. \A e \in RunEvents : append[e] \in {"durable", "offered"} => Trail!Survives(e)
    BY DEF Traced, Written, IsLine, Trail!Survives
  <2>2. \A e \in collector : e \in RunEvents /\ append[e] = "offered"
    BY DEF Traced, Onward
  <2> QED
    BY <2>1, <2>2 DEF Trail!AcknowledgedLinesSurvive, Trail!ExportedIsDurable
<1> QED
  BY <1>1, TracedInit, TracedNext, PTL DEF Spec

-----------------------------------------------------------------------------
(* The records of the log pipeline.  Each is waiting once, in the batch, or *)
(* settled; the drain forgets a batch only when it was released.            *)

LEMMA SameCount ==
    /\ \A S : Logs!Cardinality(S) = Cardinality(S)
    /\ \A S : Logs!IsFiniteSet(S) = IsFiniteSet(S)
  BY DEF Logs!Cardinality, Cardinality, Logs!IsFiniteSet, IsFiniteSet

Distinct(s) == \A i, j \in 1..Len(s) : s[i] = s[j] => i = j
Waiting == Logs!ToSet(queue) \union Logs!InFlight
Losers(f, r) == {e \in Records : f[e] = r}

Placed ==
    /\ queue \in Seq(Records) /\ Distinct(queue)
    /\ batch \in [of : SUBSET Records, released : BOOLEAN]
    /\ Logs!ToSet(queue) \cap Logs!InFlight = {}
    /\ records = Len(queue) + Cardinality(Logs!InFlight)

Draining ==
    /\ drain \in [pc : {"idle", "top", "wait", "backoff"}, attempt : Nat, aborted : BOOLEAN,
                  answer : SUBSET SUBSET Records]
    /\ drain.pc \in {"idle", "top"} => batch.released
    /\ drain.pc = "wait" => drain.answer \subseteq SUBSET batch.of
    /\ drain.pc = "backoff" => drain.answer = {}

Tallied ==
    /\ lost \in [Logs!Reasons -> Nat]
    /\ \A r \in Logs!Reasons : lost[r] = Cardinality(Losers(fate, r))

Known ==
    /\ fate \in [Records -> Logs!Reasons \union {"new", "queued", "acked"}]
    /\ \A e \in Records : fate[e] = "queued" <=> e \in Waiting

Accounted == Placed /\ Draining /\ Tallied /\ Known

(* Some records are lost for a reason, others are settled without a loss.   *)
Moved(f, g, es, reason) ==
    /\ es \subseteq Records /\ \A e \in es : f[e] \notin Logs!Reasons /\ g[e] = reason
    /\ \A e \in Records \ es :
          g[e] = f[e] \/ (f[e] \notin Logs!Reasons /\ g[e] \notin Logs!Reasons)

LEMMA MoreLosers ==
    ASSUME IsFiniteSet(Records), NEW f, NEW g, NEW es, NEW reason,
           Moved(f, g, es, reason),
           NEW r \in Logs!Reasons
    PROVE  /\ Cardinality(Losers(f, r)) \in Nat /\ Cardinality(es) \in Nat
           /\ Cardinality(Losers(g, r))
              = IF r = reason THEN Cardinality(Losers(f, r)) + Cardinality(es) ELSE Cardinality(Losers(f, r))
<1>1. IsFiniteSet(es) /\ IsFiniteSet(Losers(f, r))
  BY FS_Subset DEF Losers, Moved
<1>2. Cardinality(Losers(f, r)) \in Nat /\ Cardinality(es) \in Nat
  BY <1>1, FS_CardinalityType
<1>3. CASE r = reason
  <2>1. Losers(g, r) = Losers(f, r) \union es /\ Losers(f, r) \cap es = {}
    BY <1>3 DEF Losers, Moved
  <2>2. Cardinality(Losers(f, r) \cap es) = 0
    BY <2>1, FS_EmptySet
  <2>3. Cardinality(Losers(f, r) \union es)
        = Cardinality(Losers(f, r)) + Cardinality(es) - Cardinality(Losers(f, r) \cap es)
    BY <1>1, FS_Union
  <2> QED
    BY <1>2, <1>3, <2>1, <2>2, <2>3
<1>4. CASE r # reason
  <2>1. Losers(g, r) = Losers(f, r)
    BY <1>4 DEF Losers, Moved
  <2> QED
    BY <1>2, <1>4, <2>1
<1> QED
  BY <1>3, <1>4

(* The first records of a queue are as many as they are places.             *)
LEMMA HeadCounts ==
    ASSUME NEW s \in Seq(Records), Distinct(s), NEW n \in 0..Len(s)
    PROVE  Cardinality(Logs!ToSet(SubSeq(s, 1, n))) = n
<1> DEFINE T == Logs!ToSet(SubSeq(s, 1, n))
           f == [i \in 1..n |-> s[i]]
<1>1. T = {s[i] : i \in 1..n}
  <2>1. SubSeq(s, 1, n) \in Seq(Records) /\ Len(SubSeq(s, 1, n)) = n
        /\ \A i \in 1..n : SubSeq(s, 1, n)[i] = s[i]
    BY Beginning
  <2>2. DOMAIN SubSeq(s, 1, n) = 1..n
    BY <2>1
  <2> QED
    BY <2>1, <2>2 DEF Logs!ToSet
<1>2. f \in Bijection(1..n, T)
  BY <1>1 DEF Bijection, Injection, Surjection, IsInjective, Distinct
<1>3. IsFiniteSet(1..n) /\ Cardinality(1..n) = n
  BY FS_Interval
<1> QED
  BY <1>2, <1>3, FS_Bijection DEF ExistsBijection

LEMMA OfferAccounted ==
    ASSUME IsFiniteSet(Records), Accounted, NEW e \in Records, fate[e] = "new", Logs!Offer(e)
    PROVE  Accounted'
<1>1. /\ Placed /\ Draining /\ Tallied /\ Known
      /\ e \notin Waiting /\ fate[e] \notin Logs!Reasons
  BY DEF Accounted, Known, Logs!Reasons
<1>2. UNCHANGED batch /\ Logs!InFlight' = Logs!InFlight
  BY DEF Logs!Offer, Logs!InFlight
<1>3. CASE UNCHANGED <<queue, records, drain, lost, fate>>
  BY <1>1, <1>2, <1>3 DEF Accounted, Placed, Draining, Tallied, Known, Waiting
<1>4. ASSUME NEW reason \in Logs!Reasons, Logs!Lose({e}, reason), UNCHANGED <<queue, records, drain>>
      PROVE  Accounted'
  <2>1. /\ lost' = [lost EXCEPT ![reason] = @ + 1]
        /\ fate' = [o \in Records |-> IF o \in {e} THEN reason ELSE fate[o]]
    BY <1>4, SameCount, FS_Singleton DEF Logs!Lose
  <2>2. \A r \in Logs!Reasons :
           /\ Cardinality(Losers(fate, r)) \in Nat
           /\ Cardinality(Losers(fate', r))
              = IF r = reason THEN Cardinality(Losers(fate, r)) + 1 ELSE Cardinality(Losers(fate, r))
    <3> TAKE r \in Logs!Reasons
    <3>1. Cardinality({e}) = 1
      BY FS_Singleton
    <3>2. Moved(fate, fate', {e}, reason)
      BY <1>1, <2>1 DEF Moved
    <3> QED
      BY <3>1, <3>2, MoreLosers
  <2>3. Tallied'
    BY <1>1, <2>1, <2>2 DEF Tallied
  <2>4. Waiting' = Waiting
    BY <1>2, <1>4 DEF Waiting
  <2>5. Known'
    BY <1>1, <2>1, <2>4 DEF Known, Logs!Reasons
  <2>6. Placed' /\ Draining'
    BY <1>1, <1>2, <1>4 DEF Placed, Draining
  <2> QED
    BY <2>3, <2>5, <2>6 DEF Accounted
<1>5. CASE /\ queue' = Append(queue, e) /\ records' = records + 1
           /\ fate' = [fate EXCEPT ![e] = "queued"]
           /\ drain' = (IF Len(queue') >= BatchLimit THEN Logs!Started(drain) ELSE drain)
           /\ UNCHANGED lost
  <2>1. /\ queue \in Seq(Records) /\ Distinct(queue) /\ e \notin Logs!ToSet(queue) /\ e \notin Logs!InFlight
    BY <1>1 DEF Placed, Waiting
  <2>2. \A i \in 1..Len(queue) : queue[i] # e
    BY <2>1 DEF Logs!ToSet
  <2>3. /\ queue' \in Seq(Records) /\ Len(queue') = Len(queue) + 1 /\ Distinct(queue')
        /\ Logs!ToSet(queue') = Logs!ToSet(queue) \union {e}
    BY <1>5, <2>1, <2>2 DEF Distinct, Logs!ToSet
  <2>4. Placed'
    <3>1. Cardinality(Logs!InFlight') = Cardinality(Logs!InFlight) /\ Logs!ToSet(queue') \cap Logs!InFlight' = {}
      BY <1>1, <1>2, <2>1, <2>3 DEF Placed
    <3>2. Cardinality(Logs!InFlight) \in Nat
      <4>1. Logs!InFlight \in SUBSET Records
        BY <1>1 DEF Placed, Logs!InFlight
      <4> QED
        BY <4>1, FS_Subset, FS_CardinalityType
    <3> QED
      BY <1>1, <1>2, <1>5, <2>3, <3>1, <3>2 DEF Placed
  <2>5. Draining'
    <3>1. drain' = drain \/ (drain.pc = "idle" /\ drain' = [drain EXCEPT !.pc = "top"])
      BY <1>5 DEF Logs!Started
    <3> QED
      BY <1>1, <1>2, <3>1 DEF Draining
  <2>6. Tallied'
    <3>1. \A r \in Logs!Reasons : Losers(fate', r) = Losers(fate, r)
      BY <1>1, <1>5 DEF Losers, Known, Logs!Reasons
    <3> QED
      BY <1>1, <1>5, <3>1 DEF Tallied
  <2>7. Known'
    <3>1. Waiting' = Waiting \union {e}
      BY <1>2, <2>3 DEF Waiting
    <3> QED
      BY <1>1, <1>5, <3>1 DEF Known, Logs!Reasons
  <2> QED
    BY <2>4, <2>5, <2>6, <2>7 DEF Accounted
<1>6. {"mapping", "queue_full"} \subseteq Logs!Reasons
  BY DEF Logs!Reasons
<1> QED
  BY <1>3, <1>4, <1>5, <1>6 DEF Logs!Offer

(* The drain takes the head of the queue: nothing is lost or found.         *)
LEMMA HeadAccounted ==
    ASSUME IsFiniteSet(Records), BatchLimit \in Nat \ {0}, Accounted, Logs!NextBatch
    PROVE  Accounted'
<1>1. Placed /\ Draining /\ Tallied /\ Known /\ drain.pc = "top" /\ batch.released
  BY DEF Accounted, Draining, Logs!NextBatch
<1>2. Logs!InFlight = {} /\ UNCHANGED <<records, lost, fate>>
  BY <1>1 DEF Logs!InFlight, Logs!NextBatch
<1>3. CASE queue = <<>> \/ drain.aborted
  <2>1. drain' = [pc |-> "idle", attempt |-> 0, aborted |-> FALSE, answer |-> {}]
        /\ UNCHANGED <<queue, batch, records, lost, fate>>
    BY <1>2, <1>3 DEF Logs!NextBatch, Logs!Idle
  <2>2. Draining'
    BY <1>1, <2>1 DEF Draining
  <2> QED
    BY <1>1, <2>1, <2>2 DEF Accounted, Placed, Tallied, Known, Waiting, Logs!InFlight
<1>4. CASE queue # <<>> /\ ~drain.aborted
  <2> DEFINE n == Logs!Min({BatchLimit, Len(queue)})
             head == SubSeq(queue, 1, n)
             rest == SubSeq(queue, n + 1, Len(queue))
  <2>1. queue \in Seq(Records) /\ Distinct(queue) /\ Len(queue) \in Nat /\ Len(queue) >= 1
    BY <1>1, <1>4 DEF Placed
  <2>2. n \in 1..Len(queue)
    BY <2>1 DEF Logs!Min
  <2>3. /\ batch' = [of |-> Logs!ToSet(head), released |-> FALSE] /\ queue' = rest
        /\ drain' = [drain EXCEPT !.pc = "wait", !.attempt = 1, !.answer = {}]
    BY <1>4 DEF Logs!NextBatch
  <2> HIDE DEF n
  <2>4. head \in Seq(Records) /\ Len(head) = n /\ \A i \in 1..n : head[i] = queue[i]
    BY <2>1, <2>2, Beginning
  <2>5. /\ rest \in Seq(Records) /\ Len(rest) = Len(queue) - n
        /\ \A i \in 1..(Len(queue) - n) : rest[i] = queue[n + i]
    BY <2>1, <2>2
  <2> HIDE DEF head, rest
  <2>6. Logs!ToSet(head) = {queue[i] : i \in 1..n}
    BY <2>4 DEF Logs!ToSet
  <2>7. Logs!ToSet(rest) = {queue[i] : i \in (n + 1)..Len(queue)}
    <3>1. ASSUME NEW x \in Logs!ToSet(rest) PROVE x \in {queue[i] : i \in (n + 1)..Len(queue)}
      <4>1. PICK i \in 1..(Len(queue) - n) : x = rest[i]
        BY <2>1, <2>2, <2>5, <3>1 DEF Logs!ToSet
      <4>2. n + i \in (n + 1)..Len(queue) /\ x = queue[n + i]
        BY <2>1, <2>2, <2>5, <4>1
      <4> QED
        BY <4>2
    <3>2. ASSUME NEW i \in (n + 1)..Len(queue) PROVE queue[i] \in Logs!ToSet(rest)
      <4>1. i - n \in 1..Len(rest) /\ rest[i - n] = queue[i]
        BY <2>1, <2>2, <2>5
      <4> QED
        BY <2>5, <4>1 DEF Logs!ToSet
    <3> QED
      BY <3>1, <3>2
  <2>8. Logs!ToSet(queue) = {queue[i] : i \in 1..Len(queue)}
    BY <2>1 DEF Logs!ToSet
  <2>9. /\ Logs!ToSet(head) \cap Logs!ToSet(rest) = {}
        /\ Logs!ToSet(head) \union Logs!ToSet(rest) = Logs!ToSet(queue)
    BY <2>1, <2>2, <2>6, <2>7, <2>8 DEF Distinct
  <2>10. Logs!ToSet(head) \in SUBSET Records
    BY <2>4 DEF Logs!ToSet
  <2>11. Logs!InFlight' = Logs!ToSet(head)
    BY <2>3 DEF Logs!InFlight
  <2>12. Cardinality(Logs!ToSet(head)) = n
    BY <2>1, <2>2, HeadCounts DEF head
  <2>13. Placed'
    <3>1. Distinct(rest)
      BY <2>1, <2>2, <2>5 DEF Distinct
    <3>2. batch' \in [of : SUBSET Records, released : BOOLEAN]
      BY <2>3, <2>10
    <3>3. records = Len(queue)
      <4>1. Cardinality(Logs!InFlight) = 0
        BY <1>2, FS_EmptySet
      <4> QED
        BY <1>1, <2>1, <4>1 DEF Placed
    <3>4. records' = Len(queue') + Cardinality(Logs!InFlight')
      BY <1>2, <2>1, <2>2, <2>3, <2>5, <2>11, <2>12, <3>3
    <3> QED
      BY <2>3, <2>5, <2>9, <2>11, <3>1, <3>2, <3>4 DEF Placed
  <2>14. Draining'
    BY <1>1, <2>3 DEF Draining
  <2>15. Waiting' = Waiting
    BY <1>2, <2>3, <2>9, <2>11 DEF Waiting
  <2> QED
    BY <1>1, <1>2, <2>13, <2>14, <2>15 DEF Accounted, Tallied, Known
<1> QED
  BY <1>3, <1>4

(* A batch is settled once, whatever ends it.                               *)
LEMMA ReturnAccounted ==
    ASSUME IsFiniteSet(Records), Accounted, drain.pc \in {"wait", "backoff"},
           NEW reason \in Logs!Reasons \union {"acked"}, NEW es \in SUBSET batch.of,
           reason = "acked" => es = {}, Logs!Returns(reason, es)
    PROVE  Accounted'
<1>1. /\ Placed /\ Draining /\ Tallied /\ Known /\ "acked" \notin Logs!Reasons
      /\ "queued" \notin Logs!Reasons
  BY DEF Accounted, Logs!Reasons
<1>2. /\ batch' = [of |-> {}, released |-> TRUE] /\ drain' = [drain EXCEPT !.pc = "top"]
      /\ UNCHANGED queue /\ Logs!Release(reason, es) /\ Logs!InFlight' = {}
  BY DEF Logs!Returns, Logs!NoBatch, Logs!InFlight
<1>3. Draining'
  BY <1>1, <1>2 DEF Draining
<1>4. CASE batch.released
  <2>1. Logs!InFlight = {} /\ UNCHANGED <<records, lost, fate>>
    BY <1>2, <1>4 DEF Logs!Release, Logs!InFlight
  <2>2. Waiting' = Waiting /\ Placed'
    BY <1>1, <1>2, <2>1 DEF Placed, Waiting
  <2> QED
    BY <1>1, <1>3, <2>1, <2>2 DEF Accounted, Tallied, Known
<1>5. CASE ~batch.released
  <2>1. /\ Logs!InFlight = batch.of /\ batch.of \in SUBSET Records
        /\ records' = records - Cardinality(batch.of)
        /\ lost' = (IF reason = "acked" THEN lost
                    ELSE [lost EXCEPT ![reason] = @ + Cardinality(es)])
        /\ fate' = [e \in Records |-> IF e \in es THEN reason
                                      ELSE IF e \in batch.of THEN "acked" ELSE fate[e]]
    BY <1>1, <1>2, <1>5, SameCount DEF Logs!Release, Logs!InFlight, Placed
  <2>2. \A e \in batch.of : fate[e] = "queued" /\ fate[e] \notin Logs!Reasons
    BY <1>1, <2>1 DEF Known, Waiting
  <2>3. Placed'
    <3>1. Cardinality(batch.of) \in Nat /\ Cardinality({}) = 0
      BY <2>1, FS_Subset, FS_CardinalityType, FS_EmptySet
    <3>2. records' = Len(queue') + Cardinality(Logs!InFlight')
      BY <1>1, <1>2, <2>1, <3>1 DEF Placed
    <3> QED
      BY <1>1, <1>2, <3>2 DEF Placed
  <2>4. Tallied'
    <3>1. ASSUME NEW r \in Logs!Reasons PROVE
             /\ Cardinality(Losers(fate, r)) \in Nat /\ Cardinality(es) \in Nat
             /\ Cardinality(Losers(fate', r))
                = IF r = reason THEN Cardinality(Losers(fate, r)) + Cardinality(es) ELSE Cardinality(Losers(fate, r))
      <4>1. Moved(fate, fate', es, reason)
        BY <1>1, <2>1, <2>2 DEF Moved
      <4> QED
        BY <4>1, MoreLosers
    <3>2. CASE reason = "acked"
      BY <1>1, <2>1, <3>1, <3>2 DEF Tallied
    <3>3. CASE reason # "acked"
      BY <1>1, <2>1, <3>1, <3>3 DEF Tallied
    <3> QED
      BY <3>2, <3>3
  <2>5. Known'
    <3>1. Waiting' = Waiting \ batch.of
      BY <1>1, <1>2, <2>1 DEF Waiting, Placed
    <3>2. fate' \in [Records -> Logs!Reasons \union {"new", "queued", "acked"}]
      BY <1>1, <2>1 DEF Known
    <3>3. \A e \in Records : e \in batch.of => fate'[e] # "queued"
      BY <1>1, <2>1
    <3>4. \A e \in Records : e \notin batch.of => fate'[e] = fate[e]
      BY <2>1
    <3> QED
      BY <1>1, <3>1, <3>2, <3>3, <3>4 DEF Known
  <2> QED
    BY <1>3, <2>3, <2>4, <2>5 DEF Accounted
<1> QED
  BY <1>4, <1>5

(* The deadline: what waits and what is in flight is lost, each once.       *)
LEMMA ExpireAccounted ==
    ASSUME IsFiniteSet(Records), Accounted, Logs!Expire
    PROVE  Accounted'
<1>1. /\ Placed /\ Draining /\ Tallied /\ Known /\ "shutdown" \in Logs!Reasons
      /\ "queued" \notin Logs!Reasons
  BY DEF Accounted, Logs!Reasons
<1>2. Logs!ToSet(queue) \in SUBSET Records
  BY <1>1 DEF Placed, Logs!ToSet
<1>3. Waiting \in SUBSET Records
  BY <1>1, <1>2 DEF Placed, Waiting, Logs!InFlight
<1>4. /\ lost' = [lost EXCEPT !["shutdown"] = @ + Cardinality(Waiting)]
      /\ fate' = [e \in Records |-> IF e \in Waiting THEN "shutdown" ELSE fate[e]]
  BY SameCount DEF Logs!Expire, Logs!Lose, Waiting, Logs!InFlight
<1>5. /\ batch' = [batch EXCEPT !.released = TRUE] /\ queue' = <<>> /\ records' = 0
      /\ drain' = [drain EXCEPT !.aborted = @ \/ drain.pc # "idle"]
  BY DEF Logs!Expire
<1>6. /\ batch' \in [of : SUBSET Records, released : BOOLEAN] /\ batch'.of = batch.of
      /\ batch'.released
  BY <1>1, <1>5 DEF Placed
<1>7. Logs!InFlight' = {} /\ Logs!ToSet(<<>>) = {} /\ Cardinality({}) = 0
  BY <1>6, FS_EmptySet DEF Logs!InFlight, Logs!ToSet
<1>8. Placed'
  BY <1>5, <1>6, <1>7 DEF Placed, Distinct
<1>9. Draining'
  <2>1. drain' \in [pc : {"idle", "top", "wait", "backoff"}, attempt : Nat, aborted : BOOLEAN,
                    answer : SUBSET SUBSET Records]
        /\ drain'.pc = drain.pc /\ drain'.answer = drain.answer
    BY <1>1, <1>5 DEF Draining
  <2> QED
    BY <1>1, <1>6, <2>1 DEF Draining
<1>10. Tallied'
  <2>1. ASSUME NEW r \in Logs!Reasons PROVE
           /\ Cardinality(Losers(fate, r)) \in Nat /\ Cardinality(Waiting) \in Nat
           /\ Cardinality(Losers(fate', r))
              = IF r = "shutdown" THEN Cardinality(Losers(fate, r)) + Cardinality(Waiting)
                                  ELSE Cardinality(Losers(fate, r))
    <3>1. Moved(fate, fate', Waiting, "shutdown")
      BY <1>1, <1>3, <1>4 DEF Moved, Known
    <3> QED
      BY <3>1, MoreLosers
  <2> QED
    BY <1>1, <1>4, <2>1 DEF Tallied
<1>11. Known'
  <2>1. Waiting' = {}
    BY <1>5, <1>7 DEF Waiting
  <2>2. fate' \in [Records -> Logs!Reasons \union {"new", "queued", "acked"}]
    BY <1>1, <1>4 DEF Known
  <2>3. \A e \in Records : fate'[e] # "queued"
    BY <1>1, <1>4 DEF Known
  <2> QED
    BY <2>1, <2>2, <2>3 DEF Known
<1> QED
  BY <1>8, <1>9, <1>10, <1>11 DEF Accounted

(* The steps that move no record.                                           *)
LEMMA QuietAccounted ==
    ASSUME Accounted, UNCHANGED <<queue, records, batch, lost, fate>>, Draining'
    PROVE  Accounted'
  BY DEF Accounted, Placed, Tallied, Known, Waiting, Logs!InFlight

LEMMA LogsAccounted ==
    ASSUME IsFiniteSet(Records), BatchLimit \in Nat \ {0}, Accounted, Logs!LogNext
    PROVE  Accounted'
<1>1. Draining /\ batch.of \in SUBSET Records
  BY DEF Accounted, Placed
<1>2. CASE \E e \in Records : fate[e] = "new" /\ Logs!Offer(e)
  BY <1>2, OfferAccounted
<1>3. CASE Logs!NextBatch
  BY <1>3, HeadAccounted
<1>4. CASE Logs!Accepted
  <2>1. PICK refused \in drain.answer :
           drain.pc = "wait" /\ Logs!Returns(IF refused = {} THEN "acked" ELSE "partial", refused)
    BY <1>4 DEF Logs!Accepted
  <2>2. refused \in SUBSET batch.of
    <3>1. drain.answer \subseteq SUBSET batch.of
      BY <1>1, <2>1 DEF Draining
    <3> QED
      BY <3>1
  <2>3. CASE refused = {}
    <3>1. Logs!Returns("acked", refused)
      BY <2>1, <2>3
    <3> QED
      BY <2>1, <2>2, <2>3, <3>1, ReturnAccounted
  <2>4. CASE refused # {}
    <3>1. Logs!Returns("partial", refused) /\ "partial" \in Logs!Reasons /\ "partial" # "acked"
      BY <2>1, <2>4 DEF Logs!Reasons
    <3> QED
      BY <2>1, <2>2, <3>1, ReturnAccounted
  <2> QED
    BY <2>3, <2>4
<1>5. CASE Logs!Refused \/ Logs!GiveUp \/ Logs!Aborted
  <2>1. PICK reason \in {"permanent", "timeout", "shutdown"} :
           drain.pc \in {"wait", "backoff"} /\ Logs!Returns(reason, batch.of)
    BY <1>5 DEF Logs!Refused, Logs!GiveUp, Logs!Aborted
  <2>2. reason \in Logs!Reasons /\ reason # "acked" /\ batch.of \in SUBSET batch.of
    BY DEF Logs!Reasons
  <2> QED
    BY <2>1, <2>2, ReturnAccounted
<1>6. CASE Logs!Transient \/ Logs!Retry
  <2>1. /\ UNCHANGED <<queue, records, batch, lost, fate>>
        /\ \/ drain' = [drain EXCEPT !.pc = "backoff", !.answer = {}]
           \/ drain.pc = "backoff" /\ drain' = [drain EXCEPT !.pc = "wait", !.attempt = @ + 1]
    BY <1>6 DEF Logs!Transient, Logs!Retry
  <2>2. Draining'
    <3>1. CASE drain' = [drain EXCEPT !.pc = "backoff", !.answer = {}]
      <4>1. {} \in SUBSET SUBSET Records
        OBVIOUS
      <4>2. drain'.pc = "backoff" /\ drain'.answer = {}
        BY <1>1, <3>1 DEF Draining
      <4>3. drain' \in [pc : {"idle", "top", "wait", "backoff"}, attempt : Nat, aborted : BOOLEAN,
                        answer : SUBSET SUBSET Records]
        BY <1>1, <3>1, <4>1 DEF Draining
      <4> QED
        BY <4>2, <4>3 DEF Draining
    <3>2. CASE drain.pc = "backoff" /\ drain' = [drain EXCEPT !.pc = "wait", !.attempt = @ + 1]
      <4>1. drain'.pc = "wait" /\ drain'.answer = {}
        BY <1>1, <3>2 DEF Draining
      <4>2. drain' \in [pc : {"idle", "top", "wait", "backoff"}, attempt : Nat, aborted : BOOLEAN,
                        answer : SUBSET SUBSET Records]
        <5>1. drain' = [pc |-> "wait", attempt |-> drain.attempt + 1, aborted |-> drain.aborted,
                        answer |-> drain.answer]
          BY <1>1, <3>2 DEF Draining
        <5>2. drain.attempt + 1 \in Nat /\ drain.aborted \in BOOLEAN /\ drain.answer \in SUBSET SUBSET Records
          BY <1>1 DEF Draining
        <5> QED
          BY <5>1, <5>2
      <4> QED
        BY <4>1, <4>2 DEF Draining
    <3> QED
      BY <2>1, <3>1, <3>2
  <2> QED
    BY <2>1, <2>2, QuietAccounted
<1>7. CASE Logs!FlushTurns \/ Logs!Interval \/ Logs!Close
  <2>1. /\ UNCHANGED <<queue, records, batch, lost, fate>>
        /\ drain' = drain \/ (drain.pc = "idle" /\ drain' = [drain EXCEPT !.pc = "top"])
    BY <1>7 DEF Logs!FlushTurns, Logs!Interval, Logs!Close, Logs!Started
  <2>2. Draining'
    BY <1>1, <2>1 DEF Draining
  <2> QED
    BY <2>1, <2>2, QuietAccounted
<1>8. CASE Logs!Expire
  BY <1>8, ExpireAccounted
<1>9. ASSUME NEW b \in transit, Logs!Arrive(b) PROVE Accounted'
  <2>1. PICK refused \in SUBSET b :
           drain' = IF drain.pc = "wait" /\ b = batch.of THEN [drain EXCEPT !.answer = {refused}] ELSE drain
    BY <1>9 DEF Logs!Arrive
  <2>2. UNCHANGED <<queue, records, batch, lost, fate>>
    BY <1>9 DEF Logs!Arrive
  <2>3. CASE drain' = drain
    BY <1>1, <2>2, <2>3, QuietAccounted DEF Draining
  <2>4. CASE drain.pc = "wait" /\ b = batch.of /\ drain' = [drain EXCEPT !.answer = {refused}]
    <3>1. {refused} \in SUBSET SUBSET Records /\ {refused} \subseteq SUBSET batch.of
      BY <1>1, <2>4
    <3>2. Draining'
      BY <1>1, <2>2, <2>4, <3>1 DEF Draining
    <3> QED
      BY <2>2, <3>2, QuietAccounted
  <2> QED
    BY <2>1, <2>3, <2>4
<1> QED
  BY <1>2, <1>3, <1>4, <1>5, <1>6, <1>7, <1>8, <1>9 DEF Logs!LogNext, Logs!ExportSteps

LEMMA AccountedInit ==
    ASSUME RunAssumption, Init, part = "logs"
    PROVE  Accounted /\ IsFiniteSet(Records) /\ BatchLimit \in Nat \ {0}
<1>1. IsFiniteSet(Records) /\ BatchLimit \in Nat \ {0}
  BY SameCount DEF RunAssumption, Logs!PipelineAssumption
<1>2. /\ queue = <<>> /\ records = 0 /\ batch = [of |-> {}, released |-> TRUE]
      /\ drain = [pc |-> "idle", attempt |-> 0, aborted |-> FALSE, answer |-> {}]
      /\ lost = [r \in Logs!Reasons |-> 0] /\ fate = [e \in Records |-> "new"]
  BY DEF Init, Logs!LogInit, Logs!NoBatch, Logs!Idle
<1>3. Logs!InFlight = {} /\ Logs!ToSet(<<>>) = {} /\ Cardinality({}) = 0
  BY <1>2, FS_EmptySet DEF Logs!InFlight, Logs!ToSet
<1>4. Placed
  BY <1>2, <1>3 DEF Placed, Distinct
<1>5. Draining
  <2>1. {} \in SUBSET SUBSET Records
    OBVIOUS
  <2> QED
    BY <1>2, <2>1 DEF Draining
<1>6. Tallied
  <2>1. \A r \in Logs!Reasons : Losers(fate, r) = {}
    BY <1>2 DEF Losers, Logs!Reasons
  <2> QED
    BY <1>2, <1>3, <2>1 DEF Tallied
<1>7. Known
  BY <1>2, <1>3 DEF Known, Waiting
<1> QED
  BY <1>1, <1>4, <1>5, <1>6, <1>7 DEF Accounted

(* Every record that was offered to the log pipeline waits, is in flight,   *)
(* was acknowledged or is counted as lost for one reason, once, whatever    *)
(* the deadline of a flush, a late answer and the retries do                *)
(* (BoundedLogProcessor, log-pipeline.ts), and what the metrics publish of  *)
(* the losses is never ahead of them.                                       *)
THEOREM LossesAreCounted ==
    Spec => []((part = "logs" => Logs!LossesAreExact) /\ Metrics!LossesCountedOnce)
<1> DEFINE Inv == part = "logs" => Accounted
<1>1. Init => Inv
  BY RunAssumption, AccountedInit
<1>2. Inv /\ [Next]_vars => Inv'
  <2> SUFFICES ASSUME Inv, [Next]_vars PROVE Inv'
    OBVIOUS
  <2>1. part' = part
    BY DEF Next, vars, Worker!Next
  <2>2. CASE part # "logs"
    BY <2>1, <2>2
  <2>3. CASE part = "logs" /\ Logs!LogNext
    <3>1. IsFiniteSet(Records) /\ BatchLimit \in Nat \ {0}
      BY RunAssumption, SameCount DEF RunAssumption, Logs!PipelineAssumption
    <3> QED
      BY <2>1, <2>3, <3>1, LogsAccounted
  <2>4. CASE UNCHANGED vars
    <3>1. UNCHANGED <<part, queue, records, batch, drain, lost, fate>>
      BY <2>4 DEF vars, storeVars, logVars
    <3> QED
      BY <3>1 DEF Accounted, Placed, Draining, Tallied, Known, Waiting, Logs!InFlight
  <2> QED
    BY <2>2, <2>3, <2>4 DEF Next
<1>3. Inv => (part = "logs" => Logs!LossesAreExact)
  <2> SUFFICES ASSUME Inv, part = "logs" PROVE Logs!LossesAreExact
    OBVIOUS
  <2>1. Placed /\ Tallied /\ Known
    BY DEF Accounted
  <2>2. records = Len(queue) + Logs!Cardinality(Logs!InFlight)
    BY <2>1, SameCount DEF Placed
  <2>3. \A r \in Logs!Reasons : lost[r] = Logs!Cardinality({e \in Records : fate[e] = r})
    BY <2>1, SameCount DEF Tallied, Losers
  <2>4. \A e \in Records : fate[e] = "queued" <=> e \in Logs!ToSet(queue) \union Logs!InFlight
    BY <2>1 DEF Known, Waiting
  <2> QED
    BY <2>2, <2>3, <2>4 DEF Logs!LossesAreExact
<1>4. Spec => []Metrics!LossesCountedOnce
  BY CountersNeverAhead
<1> QED
  BY <1>1, <1>2, <1>3, <1>4, PTL DEF Spec
=============================================================================
