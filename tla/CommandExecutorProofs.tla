------------------------ MODULE CommandExecutorProofs ------------------------
(* What holds of the fleet's commands for any number of projects, commands, *)
(* sessions, processes, failures and crashes: a command takes effect once,  *)
(* what the ledger has settled stays settled, only the agent's own result   *)
(* settles a command as succeeded or failed, and an older command of a      *)
(* project does not act beside a newer one.                                 *)
EXTENDS CommandExecutor, TLAPS

-----------------------------------------------------------------------------
(* The ledger and the journal are well formed.                              *)

LedgerTyped ==
    /\ ledger \in [Commands -> Command]
    /\ submitted \in Nat
    /\ session \in [id : 0..MaxSessions, live : BOOLEAN]

AgentTyped ==
    /\ journal \in [Commands -> Entry]
    /\ mine \in 0..MaxSessions
    /\ stage \in [Commands -> Stages]
    /\ hand \in [Commands -> {"none"} \union Answers]
    /\ proc \in [Projects -> 0..MaxPids] /\ pids \in 0..MaxPids
    /\ invoked \in [Commands -> Nat]

(* What the ledger keeps: a command with an owner has been claimed, no     *)
(* trace is found of a command that was not submitted, and only an opened   *)
(* session is in date.                                                      *)
Unclaimed == {"none", "accepted", "expired"}
Owned(c) == ledger[c].owner # 0
Traced(c) == ledger[c].owner # 0 \/ ledger[c].state # "none" \/ c \in due

LedgerSound ==
    /\ LedgerTyped
    /\ session.live => session.id # 0
    /\ \A c \in Commands :
          /\ Owned(c) => ledger[c].state \notin Unclaimed
          /\ Traced(c) => c <= submitted

(* Every operation of the ledger keeps it, and takes no owner away.         *)
LedgerKept == LedgerSound' /\ \A c \in Commands : Owned(c) => Owned(c)'

LEMMA LapsedOne ==
    ASSUME NEW rec \in Command
    PROVE  /\ Lapsed(rec) \in Command /\ Lapsed(rec).owner = rec.owner
           /\ Lapsed(rec).state \notin {"none", "accepted"}
           /\ rec.state \notin Unclaimed => Lapsed(rec).state \notin Unclaimed
  BY DEF Lapsed, Command, Terminal, Unclaimed

LEMMA InvalidatedOne ==
    ASSUME NEW rec \in Command
    PROVE  /\ Invalidated(rec) \in Command /\ Invalidated(rec).owner = rec.owner
           /\ Invalidated(rec).state # "none" => rec.state # "none"
           /\ rec.state \notin Unclaimed => Invalidated(rec) = rec
  BY DEF Invalidated, Command, Terminal, Unclaimed

LEMMA SeenOne ==
    ASSUME LedgerSound, NEW c \in Commands
    PROVE  /\ Seen(c) \in Command /\ Seen(c).owner = ledger[c].owner
           /\ Seen(c).state = "accepted" => ledger[c].state = "accepted"
           /\ Owned(c) => Seen(c).state \notin Unclaimed
           /\ Seen(c).state # "none" => Traced(c) /\ c <= submitted
<1>1. ledger[c] \in Command
  BY DEF LedgerSound, LedgerTyped
<1> QED
  BY <1>1, LapsedOne DEF Seen, LedgerSound, Owned, Traced

(* One record replaced by one that is as sound.                             *)
LEMMA PutKeeps ==
    ASSUME LedgerSound, NEW c \in Commands, NEW rec \in Command,
           Put(c, rec), UNCHANGED <<submitted, session>>,
           rec.owner # 0 => rec.state \notin Unclaimed,
           rec.state # "none" => c <= submitted,
           Owned(c) => rec.owner # 0
    PROVE  LedgerKept
<1>1. ledger' \in [Commands -> Command] /\ ledger'[c] = rec
  BY DEF Put, LedgerSound, LedgerTyped
<1>2. \A d \in Commands : d # c => ledger'[d] = ledger[d]
  BY DEF Put, LedgerSound, LedgerTyped
<1>3. LedgerTyped'
  BY <1>1 DEF LedgerSound, LedgerTyped
<1>4. due' = due \ {c} /\ submitted' = submitted /\ session' = session
  BY DEF Put
<1>5. \A d \in Commands : /\ Owned(d)' => ledger'[d].state \notin Unclaimed
                          /\ Owned(d) => Owned(d)'
  BY <1>1, <1>2 DEF LedgerSound, Owned
<1>6. \A d \in Commands : Traced(d)' => d <= submitted'
  BY <1>1, <1>2, <1>4 DEF LedgerSound, Traced, Unclaimed
<1> QED
  BY <1>3, <1>4, <1>5, <1>6 DEF LedgerKept, LedgerSound

(* Every record replaced by one with the same owner and as sound.           *)
LEMMA AllKept ==
    ASSUME LedgerSound, NEW L \in [Commands -> Command], ledger' = L,
           UNCHANGED submitted, due' \subseteq due,
           session' \in [id : 0..MaxSessions, live : BOOLEAN],
           session'.live => session'.id # 0,
           \A c \in Commands : /\ L[c].owner = ledger[c].owner
                               /\ Owned(c) => L[c].state \notin Unclaimed
                               /\ L[c].state # "none" => Traced(c)
    PROVE  LedgerKept
<1>1. \A c \in Commands : /\ Owned(c)' => ledger'[c].state \notin Unclaimed
                          /\ Owned(c) => Owned(c)'
  BY DEF Owned
<1>2. \A c \in Commands : Traced(c)' => c <= submitted'
  BY DEF LedgerSound, Traced
<1> QED
  BY <1>1, <1>2 DEF LedgerKept, LedgerSound, LedgerTyped

LEMMA RecoveredSound ==
    ASSUME LedgerSound
    PROVE  /\ Recovered \in [Commands -> Command]
           /\ \A c \in Commands : /\ Recovered[c].owner = ledger[c].owner
                                  /\ Recovered[c].state = "accepted" => ledger[c].state = "accepted"
                                  /\ Owned(c) => Recovered[c].state \notin Unclaimed
                                  /\ Recovered[c].state # "none" => Traced(c)
  BY SeenOne DEF Recovered

LEMMA RecoverKeeps == ASSUME LedgerSound, Recover PROVE LedgerKept
<1>1. session' \in [id : 0..MaxSessions, live : BOOLEAN] /\ (session'.live => session'.id # 0)
  BY DEF Recover, LedgerSound, LedgerTyped
<1> QED
  BY <1>1, RecoveredSound, AllKept DEF Recover

LEMMA UnchangedKeeps == ASSUME LedgerSound, UNCHANGED ledgerVars PROVE LedgerKept
  BY DEF LedgerKept, LedgerSound, LedgerTyped, Owned, Traced, ledgerVars

-----------------------------------------------------------------------------
(* The ledger's operations, one by one.                                     *)

LEMMA SubmitKeeps ==
    ASSUME LedgerSound, NEW p \in Projects, NEW op \in {"start", "stop"}, Submit(p, op)
    PROVE  LedgerKept
<1> DEFINE n == submitted + 1
           rec == [state |-> "accepted", project |-> p, op |-> op, session |-> session.id,
                   owner |-> 0, closed |-> FALSE]
<1>1. n \in Commands /\ ~Owned(n)
  BY LedgerAssumption DEF Submit, LedgerSound, LedgerTyped, Commands, Owned, Traced
<1>2. rec \in Command
  BY LedgerAssumption DEF LedgerSound, LedgerTyped, Command
<1>3. ledger' = [Recovered EXCEPT ![n] = rec] /\ submitted' = n /\ session' = session
  BY DEF Submit
<1> HIDE DEF n, rec
<1>4. ledger' \in [Commands -> Command] /\ ledger'[n] = rec
      /\ \A c \in Commands : c # n => ledger'[c] = Recovered[c]
  BY <1>1, <1>2, <1>3, RecoveredSound
<1>5. rec.owner = 0
  BY DEF rec
<1>6. \A c \in Commands : ledger'[c].owner = ledger[c].owner
  BY <1>1, <1>4, <1>5, RecoveredSound DEF Owned
<1>7. \A c \in Commands : Owned(c)' => ledger'[c].state \notin Unclaimed
  BY <1>1, <1>4, <1>6, RecoveredSound DEF Owned
<1>9. \A c \in Commands : Traced(c)' => c <= submitted'
  <2>1. n <= submitted' /\ \A c \in Commands : c <= submitted => c <= submitted'
    BY <1>3 DEF n, Commands, LedgerSound, LedgerTyped
  <2>2. due' = {}
    BY DEF Submit
  <2>3. \A c \in Commands : c # n /\ Traced(c)' => Traced(c)
    BY <2>2, <1>4, <1>6, RecoveredSound DEF Traced
  <2> QED
    BY <2>1, <2>3 DEF LedgerSound
<1>8. LedgerTyped' /\ (session'.live => session'.id # 0)
  BY <1>3, <1>4 DEF LedgerSound, LedgerTyped, n
<1> QED
  BY <1>6, <1>7, <1>8, <1>9 DEF LedgerKept, LedgerSound, Owned

LEMMA InvalidationKeeps ==
    ASSUME LedgerSound, NEW C \in SUBSET Commands, UNCHANGED submitted, due' \subseteq due,
           ledger' = [c \in Commands |-> IF c \in C THEN Invalidated(ledger[c]) ELSE ledger[c]],
           session' \in [id : 0..MaxSessions, live : BOOLEAN],
           session'.live => session'.id # 0
    PROVE  LedgerKept
<1> DEFINE L == [c \in Commands |-> IF c \in C THEN Invalidated(ledger[c]) ELSE ledger[c]]
<1>1. \A c \in Commands : ledger[c] \in Command
  BY DEF LedgerSound, LedgerTyped
<1>2. L \in [Commands -> Command]
  BY <1>1, InvalidatedOne
<1>3. \A c \in Commands : /\ L[c].owner = ledger[c].owner
                          /\ Owned(c) => L[c].state \notin Unclaimed
                          /\ L[c].state # "none" => Traced(c)
  BY <1>1, InvalidatedOne DEF LedgerSound, Owned, Traced, Invalidated
<1> QED
  BY <1>2, <1>3, AllKept

LEMMA ControlKeeps == ASSUME LedgerSound, Control PROVE LedgerKept
<1> USE LedgerAssumption
<1>0. \A c \in Commands : ledger[c] \in Command
  BY DEF LedgerSound, LedgerTyped
<1>a. session \in [id : 0..MaxSessions, live : BOOLEAN] /\ (session.live => session.id # 0)
  BY DEF LedgerSound, LedgerTyped
<1>b. [session EXCEPT !.live = FALSE] \in [id : 0..MaxSessions, live : BOOLEAN]
      /\ ~[session EXCEPT !.live = FALSE].live
  BY <1>a
<1>1. ASSUME NEW c \in Commands, LookUp(c) PROVE LedgerKept
  BY <1>1, SeenOne, PutKeeps DEF LookUp, Owned
<1>2. ASSUME NEW c \in Commands, Close(c) PROVE LedgerKept
  <2> DEFINE rec == [Seen(c) EXCEPT !.closed = TRUE]
  <2>1. rec \in Command /\ rec.owner = ledger[c].owner /\ rec.state = "unknown"
    BY <1>2, SeenOne DEF Close, Command
  <2>2. Put(c, rec) /\ UNCHANGED <<submitted, session>>
    BY <1>2 DEF Close
  <2>3. c <= submitted
    BY <1>2, SeenOne DEF Close
  <2> HIDE DEF rec
  <2> QED
    BY <2>1, <2>2, <2>3, PutKeeps DEF Owned, Unclaimed
<1>3. ASSUME NEW c \in Commands, DeadlinePasses(c) PROVE LedgerKept
  BY <1>3 DEF DeadlinePasses, LedgerKept, LedgerSound, LedgerTyped, Owned, Traced
<1>4. ASSUME NEW c \in Commands, PruneCommand(c) PROVE LedgerKept
  <2> DEFINE L == [Recovered EXCEPT ![c].state = "pruned"]
  <2>1. L \in [Commands -> Command] /\ L[c].owner = Recovered[c].owner /\ L[c].state = "pruned"
    BY RecoveredSound DEF Command
  <2>2. \A d \in Commands : d # c => L[d] = Recovered[d]
    BY RecoveredSound
  <2>3. ledger' = L /\ due' = {} /\ UNCHANGED <<submitted, session>>
    BY <1>4 DEF PruneCommand
  <2> HIDE DEF L
  <2>4. \A d \in Commands : /\ L[d].owner = ledger[d].owner
                            /\ Owned(d) => L[d].state \notin Unclaimed
                            /\ L[d].state # "none" => Traced(d)
    <3>1. Traced(c)
      BY <1>4, <1>0 DEF PruneCommand, Traced, Terminal
    <3> QED
      BY <3>1, <2>1, <2>2, RecoveredSound DEF Unclaimed
  <2> QED
    BY <1>a, <2>1, <2>3, <2>4, AllKept
<1>5. ASSUME NEW S \in SUBSET Projects, ReceiveInventory(S) PROVE LedgerKept
  <2> DEFINE left == {c \in Commands : ledger[c].project \in managed \ S}
  <2>1. left \in SUBSET Commands
    OBVIOUS
  <2>2. ledger' = [c \in Commands |-> IF c \in left THEN Invalidated(ledger[c]) ELSE ledger[c]]
        /\ due' \subseteq due /\ UNCHANGED <<submitted, session>>
    BY <1>5 DEF ReceiveInventory, StillExecuting
  <2> HIDE DEF left
  <2> QED
    BY <1>a, <2>1, <2>2, InvalidationKeeps
<1>6. CASE Revoke
  <2>1. ledger' = [c \in Commands |-> IF c \in Commands THEN Invalidated(ledger[c]) ELSE ledger[c]]
    BY <1>6 DEF Revoke
  <2>2. due' \subseteq due /\ UNCHANGED submitted /\ session' = [session EXCEPT !.live = FALSE]
    BY <1>6 DEF Revoke, StillExecuting
  <2> QED
    BY <1>b, <2>1, <2>2, InvalidationKeeps
<1>7. CASE SessionExpires
  BY <1>7, <1>b DEF SessionExpires, LedgerKept, LedgerSound, LedgerTyped, Owned, Traced
<1>8. CASE FleetRestarts
  BY <1>8, <1>b, RecoveredSound, AllKept DEF FleetRestarts
<1> QED
  BY <1>1, <1>2, <1>3, <1>4, <1>5, <1>6, <1>7, <1>8, SubmitKeeps, RecoverKeeps DEF Control

-----------------------------------------------------------------------------
(* The agent's calls.  A claim that is answered was answered to an owner.   *)

LEMMA OpenKeeps == ASSUME LedgerSound, NEW s \in Nat, OpenSession(s) PROVE LedgerKept
<1>1. s \in 1..MaxSessions
  BY LedgerAssumption DEF OpenSession, LedgerSound, LedgerTyped
<1>2. /\ session' \in [id : 0..MaxSessions, live : BOOLEAN]
      /\ session'.id # 0
  BY <1>1 DEF OpenSession
<1> QED
  BY <1>2 DEF OpenSession, LedgerKept, LedgerSound, LedgerTyped, Owned, Traced

LEMMA AuthenticOne ==
    ASSUME LedgerSound, NEW s \in 0..MaxSessions, Authentic(s)
    PROVE  s # 0
  BY DEF Authentic, LedgerSound

LEMMA ClaimKeeps ==
    ASSUME LedgerSound, NEW s \in 0..MaxSessions, NEW c \in Commands
    PROVE  /\ FirstClaim(s, c) => LedgerKept /\ Owned(c)'
           /\ ReplayClaim(s, c) => LedgerKept /\ Owned(c)'
           /\ LateClaim(s, c) => LedgerKept
           /\ ClaimRefused(s, c) => LedgerKept
<1>1. ledger[c] \in Command
  BY DEF LedgerSound, LedgerTyped
<1>2. ASSUME FirstClaim(s, c) PROVE LedgerKept /\ Owned(c)'
  <2> DEFINE rec == [ledger[c] EXCEPT !.state = "executing", !.owner = s]
  <2>1. Authentic(s) /\ Seen(c).state = "accepted"
    BY <1>2 DEF FirstClaim, Claimable
  <2>2. s # 0
    BY <2>1, AuthenticOne
  <2>3. rec \in Command /\ rec.owner = s /\ rec.state = "executing"
    BY <1>1 DEF Command
  <2>4. Put(c, rec) /\ UNCHANGED <<submitted, session>>
    BY <1>2 DEF FirstClaim
  <2>5. c <= submitted
    BY <2>1, SeenOne
  <2>6. ledger'[c] = rec
    BY <2>4 DEF Put, LedgerSound, LedgerTyped
  <2> HIDE DEF rec
  <2> QED
    BY <2>2, <2>3, <2>4, <2>5, <2>6, PutKeeps DEF Owned, Unclaimed
<1>3. ASSUME ReplayClaim(s, c) \/ LateClaim(s, c) PROVE LedgerKept
  <2>1. Put(c, Seen(c)) /\ UNCHANGED <<submitted, session>>
    BY <1>3 DEF ReplayClaim, LateClaim
  <2> QED
    BY <1>1, <2>1, SeenOne, PutKeeps DEF Owned
<1>4. ASSUME ReplayClaim(s, c) PROVE Owned(c)'
  <2>1. Owned(c)
    BY <1>4, AuthenticOne DEF ReplayClaim, Owned
  <2> QED
    BY <2>1, <1>3, <1>4 DEF LedgerKept
<1>5. ASSUME ClaimRefused(s, c) PROVE LedgerKept
  BY <1>5, UnchangedKeeps DEF ClaimRefused
<1> QED
  BY <1>2, <1>3, <1>4, <1>5

LEMMA PublishKeeps ==
    ASSUME LedgerSound, NEW s \in 0..MaxSessions, NEW c \in Commands,
           NEW result \in {"none"} \union Outcomes, result # "none",
           Publish(s, c, result) \/ PublishRefused(s, c, result)
    PROVE  LedgerKept
<1> DEFINE sent == Transferred(s, c)
           rec == [sent EXCEPT !.state = result]
<1>1. CASE ~Publishable(s, c)
  <2>1. UNCHANGED ledgerVars
    BY <1>1 DEF Publish, PublishRefused, ledgerVars
  <2> QED
    BY <2>1, UnchangedKeeps
<1>2. CASE Publishable(s, c)
  <2>1. s # 0 /\ Owned(c) /\ c <= submitted
    BY <1>2, AuthenticOne DEF Publishable, Owned, Traced, LedgerSound
  <2>2. sent \in Command /\ sent.owner = s /\ sent.state \notin Unclaimed
    BY <2>1, SeenOne DEF Transferred, Command, Unclaimed
  <2>3. rec \in Command /\ rec.owner = s /\ rec.state \notin Unclaimed
    BY <2>2 DEF Command, Outcomes, Terminal, Unclaimed
  <2>4. UNCHANGED <<submitted, session>> /\ (Put(c, sent) \/ Put(c, rec))
    BY <1>2 DEF Publish, PublishRefused
  <2> HIDE DEF sent, rec
  <2> QED
    BY <2>1, <2>2, <2>3, <2>4, PutKeeps
<1> QED
  BY <1>1, <1>2

-----------------------------------------------------------------------------
(* Why an operation is invoked once.  A run that is about to invoke it has  *)
(* just written the marker, for a command that the ledger has given an      *)
(* owner; a command with an owner is not delivered again, so an entry that  *)
(* was pruned with its marker never comes back.                             *)

Marked(c) ==
    /\ stage[c] # "idle" => journal[c].held
    /\ stage[c] \in {"effect", "invoke"} => journal[c].effect /\ Owned(c) /\ invoked[c] = 0
    /\ stage[c] \in {"answered", "decide"} /\ hand[c] = "executing" => Owned(c)
    /\ stage[c] = "save" => hand[c] \in Outcomes
    /\ stage[c] = "publish" => journal[c].result # "none"
    /\ invoked[c] # 0 => invoked[c] = 1 /\ Owned(c) /\ (journal[c].held => journal[c].effect)

MarkedFirst == LedgerSound /\ AgentTyped /\ \A c \in Commands : Marked(c)

LEMMA MarkedInit == Init => MarkedFirst
<1> SUFFICES ASSUME Init PROVE MarkedFirst
  OBVIOUS
<1>1. LedgerSound
  BY LedgerAssumption
  DEF Init, LedgerInit, LedgerSound, LedgerTyped, Command, Owned, Traced, Terminal
<1>2. AgentTyped
  BY LedgerAssumption, ExecutorAssumption
  DEF Init, AgentTyped, NoEntry, Entry, Outcomes, Answers, Stages
<1>3. \A c \in Commands : Marked(c)
  BY DEF Init, Marked
<1> QED
  BY <1>1, <1>2, <1>3 DEF MarkedFirst

(* One command's entry and the place of its run change, the others' do not. *)
LEMMA RunStep ==
    ASSUME MarkedFirst, LedgerKept, NEW c \in Commands,
           NEW e \in Entry, NEW st \in Stages, NEW h \in {"none"} \union Answers,
           journal' = [journal EXCEPT ![c] = e],
           stage' = [stage EXCEPT ![c] = st], hand' = [hand EXCEPT ![c] = h],
           invoked' \in [Commands -> Nat], \A d \in Commands : d # c => invoked'[d] = invoked[d],
           proc' \in [Projects -> 0..MaxPids], pids' \in 0..MaxPids, UNCHANGED mine,
           Marked(c)'
    PROVE  MarkedFirst'
<1>1. LedgerSound'
  BY DEF LedgerKept
<1>2. AgentTyped'
  BY DEF MarkedFirst, AgentTyped
<1>3. ASSUME NEW d \in Commands, d # c PROVE Marked(d)'
  <2>1. journal'[d] = journal[d] /\ stage'[d] = stage[d] /\ hand'[d] = hand[d]
        /\ invoked'[d] = invoked[d] /\ (Owned(d) => Owned(d)')
    BY <1>3 DEF MarkedFirst, AgentTyped, LedgerKept
  <2>2. Marked(d)
    BY DEF MarkedFirst
  <2> QED
    BY <2>1, <2>2 DEF Marked
<1> QED
  BY <1>1, <1>2, <1>3 DEF MarkedFirst

LEMMA QuietStep ==
    ASSUME MarkedFirst, LedgerKept, NEW c \in Commands,
           NEW e \in Entry, NEW st \in Stages, NEW h \in {"none"} \union Answers,
           journal' = [journal EXCEPT ![c] = e],
           stage' = [stage EXCEPT ![c] = st], hand' = [hand EXCEPT ![c] = h],
           KeepHost, UNCHANGED mine,
           st # "idle" => e.held,
           st \in {"effect", "invoke"} => e.effect /\ Owned(c) /\ invoked[c] = 0,
           st \in {"answered", "decide"} /\ h = "executing" => Owned(c)',
           st = "save" => h \in Outcomes,
           st = "publish" => e.result # "none",
           invoked[c] # 0 /\ e.held => e.effect
    PROVE  MarkedFirst'
<1>1. /\ journal'[c] = e /\ stage'[c] = st /\ hand'[c] = h
      /\ Owned(c) => Owned(c)'
  BY DEF MarkedFirst, AgentTyped, LedgerKept
<1>2. invoked' = invoked /\ proc' = proc /\ pids' = pids
  BY DEF KeepHost, hostVars
<1>3. Marked(c)
  BY DEF MarkedFirst
<1>4. Marked(c)'
  BY <1>1, <1>2, <1>3 DEF Marked
<1> QED
  BY <1>2, <1>4, RunStep DEF MarkedFirst, AgentTyped

(* What is known of a command whose run is under way.                       *)
LEMMA RunOne ==
    ASSUME MarkedFirst, NEW c \in Commands
    PROVE  /\ Marked(c) /\ journal[c] \in Entry /\ journal = [journal EXCEPT ![c] = journal[c]]
           /\ stage[c] \in Stages /\ hand[c] \in {"none"} \union Answers
           /\ hand = [hand EXCEPT ![c] = hand[c]] /\ LedgerSound
           /\ journal[c].held => (invoked[c] # 0 => journal[c].effect)
<1>1. Marked(c)
  BY DEF MarkedFirst
<1>2. journal \in [Commands -> Entry] /\ hand \in [Commands -> {"none"} \union Answers]
      /\ stage \in [Commands -> Stages]
  BY DEF MarkedFirst, AgentTyped
<1> QED
  BY <1>1, <1>2 DEF Marked, MarkedFirst

LEMMA ClaimCallMarked == ASSUME MarkedFirst, NEW c \in Commands, ClaimCall(c) PROVE MarkedFirst'
<1>1. /\ LedgerSound /\ mine \in 0..MaxSessions /\ journal[c].held
      /\ journal' = [journal EXCEPT ![c] = journal[c]] /\ KeepHost /\ UNCHANGED mine
  BY RunOne DEF ClaimCall, Turn, Marked, MarkedFirst, AgentTyped
<1>2. CASE FirstClaim(mine, c) /\ GoTo(c, "answered", "executing")
  <2>1. LedgerKept /\ Owned(c)'
    BY <1>1, <1>2, ClaimKeeps
  <2> QED
    BY <1>1, <1>2, <2>1, RunOne, QuietStep DEF GoTo, Stages, Answers
<1>3. CASE ReplayClaim(mine, c)
           /\ GoTo(c, "answered", IF ledger[c].closed THEN "closed" ELSE Seen(c).state)
  <2> DEFINE h == IF ledger[c].closed THEN "closed" ELSE Seen(c).state
  <2>1. LedgerKept /\ Owned(c)'
    BY <1>1, <1>3, ClaimKeeps
  <2>2. h \in Answers
    <3>1. ledger[c].owner # 0 /\ ledger[c].state # "pruned"
      BY <1>1, <1>3, AuthenticOne DEF ReplayClaim
    <3>2. ledger[c] \in Command /\ ledger[c].state \notin Unclaimed
      BY <1>1, <3>1 DEF LedgerSound, LedgerTyped, Owned
    <3> QED
      BY <3>1, <3>2 DEF Seen, Lapsed, Command, Answers, Outcomes, Terminal, Unclaimed
  <2>3. stage' = [stage EXCEPT ![c] = "answered"] /\ hand' = [hand EXCEPT ![c] = h]
    BY <1>3 DEF GoTo
  <2> HIDE DEF h
  <2> QED
    BY <1>1, <2>1, <2>2, <2>3, RunOne, QuietStep DEF Stages
<1>4. CASE LateClaim(mine, c) /\ GoTo(c, "retire", "none")
  <2>1. LedgerKept
    BY <1>1, <1>4, ClaimKeeps
  <2> QED
    BY <1>1, <1>4, <2>1, RunOne, QuietStep DEF GoTo, Stages
<1>5. CASE ClaimRefused(mine, c) /\ Done(c)
  <2>1. LedgerKept
    BY <1>1, <1>5, ClaimKeeps
  <2> QED
    BY <1>1, <1>5, <2>1, RunOne, QuietStep DEF Done, GoTo, Stages
<1> QED
  BY <1>2, <1>3, <1>4, <1>5 DEF ClaimCall

(* A step of the run of c that neither the ledger nor the host takes part   *)
(* in.                                                                      *)
LEMMA LocalStep ==
    ASSUME MarkedFirst, NEW c \in Commands,
           NEW e \in Entry, NEW st \in Stages, NEW h \in {"none"} \union Answers,
           journal' = [journal EXCEPT ![c] = e],
           stage' = [stage EXCEPT ![c] = st], hand' = [hand EXCEPT ![c] = h],
           KeepLedger, KeepHost, UNCHANGED mine,
           st # "idle" => e.held,
           st \in {"effect", "invoke"} => e.effect /\ Owned(c) /\ invoked[c] = 0,
           st \in {"answered", "decide"} /\ h = "executing" => Owned(c),
           st = "save" => h \in Outcomes,
           st = "publish" => e.result # "none",
           invoked[c] # 0 /\ e.held => e.effect
    PROVE  MarkedFirst'
<1>1. LedgerKept /\ (Owned(c) => Owned(c)')
  BY UnchangedKeeps DEF KeepLedger, MarkedFirst, LedgerKept
<1> QED
  BY <1>1, QuietStep

LEMMA LocalMarked ==
    ASSUME MarkedFirst, NEW c \in Commands
    PROVE  /\ RecordClaim(c) \/ DecideRetire(c) \/ Retire(c) => MarkedFirst'
           /\ Inspect(c) \/ DecideUnknown(c) \/ DecideResend(c) => MarkedFirst'
           /\ BeginEffect(c) => MarkedFirst'
           /\ ObserveOnly(c) \/ Prepare(c) \/ Await(c) \/ EffectThrows(c) => MarkedFirst'
           /\ SaveResult(c) \/ Acknowledge(c) \/ PruneEntry(c) \/ RunFails(c) => MarkedFirst'
<1> USE DEF Write, GoTo, Done
<1>e. journal[c] \in Entry
  BY RunOne
<1>m. Marked(c) /\ (journal[c].held => (invoked[c] # 0 => journal[c].effect))
  BY RunOne
<1>j. journal = [journal EXCEPT ![c] = journal[c]] /\ hand = [hand EXCEPT ![c] = hand[c]]
      /\ hand[c] \in {"none"} \union Answers
  BY RunOne
<1>1. ASSUME RecordClaim(c) PROVE MarkedFirst'
  <2> DEFINE e == [journal[c] EXCEPT !.claimed = TRUE]
  <2>1. e \in Entry /\ e.held = journal[c].held /\ e.effect = journal[c].effect
    BY <1>e DEF Entry
  <2>2. journal' = [journal EXCEPT ![c] = e]
    BY <1>1 DEF RecordClaim
  <2>3. /\ stage' = [stage EXCEPT ![c] = "decide"] /\ hand' = [hand EXCEPT ![c] = hand[c]]
        /\ KeepLedger /\ KeepHost /\ UNCHANGED mine
        /\ journal[c].held /\ (invoked[c] # 0 => journal[c].effect)
        /\ hand[c] = "executing" => Owned(c)
    BY <1>1, <1>m, <1>j DEF RecordClaim, Marked
  <2> HIDE DEF e
  <2> QED
    BY <1>j, <2>1, <2>2, <2>3, LocalStep DEF Stages
<1>2. ASSUME DecideRetire(c) PROVE MarkedFirst'
  BY <1>2, LocalStep, <1>e, <1>m, <1>j DEF DecideRetire, Marked, Stages
<1>3. ASSUME Retire(c) PROVE MarkedFirst'
  <2> DEFINE e == [journal[c] EXCEPT !.retired = TRUE]
  <2>1. e \in Entry /\ e.held = journal[c].held /\ e.effect = journal[c].effect
    BY <1>e DEF Entry
  <2>2. journal' = [journal EXCEPT ![c] = e]
    BY <1>3 DEF Retire
  <2> HIDE DEF e
  <2> QED
    BY <1>3, <2>1, <2>2, LocalStep, <1>e, <1>m, <1>j DEF Retire, Marked, Stages
<1>4. ASSUME Inspect(c) PROVE MarkedFirst'
  <2>1. PICK o \in Evidence(c) :
           IF o # "unknown" \/ journal[c].result = "none" THEN GoTo(c, "save", o)
           ELSE IF journal[c].acked THEN Done(c) ELSE GoTo(c, "publish", "none")
    BY <1>4 DEF Inspect
  <2>2. o \in Outcomes
    BY DEF Evidence, Outcomes
  <2> QED
    BY <1>4, <2>1, <2>2, LocalStep, <1>e, <1>m, <1>j DEF Inspect, Marked, Stages, Answers
<1>5. ASSUME DecideUnknown(c) PROVE MarkedFirst'
  BY <1>5, LocalStep, <1>e, <1>m, <1>j DEF DecideUnknown, Marked, Stages, Answers, Outcomes
<1>6. ASSUME DecideResend(c) PROVE MarkedFirst'
  BY <1>6, LocalStep, <1>e, <1>m, <1>j DEF DecideResend, Marked, Stages
<1>7. ASSUME BeginEffect(c) PROVE MarkedFirst'
  <2> DEFINE e == [journal[c] EXCEPT !.effect = TRUE]
  <2>1. e \in Entry /\ e.held = journal[c].held /\ e.effect
    BY <1>e DEF Entry
  <2>2. journal' = [journal EXCEPT ![c] = e]
    BY <1>7 DEF BeginEffect
  <2>3. journal[c].held /\ Owned(c) /\ invoked[c] = 0
    BY <1>7, <1>m DEF BeginEffect, Permitted, Marked
  <2> HIDE DEF e
  <2> QED
    BY <1>7, <2>1, <2>2, <2>3, LocalStep, <1>e, <1>m, <1>j DEF BeginEffect, Stages
<1>8. ASSUME ObserveOnly(c) \/ Await(c) PROVE MarkedFirst'
  <2>1. PICK o \in Outcomes : GoTo(c, "save", o)
    BY <1>8 DEF ObserveOnly, Await
  <2>2. /\ KeepLedger /\ KeepHost /\ UNCHANGED mine
        /\ journal' = [journal EXCEPT ![c] = journal[c]]
        /\ journal[c].held /\ (invoked[c] # 0 => journal[c].effect)
    BY <1>8, <1>m, <1>j DEF ObserveOnly, Await, Marked
  <2> QED
    BY <1>e, <2>1, <2>2, LocalStep DEF Stages, Answers
<1>9. ASSUME Prepare(c) PROVE MarkedFirst'
  <2>1. PICK e \in {journal[c], [journal[c] EXCEPT !.target = proc[Project(c)]]} :
           journal' = [journal EXCEPT ![c] = e]
    BY <1>9, <1>j DEF Prepare
  <2>2. proc[Project(c)] \in 0..MaxPids
    BY DEF MarkedFirst, AgentTyped, LedgerSound, LedgerTyped, Project, Command
  <2>3. e \in Entry /\ e.held = journal[c].held /\ e.effect = journal[c].effect
    BY <1>e, <2>2 DEF Entry
  <2> QED
    BY <1>9, <2>1, <2>3, LocalStep, <1>e, <1>m, <1>j DEF Prepare, Marked, Stages
<1>10. ASSUME EffectThrows(c) PROVE MarkedFirst'
  BY <1>10, LocalStep, <1>e, <1>m, <1>j DEF EffectThrows, Marked, Stages, Answers, Outcomes
<1>11. ASSUME SaveResult(c) PROVE MarkedFirst'
  <2> DEFINE e == [journal[c] EXCEPT !.result = hand[c],
                                     !.acked = journal[c].acked /\ journal[c].result = hand[c]]
  <2>1. hand[c] \in Outcomes
    BY <1>11, <1>m DEF SaveResult, Marked
  <2>2. /\ e \in Entry /\ e.held = journal[c].held /\ e.effect = journal[c].effect
        /\ e.result = hand[c]
    BY <1>e, <2>1 DEF Entry
  <2>3. journal' = [journal EXCEPT ![c] = e]
    BY <1>11 DEF SaveResult
  <2>4. /\ stage' = [stage EXCEPT ![c] = "publish"] /\ hand' = [hand EXCEPT ![c] = "none"]
        /\ KeepLedger /\ KeepHost /\ UNCHANGED mine
        /\ journal[c].held /\ (invoked[c] # 0 => journal[c].effect)
    BY <1>11, <1>m DEF SaveResult, Marked
  <2> HIDE DEF e
  <2> QED
    BY <2>1, <2>2, <2>3, <2>4, LocalStep DEF Stages, Outcomes
<1>12. ASSUME Acknowledge(c) PROVE MarkedFirst'
  <2> DEFINE e == [journal[c] EXCEPT !.acked = TRUE]
  <2>1. e \in Entry /\ e.held = journal[c].held /\ e.effect = journal[c].effect
    BY <1>e DEF Entry
  <2>2. journal' = [journal EXCEPT ![c] = e]
    BY <1>12 DEF Acknowledge
  <2> HIDE DEF e
  <2> QED
    BY <1>12, <2>1, <2>2, LocalStep, <1>e, <1>m, <1>j DEF Acknowledge, Marked, Stages
<1>13. ASSUME PruneEntry(c) PROVE MarkedFirst'
  <2>1. NoEntry \in Entry /\ ~NoEntry.held
    BY ExecutorAssumption DEF NoEntry, Entry
  <2>2. stage = [stage EXCEPT ![c] = "idle"]
    BY <1>13 DEF PruneEntry, MarkedFirst, AgentTyped
  <2> QED
    BY <1>13, <2>1, <2>2, LocalStep, <1>e, <1>m, <1>j DEF PruneEntry, Stages
<1>14. ASSUME RunFails(c) PROVE MarkedFirst'
  BY <1>14, LocalStep, <1>e, <1>m, <1>j DEF RunFails, Marked, Stages
<1> QED
  BY <1>1, <1>2, <1>3, <1>4, <1>5, <1>6, <1>7, <1>8, <1>9, <1>10, <1>11, <1>12, <1>13, <1>14

(* The marker was durable before the operation is invoked.                  *)
LEMMA InvokeMarked ==
    ASSUME MarkedFirst, NEW c \in Commands, InvokeStart(c) \/ InvokeStop(c)
    PROVE  MarkedFirst'
<1>1. /\ journal[c].held /\ journal[c].effect /\ Owned(c) /\ invoked[c] = 0
      /\ journal' = [journal EXCEPT ![c] = journal[c]] /\ journal[c] \in Entry
      /\ KeepLedger /\ UNCHANGED mine
  BY RunOne DEF InvokeStart, InvokeStop, Marked
<1>2. LedgerKept /\ Owned(c)'
  BY <1>1, UnchangedKeeps DEF KeepLedger, MarkedFirst, LedgerKept
<1>3. /\ invoked' \in [Commands -> Nat] /\ invoked'[c] = 1
      /\ \A d \in Commands : d # c => invoked'[d] = invoked[d]
  BY <1>1 DEF InvokeStart, InvokeStop, Invoke, MarkedFirst, AgentTyped
<1>4. PICK st \in {"wait", "save"}, h \in {"none", "failed"} :
         /\ stage' = [stage EXCEPT ![c] = st] /\ hand' = [hand EXCEPT ![c] = h]
         /\ st = "save" => h = "failed"
  BY DEF InvokeStart, InvokeStop, GoTo
<1>5. proc' \in [Projects -> 0..MaxPids] /\ pids' \in 0..MaxPids
  BY ExecutorAssumption DEF InvokeStart, InvokeStop, MarkedFirst, AgentTyped
<1>6. journal'[c] = journal[c] /\ stage'[c] = st /\ hand'[c] = h
  BY <1>1, <1>4 DEF MarkedFirst, AgentTyped
<1>7. Marked(c)'
  BY <1>1, <1>2, <1>3, <1>4, <1>6 DEF Marked, Outcomes
<1>8. st \in Stages /\ h \in {"none"} \union Answers
  BY DEF Stages, Answers, Outcomes
<1> QED
  BY <1>1, <1>2, <1>3, <1>4, <1>5, <1>7, <1>8, RunStep

LEMMA PublishCallMarked ==
    ASSUME MarkedFirst, NEW c \in Commands, PublishCall(c) PROVE MarkedFirst'
<1>1. /\ LedgerSound /\ mine \in 0..MaxSessions /\ journal[c].held
      /\ journal[c] \in Entry /\ journal[c].result # "none"
      /\ journal' = [journal EXCEPT ![c] = journal[c]] /\ KeepHost /\ UNCHANGED mine
  BY RunOne DEF PublishCall, Marked, MarkedFirst, AgentTyped
<1>2. journal[c].result \in {"none"} \union Outcomes
  BY <1>1 DEF Entry
<1>3. LedgerKept
  BY <1>1, <1>2, PublishKeeps DEF PublishCall
<1>4. PICK st \in {"acknowledge", "idle"} :
         stage' = [stage EXCEPT ![c] = st] /\ hand' = [hand EXCEPT ![c] = "none"]
  BY DEF PublishCall, Done, GoTo
<1> QED
  BY <1>1, <1>3, <1>4, RunOne, QuietStep DEF Stages

(* A poll delivers commands without an owner only, and while no run is      *)
(* under way.                                                               *)
LEMMA PollMarked == ASSUME MarkedFirst, Poll PROVE MarkedFirst'
<1> DEFINE delivered ==
       {c \in Commands : Recovered[c].state = "accepted" /\ ledger[c].session = mine}
<1>1. LedgerKept
  BY RecoverKeeps DEF Poll, MarkedFirst
<1>2. /\ journal' = [c \in Commands |->
            IF c \in delivered THEN [journal[c] EXCEPT !.held = TRUE] ELSE journal[c]]
      /\ stage' = [c \in Commands |-> IF Pending(journal'[c]) THEN "queued" ELSE "idle"]
      /\ KeepHost /\ UNCHANGED <<mine, hand>>
  BY DEF Poll
<1>3. \A c \in delivered : ~Owned(c)
  BY RecoveredSound DEF MarkedFirst, LedgerSound, Unclaimed
<1>4. \A c \in Commands : journal[c] \in Entry
  BY DEF MarkedFirst, AgentTyped
<1> HIDE DEF delivered
<1>5. AgentTyped'
  <2>1. journal' \in [Commands -> Entry]
    BY <1>2, <1>4 DEF Entry
  <2> QED
    BY <1>2, <2>1 DEF MarkedFirst, AgentTyped, KeepHost, hostVars, Stages
<1>6. ASSUME NEW c \in Commands PROVE Marked(c)'
  <2>1. stage'[c] \in {"queued", "idle"} /\ (stage'[c] = "queued" => journal'[c].held)
    BY <1>2 DEF Pending
  <2>2. invoked'[c] = invoked[c] /\ (Owned(c) => Owned(c)')
    BY <1>1, <1>2 DEF KeepHost, hostVars, LedgerKept
  <2>3. Owned(c) => journal'[c] = journal[c]
    BY <1>2, <1>3
  <2>4. Marked(c)
    BY DEF MarkedFirst
  <2> QED
    BY <2>1, <2>2, <2>3, <2>4 DEF Marked
<1> QED
  BY <1>1, <1>5, <1>6 DEF MarkedFirst, LedgerKept

(* Steps that leave the journal and what was invoked alone, and no run more *)
(* advanced than it was.                                                    *)
LEMMA OtherStep ==
    ASSUME MarkedFirst, LedgerKept, AgentTyped', UNCHANGED <<journal, invoked>>,
           \A c \in Commands :
              stage'[c] = "idle" \/ (stage'[c] = stage[c] /\ hand'[c] = hand[c])
    PROVE  MarkedFirst'
<1>1. ASSUME NEW c \in Commands PROVE Marked(c)'
  <2>1. Marked(c) /\ (Owned(c) => Owned(c)')
    BY DEF MarkedFirst, LedgerKept
  <2> QED
    BY <2>1 DEF Marked
<1> QED
  BY <1>1 DEF MarkedFirst, LedgerKept

LEMMA OthersMarked ==
    ASSUME MarkedFirst
    PROVE  /\ Connect \/ Disconnect \/ Crash \/ Fleet => MarkedFirst'
           /\ \A p \in Projects : StartedByHand(p) \/ Exits(p) => MarkedFirst'
<1>t. LedgerSound /\ AgentTyped
  BY DEF MarkedFirst
<1>1. ASSUME Connect PROVE MarkedFirst'
  <2>1. session.id + 1 \in 0..MaxSessions
    BY <1>1, <1>t, LedgerAssumption DEF Connect, OpenSession, LedgerSound, LedgerTyped
  <2>2. LedgerKept
    BY <1>1, <1>t, <2>1, OpenKeeps DEF Connect
  <2>3. AgentTyped'
    BY <1>1, <1>t, <2>1 DEF Connect, KeepHost, hostVars, AgentTyped
  <2> QED
    BY <1>1, <2>2, <2>3, OtherStep DEF Connect, KeepHost, hostVars
<1>2. ASSUME Disconnect \/ Crash PROVE MarkedFirst'
  <2>1. LedgerKept
    BY <1>2, <1>t, UnchangedKeeps DEF Disconnect, Crash, KeepLedger
  <2>2. AgentTyped'
    BY <1>2, <1>t, LedgerAssumption
    DEF Disconnect, Crash, KeepHost, hostVars, AgentTyped, Stages
  <2> QED
    BY <1>2, <2>1, <2>2, OtherStep DEF Disconnect, Crash, KeepHost, hostVars
<1>3. ASSUME Fleet PROVE MarkedFirst'
  BY <1>3, <1>t, ControlKeeps, OtherStep DEF Fleet, agentVars, hostVars, AgentTyped
<1>4. ASSUME NEW p \in Projects, StartedByHand(p) \/ Exits(p) PROVE MarkedFirst'
  <2>1. LedgerKept
    BY <1>4, <1>t, UnchangedKeeps DEF StartedByHand, Exits, KeepLedger
  <2>2. AgentTyped'
    BY <1>4, <1>t, ExecutorAssumption DEF StartedByHand, Exits, agentVars, AgentTyped
  <2> QED
    BY <1>4, <2>1, <2>2, OtherStep DEF StartedByHand, Exits, agentVars
<1> QED
  BY <1>1, <1>2, <1>3, <1>4

LEMMA MarkedNext == MarkedFirst /\ [Next]_vars => MarkedFirst'
<1> SUFFICES ASSUME MarkedFirst, [Next]_vars PROVE MarkedFirst'
  OBVIOUS
<1>1. CASE UNCHANGED vars
  BY <1>1, UnchangedKeeps, OtherStep
  DEF vars, agentVars, hostVars, MarkedFirst, AgentTyped
<1>2. CASE Agent
  <2>1. ASSUME NEW c \in Commands, Run(c) PROVE MarkedFirst'
    BY <2>1, ClaimCallMarked, LocalMarked, InvokeMarked, PublishCallMarked DEF Run
  <2> QED
    BY <1>2, <2>1, PollMarked, OthersMarked DEF Agent
<1>3. CASE Host
  BY <1>3, LocalMarked, OthersMarked DEF Host
<1>4. CASE Fleet
  BY <1>4, OthersMarked
<1> QED
  BY <1>1, <1>2, <1>3, <1>4 DEF Next

(* A command's local operation is invoked at most once, for any number of   *)
(* projects, commands, sessions and processes, and whatever fails or        *)
(* crashes however often (beginEffect of the journal and `claim' of the     *)
(* ledger).                                                                 *)
THEOREM EffectsOnce == Spec => []EffectsAtMostOnce
<1>1. MarkedFirst => EffectsAtMostOnce
  <2>1. ASSUME MarkedFirst, NEW c \in Commands PROVE invoked[c] <= 1
    BY <2>1 DEF MarkedFirst, Marked, AgentTyped
  <2> QED
    BY <2>1 DEF EffectsAtMostOnce
<1> QED
  BY <1>1, MarkedInit, MarkedNext, PTL DEF Spec

(* What the ledger expired is never carried out: the operation is invoked   *)
(* for a command with an owner only, and `claim' gives none to what has     *)
(* expired, nor do deadlines, departures and revocations expire what has    *)
(* one (expire, invalidate).                                                *)
THEOREM ExpiredIsSafe == Spec => []ExpiredNeverAct
<1>1. MarkedFirst => ExpiredNeverAct
  BY DEF MarkedFirst, Marked, AgentTyped, LedgerSound, Unclaimed, ExpiredNeverAct
<1> QED
  BY <1>1, MarkedInit, MarkedNext, PTL DEF Spec

-----------------------------------------------------------------------------
(* The ledger's records from one step to the next.                          *)

(* Nothing is waited for any more.                                          *)
Final(rec) == rec.state # "none" /\ ~Outstanding(rec)

(* A record goes on as the same command, and does not open again.           *)
Follows(old, new) ==
    /\ new.state # "none" /\ new.project = old.project
    /\ Final(old) => Final(new)

(* Neither a result is entered nor an owner.                                *)
Untouching(old, new) ==
    /\ new.state \in Terminal => new.state = old.state
    /\ new.owner = 0 <=> old.owner = 0

WellClosed(rec) == rec.closed => rec.state \in {"unknown", "pruned"}

Orderly ==
    /\ \A c \in Commands :
          /\ c \in due => ledger[c].state \in {"accepted", "executing"}
          /\ WellClosed(ledger[c])
          /\ c <= submitted => ledger[c].state # "none"
    /\ \A c, d \in Commands :
          c < d /\ ledger[c].project = ledger[d].project /\ ledger[d].state # "none"
              => Final(ledger[c])

Goes(c) == ledger[c].state # "none" => Follows(ledger[c], ledger'[c])
Untouched(c) == Untouching(ledger[c], ledger'[c])

LEMMA LapsedFollows ==
    ASSUME NEW rec \in Command, rec.state \in {"accepted", "executing"}, WellClosed(rec)
    PROVE  /\ Follows(rec, Lapsed(rec)) /\ Untouching(rec, Lapsed(rec)) /\ WellClosed(Lapsed(rec))
  BY DEF Lapsed, Command, Follows, Untouching, Final, Outstanding, Terminal, WellClosed

LEMMA SeenFollows ==
    ASSUME LedgerSound, Orderly, NEW c \in Commands
    PROVE  /\ ledger[c].state # "none" => Follows(ledger[c], Seen(c))
           /\ Untouching(ledger[c], Seen(c)) /\ WellClosed(Seen(c))
           /\ Seen(c).state = "none" <=> ledger[c].state = "none"
           /\ Seen(c).closed = ledger[c].closed
           /\ Final(ledger[c]) => Seen(c) = ledger[c]
<1>1. ledger[c] \in Command
  BY DEF LedgerSound, LedgerTyped
<1>2. CASE c \in due
  <2>1. ledger[c].state \in {"accepted", "executing"} /\ WellClosed(ledger[c]) /\ Seen(c) = Lapsed(ledger[c])
    BY <1>2 DEF Orderly, Seen
  <2>2. Lapsed(ledger[c]).closed = ledger[c].closed
    BY <1>1 DEF Lapsed, Command
  <2> QED
    BY <1>1, <2>1, <2>2, LapsedFollows DEF Follows, Final, Outstanding
<1>3. CASE c \notin due
  BY <1>3 DEF Seen, Orderly, Follows, Untouching
<1> QED
  BY <1>2, <1>3

LEMMA InvalidatedFollows ==
    ASSUME NEW rec \in Command, WellClosed(rec)
    PROVE  /\ rec.state # "none" => Follows(rec, Invalidated(rec))
           /\ Untouching(rec, Invalidated(rec)) /\ WellClosed(Invalidated(rec))
           /\ Invalidated(rec).state = "none" <=> rec.state = "none"
           /\ Invalidated(rec).state = "executing" <=> rec.state = "executing"
  BY DEF Invalidated, Command, Follows, Untouching, Final, Outstanding, Terminal, WellClosed

(* No command is submitted, and every record goes on.                       *)
LEMMA GoesOn ==
    ASSUME LedgerSound, Orderly, submitted' = submitted,
           \A c \in Commands :
              /\ Goes(c) /\ WellClosed(ledger'[c])
              /\ c \in due' => ledger'[c].state \in {"accepted", "executing"}
              /\ ledger[c].state = "none" => ledger'[c].state = "none"
    PROVE  Orderly'
<1>1. ASSUME NEW c \in Commands
      PROVE  /\ c \in due' => ledger'[c].state \in {"accepted", "executing"}
             /\ WellClosed(ledger'[c])
             /\ c <= submitted' => ledger'[c].state # "none"
  BY DEF Orderly, Goes, Follows
<1>2. ASSUME NEW c \in Commands, NEW d \in Commands, c < d,
             ledger'[c].project = ledger'[d].project, ledger'[d].state # "none"
      PROVE  Final(ledger'[c])
  <2>1. ledger[d].state # "none" /\ ledger'[d].project = ledger[d].project
    BY <1>2 DEF Goes, Follows
  <2>2. d <= submitted /\ submitted \in Nat
    BY <2>1 DEF LedgerSound, LedgerTyped, Traced
  <2>3. c <= submitted
    BY <1>2, <2>2, LedgerAssumption DEF Commands
  <2>4. ledger[c].state # "none" /\ ledger'[c].project = ledger[c].project
    BY <2>3 DEF Orderly, Goes, Follows
  <2>5. Final(ledger[c])
    BY <1>2, <2>1, <2>4 DEF Orderly
  <2> QED
    BY <2>4, <2>5 DEF Goes, Follows
<1> QED
  BY <1>1, <1>2 DEF Orderly

(* One record replaced by one that goes on.                                 *)
LEMMA PutGoesOn ==
    ASSUME LedgerSound, Orderly, NEW c \in Commands, NEW rec,
           Put(c, rec), submitted' = submitted,
           ledger[c].state # "none" => Follows(ledger[c], rec), WellClosed(rec),
           ledger[c].state = "none" => rec.state = "none"
    PROVE  /\ Orderly' /\ ledger'[c] = rec
           /\ \A d \in Commands : Goes(d) /\ (d # c => ledger'[d] = ledger[d] /\ Untouched(d))
<1>1. /\ ledger'[c] = rec /\ due' = due \ {c}
      /\ \A d \in Commands : d # c => ledger'[d] = ledger[d]
  BY DEF Put, LedgerSound, LedgerTyped
<1>2. \A d \in Commands : Goes(d) /\ (d # c => ledger'[d] = ledger[d] /\ Untouched(d))
  BY <1>1 DEF Goes, Follows, Untouched, Untouching
<1>3. \A d \in Commands : /\ WellClosed(ledger'[d])
                          /\ d \in due' => ledger'[d].state \in {"accepted", "executing"}
                          /\ ledger[d].state = "none" => ledger'[d].state = "none"
  BY <1>1 DEF Orderly
<1> QED
  BY <1>1, <1>2, <1>3, GoesOn


(* A record looked at, by a page, a claim that is late or one repeated.     *)
LEMMA LookOrderly ==
    ASSUME LedgerSound, Orderly, NEW c \in Commands, Put(c, Seen(c)), submitted' = submitted
    PROVE  /\ Orderly' /\ ledger'[c] = Seen(c)
           /\ \A d \in Commands : Goes(d) /\ Untouched(d)
<1>1. /\ Orderly' /\ ledger'[c] = Seen(c)
      /\ \A d \in Commands : Goes(d) /\ (d # c => Untouched(d))
  BY SeenFollows, PutGoesOn
<1>2. Untouched(c)
  BY <1>1, SeenFollows DEF Untouched
<1> QED
  BY <1>1, <1>2

(* All records looked at, and one of them submitted or pruned.              *)
LEMMA RecoveredGoesOn ==
    ASSUME LedgerSound, Orderly, NEW c \in Commands
    PROVE  /\ ledger[c].state # "none" => Follows(ledger[c], Recovered[c])
           /\ Untouching(ledger[c], Recovered[c]) /\ WellClosed(Recovered[c])
           /\ Recovered[c].state = "none" <=> ledger[c].state = "none"
           /\ Recovered[c].closed = ledger[c].closed
  BY SeenFollows DEF Recovered

LEMMA RecoverOrderly ==
    ASSUME LedgerSound, Orderly, ledger' = Recovered, due' = {}, submitted' = submitted
    PROVE  Orderly' /\ \A c \in Commands : Goes(c) /\ Untouched(c)
<1>1. \A c \in Commands : /\ Goes(c) /\ Untouched(c) /\ WellClosed(ledger'[c])
                          /\ ledger[c].state = "none" => ledger'[c].state = "none"
  BY RecoveredGoesOn DEF Goes, Untouched
<1> QED
  BY <1>1, GoesOn

LEMMA InvalidationOrderly ==
    ASSUME LedgerSound, Orderly, NEW C \in SUBSET Commands, submitted' = submitted,
           ledger' = [c \in Commands |-> IF c \in C THEN Invalidated(ledger[c]) ELSE ledger[c]],
           due' = (due \ C) \union StillExecuting(due)
    PROVE  Orderly' /\ \A c \in Commands : Goes(c) /\ Untouched(c)
<1>1. ASSUME NEW c \in Commands
      PROVE  /\ Goes(c) /\ Untouched(c) /\ WellClosed(ledger'[c])
             /\ ledger[c].state = "none" => ledger'[c].state = "none"
             /\ c \in due' => ledger'[c].state \in {"accepted", "executing"}
  <2>1. ledger[c] \in Command /\ WellClosed(ledger[c])
    BY DEF LedgerSound, LedgerTyped, Orderly
  <2>2. CASE c \in C
    <3>1. ledger'[c] = Invalidated(ledger[c]) /\ (c \in due' => ledger[c].state = "executing")
      BY <2>2 DEF StillExecuting
    <3> QED
      BY <2>1, <3>1, InvalidatedFollows DEF Goes, Untouched
  <2>3. CASE c \notin C
    <3>1. ledger'[c] = ledger[c] /\ (c \in due' => c \in due)
      BY <2>3 DEF StillExecuting
    <3> QED
      BY <2>1, <3>1 DEF Goes, Untouched, Follows, Untouching, Orderly
  <2> QED
    BY <2>2, <2>3
<1> QED
  BY <1>1, GoesOn

(* Nothing of the records changes but which deadlines have passed.          *)
LEMMA SameOrderly ==
    ASSUME LedgerSound, Orderly, UNCHANGED <<ledger, submitted>>,
           \A c \in Commands : c \in due' => ledger[c].state \in {"accepted", "executing"}
    PROVE  Orderly' /\ \A c \in Commands : Goes(c) /\ Untouched(c)
  BY GoesOn DEF Goes, Untouched, Follows, Untouching, Orderly

(* A command is submitted when those of its project before it are settled.  *)
LEMMA SubmitOrderly ==
    ASSUME LedgerSound, Orderly, NEW p \in Projects, NEW op \in {"start", "stop"}, Submit(p, op)
    PROVE  Orderly' /\ \A c \in Commands : Goes(c) /\ Untouched(c)
<1> DEFINE n == submitted + 1
           rec == [state |-> "accepted", project |-> p, op |-> op, session |-> session.id,
                   owner |-> 0, closed |-> FALSE]
<1>1. /\ submitted \in Nat /\ n \in Commands /\ n > submitted /\ submitted' = n
      /\ \A c \in Commands : c <= n => c = n \/ c <= submitted
  BY LedgerAssumption DEF Submit, LedgerSound, LedgerTyped, Commands
<1>2. ledger[n].state = "none" /\ ledger[n].owner = 0
  BY <1>1 DEF LedgerSound, Traced
<1>3. ledger' = [Recovered EXCEPT ![n] = rec] /\ due' = {}
  BY DEF Submit
<1>4. /\ rec.state = "accepted" /\ rec.owner = 0 /\ ~rec.closed /\ rec.project = p
  OBVIOUS
<1> HIDE DEF rec
<1>5. ledger'[n] = rec /\ \A c \in Commands : c # n => ledger'[c] = Recovered[c]
  BY <1>1, <1>3, RecoveredSound
<1>6. \A c \in Commands : Goes(c) /\ Untouched(c)
  <2>1. Goes(n) /\ Untouched(n)
    BY <1>2, <1>4, <1>5 DEF Goes, Untouched, Untouching, Terminal
  <2>2. \A c \in Commands : c # n => Goes(c) /\ Untouched(c)
    BY <1>5, RecoveredGoesOn DEF Goes, Untouched
  <2> QED
    BY <2>1, <2>2
<1>7. ASSUME NEW c \in Commands
      PROVE  /\ c \in due' => ledger'[c].state \in {"accepted", "executing"}
             /\ WellClosed(ledger'[c])
             /\ c <= submitted' => ledger'[c].state # "none"
  <2>1. CASE c = n
    BY <2>1, <1>3, <1>4, <1>5 DEF WellClosed
  <2>2. CASE c # n
    BY <2>2, <1>1, <1>3, <1>5, RecoveredGoesOn DEF Orderly
  <2> QED
    BY <2>1, <2>2
<1>8. ASSUME NEW c \in Commands, NEW d \in Commands, c < d,
             ledger'[c].project = ledger'[d].project, ledger'[d].state # "none"
      PROVE  Final(ledger'[c])
  <2>1. d <= n
    <3>1. d # n => ledger[d].state # "none"
      BY <1>5, <1>8, RecoveredGoesOn
    <3>2. d # n => d <= submitted
      BY <3>1 DEF LedgerSound, Traced
    <3> QED
      BY <1>1, <3>2 DEF Commands
  <2>2. c # n /\ c <= submitted
    BY <1>1, <1>8, <2>1 DEF Commands
  <2>3. ledger[c].state # "none" /\ ledger'[c] = Recovered[c] /\ Recovered[c].state # "none"
    BY <1>5, <2>2, RecoveredGoesOn DEF Orderly
  <2>4. CASE d = n
    <3>1. ~Outstanding(Recovered[c])
      BY <1>4, <1>5, <1>8, <2>3, <2>4 DEF Submit
    <3> QED
      BY <2>3, <3>1 DEF Final
  <2>5. CASE d # n
    <3>1. ledger[d].state # "none" /\ ledger'[d].project = ledger[d].project
      BY <1>5, <1>8, <2>5, RecoveredGoesOn DEF Follows
    <3>2. ledger'[c].project = ledger[c].project /\ (Final(ledger[c]) => Final(ledger'[c]))
      BY <2>3, RecoveredGoesOn DEF Follows
    <3> QED
      BY <1>8, <3>1, <3>2 DEF Orderly
  <2> QED
    BY <2>4, <2>5
<1> QED
  BY <1>6, <1>7, <1>8 DEF Orderly

LEMMA ControlOrderly ==
    ASSUME LedgerSound, Orderly, Control
    PROVE  Orderly' /\ \A c \in Commands : Goes(c) /\ Untouched(c)
<1> DEFINE Kept == Orderly' /\ \A c \in Commands : Goes(c) /\ Untouched(c)
<1>0. \A c \in Commands : ledger[c] \in Command
  BY DEF LedgerSound, LedgerTyped
<1>1. ASSUME NEW c \in Commands, LookUp(c) PROVE Kept
  BY <1>1, LookOrderly DEF LookUp
<1>2. ASSUME NEW c \in Commands, Close(c) PROVE Kept
  <2> DEFINE rec == [Seen(c) EXCEPT !.closed = TRUE]
  <2>1. Seen(c) \in Command /\ Seen(c).state = "unknown" /\ ~ledger[c].closed
    BY <1>2, SeenOne DEF Close
  <2>2. /\ rec.state = "unknown" /\ rec.closed /\ rec.project = Seen(c).project
        /\ rec.owner = Seen(c).owner
    BY <2>1 DEF Command
  <2>3. Put(c, rec) /\ submitted' = submitted
    BY <1>2 DEF Close
  <2> HIDE DEF rec
  <2>4. ledger[c].state # "none" => Follows(ledger[c], rec)
    BY <2>2, SeenFollows DEF Follows, Final, Outstanding
  <2>5. ledger[c].state # "none"
    BY <2>1, SeenFollows
  <2>6. /\ Orderly' /\ ledger'[c] = rec
        /\ \A d \in Commands : Goes(d) /\ (d # c => Untouched(d))
    BY <2>2, <2>3, <2>4, <2>5, PutGoesOn DEF WellClosed
  <2>7. Untouched(c)
    BY <2>2, <2>6, SeenFollows DEF Untouched, Untouching, Terminal
  <2> QED
    BY <2>6, <2>7
<1>3. ASSUME NEW c \in Commands, DeadlinePasses(c) PROVE Kept
  BY <1>3, SameOrderly DEF DeadlinePasses, Orderly
<1>4. ASSUME NEW c \in Commands, PruneCommand(c) PROVE Kept
  <2> DEFINE L == [Recovered EXCEPT ![c].state = "pruned"]
  <2>1. /\ L[c].state = "pruned" /\ L[c].owner = Recovered[c].owner
        /\ L[c].project = Recovered[c].project /\ L[c].closed = Recovered[c].closed
        /\ \A d \in Commands : d # c => L[d] = Recovered[d]
    BY RecoveredSound DEF Command
  <2>2. ledger' = L /\ due' = {} /\ submitted' = submitted /\ ledger[c].state # "none"
    BY <1>4 DEF PruneCommand, Terminal
  <2> HIDE DEF L
  <2>3. Goes(c) /\ Untouched(c) /\ WellClosed(ledger'[c])
    BY <2>1, <2>2, RecoveredGoesOn
    DEF Goes, Untouched, Follows, Untouching, Final, Outstanding, WellClosed, Terminal
  <2>4. \A d \in Commands : d # c => Goes(d) /\ Untouched(d) /\ WellClosed(ledger'[d])
    BY <2>1, <2>2, RecoveredGoesOn DEF Goes, Untouched
  <2>5. \A d \in Commands : ledger[d].state = "none" => ledger'[d].state = "none"
    BY <2>1, <2>2, RecoveredGoesOn
  <2> QED
    BY <2>2, <2>3, <2>4, <2>5, GoesOn
<1>5. ASSUME NEW S \in SUBSET Projects, ReceiveInventory(S) PROVE Kept
  <2> DEFINE left == {c \in Commands : ledger[c].project \in managed \ S}
  <2>1. left \in SUBSET Commands
    OBVIOUS
  <2>2. /\ ledger' = [c \in Commands |-> IF c \in left THEN Invalidated(ledger[c]) ELSE ledger[c]]
        /\ due' = (due \ left) \union StillExecuting(due) /\ submitted' = submitted
    BY <1>5 DEF ReceiveInventory
  <2> HIDE DEF left
  <2> QED
    BY <2>1, <2>2, InvalidationOrderly
<1>6. CASE Revoke
  <2>1. /\ ledger' = [c \in Commands |-> IF c \in Commands THEN Invalidated(ledger[c]) ELSE ledger[c]]
        /\ submitted' = submitted
        /\ \A c \in Commands : c \in due' => c \in due /\ ledger[c].state = "executing"
    BY <1>6 DEF Revoke, StillExecuting
  <2>2. ASSUME NEW c \in Commands
        PROVE  /\ Goes(c) /\ Untouched(c) /\ WellClosed(ledger'[c])
               /\ ledger[c].state = "none" => ledger'[c].state = "none"
               /\ c \in due' => ledger'[c].state \in {"accepted", "executing"}
    <3>1. ledger[c] \in Command /\ WellClosed(ledger[c]) /\ ledger'[c] = Invalidated(ledger[c])
      BY <1>0, <2>1 DEF Orderly
    <3> QED
      BY <2>1, <3>1, InvalidatedFollows DEF Goes, Untouched
  <2> QED
    BY <2>1, <2>2, GoesOn
<1>7. CASE SessionExpires
  BY <1>7, SameOrderly DEF SessionExpires, Orderly
<1>8. CASE FleetRestarts
  BY <1>8, RecoverOrderly DEF FleetRestarts
<1>9. CASE Recover
  BY <1>9, RecoverOrderly DEF Recover
<1> QED
  BY <1>1, <1>2, <1>3, <1>4, <1>5, <1>6, <1>7, <1>8, <1>9, SubmitOrderly DEF Control


(* The agent's calls.                                                       *)
LEMMA ClaimOrderly ==
    ASSUME LedgerSound, Orderly, NEW s \in 0..MaxSessions, NEW c \in Commands
    PROVE  /\ FirstClaim(s, c) =>
                 /\ Orderly' /\ ledger[c].state = "accepted" /\ ledger'[c].state = "executing"
                 /\ \A d \in Commands : Goes(d) /\ (d # c => Untouched(d))
           /\ ReplayClaim(s, c) \/ LateClaim(s, c) =>
                 /\ Orderly' /\ ledger'[c] = Seen(c)
                 /\ \A d \in Commands : Goes(d) /\ Untouched(d)
           /\ ClaimRefused(s, c) => Orderly' /\ \A d \in Commands : Goes(d) /\ Untouched(d)
<1>1. ledger[c] \in Command
  BY DEF LedgerSound, LedgerTyped
<1>2. ASSUME FirstClaim(s, c)
      PROVE  /\ Orderly' /\ ledger[c].state = "accepted" /\ ledger'[c].state = "executing"
             /\ \A d \in Commands : Goes(d) /\ (d # c => Untouched(d))
  <2> DEFINE rec == [ledger[c] EXCEPT !.state = "executing", !.owner = s]
  <2>1. ledger[c].state = "accepted" /\ ~ledger[c].closed
    BY <1>2, SeenOne DEF FirstClaim, Orderly, WellClosed
  <2>2. rec.state = "executing" /\ rec.project = ledger[c].project /\ rec.closed = ledger[c].closed
    BY <1>1 DEF Command
  <2>3. Put(c, rec) /\ submitted' = submitted
    BY <1>2 DEF FirstClaim
  <2> HIDE DEF rec
  <2>4. Follows(ledger[c], rec) /\ WellClosed(rec)
    BY <2>1, <2>2 DEF Follows, Final, Outstanding, WellClosed
  <2> QED
    BY <2>1, <2>2, <2>3, <2>4, PutGoesOn
<1>3. ASSUME ReplayClaim(s, c) \/ LateClaim(s, c)
      PROVE  /\ Orderly' /\ ledger'[c] = Seen(c)
             /\ \A d \in Commands : Goes(d) /\ Untouched(d)
  BY <1>3, LookOrderly DEF ReplayClaim, LateClaim
<1>4. ASSUME ClaimRefused(s, c)
      PROVE  Orderly' /\ \A d \in Commands : Goes(d) /\ Untouched(d)
  BY <1>4, SameOrderly DEF ClaimRefused, ledgerVars, Orderly
<1> QED
  BY <1>2, <1>3, <1>4

LEMMA PublishOrderly ==
    ASSUME LedgerSound, Orderly, NEW s \in 0..MaxSessions, NEW c \in Commands,
           NEW result \in Outcomes, Publish(s, c, result) \/ PublishRefused(s, c, result)
    PROVE  /\ Orderly' /\ \A d \in Commands : Goes(d) /\ (d # c => Untouched(d))
           /\ ledger'[c].state \in Terminal => ledger'[c].state \in {ledger[c].state, result}
<1>1. CASE ~Publishable(s, c)
  BY <1>1, SameOrderly DEF Publish, PublishRefused, Orderly, Untouched, Untouching
<1>2. CASE Publishable(s, c)
  <2> DEFINE sent == Transferred(s, c)
             rec == [sent EXCEPT !.state = result]
  <2>1. /\ ledger[c] \in Command /\ Seen(c) \in Command
        /\ ledger[c].state \in {"executing", "unknown"} \union Terminal
        /\ WellClosed(ledger[c])
    <3>1. Owned(c) /\ ledger[c].state # "pruned"
      BY <1>2 DEF Publishable, Owned
    <3>2. ledger[c] \in Command /\ ledger[c].state \notin Unclaimed
      BY <3>1 DEF LedgerSound, LedgerTyped
    <3> QED
      BY <3>1, <3>2, SeenOne DEF Command, Unclaimed, Orderly
  <2>2. /\ ledger[c].state # "none" /\ Seen(c).state # "none"
        /\ Seen(c).project = ledger[c].project /\ Seen(c).closed = ledger[c].closed
        /\ Final(ledger[c]) => Seen(c) = ledger[c]
        /\ WellClosed(Seen(c)) /\ (Seen(c).state \in Terminal => Seen(c).state = ledger[c].state)
    BY <2>1, SeenFollows DEF Follows, Terminal, Untouching
  <2>3. /\ sent \in Command /\ sent.project = ledger[c].project /\ sent.closed = ledger[c].closed
        /\ sent.state = Seen(c).state \/ (sent.state = "unknown" /\ Seen(c).state = "executing")
    BY <1>2, <2>1, <2>2, AuthenticOne DEF Transferred, Command, Publishable
  <2>4. rec.state = result /\ rec.project = ledger[c].project /\ rec.closed = ledger[c].closed
    BY <2>3 DEF Command
  <2>5. Follows(ledger[c], sent) /\ WellClosed(sent)
    BY <2>2, <2>3 DEF Follows, Final, Outstanding, WellClosed
  <2>6. submitted' = submitted
    BY DEF Publish, PublishRefused
  <2> HIDE DEF sent, rec
  <2>7. CASE Publish(s, c, result)
    <3>1. Put(c, rec) /\ ~ledger[c].closed /\ (Seen(c).state \in Terminal => Seen(c).state = result)
      BY <2>7 DEF Publish, Contradicted, rec, sent
    <3>2. Final(ledger[c]) => result \in Terminal
      BY <2>1, <2>2, <3>1 DEF Final, Outstanding
    <3>3. Follows(ledger[c], rec) /\ WellClosed(rec)
      BY <2>4, <3>1, <3>2 DEF Follows, Final, Outstanding, WellClosed, Outcomes, Terminal
    <3> QED
      BY <2>2, <2>4, <2>6, <3>1, <3>3, PutGoesOn
  <2>8. CASE PublishRefused(s, c, result)
    <3>1. Put(c, sent)
      BY <1>2, <2>8 DEF PublishRefused, sent
    <3> QED
      BY <2>2, <2>3, <2>5, <2>6, <3>1, PutGoesOn DEF Terminal
  <2> QED
    BY <2>7, <2>8
<1> QED
  BY <1>1, <1>2


-----------------------------------------------------------------------------
(* The agent.  While it has not saved a result it has entered none, what it *)
(* gives up is settled, and what the fleet told it is still so, or has been *)
(* closed since.                                                            *)

Heard(c) == journal[c].held => ledger[c].state # "none"

Agreed(c) ==
    /\ ledger[c].state \in Terminal /\ journal[c].held => journal[c].result = ledger[c].state
    /\ journal[c].retired \/ stage[c] = "retire" => Final(ledger[c])
    /\ stage[c] \in {"answered", "decide"} =>
          /\ ledger[c].state \in Terminal => hand[c] = ledger[c].state
          /\ hand[c] \in Terminal \union {"closed"} => Final(ledger[c])
    /\ stage[c] \in {"effect", "invoke", "wait", "save"} => ledger[c].state \notin Terminal

(* A command that may act, or acts, is the last of its project: the next    *)
(* was not submitted before this one was settled, and is not run in the     *)
(* same poll.                                                               *)
Acting(c) ==
    \/ stage[c] \in {"effect", "invoke"}
    \/ stage[c] \in {"answered", "decide"} /\ hand[c] = "executing"

Last(c) ==
    \A d \in Commands :
        c < d /\ ledger[d].project = ledger[c].project => ledger[d].owner = 0 /\ stage[d] = "idle"

Ordered(c) == Acting(c) => Last(c)

Settled == MarkedFirst /\ Orderly /\ \A c \in Commands : Heard(c) /\ Agreed(c) /\ Ordered(c)

LEMMA SettledInit == Init => Settled
<1> SUFFICES ASSUME Init PROVE Settled
  OBVIOUS
<1>1. Orderly
  BY LedgerAssumption DEF Init, LedgerInit, Orderly, WellClosed, Commands
<1>2. ASSUME NEW c \in Commands PROVE Heard(c) /\ Agreed(c) /\ Ordered(c)
  BY DEF Init, LedgerInit, NoEntry, Heard, Agreed, Ordered, Acting, Terminal
<1> QED
  BY <1>1, <1>2, MarkedInit DEF Settled

(* A command that nobody knows of is not run.                               *)
LEMMA UnknownIdle ==
    ASSUME Settled, NEW c \in Commands, ledger[c].state = "none"
    PROVE  stage[c] = "idle" /\ ledger[c].owner = 0 /\ ~journal[c].held
  BY DEF Settled, Heard, MarkedFirst, Marked, LedgerSound, Owned, Unclaimed

(* Nobody enters a result or an owner, and no run goes further.             *)
LEMMA AroundSettled ==
    ASSUME Settled, MarkedFirst', Orderly', journal' = journal,
           \A c \in Commands :
              /\ Goes(c) /\ Untouched(c)
              /\ stage'[c] = "idle" \/ (stage'[c] = stage[c] /\ hand'[c] = hand[c])
    PROVE  Settled'
<1>1. ASSUME NEW c \in Commands PROVE Heard(c)' /\ Agreed(c)'
  <2>1. /\ Heard(c) /\ Agreed(c) /\ Goes(c) /\ Untouched(c)
        /\ stage'[c] = "idle" \/ (stage'[c] = stage[c] /\ hand'[c] = hand[c])
    BY DEF Settled
  <2>2. Final(ledger[c]) => Final(ledger'[c])
    BY <2>1 DEF Goes, Follows, Final
  <2>3. Heard(c)'
    BY <2>1 DEF Heard, Goes, Follows
  <2>4. Agreed(c)'
    BY <2>1, <2>2 DEF Agreed, Untouched, Untouching
  <2> QED
    BY <2>3, <2>4
<1>2. ASSUME NEW c \in Commands, Acting(c)' PROVE Last(c)'
  <2>1. Acting(c) /\ stage[c] # "idle"
    BY <1>2 DEF Acting
  <2>2. Last(c) /\ ledger[c].state # "none"
    BY <2>1, UnknownIdle DEF Settled, Ordered
  <2>3. ASSUME NEW d \in Commands, c < d, ledger'[d].project = ledger'[c].project
        PROVE  ledger'[d].owner = 0 /\ stage'[d] = "idle"
    <3>1. ledger'[c].project = ledger[c].project
      BY <2>2 DEF Goes, Follows
    <3>2. ledger[d].owner = 0 /\ stage[d] = "idle"
      <4>1. CASE ledger[d].state = "none"
        BY <4>1, UnknownIdle
      <4>2. CASE ledger[d].state # "none"
        BY <2>2, <2>3, <3>1, <4>2 DEF Goes, Follows, Last
      <4> QED
        BY <4>1, <4>2
    <3> QED
      BY <3>2 DEF Untouched, Untouching
  <2> QED
    BY <2>3 DEF Last
<1> QED
  BY <1>1, <1>2 DEF Settled, Ordered

(* A step of the run of c.                                                  *)
LEMMA RunSettled ==
    ASSUME Settled, MarkedFirst', Orderly', NEW c \in Commands,
           NEW e \in Entry, NEW st \in Stages, NEW h \in {"none"} \union Answers,
           journal' = [journal EXCEPT ![c] = e],
           stage' = [stage EXCEPT ![c] = st], hand' = [hand EXCEPT ![c] = h],
           \A d \in Commands : Goes(d) /\ (d # c => Untouched(d)),
           stage[c] # "idle" \/ (st = "idle" /\ ledger' = ledger),
           e.held => journal[c].held,
           Agreed(c)', Acting(c)' => Acting(c) \/ Last(c)
    PROVE  Settled'
<1>0. /\ journal'[c] = e /\ stage'[c] = st
      /\ \A d \in Commands : d # c => /\ journal'[d] = journal[d] /\ stage'[d] = stage[d]
                                      /\ hand'[d] = hand[d]
  BY DEF Settled, MarkedFirst, AgentTyped
<1>1. ASSUME NEW d \in Commands PROVE Heard(d)' /\ Agreed(d)'
  <2>1. Heard(d) /\ Goes(d) /\ Agreed(d)
    BY DEF Settled
  <2>2. Heard(d)'
    BY <1>0, <2>1 DEF Heard, Goes, Follows
  <2>3. CASE d = c
    BY <2>2, <2>3
  <2>4. CASE d # c
    <3>1. Final(ledger[d]) => Final(ledger'[d])
      BY <2>1 DEF Goes, Follows, Final
    <3>2. ledger'[d].state \in Terminal => ledger'[d].state = ledger[d].state
      BY <2>4 DEF Untouched, Untouching
    <3> QED
      BY <1>0, <2>1, <2>2, <2>4, <3>1, <3>2 DEF Agreed
  <2> QED
    BY <2>3, <2>4
<1>2. ASSUME NEW d \in Commands, Acting(d)' PROVE Last(d)'
  <2>1. Last(d) /\ stage[d] # "idle"
    <3>1. CASE d = c
      BY <1>0, <1>2, <3>1 DEF Acting, Settled, Ordered
    <3>2. CASE d # c
      BY <1>0, <1>2, <3>2 DEF Acting, Settled, Ordered
    <3> QED
      BY <3>1, <3>2
  <2>2. ledger[d].state # "none" /\ ledger'[d].project = ledger[d].project
    BY <2>1, UnknownIdle DEF Goes, Follows
  <2>3. ASSUME NEW b \in Commands, d < b, ledger'[b].project = ledger'[d].project
        PROVE  ledger'[b].owner = 0 /\ stage'[b] = "idle"
    <3>1. ledger[b].owner = 0 /\ stage[b] = "idle"
      <4>1. CASE ledger[b].state = "none"
        BY <4>1, UnknownIdle
      <4>2. CASE ledger[b].state # "none"
        BY <2>1, <2>2, <2>3, <4>2 DEF Goes, Follows, Last
      <4> QED
        BY <4>1, <4>2
    <3>2. CASE b = c
      BY <1>0, <3>1, <3>2
    <3>3. CASE b # c
      BY <1>0, <3>1, <3>3 DEF Untouched, Untouching
    <3> QED
      BY <3>2, <3>3
  <2> QED
    BY <2>3 DEF Last
<1> QED
  BY <1>1, <1>2 DEF Settled, Ordered


(* While a command is waited for, none after it of its project is known.    *)
LEMMA OpenLast ==
    ASSUME Settled, NEW c \in Commands, Outstanding(ledger[c])
    PROVE  Last(c)
<1>1. ASSUME NEW d \in Commands, c < d, ledger[d].project = ledger[c].project
      PROVE  ledger[d].state = "none"
  BY <1>1 DEF Settled, Orderly, Final
<1> QED
  BY <1>1, UnknownIdle DEF Last

LEMMA ClaimCallSettled ==
    ASSUME Settled, MarkedFirst', NEW c \in Commands, ClaimCall(c)
    PROVE  Settled'
<1>1. /\ LedgerSound /\ Orderly /\ mine \in 0..MaxSessions /\ stage[c] = "queued"
      /\ journal' = [journal EXCEPT ![c] = journal[c]] /\ journal[c] \in Entry /\ journal' = journal
      /\ Agreed(c) /\ ledger[c] \in Command
  BY RunOne DEF ClaimCall, Turn, Settled, MarkedFirst, AgentTyped, LedgerSound, LedgerTyped
<1>0. ASSUME NEW st \in Stages, NEW h \in {"none"} \union Answers, GoTo(c, st, h)
      PROVE  /\ stage' = [stage EXCEPT ![c] = st] /\ hand' = [hand EXCEPT ![c] = h]
             /\ stage'[c] = st /\ hand'[c] = h
  BY <1>0 DEF GoTo, Settled, MarkedFirst, AgentTyped
<1>2. CASE FirstClaim(mine, c) /\ GoTo(c, "answered", "executing")
  <2>1. /\ Orderly' /\ ledger[c].state = "accepted" /\ ledger'[c].state = "executing"
        /\ \A d \in Commands : Goes(d) /\ (d # c => Untouched(d))
    BY <1>1, <1>2, ClaimOrderly
  <2>2. stage'[c] = "answered" /\ hand'[c] = "executing" /\ "answered" \in Stages
        /\ "executing" \in {"none"} \union Answers
        /\ stage' = [stage EXCEPT ![c] = "answered"] /\ hand' = [hand EXCEPT ![c] = "executing"]
    BY <1>0, <1>2 DEF Stages, Answers
  <2>3. Last(c)
    BY <2>1, OpenLast DEF Outstanding
  <2>4. Agreed(c)'
    BY <1>1, <2>1, <2>2 DEF Agreed, Final, Outstanding, Terminal
  <2> QED
    BY <1>1, <2>1, <2>2, <2>3, <2>4, RunSettled
<1>3. CASE ReplayClaim(mine, c)
           /\ GoTo(c, "answered", IF ledger[c].closed THEN "closed" ELSE Seen(c).state)
  <2> DEFINE h == IF ledger[c].closed THEN "closed" ELSE Seen(c).state
  <2>1. /\ Orderly' /\ ledger'[c] = Seen(c)
        /\ \A d \in Commands : Goes(d) /\ Untouched(d)
    BY <1>1, <1>3, ClaimOrderly
  <2>2. /\ ledger[c].owner # 0 /\ ledger[c].state # "pruned"
        /\ ledger[c].state \notin Unclaimed /\ Seen(c).state \notin Unclaimed
    BY <1>1, <1>3, AuthenticOne, SeenOne DEF ReplayClaim, LedgerSound, Owned
  <2>3. Seen(c).state \in {"executing"} \union Outcomes
    BY <1>1, <2>2 DEF Seen, Lapsed, Command, Outcomes, Terminal, Unclaimed
  <2>4. h \in Answers
    BY <2>3 DEF Answers
  <2>5. stage'[c] = "answered" /\ hand'[c] = h /\ "answered" \in Stages
        /\ stage' = [stage EXCEPT ![c] = "answered"] /\ hand' = [hand EXCEPT ![c] = h]
    <3> HIDE DEF h
    <3>1. GoTo(c, "answered", h)
      BY <1>3 DEF h
    <3>2. "answered" \in Stages
      BY DEF Stages
    <3>3. h \in {"none"} \union Answers
      BY <2>4
    <3> QED
      BY <1>0, <3>1, <3>2, <3>3
  <2>6. WellClosed(Seen(c)) /\ Seen(c).closed = ledger[c].closed
    BY <1>1, SeenFollows
  <2>7. Final(ledger'[c]) \/ h \notin Terminal \union {"closed"}
    BY <2>1, <2>2, <2>3, <2>6 DEF WellClosed, Final, Outstanding, Outcomes, Terminal
  <2>8. ledger'[c].state \in Terminal => h = ledger'[c].state
    BY <2>1, <2>6 DEF WellClosed, Terminal
  <2>9. h = "executing" => Last(c)
    <3>1. h = "executing" => ledger[c].state = "executing"
      BY <1>1, <2>2, <2>3 DEF Seen, Lapsed, Command, Terminal, Outcomes
    <3> QED
      BY <3>1, OpenLast DEF Outstanding
  <2> HIDE DEF h
  <2>10. Agreed(c)'
    BY <1>1, <2>1, <2>2, <2>5, <2>7, <2>8
    DEF Agreed, Goes, Follows, Untouched, Untouching, Unclaimed
  <2>11. Acting(c)' => Last(c)
    BY <2>5, <2>9 DEF Acting
  <2> QED
    BY <1>1, <2>1, <2>4, <2>5, <2>10, <2>11, RunSettled
<1>4. CASE LateClaim(mine, c) /\ GoTo(c, "retire", "none")
  <2>1. /\ Orderly' /\ ledger'[c] = Seen(c) /\ Seen(c).state = "expired"
        /\ \A d \in Commands : Goes(d) /\ Untouched(d)
    BY <1>1, <1>4, ClaimOrderly DEF LateClaim
  <2>2. stage'[c] = "retire" /\ "retire" \in Stages
        /\ stage' = [stage EXCEPT ![c] = "retire"] /\ hand' = [hand EXCEPT ![c] = "none"]
    BY <1>0, <1>4 DEF Stages
  <2>3. Agreed(c)' /\ ~Acting(c)'
    BY <1>1, <2>1, <2>2 DEF Agreed, Acting, Final, Outstanding, Terminal
  <2> QED
    BY <1>1, <2>1, <2>2, <2>3, RunSettled
<1>5. CASE ClaimRefused(mine, c) /\ Done(c)
  <2>1. Orderly' /\ \A d \in Commands : Goes(d) /\ Untouched(d)
    BY <1>1, <1>5, ClaimOrderly
  <2>2. \A d \in Commands : stage'[d] = "idle" \/ (stage'[d] = stage[d] /\ hand'[d] = hand[d])
    BY <1>5 DEF Done, GoTo, Settled, MarkedFirst, AgentTyped
  <2> QED
    BY <1>1, <2>1, <2>2, AroundSettled
<1> QED
  BY <1>2, <1>3, <1>4, <1>5 DEF ClaimCall

(* A step of the run of c that the ledger takes no part in.                 *)
LEMMA LocalSettled ==
    ASSUME Settled, MarkedFirst', NEW c \in Commands,
           NEW e \in Entry, NEW st \in Stages, NEW h \in {"none"} \union Answers,
           journal' = [journal EXCEPT ![c] = e],
           stage' = [stage EXCEPT ![c] = st], hand' = [hand EXCEPT ![c] = h],
           KeepLedger, stage[c] # "idle" \/ st = "idle",
           e.held => journal[c].held,
           ledger[c].state \in Terminal /\ e.held => e.result = ledger[c].state,
           e.retired => journal[c].retired \/ Final(ledger[c]),
           st = "retire" => Final(ledger[c]),
           st \in {"answered", "decide"} => stage[c] \in {"answered", "decide"} /\ h = hand[c],
           st \in {"effect", "invoke", "wait", "save"} => ledger[c].state \notin Terminal,
           st \in {"effect", "invoke"} => Acting(c)
    PROVE  Settled'
<1>1. /\ journal'[c] = e /\ stage'[c] = st /\ hand'[c] = h
      /\ ledger' = ledger /\ submitted' = submitted /\ due' = due
  BY DEF Settled, MarkedFirst, AgentTyped, KeepLedger, ledgerVars
<1>2. Orderly' /\ \A d \in Commands : Goes(d) /\ Untouched(d)
  BY <1>1, SameOrderly DEF Settled, MarkedFirst, Orderly
<1>3. Agreed(c)
  BY DEF Settled
<1>4. Agreed(c)'
  <2>1. ledger'[c].state \in Terminal /\ journal'[c].held => journal'[c].result = ledger'[c].state
    BY <1>1
  <2>2. journal'[c].retired \/ stage'[c] = "retire" => Final(ledger'[c])
    BY <1>1, <1>3 DEF Agreed
  <2>3. stage'[c] \in {"answered", "decide"} =>
          /\ ledger'[c].state \in Terminal => hand'[c] = ledger'[c].state
          /\ hand'[c] \in Terminal \union {"closed"} => Final(ledger'[c])
    BY <1>1, <1>3 DEF Agreed
  <2>4. stage'[c] \in {"effect", "invoke", "wait", "save"} => ledger'[c].state \notin Terminal
    BY <1>1
  <2> QED
    BY <2>1, <2>2, <2>3, <2>4 DEF Agreed
<1>5. Acting(c)' => Acting(c)
  BY <1>1 DEF Acting
<1> QED
  BY <1>1, <1>2, <1>4, <1>5, RunSettled

LEMMA RunLocallySettled ==
    ASSUME Settled, MarkedFirst', NEW c \in Commands
    PROVE  /\ RecordClaim(c) \/ DecideRetire(c) \/ Retire(c) => Settled'
           /\ Inspect(c) \/ DecideUnknown(c) \/ DecideResend(c) \/ BeginEffect(c) => Settled'
           /\ ObserveOnly(c) \/ Prepare(c) \/ Await(c) \/ EffectThrows(c) => Settled'
           /\ InvokeStart(c) \/ InvokeStop(c) => Settled'
           /\ SaveResult(c) \/ Acknowledge(c) \/ PruneEntry(c) \/ RunFails(c) => Settled'
<1> USE DEF Write, GoTo, Done
<1>e. /\ MarkedFirst /\ Marked(c) /\ Agreed(c) /\ journal[c] \in Entry
      /\ journal = [journal EXCEPT ![c] = journal[c]] /\ hand = [hand EXCEPT ![c] = hand[c]]
      /\ hand[c] \in {"none"} \union Answers
  BY RunOne DEF Settled
<1>a. ledger[c].state \in Terminal /\ journal[c].held => journal[c].result = ledger[c].state
  BY <1>e DEF Agreed
(* What has not been settled there is not settled.                          *)
<1>b. stage[c] = "decide" /\ ~SettledThere(c) /\ journal[c].result \in {"none", "unknown"}
         => ledger[c].state \notin Terminal
  BY <1>e DEF Agreed, SettledThere
<1>s. /\ {"idle", "decide", "retire", "effect", "invoke", "wait", "save", "publish"} \subseteq Stages
      /\ Outcomes \subseteq Answers
  BY DEF Stages, Answers
<1>1. ASSUME RecordClaim(c) PROVE Settled'
  <2> DEFINE e == [journal[c] EXCEPT !.claimed = TRUE]
  <2>1. e \in Entry /\ e.held = journal[c].held /\ e.result = journal[c].result
        /\ e.retired = journal[c].retired
    BY <1>e DEF Entry
  <2>2. journal' = [journal EXCEPT ![c] = e]
    BY <1>1 DEF RecordClaim
  <2>3. /\ stage' = [stage EXCEPT ![c] = "decide"] /\ hand' = [hand EXCEPT ![c] = hand[c]]
        /\ KeepLedger /\ stage[c] = "answered"
    BY <1>1, <1>e DEF RecordClaim
  <2> HIDE DEF e
  <2> QED
    BY <1>e, <1>a, <1>s, <2>1, <2>2, <2>3, LocalSettled
<1>2. ASSUME DecideRetire(c) PROVE Settled'
  <2>1. Final(ledger[c])
    BY <1>2, <1>e DEF DecideRetire, SettledThere, Agreed
  <2> QED
    BY <1>2, <1>e, <1>a, <1>s, <2>1, LocalSettled DEF DecideRetire
<1>3. ASSUME Retire(c) PROVE Settled'
  <2> DEFINE e == [journal[c] EXCEPT !.retired = TRUE]
  <2>1. e \in Entry /\ e.held = journal[c].held /\ e.result = journal[c].result
    BY <1>e DEF Entry
  <2>2. journal' = [journal EXCEPT ![c] = e] /\ Final(ledger[c])
    BY <1>3, <1>e DEF Retire, Agreed
  <2>3. /\ stage' = [stage EXCEPT ![c] = "idle"] /\ hand' = [hand EXCEPT ![c] = "none"]
        /\ KeepLedger
    BY <1>3 DEF Retire
  <2>4. ledger[c].state \in Terminal /\ e.held => e.result = ledger[c].state
    BY <1>a, <2>1
  <2>5. e.retired => journal[c].retired \/ Final(ledger[c])
    BY <2>2
  <2> HIDE DEF e
  <2> QED
    BY <1>s, <2>1, <2>2, <2>3, <2>4, <2>5, LocalSettled
<1>4. ASSUME Inspect(c) PROVE Settled'
  <2>1. PICK o \in Evidence(c) :
           IF o # "unknown" \/ journal[c].result = "none" THEN GoTo(c, "save", o)
           ELSE IF journal[c].acked THEN Done(c) ELSE GoTo(c, "publish", "none")
    BY <1>4 DEF Inspect
  <2>2. o \in Outcomes /\ ledger[c].state \notin Terminal
    BY <1>4, <1>b DEF Evidence, Outcomes, Inspect
  <2>3. stage[c] = "decide" /\ KeepLedger /\ journal' = [journal EXCEPT ![c] = journal[c]]
    BY <1>4, <1>e DEF Inspect
  <2>4. PICK st \in {"save", "publish", "idle"}, h \in {"none"} \union Outcomes :
           stage' = [stage EXCEPT ![c] = st] /\ hand' = [hand EXCEPT ![c] = h]
    BY <2>1, <2>2
  <2>5. st \in Stages /\ h \in {"none"} \union Answers
    BY <1>s, <2>4
  <2> QED
    BY <1>e, <1>a, <2>2, <2>3, <2>4, <2>5, LocalSettled
<1>5. ASSUME DecideUnknown(c) PROVE Settled'
  <2>1. ledger[c].state \notin Terminal /\ "unknown" \in Answers
    BY <1>5, <1>b DEF DecideUnknown, Answers, Outcomes
  <2> QED
    BY <1>5, <1>e, <1>a, <1>s, <2>1, LocalSettled DEF DecideUnknown
<1>6. ASSUME DecideResend(c) PROVE Settled'
  BY <1>6, <1>e, <1>a, <1>s, LocalSettled DEF DecideResend
<1>7. ASSUME BeginEffect(c) PROVE Settled'
  <2> DEFINE e == [journal[c] EXCEPT !.effect = TRUE]
  <2>1. e \in Entry /\ e.held = journal[c].held /\ e.result = journal[c].result
        /\ e.retired = journal[c].retired
    BY <1>e DEF Entry
  <2>2. journal' = [journal EXCEPT ![c] = e] /\ stage[c] = "decide" /\ KeepLedger
        /\ stage' = [stage EXCEPT ![c] = "effect"] /\ hand' = [hand EXCEPT ![c] = "none"]
    BY <1>7 DEF BeginEffect
  <2>3. ledger[c].state \notin Terminal /\ Acting(c)
    BY <1>7, <1>b DEF BeginEffect, Permitted, Acting
  <2> HIDE DEF e
  <2> QED
    BY <1>e, <1>a, <1>s, <2>1, <2>2, <2>3, LocalSettled
<1>8. ASSUME ObserveOnly(c) \/ Await(c) \/ EffectThrows(c) PROVE Settled'
  <2>1. PICK o \in Outcomes : GoTo(c, "save", o)
    BY <1>8 DEF ObserveOnly, Await, EffectThrows, Outcomes
  <2>2. /\ KeepLedger /\ journal' = [journal EXCEPT ![c] = journal[c]]
        /\ stage[c] \in {"effect", "invoke", "wait"}
    BY <1>8, <1>e DEF ObserveOnly, Await, EffectThrows
  <2>3. ledger[c].state \notin Terminal
    BY <1>e, <2>2 DEF Agreed
  <2> QED
    BY <1>e, <1>a, <1>s, <2>1, <2>2, <2>3, LocalSettled
<1>9. ASSUME Prepare(c) PROVE Settled'
  <2>1. PICK e \in {journal[c], [journal[c] EXCEPT !.target = proc[Project(c)]]} :
           journal' = [journal EXCEPT ![c] = e]
    BY <1>9, <1>e DEF Prepare
  <2>2. proc[Project(c)] \in 0..MaxPids
    BY <1>e DEF MarkedFirst, AgentTyped, LedgerSound, LedgerTyped, Project, Command
  <2>3. e \in Entry /\ e.held = journal[c].held /\ e.result = journal[c].result
        /\ e.retired = journal[c].retired
    BY <1>e, <2>2 DEF Entry
  <2>4. stage[c] = "effect" /\ KeepLedger
        /\ stage' = [stage EXCEPT ![c] = "invoke"] /\ hand' = [hand EXCEPT ![c] = "none"]
    BY <1>9 DEF Prepare
  <2>5. ledger[c].state \notin Terminal /\ Acting(c)
    BY <1>e, <2>4 DEF Agreed, Acting
  <2> QED
    BY <1>e, <1>a, <1>s, <2>1, <2>3, <2>4, <2>5, LocalSettled
<1>10. ASSUME InvokeStart(c) \/ InvokeStop(c) PROVE Settled'
  <2>1. PICK st \in {"wait", "save"}, h \in {"none", "failed"} :
           stage' = [stage EXCEPT ![c] = st] /\ hand' = [hand EXCEPT ![c] = h]
    BY <1>10 DEF InvokeStart, InvokeStop
  <2>2. /\ KeepLedger /\ journal' = [journal EXCEPT ![c] = journal[c]] /\ stage[c] = "invoke"
        /\ h \in {"none"} \union Answers
    BY <1>10, <1>e DEF InvokeStart, InvokeStop, Answers, Outcomes
  <2>3. ledger[c].state \notin Terminal
    BY <1>e, <2>2 DEF Agreed
  <2> QED
    BY <1>e, <1>a, <1>s, <2>1, <2>2, <2>3, LocalSettled
<1>11. ASSUME SaveResult(c) PROVE Settled'
  <2> DEFINE e == [journal[c] EXCEPT !.result = hand[c],
                                     !.acked = journal[c].acked /\ journal[c].result = hand[c]]
  <2>1. hand[c] \in Outcomes /\ stage[c] = "save" /\ ledger[c].state \notin Terminal
    BY <1>11, <1>e DEF SaveResult, Marked, Agreed
  <2>2. e \in Entry /\ e.held = journal[c].held /\ e.retired = journal[c].retired
    BY <1>e, <2>1 DEF Entry
  <2>3. /\ journal' = [journal EXCEPT ![c] = e] /\ KeepLedger
        /\ stage' = [stage EXCEPT ![c] = "publish"] /\ hand' = [hand EXCEPT ![c] = "none"]
    BY <1>11 DEF SaveResult
  <2> HIDE DEF e
  <2> QED
    BY <1>s, <2>1, <2>2, <2>3, LocalSettled
<1>12. ASSUME Acknowledge(c) PROVE Settled'
  <2> DEFINE e == [journal[c] EXCEPT !.acked = TRUE]
  <2>1. e \in Entry /\ e.held = journal[c].held /\ e.result = journal[c].result
        /\ e.retired = journal[c].retired
    BY <1>e DEF Entry
  <2>2. journal' = [journal EXCEPT ![c] = e]
    BY <1>12 DEF Acknowledge
  <2>3. /\ stage' = [stage EXCEPT ![c] = "idle"] /\ hand' = [hand EXCEPT ![c] = "none"]
        /\ KeepLedger
    BY <1>12 DEF Acknowledge
  <2> HIDE DEF e
  <2> QED
    BY <1>e, <1>a, <1>s, <2>1, <2>2, <2>3, LocalSettled
<1>13. ASSUME PruneEntry(c) PROVE Settled'
  <2>1. NoEntry \in Entry /\ ~NoEntry.held /\ ~NoEntry.retired
    BY ExecutorAssumption DEF NoEntry, Entry
  <2>2. stage' = [stage EXCEPT ![c] = "idle"] /\ hand' = [hand EXCEPT ![c] = hand[c]]
    BY <1>13, <1>e DEF PruneEntry, MarkedFirst, AgentTyped
  <2>3. journal' = [journal EXCEPT ![c] = NoEntry] /\ KeepLedger
    BY <1>13 DEF PruneEntry
  <2> QED
    BY <1>e, <1>s, <2>1, <2>2, <2>3, LocalSettled
<1>14. ASSUME RunFails(c) PROVE Settled'
  BY <1>14, <1>e, <1>a, <1>s, LocalSettled DEF RunFails
<1> QED
  BY <1>1, <1>2, <1>3, <1>4, <1>5, <1>6, <1>7, <1>8, <1>9, <1>10, <1>11, <1>12, <1>13, <1>14

(* A result that the fleet takes is the one the agent has saved.            *)
LEMMA PublishCallSettled ==
    ASSUME Settled, MarkedFirst', NEW c \in Commands, PublishCall(c)
    PROVE  Settled'
<1>1. /\ LedgerSound /\ Orderly /\ mine \in 0..MaxSessions /\ stage[c] = "publish"
      /\ journal' = [journal EXCEPT ![c] = journal[c]] /\ journal[c] \in Entry /\ journal' = journal
      /\ Agreed(c) /\ journal[c].result # "none"
  BY RunOne DEF PublishCall, Settled, MarkedFirst, AgentTyped, Marked
<1>2. journal[c].result \in Outcomes
  BY <1>1 DEF Entry
<1>3. /\ Orderly' /\ \A d \in Commands : Goes(d) /\ (d # c => Untouched(d))
      /\ ledger'[c].state \in Terminal => ledger'[c].state \in {ledger[c].state, journal[c].result}
  BY <1>1, <1>2, PublishOrderly DEF PublishCall
<1>4. PICK st \in {"acknowledge", "idle"} :
         stage' = [stage EXCEPT ![c] = st] /\ hand' = [hand EXCEPT ![c] = "none"]
  BY DEF PublishCall, Done, GoTo
<1>5. stage'[c] = st /\ st \in Stages /\ st \notin {"answered", "decide", "retire", "effect", "invoke", "wait", "save"}
  BY <1>4 DEF Settled, MarkedFirst, AgentTyped, Stages
<1>6. Agreed(c)' /\ ~Acting(c)'
  <2>1. ledger'[c].state \in Terminal /\ journal'[c].held => journal'[c].result = ledger'[c].state
    BY <1>1, <1>3 DEF Agreed
  <2>2. journal'[c].retired => Final(ledger'[c])
    BY <1>1, <1>3 DEF Agreed, Goes, Follows, Final
  <2> QED
    BY <1>5, <2>1, <2>2 DEF Agreed, Acting
<1> QED
  BY <1>1, <1>3, <1>4, <1>5, <1>6, RunSettled

(* A poll delivers what is not settled, and begins no operation.            *)
LEMMA PollSettled == ASSUME Settled, MarkedFirst', Poll PROVE Settled'
<1> DEFINE delivered ==
       {c \in Commands : Recovered[c].state = "accepted" /\ ledger[c].session = mine}
<1>1. Orderly' /\ \A c \in Commands : Goes(c) /\ Untouched(c)
  BY RecoverOrderly DEF Poll, Recover, Settled, MarkedFirst
<1>2. /\ journal' = [c \in Commands |->
            IF c \in delivered THEN [journal[c] EXCEPT !.held = TRUE] ELSE journal[c]]
      /\ stage' = [c \in Commands |-> IF Pending(journal'[c]) THEN "queued" ELSE "idle"]
      /\ ledger' = Recovered
  BY DEF Poll, Recover
<1>3. ASSUME NEW c \in Commands PROVE Heard(c)' /\ Agreed(c)' /\ ~Acting(c)'
  <2>1. Heard(c) /\ Agreed(c) /\ Goes(c) /\ Untouched(c) /\ journal[c] \in Entry
        /\ ledger'[c] = Recovered[c] /\ stage'[c] \in {"queued", "idle"}
    BY <1>1, <1>2 DEF Settled, MarkedFirst, AgentTyped
  <2>2. CASE c \in delivered
    <3>1. journal'[c].retired = journal[c].retired /\ ledger'[c].state = "accepted"
      BY <1>2, <2>1, <2>2 DEF Entry
    <3>2. ledger[c].state # "none"
      BY <2>1, <3>1, RecoveredGoesOn DEF Settled, MarkedFirst
    <3>3. journal'[c].retired => Final(ledger'[c])
      BY <2>1, <3>1, <3>2 DEF Agreed, Goes, Follows
    <3> QED
      BY <2>1, <3>1, <3>3 DEF Heard, Agreed, Acting, Terminal
  <2>3. CASE c \notin delivered
    <3>1. journal'[c] = journal[c]
      BY <1>2, <2>3
    <3>2. ledger'[c].state \in Terminal => ledger'[c].state = ledger[c].state
      BY <2>1 DEF Untouched, Untouching
    <3>3. journal[c].retired => Final(ledger'[c])
      BY <2>1 DEF Agreed, Goes, Follows, Final
    <3>4. Heard(c)'
      BY <2>1, <3>1 DEF Heard, Goes, Follows
    <3> QED
      BY <2>1, <3>1, <3>2, <3>3, <3>4 DEF Agreed, Acting
  <2> QED
    BY <2>2, <2>3
<1> QED
  BY <1>1, <1>3 DEF Settled, Ordered

LEMMA OthersSettled ==
    ASSUME Settled, MarkedFirst'
    PROVE  /\ Connect \/ Disconnect \/ Crash \/ Fleet \/ UNCHANGED vars => Settled'
           /\ \A p \in Projects : StartedByHand(p) \/ Exits(p) => Settled'
<1>1. LedgerSound /\ Orderly /\ \A c \in Commands : c \in due => ledger[c].state \in {"accepted", "executing"}
  BY DEF Settled, MarkedFirst, Orderly
<1>2. ASSUME Connect \/ Disconnect \/ Crash \/ UNCHANGED vars
             \/ \E p \in Projects : StartedByHand(p) \/ Exits(p)
      PROVE  /\ ledger' = ledger /\ submitted' = submitted /\ due' = due /\ journal' = journal
             /\ \A c \in Commands :
                   stage'[c] = "idle" \/ (stage'[c] = stage[c] /\ hand'[c] = hand[c])
  <2>1. CASE Connect
    BY <2>1 DEF Connect, OpenSession
  <2>2. CASE Disconnect \/ Crash
    BY <2>2 DEF Disconnect, Crash, KeepLedger, ledgerVars
  <2>3. CASE UNCHANGED vars
    BY <2>3 DEF vars, ledgerVars, agentVars
  <2>4. CASE \E p \in Projects : StartedByHand(p) \/ Exits(p)
    BY <2>4 DEF StartedByHand, Exits, KeepLedger, ledgerVars, agentVars
  <2> QED
    BY <1>2, <2>1, <2>2, <2>3, <2>4
<1>3. ASSUME Connect \/ Disconnect \/ Crash \/ UNCHANGED vars
             \/ \E p \in Projects : StartedByHand(p) \/ Exits(p)
      PROVE  Settled'
  <2>1. Orderly' /\ \A c \in Commands : Goes(c) /\ Untouched(c)
    BY <1>1, <1>2, <1>3, SameOrderly
  <2> QED
    BY <1>2, <1>3, <2>1, AroundSettled
<1>4. ASSUME Fleet PROVE Settled'
  <2>1. Orderly' /\ \A c \in Commands : Goes(c) /\ Untouched(c)
    BY <1>1, <1>4, ControlOrderly DEF Fleet
  <2>2. journal' = journal /\ stage' = stage /\ hand' = hand
    BY <1>4 DEF Fleet, agentVars
  <2> QED
    BY <2>1, <2>2, AroundSettled
<1> QED
  BY <1>3, <1>4

LEMMA SettledNext == Settled /\ [Next]_vars => Settled'
<1> SUFFICES ASSUME Settled, [Next]_vars PROVE Settled'
  OBVIOUS
<1>1. MarkedFirst'
  BY MarkedNext DEF Settled
<1>2. ASSUME NEW c \in Commands, Run(c) PROVE Settled'
  BY <1>1, <1>2, ClaimCallSettled, RunLocallySettled, PublishCallSettled DEF Run
<1>3. CASE Agent
  BY <1>1, <1>2, <1>3, PollSettled, OthersSettled DEF Agent
<1>4. CASE Host
  BY <1>1, <1>4, RunLocallySettled, OthersSettled DEF Host
<1> QED
  BY <1>1, <1>3, <1>4, OthersSettled DEF Next

(* The two sides agree: the fleet says succeeded or failed only of what the *)
(* agent has found so and saved, whatever deadlines passed, answers were    *)
(* lost or records closed (publishResult of the ledger), and the agent      *)
(* gives up no entry the operator still waits for (retire of the journal,   *)
(* from the answers that `run' of the executor takes for settled).          *)
THEOREM OutcomesAgreed == Spec => []OutcomesAgree
<1>1. Settled => OutcomesAgree
  BY DEF Settled, Agreed, Final, OutcomesAgree, OutcomesAreTheAgents, RetiredAreSettled
<1> QED
  BY <1>1, SettledInit, SettledNext, PTL DEF Spec, Settled

(* An older command of a project does not act once a newer one was claimed: *)
(* the fleet submits none while one of the project is outstanding           *)
(* (submitCommand); an older one closed while it was acting is over before  *)
(* the agent polls again and learns of the newer (handlePoll), and one that *)
(* was not acting yet finds at its claim that it is closed (claim).         *)
THEOREM InOrder == Spec => EffectsInOrder
<1> DEFINE Kept == \A c, d \in Commands :
              invoked'[c] > invoked[c] /\ c < d /\ ledger[d].project = ledger[c].project
                  => ledger[d].owner = 0
<1>1. Settled /\ [Next]_vars => [Kept]_vars
  <2> SUFFICES ASSUME Settled, Next,
                      NEW c \in Commands, NEW d \in Commands, invoked'[c] > invoked[c],
                      c < d, ledger[d].project = ledger[c].project
               PROVE  ledger[d].owner = 0
    OBVIOUS
  <2>1. invoked[c] \in Nat /\ invoked \in [Commands -> Nat]
    BY DEF Settled, MarkedFirst, AgentTyped
  <2>2. invoked' # invoked
    BY <2>1
  <2>3. PICK b \in Commands : InvokeStart(b) \/ InvokeStop(b)
    <3>1. CASE Fleet
      BY <2>2, <3>1 DEF Fleet, hostVars
    <3>2. CASE Host
      BY <2>2, <3>2 DEF Host, EffectThrows, RunFails, PruneEntry, StartedByHand, Exits, Crash,
                        KeepHost, hostVars
    <3>3. CASE Agent
      <4>1. ASSUME NEW b \in Commands, Run(b), ~InvokeStart(b), ~InvokeStop(b) PROVE invoked' = invoked
        BY <4>1 DEF Run, ClaimCall, RecordClaim, DecideRetire, Retire, Inspect, DecideUnknown,
                    DecideResend, BeginEffect, ObserveOnly, Prepare, Await, SaveResult,
                    PublishCall, Acknowledge, KeepHost, hostVars
      <4>2. Connect \/ Disconnect \/ Poll => invoked' = invoked
        BY DEF Connect, Disconnect, Poll, KeepHost, hostVars
      <4> QED
        BY <2>2, <3>3, <4>1, <4>2 DEF Agent
    <3> QED
      BY <3>1, <3>2, <3>3 DEF Next
  <2>4. b = c
    BY <2>1, <2>3 DEF InvokeStart, InvokeStop, Invoke
  <2>5. Acting(c)
    BY <2>3, <2>4 DEF InvokeStart, InvokeStop, Acting
  <2> QED
    BY <2>5 DEF Settled, Ordered, Last
<1> QED
  BY <1>1, SettledInit, SettledNext, PTL DEF Spec, EffectsInOrder
=============================================================================
