------------------------ MODULE DaemonControlProofs ------------------------
(* Proofs about starting and stopping: at most one daemon serves a project, *)
(* whoever is told that the expected process had stopped can rely on it,    *)
(* and an expected stop signals nobody else.                                *)
EXTENDS DaemonControl, TLAPS

(* A process that lives is the one that runs under its pid, so that a       *)
(* record which names it is never taken for a dead one's.                   *)
Identities ==
    \A d \in Daemons :
        /\ IF main[d] = "unborn" THEN pid[d] = Nobody ELSE pid[d] \in Pids
        /\ Live(d) => holder[pid[d]] = d

(* From each acquisition to its release the file names its holder, unless a *)
(* start was overtaken.                                                     *)
Folders ==
    overtaken = {} =>
        \A d \in Daemons :
            main[d] \in {"folder", "lockRead", "locked", "swept", "listening", "up"}
            /\ closing[d] # "done" => folder = d

Locks == overtaken = {} => \A d \in Daemons : Serving(d) => lock = d

(* The record a start goes by is that of the file that is there.            *)
Hands ==
    overtaken = {} =>
        \A d \in Daemons :
            /\ main[d] = "folderRead" => folder \in {Nobody, hand[d]}
            /\ main[d] = "lockRead" => lock \in {Nobody, hand[d]}

(* A process that was found stopped has left no lock, and takes none again. *)
Stopped ==
    \A s \in Stoppers :
        stopper[s].result = "already_stopped"
            => /\ stopper[s].target \in Daemons
               /\ main[stopper[s].target] = "gone"
               /\ stopper[s].target # folder /\ stopper[s].target # lock

IInv == TypeOK /\ Identities /\ Folders /\ Locks /\ Hands /\ Stopped

-----------------------------------------------------------------------------
(* What the two shared moves do: a command goes to its next step, and a     *)
(* process ends.                                                            *)

LEMMA GoesOne ==
    ASSUME TypeOK, NEW s \in Stoppers, NEW target \in Who,
           NEW pc \in {"idle", "found", "cleaning", "asking", "done"},
           NEW result \in {"none", "not_running", "signalled", "killed", "failed",
                      "superseded", "unverified", "already_stopped", "signal_sent"},
           Goes(s, pc, target, result)
    PROVE  /\ stopper' \in [Stoppers -> Command]
           /\ stopper'[s] = [pc |-> pc, target |-> target, result |-> result]
           /\ \A z \in Stoppers : z # s => stopper'[z] = stopper[z]
  BY DEF TypeOK, Goes, Command

LEMMA EndsOne ==
    ASSUME TypeOK, Identities, NEW d \in Daemons, main[d] # "unborn", holder[pid[d]] = d,
           Ends(d)
    PROVE  /\ main' \in [Daemons -> MainSteps] /\ main'[d] = "gone"
           /\ \A c \in Daemons : c # d => main'[c] = main[c]
           /\ pid' = pid /\ termed' \subseteq Daemons
           /\ holder' \in [Pids -> Who \cup {Stranger}]
           /\ Identities'
<1>1. pid[d] \in Pids
  BY DEF Identities
<1>2. /\ main' \in [Daemons -> MainSteps] /\ main'[d] = "gone"
      /\ \A c \in Daemons : c # d => main'[c] = main[c]
      /\ pid' = pid /\ termed' \subseteq Daemons
  BY DEF TypeOK, Ends, MainSteps
<1>3. /\ holder' \in [Pids -> Who \cup {Stranger}]
      /\ \A p \in Pids : p # pid[d] => holder'[p] = holder[p]
  BY <1>1 DEF TypeOK, Ends, Who
<1>4. ASSUME NEW c \in Daemons
      PROVE  /\ IF main'[c] = "unborn" THEN pid'[c] = Nobody ELSE pid'[c] \in Pids
             /\ Live(c)' => holder'[pid'[c]] = c
  <2>1. CASE c = d
    BY <2>1, <1>1, <1>2 DEF Live
  <2>2. CASE c # d
    BY <2>2, <1>1, <1>2, <1>3 DEF Live, Identities
  <2> QED
    BY <2>1, <2>2
<1> QED
  BY <1>2, <1>3, <1>4 DEF Identities

(* A live process is found by any record that names it.                     *)
LEMMA LiveRuns ==
    ASSUME TypeOK, Identities, ControlAssumption, NEW d \in Daemons, Live(d)
    PROVE  Running(d) /\ pid[d] \in Pids /\ holder[pid[d]] = d
  BY DEF Live, Identities, Running, ControlAssumption, Pids

(* A process that has not been spawned, or is gone, takes part in nothing.  *)
LEMMA EndsKeeps ==
    ASSUME IInv, NEW d \in Daemons, main[d] # "unborn", holder[pid[d]] = d, Ends(d),
           closing' = closing, lock' = lock, overtaken' = overtaken,
           \A c \in Daemons : c # d => hand'[c] = hand[c],
           folder' = folder \/ (folder' = Nobody /\ folder = d),
           Nobody \notin Nat,
           \A s \in Stoppers : stopper'[s].result = "already_stopped"
               => stopper'[s] = stopper[s]
    PROVE  Identities' /\ Folders' /\ Locks' /\ Hands' /\ Stopped'
<1>1. /\ main'[d] = "gone" /\ \A c \in Daemons : c # d => main'[c] = main[c]
      /\ Identities'
  BY EndsOne DEF IInv
<1>2. Folders'
  BY <1>1 DEF IInv, Folders
<1>3. Locks'
  BY <1>1 DEF IInv, Locks, Serving
<1>5. Hands'
  BY <1>1 DEF IInv, Hands
<1>4. Stopped'
  BY <1>1 DEF IInv, Stopped, Daemons
<1> QED
  BY <1>1, <1>2, <1>3, <1>4, <1>5

LEMMA SpawnKeeps ==
    ASSUME IInv, ControlAssumption, NEW d \in Daemons, NEW by \in {"waiting", "foreground"}, Spawn(d, by)
    PROVE  IInv'
<1>1. TypeOK'
  BY DEF IInv, TypeOK, Spawn, procs, hands, files, MainSteps, Who, Pids
<1>2. Identities'
  BY DEF IInv, TypeOK, Identities, Live, Spawn, procs, hands, files, MainSteps, Pids, Daemons
<1>3. Folders' /\ Locks' /\ Hands'
  BY DEF IInv, TypeOK, Folders, Locks, Hands, Serving, Spawn, procs, hands, files, MainSteps
<1>4. Stopped'
  BY DEF IInv, TypeOK, Stopped, Spawn, procs, hands, files, MainSteps, ControlAssumption, Daemons
<1> QED
  BY <1>1, <1>2, <1>3, <1>4 DEF IInv

LEMMA SweepKeeps ==
    ASSUME IInv, ControlAssumption, NEW d \in Daemons, Sweep(d)
    PROVE  IInv'
<1>1. TypeOK'
  BY DEF IInv, TypeOK, Sweep, procs, hands, files, MainSteps, Who
<1>2. Identities'
  BY DEF IInv, TypeOK, Identities, Live, Sweep, procs, hands, files, MainSteps, Pids, Daemons
<1>3. Folders' /\ Locks' /\ Hands'
  BY DEF IInv, TypeOK, Folders, Locks, Hands, Serving, Sweep, procs, hands, files, MainSteps
<1>4. Stopped'
  BY DEF IInv, TypeOK, Stopped, Sweep, procs, hands, files, MainSteps, ControlAssumption, Daemons
<1> QED
  BY <1>1, <1>2, <1>3, <1>4 DEF IInv

LEMMA ListenKeeps ==
    ASSUME IInv, ControlAssumption, NEW d \in Daemons, Listen(d)
    PROVE  IInv'
<1>1. TypeOK'
  BY DEF IInv, TypeOK, Listen, procs, hands, files, MainSteps, Who
<1>2. Identities'
  BY DEF IInv, TypeOK, Identities, Live, Listen, procs, hands, files, MainSteps, Pids, Daemons
<1>3. Folders' /\ Locks' /\ Hands'
  BY DEF IInv, TypeOK, Folders, Locks, Hands, Serving, Listen, procs, hands, files, MainSteps
<1>4. Stopped'
  BY DEF IInv, TypeOK, Stopped, Listen, procs, hands, files, MainSteps, ControlAssumption, Daemons
<1> QED
  BY <1>1, <1>2, <1>3, <1>4 DEF IInv

LEMMA GetReadyKeeps ==
    ASSUME IInv, ControlAssumption, NEW d \in Daemons, GetReady(d)
    PROVE  IInv'
<1>1. TypeOK'
  BY DEF IInv, TypeOK, GetReady, procs, hands, files, MainSteps
<1>2. Identities'
  BY DEF IInv, TypeOK, Identities, Live, GetReady, procs, hands, files, MainSteps, Pids, Daemons
<1>3. Folders' /\ Locks' /\ Hands'
  BY DEF IInv, TypeOK, Folders, Locks, Hands, Serving, GetReady, procs, hands, files, MainSteps
<1>4. Stopped'
  BY DEF IInv, TypeOK, Stopped, GetReady, procs, hands, files, MainSteps, ControlAssumption, Daemons
<1> QED
  BY <1>1, <1>2, <1>3, <1>4 DEF IInv

LEMMA CeaseKeeps ==
    ASSUME IInv, ControlAssumption, NEW d \in Daemons, Cease(d)
    PROVE  IInv'
<1>1. TypeOK'
  BY DEF IInv, TypeOK, Cease, procs, hands, files, Who
<1>2. Identities'
  BY DEF IInv, TypeOK, Identities, Live, Cease, procs, hands, files, MainSteps, Pids, Daemons
<1>3. Folders' /\ Locks' /\ Hands'
  BY DEF IInv, TypeOK, Folders, Locks, Hands, Serving, Cease, procs, hands, files, MainSteps
<1>4. Stopped'
  BY DEF IInv, TypeOK, Stopped, Cease, procs, hands, files, MainSteps, ControlAssumption, Daemons
<1> QED
  BY <1>1, <1>2, <1>3, <1>4 DEF IInv

LEMMA UnlockKeeps ==
    ASSUME IInv, ControlAssumption, NEW d \in Daemons, Unlock(d)
    PROVE  IInv'
<1>1. TypeOK'
  BY DEF IInv, TypeOK, Unlock, procs, hands, files, ClosingSteps, Who
<1>2. Identities'
  BY DEF IInv, TypeOK, Identities, Live, Unlock, procs, hands, files, MainSteps, Pids, Daemons
<1>3. Folders' /\ Locks' /\ Hands'
  BY DEF IInv, TypeOK, Folders, Locks, Hands, Serving, Unlock, procs, hands, files, MainSteps
<1>4. Stopped'
  BY DEF IInv, TypeOK, Stopped, Unlock, procs, hands, files, MainSteps, ControlAssumption, Daemons
<1> QED
  BY <1>1, <1>2, <1>3, <1>4 DEF IInv

LEMMA UnlockFolderKeeps ==
    ASSUME IInv, ControlAssumption, NEW d \in Daemons, UnlockFolder(d)
    PROVE  IInv'
<1>1. TypeOK'
  BY DEF IInv, TypeOK, UnlockFolder, procs, hands, files, ClosingSteps, Who
<1>2. Identities'
  BY DEF IInv, TypeOK, Identities, Live, UnlockFolder, procs, hands, files, MainSteps, Pids, Daemons
<1>3. Folders' /\ Locks' /\ Hands'
  BY DEF IInv, TypeOK, Folders, Locks, Hands, Serving, UnlockFolder, procs, hands, files, MainSteps
<1>4. Stopped'
  BY DEF IInv, TypeOK, Stopped, UnlockFolder, procs, hands, files, MainSteps, ControlAssumption, Daemons
<1> QED
  BY <1>1, <1>2, <1>3, <1>4 DEF IInv

LEMMA ReuseKeeps ==
    ASSUME IInv, ControlAssumption, NEW p \in Pids, Reuse(p)
    PROVE  IInv'
<1>1. TypeOK'
  BY DEF IInv, TypeOK, Reuse, procs, hands, files, Who
<1>2. Identities'
  BY DEF IInv, TypeOK, Identities, Live, Reuse, procs, hands, files, MainSteps, Pids, Daemons
<1>3. Folders' /\ Locks' /\ Hands'
  BY DEF IInv, TypeOK, Folders, Locks, Hands, Serving, Reuse, procs, hands, files, MainSteps
<1>4. Stopped'
  BY DEF IInv, TypeOK, Stopped, Reuse, procs, hands, files, MainSteps, ControlAssumption, Daemons
<1> QED
  BY <1>1, <1>2, <1>3, <1>4 DEF IInv

LEMMA RecordKeeps ==
    ASSUME IInv, ControlAssumption, NEW d \in Daemons, Record(d)
    PROVE  IInv'
<1>1. TypeOK'
  BY DEF IInv, TypeOK, Record, procs, hands, files, Who
<1>2. Identities'
  BY DEF IInv, TypeOK, Identities, Live, Record, procs, hands, files, MainSteps, Pids, Daemons
<1>3. Folders' /\ Locks' /\ Hands'
  BY DEF IInv, TypeOK, Folders, Locks, Hands, Serving, Record, procs, hands, files, MainSteps
<1>4. Stopped'
  BY DEF IInv, TypeOK, Stopped, Record, procs, hands, files, MainSteps, ControlAssumption, Daemons
<1> QED
  BY <1>1, <1>2, <1>3, <1>4 DEF IInv

LEMMA GiveUpKeeps ==
    ASSUME IInv, ControlAssumption, NEW d \in Daemons, GiveUp(d)
    PROVE  IInv'
<1>1. TypeOK'
  BY DEF IInv, TypeOK, GiveUp, procs, hands, files, Reached, Who
<1>2. Identities'
  BY DEF IInv, TypeOK, Identities, Live, GiveUp, procs, hands, files, MainSteps, Pids, Daemons
<1>3. Folders' /\ Locks' /\ Hands'
  BY DEF IInv, TypeOK, Folders, Locks, Hands, Serving, GiveUp, procs, hands, files, MainSteps
<1>4. Stopped'
  BY DEF IInv, TypeOK, Stopped, GiveUp, procs, hands, files, MainSteps, ControlAssumption, Daemons
<1> QED
  BY <1>1, <1>2, <1>3, <1>4 DEF IInv

LEMMA CreateFolderKeeps ==
    ASSUME IInv, ControlAssumption, NEW d \in Daemons, CreateFolder(d)
    PROVE  IInv'
<1>1. /\ TypeOK /\ main[d] = "booting" /\ folder = Nobody /\ folder' = d
      /\ main' = [main EXCEPT ![d] = "folder"] /\ d # Nobody
      /\ overtaken' = overtaken \cup Readers("folderRead")
      /\ UNCHANGED <<closing, termed, pid, holder, kills, hand, lock, pidfile, socket, ready,
                     starter, stopper>>
  BY DEF IInv, CreateFolder, ControlAssumption, Daemons
<1>2. TypeOK'
  BY <1>1 DEF TypeOK, MainSteps, Who, Readers
<1>3. Identities'
  BY <1>1 DEF IInv, TypeOK, Identities, Live
<1>4. ASSUME overtaken' = {}
      PROVE  /\ overtaken = {} /\ \A c \in Daemons : main[c] # "folderRead"
             /\ \A c \in Daemons :
                   main[c] \in {"folder", "lockRead", "locked", "swept", "listening", "up"}
                      => closing[c] = "done"
  <2>1. overtaken = {} /\ \A c \in Daemons : main[c] # "folderRead"
    BY <1>1, <1>4 DEF Readers
  <2> QED
    BY <1>1, <2>1 DEF IInv, Folders, ControlAssumption, Daemons
<1>5. Folders' /\ Locks'
  BY <1>1, <1>4 DEF IInv, TypeOK, Folders, Locks, Serving
<1>6. Hands'
  BY <1>1, <1>4 DEF IInv, TypeOK, Hands
<1>7. Stopped'
  BY <1>1 DEF IInv, TypeOK, Stopped
<1> QED
  BY <1>2, <1>3, <1>5, <1>6, <1>7 DEF IInv

LEMMA CreateLockKeeps ==
    ASSUME IInv, ControlAssumption, NEW d \in Daemons, CreateLock(d)
    PROVE  IInv'
<1>1. /\ TypeOK /\ main[d] = "folder" /\ lock = Nobody /\ lock' = d
      /\ main' = [main EXCEPT ![d] = "locked"] /\ d # Nobody
      /\ overtaken' = overtaken \cup Readers("lockRead")
      /\ UNCHANGED <<closing, termed, pid, holder, kills, hand, folder, pidfile, socket, ready,
                     starter, stopper>>
  BY DEF IInv, CreateLock, ControlAssumption, Daemons
<1>2. TypeOK'
  BY <1>1 DEF TypeOK, MainSteps, Who, Readers
<1>3. Identities'
  BY <1>1 DEF IInv, TypeOK, Identities, Live
<1>4. ASSUME overtaken' = {}
      PROVE  /\ overtaken = {} /\ \A c \in Daemons : main[c] # "lockRead"
             /\ \A c \in Daemons : ~Serving(c)
  <2>1. overtaken = {} /\ \A c \in Daemons : main[c] # "lockRead"
    BY <1>1, <1>4 DEF Readers
  <2> QED
    BY <1>1, <2>1 DEF IInv, Locks, ControlAssumption, Daemons
<1>5. Folders' /\ Locks'
  BY <1>1, <1>4 DEF IInv, TypeOK, Folders, Locks, Serving
<1>6. Hands'
  BY <1>1, <1>4 DEF IInv, TypeOK, Hands
<1>7. Stopped'
  BY <1>1 DEF IInv, TypeOK, Stopped
<1> QED
  BY <1>2, <1>3, <1>5, <1>6, <1>7 DEF IInv

LEMMA ReadFolderKeeps ==
    ASSUME IInv, ControlAssumption, NEW d \in Daemons, ReadFolder(d)
    PROVE  IInv'
<1>1. TypeOK'
  BY DEF IInv, TypeOK, ReadFolder, files, MainSteps
<1>2. Identities'
  BY DEF IInv, TypeOK, Identities, Live, ReadFolder, files
<1>3. Folders' /\ Locks' /\ Hands'
  BY DEF IInv, TypeOK, Folders, Locks, Hands, Serving, ReadFolder, files
<1>4. Stopped'
  BY DEF IInv, TypeOK, Stopped, ReadFolder, files
<1> QED
  BY <1>1, <1>2, <1>3, <1>4 DEF IInv

LEMMA ReadLockKeeps ==
    ASSUME IInv, ControlAssumption, NEW d \in Daemons, ReadLock(d)
    PROVE  IInv'
<1>1. TypeOK'
  BY DEF IInv, TypeOK, ReadLock, files, MainSteps
<1>2. Identities'
  BY DEF IInv, TypeOK, Identities, Live, ReadLock, files
<1>3. Folders' /\ Locks' /\ Hands'
  BY DEF IInv, TypeOK, Folders, Locks, Hands, Serving, ReadLock, files
<1>4. Stopped'
  BY DEF IInv, TypeOK, Stopped, ReadLock, files
<1> QED
  BY <1>1, <1>2, <1>3, <1>4 DEF IInv

LEMMA TakeOverFolderKeeps ==
    ASSUME IInv, ControlAssumption, NEW d \in Daemons, TakeOverFolder(d)
    PROVE  IInv'
<1>1. /\ Live(d) /\ main[d] # "unborn" /\ holder[pid[d]] = d /\ main[d] = "folderRead"
      /\ TypeOK /\ closing' = closing /\ lock' = lock /\ stopper' = stopper
      /\ overtaken' = overtaken /\ Nobody \notin Nat
      /\ hand' \in [Daemons -> Who] /\ \A c \in Daemons : c # d => hand'[c] = hand[c]
  BY DEF IInv, TypeOK, TakeOverFolder, Live, Identities, ControlAssumption, Daemons, Who
<1>2. CASE Running(hand[d])
  <2>1. Ends(d) /\ folder' = folder
    BY <1>2 DEF TakeOverFolder
  <2>2. Identities' /\ Folders' /\ Locks' /\ Hands' /\ Stopped'
    BY <1>1, <2>1, EndsKeeps
  <2>3. TypeOK'
    BY <1>1, <2>1, EndsOne DEF IInv, TypeOK, TakeOverFolder
  <2> QED
    BY <2>2, <2>3 DEF IInv
<1>3. CASE ~Running(hand[d])
  <2>1. /\ folder' = Nobody /\ main' = [main EXCEPT ![d] = "booting"]
        /\ UNCHANGED <<termed, pid, holder>>
    BY <1>3 DEF TakeOverFolder
  <2>2. TypeOK'
    BY <1>1, <2>1 DEF TypeOK, TakeOverFolder, MainSteps, Who
  <2>3. Identities'
    BY <1>1, <2>1 DEF IInv, TypeOK, Identities, Live
  <2>4. ASSUME overtaken = {}
        PROVE  \A c \in Daemons :
                  main[c] \in {"folder", "lockRead", "locked", "swept", "listening", "up"}
                     => closing[c] = "done"
    <3> SUFFICES ASSUME NEW c \in Daemons, closing[c] # "done",
                        main[c] \in {"folder", "lockRead", "locked", "swept", "listening", "up"}
                 PROVE  FALSE
      OBVIOUS
    <3>1. folder = c /\ c # Nobody
      BY <2>4, ControlAssumption DEF IInv, Folders, Daemons, ControlAssumption
    <3>2. Running(c)
      BY <3>1, LiveRuns, ControlAssumption DEF IInv, Live
    <3>3. hand[d] = c
      BY <1>1, <2>4, <3>1 DEF IInv, Hands
    <3> QED
      BY <3>2, <3>3, <1>3
  <2>5. Folders' /\ Locks'
    BY <1>1, <2>1, <2>4 DEF IInv, TypeOK, Folders, Locks, Serving
  <2>6. Hands'
    BY <1>1, <2>1 DEF IInv, TypeOK, Hands
  <2>7. Stopped'
    BY <1>1, <2>1 DEF IInv, TypeOK, Stopped, Daemons
  <2> QED
    BY <2>2, <2>3, <2>5, <2>6, <2>7 DEF IInv
<1> QED
  BY <1>2, <1>3

LEMMA TakeOverLockKeeps ==
    ASSUME IInv, ControlAssumption, NEW d \in Daemons, TakeOverLock(d)
    PROVE  IInv'
<1>1. /\ Live(d) /\ main[d] # "unborn" /\ holder[pid[d]] = d /\ main[d] = "lockRead"
      /\ TypeOK /\ closing' = closing /\ stopper' = stopper
      /\ overtaken' = overtaken /\ Nobody \notin Nat
      /\ hand' \in [Daemons -> Who] /\ \A c \in Daemons : c # d => hand'[c] = hand[c]
  BY DEF IInv, TypeOK, TakeOverLock, Live, Identities, ControlAssumption, Daemons, Who
<1>2. CASE Running(hand[d])
  <2>1. /\ Ends(d) /\ lock' = lock
        /\ folder' = folder \/ (folder' = Nobody /\ folder = d)
    BY <1>2 DEF TakeOverLock
  <2>2. Identities' /\ Folders' /\ Locks' /\ Hands' /\ Stopped'
    BY <1>1, <2>1, EndsKeeps
  <2>3. TypeOK'
    BY <1>1, <2>1, EndsOne DEF IInv, TypeOK, TakeOverLock, Who
  <2> QED
    BY <2>2, <2>3 DEF IInv
<1>3. CASE ~Running(hand[d])
  <2>1. /\ lock' = Nobody /\ main' = [main EXCEPT ![d] = "folder"]
        /\ UNCHANGED <<folder, termed, pid, holder>>
    BY <1>3 DEF TakeOverLock
  <2>2. TypeOK'
    BY <1>1, <2>1 DEF TypeOK, TakeOverLock, MainSteps, Who
  <2>3. Identities'
    BY <1>1, <2>1 DEF IInv, TypeOK, Identities, Live
  <2>4. ASSUME overtaken = {} PROVE \A c \in Daemons : ~Serving(c)
    <3> SUFFICES ASSUME NEW c \in Daemons, Serving(c) PROVE FALSE
      OBVIOUS
    <3>1. lock = c /\ c # Nobody
      BY <2>4, ControlAssumption DEF IInv, Locks, Daemons, ControlAssumption
    <3>2. Running(c)
      BY <3>1, LiveRuns, ControlAssumption DEF IInv, Serving, Live
    <3>3. hand[d] = c
      BY <1>1, <2>4, <3>1 DEF IInv, Hands
    <3> QED
      BY <3>2, <3>3, <1>3
  <2>5. Folders' /\ Locks'
    BY <1>1, <2>1, <2>4 DEF IInv, TypeOK, Folders, Locks, Serving
  <2>6. Hands'
    BY <1>1, <2>1 DEF IInv, TypeOK, Hands
  <2>7. Stopped'
    BY <1>1, <2>1 DEF IInv, TypeOK, Stopped, Daemons
  <2> QED
    BY <2>2, <2>3, <2>5, <2>6, <2>7 DEF IInv
<1> QED
  BY <1>2, <1>3

LEMMA LoseLeaseKeeps ==
    ASSUME IInv, ControlAssumption, NEW d \in Daemons, LoseLease(d)
    PROVE  IInv'
<1>1. TypeOK'
  BY DEF IInv, TypeOK, LoseLease, hands, files
<1>2. Identities'
  BY DEF IInv, TypeOK, Identities, Live, LoseLease
<1>3. Folders' /\ Locks' /\ Hands'
  BY DEF IInv, TypeOK, Folders, Locks, Hands, Serving, LoseLease, hands, files
<1>4. Stopped'
  BY DEF IInv, TypeOK, Stopped, LoseLease, files
<1> QED
  BY <1>1, <1>2, <1>3, <1>4 DEF IInv

LEMMA TerminateKeeps ==
    ASSUME IInv, ControlAssumption, NEW d \in Daemons, Terminate(d)
    PROVE  IInv'
<1>1. /\ Live(d) /\ main[d] # "unborn" /\ holder[pid[d]] = d /\ TypeOK
      /\ lock' = lock /\ folder' = folder /\ stopper' = stopper /\ Nobody \notin Nat
      /\ UNCHANGED <<hand, overtaken>>
  BY DEF IInv, Terminate, Live, Identities, ControlAssumption, Daemons, files, hands
<1>2. CASE main[d] \in {"booting", "folderRead", "folder", "lockRead"}
  <2>1. Ends(d) /\ closing' = closing /\ socket' = socket
    BY <1>2 DEF Terminate
  <2>2. Identities' /\ Folders' /\ Locks' /\ Hands' /\ Stopped'
    BY <1>1, <2>1, EndsKeeps
  <2>3. TypeOK'
    BY <1>1, <2>1, EndsOne DEF IInv, TypeOK, Terminate, files
  <2> QED
    BY <2>2, <2>3 DEF IInv
<1>3. CASE main[d] \notin {"booting", "folderRead", "folder", "lockRead"}
  <2>1. /\ termed' = termed \ {d} /\ UNCHANGED <<main, pid, holder>>
        /\ \/ /\ closing[d] = "no" /\ closing' = [closing EXCEPT ![d] = "draining"]
              /\ socket' = Unbound(d)
           \/ UNCHANGED <<closing, socket>>
    BY <1>3 DEF Terminate
  <2>2. TypeOK'
    BY <1>1, <2>1 DEF TypeOK, Terminate, ClosingSteps, Unbound, Who, files
  <2>3. Identities' /\ Folders' /\ Locks' /\ Hands' /\ Stopped'
    BY <1>1, <2>1 DEF IInv, TypeOK, Identities, Live, Folders, Locks, Hands, Serving, Stopped
  <2> QED
    BY <2>2, <2>3 DEF IInv
<1> QED
  BY <1>2, <1>3

LEMMA LeaveKeeps ==
    ASSUME IInv, ControlAssumption, NEW d \in Daemons, Leave(d) \/ Die(d)
    PROVE  IInv'
<1>1. /\ Live(d) /\ main[d] # "unborn" /\ holder[pid[d]] = d /\ TypeOK /\ Ends(d)
      /\ UNCHANGED <<closing, hand, overtaken, folder, lock, pidfile, socket, ready, starter,
                     stopper>>
      /\ kills' \in 0 .. MaxKills /\ Nobody \notin Nat
  BY DEF IInv, Leave, Die, Live, Identities, ControlAssumption, Daemons, files, hands, TypeOK
<1>2. Identities' /\ Folders' /\ Locks' /\ Hands' /\ Stopped'
  BY <1>1, EndsKeeps
<1>3. TypeOK'
  BY <1>1, EndsOne DEF IInv, TypeOK
<1> QED
  BY <1>2, <1>3 DEF IInv

-----------------------------------------------------------------------------
(* The commands.                                                            *)

LEMMA OthersKeep ==
    ASSUME IInv, UNCHANGED <<main, closing, pid, holder, kills, hand, overtaken, folder, lock>>
    PROVE  Identities' /\ Folders' /\ Locks' /\ Hands'
  BY DEF IInv, Identities, Live, Folders, Locks, Hands, Serving

(* A step of a command that does not find the process stopped.              *)
LEMMA AnswersKeep ==
    ASSUME IInv, NEW s \in Stoppers, NEW target \in Who,
           NEW pc \in {"idle", "found", "cleaning", "asking", "done"},
           NEW result \in {"none", "not_running", "signalled", "killed", "failed",
                      "superseded", "unverified", "already_stopped", "signal_sent"},
           Goes(s, pc, target, result), UNCHANGED <<main, folder, lock>>,
           result = "already_stopped"
               => target \in Daemons /\ main[target] = "gone"
                  /\ target # folder /\ target # lock
    PROVE  Stopped'
<1>0. TypeOK
  BY DEF IInv
<1>1. /\ stopper'[s] = [pc |-> pc, target |-> target, result |-> result]
      /\ \A z \in Stoppers : z # s => stopper'[z] = stopper[z]
  BY <1>0 DEF TypeOK, Goes
<1> QED
  BY <1>1 DEF IInv, Stopped

LEMMA LocateKeeps ==
    ASSUME IInv, NEW s \in Stoppers, Locate(s)
    PROVE  IInv'
<1>1. TypeOK /\ Located \in Who /\ Nobody \in Who
  BY DEF IInv, TypeOK, Located, Who
<1>2. UNCHANGED <<main, closing, termed, pid, holder, kills, hand, overtaken, folder, lock, pidfile,
                  socket, ready, starter>>
  BY DEF Locate, procs, hands, files
<1>3. \E pc \in {"found", "cleaning", "done"}, t \in Who, r \in {"none", "not_running"} :
          Goes(s, pc, t, r)
  BY <1>1 DEF Locate
<1>4. stopper' \in [Stoppers -> Command] /\ Stopped'
  <2>1. PICK pc \in {"found", "cleaning", "done"}, t \in Who, r \in {"none", "not_running"} :
          Goes(s, pc, t, r)
    BY <1>3
  <2>2. stopper' \in [Stoppers -> Command]
    BY <1>1, <2>1, GoesOne
  <2> QED
    BY <1>2, <2>1, <2>2, AnswersKeep
<1> QED
  BY <1>1, <1>2, <1>4, OthersKeep DEF IInv, TypeOK

LEMMA SignalKeeps ==
    ASSUME IInv, NEW s \in Stoppers, Signal(s)
    PROVE  IInv'
<1>1. TypeOK /\ stopper[s].target \in Who
  BY DEF IInv, TypeOK, Command
<1>2. UNCHANGED <<main, closing, pid, holder, kills, hand, overtaken, folder, lock, pidfile,
                  socket, ready, starter>> /\ termed' \subseteq Daemons
  BY <1>1 DEF Signal, hands, files, TypeOK
<1>3. \E pc \in {"cleaning", "done"}, r \in {"failed", "signalled"} :
          Goes(s, pc, stopper[s].target, r)
  BY DEF Signal
<1>4. PICK pc \in {"cleaning", "done"}, r \in {"failed", "signalled"} :
          Goes(s, pc, stopper[s].target, r)
  BY <1>3
<1>5. stopper' \in [Stoppers -> Command]
  BY <1>1, <1>4, GoesOne
<1>6. Stopped'
  BY <1>1, <1>2, <1>4, AnswersKeep
<1> QED
  BY <1>1, <1>2, <1>5, <1>6, OthersKeep DEF IInv, TypeOK

LEMMA KillKeeps ==
    ASSUME IInv, ControlAssumption, NEW s \in Stoppers, Kill(s)
    PROVE  IInv'
<1> DEFINE d == stopper[s].target
<1>1. /\ TypeOK /\ d \in Daemons /\ holder[pid[d]] = d /\ Ends(d)
      /\ main[d] # "unborn"
  <2>1. TypeOK /\ d \in Who /\ d # Nobody
    BY DEF IInv, TypeOK, Command, Kill, Running
  <2>2. d \in Daemons /\ holder[pid[d]] = d /\ pid[d] # Nobody /\ Ends(d)
    BY <2>1 DEF Kill, Running, Who
  <2>3. main[d] # "unborn"
    BY <2>2 DEF IInv, Identities
  <2> QED
    BY <2>1, <2>2, <2>3
<1>2. /\ UNCHANGED <<closing, hand, overtaken, folder, lock, pidfile, socket, ready, starter>>
      /\ kills' \in 0 .. MaxKills /\ Nobody \notin Nat
  BY <1>1 DEF Kill, files, hands, TypeOK, ControlAssumption
<1>3. Goes(s, "cleaning", d, "killed") /\ d \in Who
  BY <1>1 DEF Kill, Who
<1>4. /\ stopper' \in [Stoppers -> Command] /\ stopper'[s].result = "killed"
      /\ \A z \in Stoppers : z # s => stopper'[z] = stopper[z]
  BY <1>1, <1>3 DEF TypeOK, Goes, Command
<1>5. Identities' /\ Folders' /\ Locks' /\ Hands' /\ Stopped'
  BY <1>1, <1>2, <1>4, EndsKeeps
<1>6. TypeOK'
  BY <1>1, <1>2, <1>4, EndsOne DEF IInv, TypeOK
<1> QED
  BY <1>1, <1>5, <1>6 DEF IInv

LEMMA CleanUpKeeps ==
    ASSUME IInv, NEW s \in Stoppers, CleanUp(s)
    PROVE  IInv'
<1>1. /\ TypeOK /\ stopper[s].target \in Who /\ Nobody \in Who
      /\ stopper[s].result \in {"none", "not_running", "signalled", "killed", "failed",
                      "superseded", "unverified", "already_stopped", "signal_sent"}
  BY DEF IInv, TypeOK, Command, Who
<1>2. /\ UNCHANGED <<main, closing, termed, pid, holder, kills, hand, overtaken, folder, lock, socket,
                     ready, starter>>
      /\ pidfile' = Nobody /\ Goes(s, "done", stopper[s].target, stopper[s].result)
  BY DEF CleanUp, procs, hands
<1>3. stopper' \in [Stoppers -> Command]
  BY <1>1, <1>2, GoesOne
<1>4. Stopped'
  BY <1>1, <1>2, AnswersKeep DEF IInv, Stopped
<1> QED
  BY <1>1, <1>2, <1>3, <1>4, OthersKeep DEF IInv, TypeOK

(* What an inspection says of a process that is gone is true of it.         *)
LEMMA InspectedTruly ==
    ASSUME IInv, ControlAssumption, NEW d \in Daemons, pid[d] # Nobody
    PROVE  /\ Inspected(d) \in {"superseded", "verified", "unverified", "already_stopped"}
           /\ Inspected(d) = "already_stopped"
                => main[d] = "gone" /\ d # folder /\ d # lock
<1>1. Inspected(d) \in {"superseded", "verified", "unverified", "already_stopped"}
  BY DEF Inspected
<1>2. ASSUME Inspected(d) = "already_stopped"
      PROVE  main[d] = "gone" /\ d # folder /\ d # lock
  <2>1. ~Running(d) /\ folder = Nobody /\ lock = Nobody
    BY <1>2 DEF Inspected
  <2>2. ~Live(d)
    BY <2>1, LiveRuns DEF IInv
  <2>3. d # Nobody /\ main[d] # "unborn"
    BY ControlAssumption DEF IInv, Identities, Daemons
  <2> QED
    BY <2>1, <2>2, <2>3 DEF Live
<1> QED
  BY <1>1, <1>2

LEMMA AskKeeps ==
    ASSUME IInv, ControlAssumption, NEW s \in Stoppers, NEW d \in Daemons, Ask(s, d)
    PROVE  IInv'
<1>1. /\ TypeOK /\ d \in Who
      /\ UNCHANGED <<main, closing, termed, pid, holder, kills, hand, overtaken, folder, lock, pidfile,
                     socket, ready, starter>>
  BY DEF IInv, Ask, procs, hands, files, Who
<1>2. PICK pc \in {"asking", "done"},
           r \in {"none", "superseded", "unverified", "already_stopped"} :
          /\ Goes(s, pc, d, r)
          /\ r = "already_stopped" => Inspected(d) = "already_stopped"
  <2>1. Inspected(d) \in {"superseded", "verified", "unverified", "already_stopped"}
    BY InspectedTruly DEF Ask
  <2> QED
    BY <2>1 DEF Ask
<1>3. stopper' \in [Stoppers -> Command]
  BY <1>1, <1>2, GoesOne
<1>4. Stopped'
  <2>1. r = "already_stopped" => main[d] = "gone" /\ d # folder /\ d # lock
    BY <1>2, InspectedTruly DEF Ask
  <2> QED
    BY <1>1, <1>2, <2>1, AnswersKeep
<1> QED
  BY <1>1, <1>3, <1>4, OthersKeep DEF IInv, TypeOK

(* A command that waits for an answer names a process.                      *)
LEMMA AnswerKeeps ==
    ASSUME IInv, ControlAssumption, NEW s \in Stoppers, Answer(s) \/ NoAnswer(s)
    PROVE  IInv'
<1> DEFINE d == stopper[s].target
<1>1. /\ TypeOK /\ d \in Who
      /\ UNCHANGED <<main, closing, pid, holder, kills, hand, overtaken, folder, lock, pidfile,
                     socket, ready, starter>>
  BY DEF IInv, TypeOK, Command, Answer, NoAnswer, procs, hands, files
<1>2. termed' \subseteq Daemons
  BY <1>1 DEF TypeOK, Answer, NoAnswer, procs, Live, Who
<1>3. PICK r \in {"signal_sent", "superseded", "unverified", "already_stopped"} :
          /\ Goes(s, "done", d, r)
          /\ r = "already_stopped" => Live(socket) /\ socket = d
                                      /\ Inspected(d) = "already_stopped"
  BY DEF Answer, NoAnswer, Judged, Inspected
<1>4. stopper' \in [Stoppers -> Command]
  BY <1>1, <1>3, GoesOne
<1>5. r # "already_stopped"
  <2> SUFFICES ASSUME r = "already_stopped" PROVE FALSE
    OBVIOUS
  <2>1. d \in Daemons /\ Live(d) /\ Inspected(d) = "already_stopped"
    BY <1>1, <1>3 DEF Live, Who
  <2>2. Running(d)
    BY <2>1, LiveRuns DEF IInv
  <2> QED
    BY <2>1, <2>2 DEF Inspected
<1>6. Stopped'
  BY <1>1, <1>3, <1>5, AnswersKeep
<1> QED
  BY <1>1, <1>2, <1>4, <1>6, OthersKeep DEF IInv, TypeOK

-----------------------------------------------------------------------------
LEMMA Initially == ControlAssumption /\ Init => IInv
  BY DEF ControlAssumption, Init, IInv, TypeOK, Identities, Folders, Locks, Hands, Serving,
         Stopped, Live, Idle, Command, Who, MainSteps, ClosingSteps, Daemons

LEMMA Inductive == ControlAssumption /\ IInv /\ [Next]_vars => IInv'
<1> SUFFICES ASSUME ControlAssumption, IInv, [Next]_vars PROVE IInv'
  OBVIOUS
<1>1. ASSUME NEW d \in Daemons,
             Spawn(d, "waiting") \/ Spawn(d, "foreground")
      PROVE  IInv'
  BY <1>1, SpawnKeeps
<1>2. ASSUME NEW d \in Daemons, OrchestratorStep(d)
      PROVE  IInv'
  BY <1>2, CreateFolderKeeps, ReadFolderKeeps, TakeOverFolderKeeps, CreateLockKeeps,
     ReadLockKeeps, TakeOverLockKeeps, LoseLeaseKeeps, SweepKeeps, ListenKeeps, GetReadyKeeps,
     TerminateKeeps, CeaseKeeps, UnlockKeeps, UnlockFolderKeeps, LeaveKeeps
     DEF OrchestratorStep, Startup
<1>3. ASSUME NEW d \in Daemons, Die(d) \/ Record(d) \/ GiveUp(d)
      PROVE  IInv'
  BY <1>3, LeaveKeeps, RecordKeeps, GiveUpKeeps
<1>4. ASSUME NEW s \in Stoppers, CommandStep(s)
      PROVE  IInv'
  BY <1>4, LocateKeeps, SignalKeeps, KillKeeps, CleanUpKeeps, AskKeeps, AnswerKeeps
     DEF CommandStep
<1>5. ASSUME NEW p \in Pids, Reuse(p)
      PROVE  IInv'
  BY <1>5, ReuseKeeps
<1>6. CASE UNCHANGED vars
  BY <1>6 DEF vars, procs, hands, files, IInv, TypeOK, Identities, Live, Folders, Locks,
              Hands, Serving, Stopped
<1> QED
  BY <1>1, <1>2, <1>3, <1>4, <1>5, <1>6 DEF Next

THEOREM Invariant == Spec => []IInv
<1> USE ControlAssumption
<1> QED
  BY Initially, Inductive, PTL DEF Spec

(* The variables of the daemon's control hold what they should.             *)
THEOREM TypeCorrect == Spec => []TypeOK
  BY Invariant, PTL DEF IInv

(* However many starts race, fail half-way, are given up, are killed with   *)
(* their locks or have their pids reused: one daemon serves the project at  *)
(* a time (acquireProjectStartLocks, releaseProjectStartLocks), as long as  *)
(* no start takes a lock between another's reading of it and its removal.   *)
THEOREM OneServes == Spec => []OneDaemonServes
<1>1. ASSUME IInv PROVE OneDaemonServes
  BY <1>1 DEF IInv, Locks, OneDaemonServes, NeverTwoServe
<1> QED
  BY <1>1, Invariant, PTL

(* The answer "already_stopped" can be relied on, now and later             *)
(* (inspectExpectedStopTarget).                                             *)
THEOREM StoppedIsTrue == Spec => []AlreadyStoppedIsTrue
<1>1. ASSUME IInv PROVE AlreadyStoppedIsTrue
  BY <1>1 DEF IInv, Stopped, AlreadyStoppedIsTrue
<1> QED
  BY <1>1, Invariant, PTL

(* A command moves by its own steps, and never back to its beginning.       *)
LEMMA CommandsMove ==
    ASSUME IInv, [Next]_vars, NEW s \in Stoppers, stopper'[s] # stopper[s]
    PROVE  CommandStep(s) /\ stopper'[s].pc # "idle"
<1>1. stopper \in [Stoppers -> Command]
  BY DEF IInv, TypeOK
<1>2. ASSUME NEW d \in Daemons, \/ Spawn(d, "waiting") \/ Spawn(d, "foreground")
                                \/ Startup(d) \/ LoseLease(d)
      PROVE  stopper' = stopper
  BY <1>2 DEF Spawn, Startup, CreateFolder, ReadFolder, TakeOverFolder, CreateLock, ReadLock,
              TakeOverLock, Sweep, Listen, GetReady, LoseLease
<1>3. ASSUME NEW d \in Daemons, OrchestratorStep(d) \/ Die(d) \/ Record(d) \/ GiveUp(d)
      PROVE  stopper' = stopper
  BY <1>2, <1>3 DEF OrchestratorStep, Terminate, Cease, Unlock, UnlockFolder, Leave, Die,
                    Record, GiveUp
<1>4. ASSUME NEW p \in Pids, Reuse(p) PROVE stopper' = stopper
  BY <1>4 DEF Reuse
<1>5. PICK z \in Stoppers : CommandStep(z)
  BY <1>2, <1>3, <1>4 DEF Next, vars
<1>6. \E c \in [pc : {"found", "cleaning", "asking", "done"}, target : {stopper'[z].target},
                result : {stopper'[z].result}] : stopper' = [stopper EXCEPT ![z] = c]
  <2>1. PICK pc, target, result :
            pc \in {"found", "cleaning", "asking", "done"} /\ Goes(z, pc, target, result)
    <3>1. CASE Locate(z)
      BY <3>1 DEF Locate
    <3>2. CASE Signal(z)
      BY <3>2 DEF Signal
    <3>3. CASE Kill(z) \/ CleanUp(z) \/ NoAnswer(z)
      BY <3>3 DEF Kill, CleanUp, NoAnswer
    <3>4. CASE Answer(z)
      BY <3>4 DEF Answer
    <3>5. ASSUME NEW d \in Daemons, Ask(z, d)
          PROVE  \E pc, target, result :
                    /\ pc \in {"found", "cleaning", "asking", "done"}
                    /\ Goes(z, pc, target, result)
      BY <3>5 DEF Ask
    <3> QED
      BY <1>5, <3>1, <3>2, <3>3, <3>4, <3>5 DEF CommandStep
  <2>2. stopper' = [stopper EXCEPT ![z] = [pc |-> pc, target |-> target, result |-> result]]
    BY <2>1 DEF Goes
  <2>3. stopper'[z] = [pc |-> pc, target |-> target, result |-> result]
    BY <1>1, <2>2
  <2> QED
    BY <2>1, <2>2, <2>3
<1>7. z = s /\ stopper'[s].pc # "idle"
  BY <1>1, <1>6
<1> QED
  BY <1>5, <1>7

(* A command that has not begun has no result.                              *)
Unbegun == \A s \in Stoppers : stopper[s].pc = "idle" => stopper[s].result = "none"

LEMMA UnbegunInvariant == Spec => []Unbegun
<1>1. Init => Unbegun
  BY DEF Init, Idle, Unbegun
<1>2. IInv /\ Unbegun /\ [Next]_vars => Unbegun'
  BY CommandsMove DEF Unbegun
<1> QED
  BY <1>1, <1>2, Invariant, PTL DEF Spec

(* `project stop` finds a daemon that serves, however many starts and stops *)
(* have removed the pid file meanwhile (resolveDaemonLiveness).             *)
THEOREM StopFinds == Spec => StopFindsTheDaemon
<1> DEFINE Finds == \A s \in Stoppers :
               stopper[s].pc = "idle" /\ stopper'[s].result = "not_running"
                  => overtaken # {} \/ \A d \in Daemons : ~Serving(d)
<1>1. ASSUME IInv, Unbegun, [Next]_vars PROVE [Finds]_vars
  <2>1. SUFFICES ASSUME NEW s \in Stoppers, stopper[s].pc = "idle",
                        stopper'[s].result = "not_running", overtaken = {},
                        NEW d \in Daemons, Serving(d)
                 PROVE  FALSE
    BY DEF vars
  <2>2. stopper[s].result = "none" /\ stopper \in [Stoppers -> Command]
    BY <1>1, <2>1 DEF Unbegun, IInv, TypeOK
  <2>3. CommandStep(s)
    BY <1>1, <2>1, <2>2, CommandsMove
  <2>4. CASE Locate(s)
    <3>1. lock = d
      BY <1>1, <2>1 DEF IInv, Locks
    <3>2. Running(lock)
      BY <1>1, <2>1, <3>1, LiveRuns, ControlAssumption DEF IInv, Serving, Live, ControlAssumption, Daemons
    <3>3. Located # Nobody
      BY <3>2 DEF Located, Running
    <3>4. stopper' = [stopper EXCEPT ![s] = [pc |-> "found", target |-> Located, result |-> "none"]]
      BY <2>4, <3>3 DEF Locate, Goes
    <3> QED
      BY <2>1, <2>2, <3>4
  <2>5. ASSUME NEW c \in Daemons, Ask(s, c) PROVE FALSE
    <3>1. Inspected(c) \in {"superseded", "verified", "unverified", "already_stopped"}
      BY DEF Inspected
    <3>2. \/ Goes(s, "asking", c, "none") \/ Goes(s, "done", c, "unverified")
          \/ Goes(s, "done", c, Inspected(c)) /\ Inspected(c) # "not_running"
      BY <2>5, <3>1 DEF Ask
    <3>3. stopper'[s].result # "not_running"
      BY <2>2, <3>2 DEF Goes
    <3> QED
      BY <2>1, <3>3
  <2> QED
    BY <2>1, <2>3, <2>4, <2>5 DEF CommandStep, Signal, Kill, CleanUp, Answer, NoAnswer
<1> QED
  BY <1>1, Invariant, UnbegunInvariant, PTL DEF Spec, StopFindsTheDaemon

(* An expected stop signals the process that was expected or none, though   *)
(* the socket it asks may be another daemon's by then (stopExpectedTarget,  *)
(* startExpectedStopServer).                                                *)
THEOREM StopIsExact == Spec => ExpectedStopIsExact
<1> DEFINE Exact == \A s \in Stoppers :
               stopper[s].pc = "asking" /\ stopper'[s].pc = "done"
                  => termed' \subseteq termed \cup {stopper[s].target}
<1>1. ASSUME IInv, [Next]_vars PROVE [Exact]_vars
  <2>1. SUFFICES ASSUME NEW s \in Stoppers, stopper[s].pc = "asking",
                        stopper'[s].pc = "done"
                 PROVE  termed' \subseteq termed \cup {stopper[s].target}
    BY DEF vars
  <2>2. stopper \in [Stoppers -> Command]
    BY <1>1 DEF IInv, TypeOK
  <2>3. CASE Answer(s)
    BY <2>3 DEF Answer, Judged
  <2>4. CASE NoAnswer(s)
    BY <2>4 DEF NoAnswer, procs
  <2>5. CASE \E d \in Daemons : \/ Spawn(d, "waiting") \/ Spawn(d, "foreground")
                                \/ OrchestratorStep(d) \/ Die(d) \/ Record(d) \/ GiveUp(d)
    <3>1. stopper' = stopper
      BY <2>5 DEF Spawn, OrchestratorStep, Startup, CreateFolder, ReadFolder, TakeOverFolder,
         CreateLock, ReadLock, TakeOverLock, LoseLease, Sweep, Listen, GetReady, Terminate, Cease, Unlock, UnlockFolder, Leave, Die, Record, GiveUp
    <3> QED
      BY <3>1, <2>1
  <2>6. CASE \E p \in Pids : Reuse(p)
    BY <2>6, <2>1 DEF Reuse
  <2>7. CASE \E z \in Stoppers :
                 \/ Locate(z) \/ Signal(z) \/ Kill(z) \/ CleanUp(z)
                 \/ \E d \in Daemons : Ask(z, d)
    <3>1. PICK z \in Stoppers : \/ Locate(z) \/ Signal(z) \/ Kill(z) \/ CleanUp(z)
                                \/ \E d \in Daemons : Ask(z, d)
      BY <2>7
    <3>2. stopper[z].pc # "asking"
      BY <3>1 DEF Locate, Signal, Kill, CleanUp, Ask
    <3>3. stopper'[s] = stopper[s]
      BY <2>1, <2>2, <3>1, <3>2 DEF Locate, Signal, Kill, CleanUp, Ask, Goes
    <3> QED
      BY <2>1, <3>3
  <2>8. CASE \E z \in Stoppers : z # s /\ (Answer(z) \/ NoAnswer(z))
    <3>1. stopper'[s] = stopper[s]
      BY <2>2, <2>8 DEF Answer, NoAnswer, Goes
    <3> QED
      BY <2>1, <3>1
  <2>9. CASE UNCHANGED vars
    BY <2>9, <2>1 DEF vars
  <2> QED
    BY <1>1, <2>3, <2>4, <2>5, <2>6, <2>7, <2>8, <2>9 DEF Next, CommandStep
<1> QED
  BY <1>1, Invariant, PTL DEF Spec, ExpectedStopIsExact
=============================================================================
