--------------------------- MODULE AgentSetupProofs ---------------------------
(***************************************************************************)
(* Proofs about AgentSetup, for every set of definitions and any number of *)
(* tokens, commands and mishaps.                                           *)
(***************************************************************************)
EXTENDS AgentSetup, SequenceTheorems, TLAPS

-----------------------------------------------------------------------------
(* The inductive invariant.                                                 *)

Systems == {"linux", "darwin"}
Orders == [verb : Verbs, def : Files, token : Nat, todo : Seq(Steps),
           found : BOOLEAN, got : Nat, failed : BOOLEAN]
Environments == [state : {"pending", "enrolled", "revoked"}, token : Nat,
                 agent : Nat, connection : {"awaiting", "online", "offline"}]

(* The types, without the bounds; an order at work describes a definition.  *)
Typed ==
    /\ os \in Systems
    /\ definition \in Files /\ loaded \in Files /\ enabled \in BOOLEAN
    /\ agent \in {"off", "starting", "on"}
    /\ identity \in Nat /\ issued \in Nat
    /\ environment \in Environments
    /\ order \in [Terminals -> Orders]
    /\ \A t \in Terminals : Busy(t) => order[t].def \in Definitions /\ ~order[t].failed

(* What a command has left to do is the end of its program.                 *)
Whole(t) == Program(order[t].verb)
Done(t) == Len(Whole(t)) - Len(order[t].todo)
Followed ==
    \A t \in Terminals :
      /\ Len(order[t].todo) <= Len(Whole(t))
      /\ \A i \in 1..Len(order[t].todo) : order[t].todo[i] = Whole(t)[Done(t) + i]

(* A command between its "open" and its "close" holds the registry's lock,  *)
(* an agent that runs does.                                                 *)
CloseAt(verb) ==
    CASE verb = "setup" -> Native(14, 8)
      [] verb = "enroll" -> 4
      [] verb = "project" -> 3
      [] verb = "install" -> Native(12, 6)
      [] OTHER -> 0
Inside(t) == Busy(t) /\ Done(t) >= 1 /\ Done(t) < CloseAt(order[t].verb)
Locked ==
    /\ agent = "on" => owner = "agent"
    /\ \A t \in Terminals : Inside(t) => owner = t

(* Whatever there is of a service, the machine has its identity; what a     *)
(* command is about to save is the identity the fleet enrolled.             *)
Saves(t) ==
    /\ Busy(t)
    /\ \/ order[t].verb = "setup" /\ Done(t) = 3
       \/ order[t].verb = "enroll" /\ Done(t) = 2
PastIdentity(t) ==
    /\ Busy(t)
    /\ \/ order[t].verb = "setup" /\ Done(t) >= 4
       \/ order[t].verb = "install" /\ Done(t) >= 1
Identified ==
    /\ (definition # "none" \/ loaded # "none" \/ agent # "off" \/ enabled) => identity # 0
    /\ \A t \in Terminals : PastIdentity(t) => identity # 0
    /\ \A t \in Terminals :
          Saves(t) => /\ order[t].got # 0
                      /\ environment.state = "enrolled" => environment.agent = order[t].got
    /\ EnrolmentIsKept

(* What a command of the service has established, as long as no other runs. *)
Sure(t) ==
    /\ Busy(t)
    /\ \/ order[t].verb \in {"start", "restart"} /\ Done(t) >= 1
       \/ order[t].verb = "setup" /\ Done(t) >= 15
Undone(t) ==
    IF os = "linux"
    THEN /\ Done(t) >= 3 => agent = "off"
         /\ Done(t) >= 4 => ~enabled
         /\ Done(t) >= 7 => Nothing
    ELSE /\ Done(t) >= 2 => agent = "off" /\ loaded = "none"
         /\ Done(t) = 4 /\ ~order[t].found => Nothing
         /\ Done(t) >= 5 => Nothing
Sound(t) ==
    /\ os = "linux" /\ Sure(t) => Mine(t)
    /\ order[t].verb = "uninstall" /\ ~order[t].failed => Undone(t)
Undisturbed ==
    /\ os = "darwin" => ~enabled
    /\ ~overlapped =>
         /\ \A t, u \in Terminals : Manages(t) /\ Manages(u) => t = u
         /\ os = "linux" /\ Nothing => ~enabled /\ agent = "off"
         /\ \A t \in Terminals : Sound(t)

IInv == Typed /\ Followed /\ Locked /\ Identified /\ Undisturbed

-----------------------------------------------------------------------------
(* The programs, written out, and where each step stands in them.           *)

Joins(a, b, c) ==
    /\ a \in Seq(Steps) /\ b \in Seq(Steps) /\ c \in Seq(Steps)
    /\ Len(c) = Len(a) + Len(b)
    /\ \A i \in 1..Len(a) : c[i] = a[i]
    /\ \A i \in 1..Len(b) : c[Len(a) + i] = b[i]

LEMMA Joined == \A a, b, c : Joins(a, b, c) => a \o b = c
<1> SUFFICES ASSUME NEW a, NEW b, NEW c, Joins(a, b, c)
             PROVE  a \o b = c
  OBVIOUS
<1> USE DEF Joins
<1>1. a \o b \in Seq(Steps) /\ Len(a \o b) = Len(c)
  BY ConcatProperties
<1>2. ASSUME NEW i \in 1..Len(c) PROVE (a \o b)[i] = c[i]
  <2>1. Len(a) \in Nat /\ Len(b) \in Nat /\ i \in Nat
    BY LenProperties
  <2>2. CASE i <= Len(a)
    BY <2>1, <2>2, ConcatProperties
  <2>3. CASE i > Len(a)
    <3>1. PICK j : j = i - Len(a)
      OBVIOUS
    <3>2. j \in 1..Len(b) /\ i = Len(a) + j
      BY <2>1, <2>3, <3>1
    <3>3. (a \o b)[i] = b[j]
      BY <2>1, <2>3, <3>1, <3>2, ConcatProperties
    <3> QED
      BY <3>2, <3>3
  <2> QED
    BY <2>1, <2>2, <2>3
<1> QED
  BY <1>1, <1>2, SeqEqual

Locking == {"setup", "enroll", "project", "install"}

(* What the step s at place n of the program of verb says of verb and n,    *)
(* and what some places say of their step.                                  *)
Locks(verb, n, s) ==
    /\ s = "open" <=> n = 1 /\ verb \in Locking
    /\ s = "close" <=> n = CloseAt(verb)
    /\ s = "enroll" <=> (verb = "setup" /\ n = 3) \/ (verb = "enroll" /\ n = 2)
    /\ s = "save" <=> (verb = "setup" /\ n = 4) \/ (verb = "enroll" /\ n = 3)
    /\ s \in {"create", "write"} =>
          n < CloseAt(verb) /\ ((verb = "setup" /\ n > 4) \/ (verb = "install" /\ n > 1))
Serves(verb, n, s) ==
    /\ s \in ManagerSteps => verb \in ServiceVerbs
    /\ s \in ManagerSteps => IF s \in {"bootstrap", "bootout"} THEN os = "darwin" ELSE os = "linux"
    /\ os = "linux" /\ s \in {"start", "restart"} =>
          (verb \in {"start", "restart"} /\ n > 1) \/ (verb = "setup" /\ n > 15)
    /\ os = "linux" /\ n = 1 /\ verb \in {"start", "restart"} => s = "present"
    /\ os = "linux" /\ n = 15 /\ verb = "setup" => s = "present"
Undoes(verb, n, s) ==
    /\ s = "remove" => verb = "uninstall" /\ os = "linux" /\ n = 7
    /\ s = "unlink" => verb = "uninstall" /\ os = "darwin" /\ n = 5
    /\ verb = "uninstall" /\ os = "linux" =>
          /\ (n = 3 => s = "stop") /\ (n = 4 => s = "disable") /\ (n = 7 => s = "remove")
          /\ s \notin {"start", "restart", "enable", "create", "write"}
    /\ verb = "uninstall" /\ os = "darwin" =>
          /\ (n = 2 => s = "bootout") /\ (n = 4 => s = "owned") /\ (n = 5 => s = "unlink")
          /\ s \notin {"bootstrap", "create", "write"}
Placed(verb, n, s) == Locks(verb, n, s) /\ Serves(verb, n, s) /\ Undoes(verb, n, s)
LaidAs(verb, steps) ==
    /\ steps \in Seq(Steps) /\ steps # <<>>
    /\ CloseAt(verb) \in 0..Len(steps)
    /\ verb = "uninstall" => Len(steps) = Native(8, 5)
    /\ \A n \in 1..Len(steps) : Placed(verb, n, steps[n])
Laid(verb) == LaidAs(verb, Program(verb))

LEMMA LinuxSetup ==
    ASSUME os = "linux"
    PROVE  Program("setup") =
             <<"open", "check", "enroll", "save", "owned", "check", "seen", "create",
               "write", "reload", "present", "known", "enable", "close", "present",
               "known", "start">>
<1>1. Joins(<<"open", "check", "enroll", "save">>,
            LinuxInstall,
            <<"open", "check", "enroll", "save", "owned", "check", "seen", "create",
              "write", "reload", "present", "known", "enable">>)
  BY DEF Joins, Steps, LinuxInstall
<1>2. Joins(<<"open", "check", "enroll", "save", "owned", "check", "seen", "create",
              "write", "reload", "present", "known", "enable">>,
            <<"close">>,
            <<"open", "check", "enroll", "save", "owned", "check", "seen", "create",
              "write", "reload", "present", "known", "enable", "close">>)
  BY DEF Joins, Steps
<1>3. Joins(<<"open", "check", "enroll", "save", "owned", "check", "seen", "create",
              "write", "reload", "present", "known", "enable", "close">>,
            LinuxStart,
            <<"open", "check", "enroll", "save", "owned", "check", "seen", "create",
              "write", "reload", "present", "known", "enable", "close", "present", "known",
              "start">>)
  BY DEF Joins, Steps, LinuxStart
<1>4. <<"open", "check", "enroll", "save">>
       \o LinuxInstall =
         <<"open", "check", "enroll", "save", "owned", "check", "seen", "create",
              "write", "reload", "present", "known", "enable">>
  BY <1>1, Joined
<1>5. <<"open", "check", "enroll", "save", "owned", "check", "seen", "create",
              "write", "reload", "present", "known", "enable">>
       \o <<"close">> =
         <<"open", "check", "enroll", "save", "owned", "check", "seen", "create",
              "write", "reload", "present", "known", "enable", "close">>
  BY <1>2, Joined
<1>6. <<"open", "check", "enroll", "save", "owned", "check", "seen", "create",
              "write", "reload", "present", "known", "enable", "close">>
       \o LinuxStart =
         <<"open", "check", "enroll", "save", "owned", "check", "seen", "create",
              "write", "reload", "present", "known", "enable", "close", "present", "known",
              "start">>
  BY <1>3, Joined
<1> QED
  BY <1>4, <1>5, <1>6 DEF Program, Native, Setup

LEMMA MacSetup ==
    ASSUME os = "darwin"
    PROVE  Program("setup") =
             <<"open", "check", "enroll", "save", "owned", "create", "write", "close",
               "status", "installed", "bootstrap", "confirm">>
<1>1. Joins(<<"open", "check", "enroll", "save">>,
            MacInstall,
            <<"open", "check", "enroll", "save", "owned", "create", "write">>)
  BY DEF Joins, Steps, MacInstall
<1>2. Joins(<<"open", "check", "enroll", "save", "owned", "create", "write">>,
            <<"close">>,
            <<"open", "check", "enroll", "save", "owned", "create", "write", "close">>)
  BY DEF Joins, Steps
<1>3. Joins(<<"open", "check", "enroll", "save", "owned", "create", "write", "close">>,
            MacStart,
            <<"open", "check", "enroll", "save", "owned", "create", "write", "close",
              "status", "installed", "bootstrap", "confirm">>)
  BY DEF Joins, Steps, MacStart
<1>4. <<"open", "check", "enroll", "save">>
       \o MacInstall =
         <<"open", "check", "enroll", "save", "owned", "create", "write">>
  BY <1>1, Joined
<1>5. <<"open", "check", "enroll", "save", "owned", "create", "write">>
       \o <<"close">> =
         <<"open", "check", "enroll", "save", "owned", "create", "write", "close">>
  BY <1>2, Joined
<1>6. <<"open", "check", "enroll", "save", "owned", "create", "write", "close">>
       \o MacStart =
         <<"open", "check", "enroll", "save", "owned", "create", "write", "close",
              "status", "installed", "bootstrap", "confirm">>
  BY <1>3, Joined
<1> QED
  BY <1>4, <1>5, <1>6 DEF Program, Native, Setup

LEMMA LinuxInstallCommand ==
    ASSUME os = "linux"
    PROVE  Program("install") =
             <<"open", "check", "owned", "check", "seen", "create", "write", "reload",
               "present", "known", "enable", "close">>
<1>1. Joins(<<"open", "check">>,
            LinuxInstall,
            <<"open", "check", "owned", "check", "seen", "create", "write", "reload",
              "present", "known", "enable">>)
  BY DEF Joins, Steps, LinuxInstall
<1>2. Joins(<<"open", "check", "owned", "check", "seen", "create", "write", "reload",
              "present", "known", "enable">>,
            <<"close">>,
            <<"open", "check", "owned", "check", "seen", "create", "write", "reload",
              "present", "known", "enable", "close">>)
  BY DEF Joins, Steps
<1> QED
  BY <1>1, <1>2, Joined DEF Program, Native

LEMMA MacInstallCommand ==
    ASSUME os = "darwin"
    PROVE  Program("install") =
             <<"open", "check", "owned", "create", "write", "close">>
<1>1. Joins(<<"open", "check">>,
            MacInstall,
            <<"open", "check", "owned", "create", "write">>)
  BY DEF Joins, Steps, MacInstall
<1>2. Joins(<<"open", "check", "owned", "create", "write">>,
            <<"close">>,
            <<"open", "check", "owned", "create", "write", "close">>)
  BY DEF Joins, Steps
<1> QED
  BY <1>1, <1>2, Joined DEF Program, Native

LEMMA MacRestart ==
    ASSUME os = "darwin"
    PROVE  Program("restart") =
             <<"status", "bootout", "gone", "status", "installed", "bootstrap",
               "confirm">>
<1>1. Joins(MacStop,
            MacStart,
            <<"status", "bootout", "gone", "status", "installed", "bootstrap",
              "confirm">>)
  BY DEF Joins, Steps, MacStop, MacStart
<1> QED
  BY <1>1, Joined DEF Program, Native

LEMMA MacUninstallCommand ==
    ASSUME os = "darwin"
    PROVE  Program("uninstall") =
             <<"status", "bootout", "gone", "owned", "unlink">>
<1>1. Joins(MacStop,
            <<"owned", "unlink">>,
            <<"status", "bootout", "gone", "owned", "unlink">>)
  BY DEF Joins, Steps, MacStop
<1> QED
  BY <1>1, Joined DEF Program, Native, MacUninstall

LEMMA LaidOut == ASSUME os \in Systems PROVE \A verb \in Verbs : Laid(verb)
<1> USE DEF LaidAs, Placed, Locks, Serves, Undoes, Locking, Native, CloseAt, Steps, ManagerSteps,
            ServiceVerbs, Systems
<1>1. CASE os = "linux"
  <2>1. Laid("setup")
    <3>1. LaidAs("setup",
                    <<"open", "check", "enroll", "save", "owned", "check", "seen",
                      "create", "write", "reload", "present", "known", "enable", "close",
                      "present", "known", "start">>)
      BY <1>1
    <3> HIDE DEF LaidAs
    <3> QED
      BY <1>1, LinuxSetup, <3>1 DEF Laid
  <2>2. Laid("enroll")
    BY <1>1 DEF Program, Laid
  <2>3. Laid("project")
    BY <1>1 DEF Program, Laid
  <2>4. Laid("install")
    <3>1. LaidAs("install",
                    <<"open", "check", "owned", "check", "seen", "create", "write",
                      "reload", "present", "known", "enable", "close">>)
      BY <1>1
    <3> HIDE DEF LaidAs
    <3> QED
      BY <1>1, LinuxInstallCommand, <3>1 DEF Laid
  <2>5. Laid("start")
    BY <1>1 DEF Program, Laid, LinuxStart
  <2>6. Laid("stop")
    BY <1>1 DEF Program, Laid, LinuxStop
  <2>7. Laid("restart")
    BY <1>1 DEF Program, Laid, LinuxRestart
  <2>8. Laid("uninstall")
    BY <1>1 DEF Program, Laid, LinuxUninstall
  <2> HIDE DEF Laid
  <2> QED
    BY <2>1, <2>2, <2>3, <2>4, <2>5, <2>6, <2>7, <2>8 DEF Verbs
<1>2. CASE os = "darwin"
  <2>1. Laid("setup")
    <3>1. LaidAs("setup",
                    <<"open", "check", "enroll", "save", "owned", "create", "write",
                      "close", "status", "installed", "bootstrap", "confirm">>)
      BY <1>2
    <3> HIDE DEF LaidAs
    <3> QED
      BY <1>2, MacSetup, <3>1 DEF Laid
  <2>2. Laid("enroll")
    BY <1>2 DEF Program, Laid
  <2>3. Laid("project")
    BY <1>2 DEF Program, Laid
  <2>4. Laid("install")
    <3>1. LaidAs("install",
                    <<"open", "check", "owned", "create", "write", "close">>)
      BY <1>2
    <3> HIDE DEF LaidAs
    <3> QED
      BY <1>2, MacInstallCommand, <3>1 DEF Laid
  <2>5. Laid("start")
    BY <1>2 DEF Program, Laid, MacStart
  <2>6. Laid("stop")
    BY <1>2 DEF Program, Laid, MacStop
  <2>7. Laid("restart")
    <3>1. LaidAs("restart",
                    <<"status", "bootout", "gone", "status", "installed", "bootstrap",
                      "confirm">>)
      BY <1>2
    <3> HIDE DEF LaidAs
    <3> QED
      BY <1>2, MacRestart, <3>1 DEF Laid
  <2>8. Laid("uninstall")
    <3>1. LaidAs("uninstall",
                    <<"status", "bootout", "gone", "owned", "unlink">>)
      BY <1>2
    <3> HIDE DEF LaidAs
    <3> QED
      BY <1>2, MacUninstallCommand, <3>1 DEF Laid
  <2> HIDE DEF Laid
  <2> QED
    BY <2>1, <2>2, <2>3, <2>4, <2>5, <2>6, <2>7, <2>8 DEF Verbs
<1> QED
  BY <1>1, <1>2

-----------------------------------------------------------------------------
(* What a step of a command does to what it has left to do.                 *)

LEMMA Positions ==
    ASSUME Typed, Followed, NEW t \in Terminals
    PROVE  /\ Laid(order[t].verb) /\ order[t] \in Orders
           /\ order[t].todo \in Seq(Steps) /\ Len(order[t].todo) \in Nat
           /\ Len(Whole(t)) \in Nat /\ Done(t) \in 0..Len(Whole(t))
           /\ Busy(t) <=> Len(order[t].todo) > 0
           /\ Busy(t) <=> Done(t) < Len(Whole(t))
<1>1. order[t] \in Orders
  BY DEF Typed
<1>2. order[t].todo \in Seq(Steps) /\ order[t].verb \in Verbs
  BY <1>1 DEF Orders
<1>3. Len(order[t].todo) \in Nat /\ (Busy(t) <=> Len(order[t].todo) > 0)
  BY <1>2, LenProperties, EmptySeq DEF Busy
<1>4. Laid(order[t].verb)
  BY <1>2, LaidOut DEF Typed
<1>5. Len(Whole(t)) \in Nat
  BY <1>4, LenProperties DEF Laid, LaidAs, Whole
<1>6. Done(t) \in 0..Len(Whole(t)) /\ (Busy(t) <=> Done(t) < Len(Whole(t)))
  <2>1. Len(order[t].todo) <= Len(Whole(t))
    BY DEF Followed
  <2> QED
    BY <1>3, <1>5, <2>1 DEF Done
<1> QED
  BY <1>1, <1>2, <1>3, <1>4, <1>5, <1>6

(* The step a command is at, and its place in the program.                  *)
LEMMA AtPlace ==
    ASSUME Typed, Followed, NEW t \in Terminals, Busy(t)
    PROVE  /\ Placed(order[t].verb, Done(t) + 1, Head(order[t].todo))
           /\ Head(order[t].todo) \in Steps
           /\ Len(order[t].todo) = Len(Whole(t)) - Done(t)
<1>1. /\ Laid(order[t].verb) /\ Len(order[t].todo) \in Nat /\ Len(order[t].todo) > 0
      /\ Len(Whole(t)) \in Nat /\ Done(t) \in Nat /\ Done(t) < Len(Whole(t))
      /\ order[t].todo \in Seq(Steps)
  BY Positions
<1>2. Head(order[t].todo) = order[t].todo[1] /\ order[t].todo[1] \in Steps
  BY <1>1, HeadTailProperties, ElementOfSeq, EmptySeq
<1>3. order[t].todo[1] = Whole(t)[Done(t) + 1]
  BY <1>1 DEF Followed
<1>4. Placed(order[t].verb, Done(t) + 1, Whole(t)[Done(t) + 1])
  BY <1>1 DEF Laid, LaidAs, Whole
<1>5. Len(order[t].todo) = Len(Whole(t)) - Done(t)
  BY <1>1 DEF Done
<1> QED
  BY <1>2, <1>3, <1>4, <1>5

LEMMA SystemStays == ASSUME Next PROVE os' = os
  BY DEF Next, Expire, Regenerate, Revoke, Signal, Begin, Open, Close, EnrollSaved, Enroll, Save,
         Look, Create, Write, Remove, Call, Refuse, CallFails, AnswerLost, Dies, AgentOpens,
         AgentRefused, AgentDies, Reboot, counters

LEMMA ProgramsStay == ASSUME os' = os PROVE \A verb : Program(verb)' = Program(verb)
  BY DEF Program, Setup, Native

(* A step of one command takes n steps off what is left of it.              *)
Others(t) == \A u \in Terminals \ {t} : order'[u] = order[u]
Moves(t, n) ==
    /\ order' \in [Terminals -> Orders] /\ Others(t)
    /\ order'[t].verb = order[t].verb /\ order'[t].def = order[t].def
    /\ order'[t].token = order[t].token
    /\ Followed' /\ Done(t)' = Done(t) + n
Keeps(t) ==
    /\ order'[t].found = order[t].found /\ order'[t].got = order[t].got
    /\ order'[t].failed = order[t].failed

LEMMA Moved ==
    ASSUME Typed, Followed, os' = os, NEW t \in Terminals, NEW n \in Nat,
           order' \in [Terminals -> Orders], Others(t), order'[t].verb = order[t].verb,
           Len(order'[t].todo) = Len(order[t].todo) - n,
           \A i \in 1..Len(order'[t].todo) : order'[t].todo[i] = order[t].todo[i + n]
    PROVE  Followed' /\ Done(t)' = Done(t) + n
<1>1. Whole(t)' = Whole(t)
  BY ProgramsStay DEF Whole
<1>2. Len(order[t].todo) \in Nat /\ Len(Whole(t)) \in Nat /\ Len(order[t].todo) <= Len(Whole(t))
  BY Positions DEF Followed
<1>3. Done(t)' = Done(t) + n
  BY <1>1, <1>2 DEF Done
<1>4. Len(order'[t].todo) \in Nat
  <2>1. order'[t] \in Orders
    OBVIOUS
  <2> QED
    BY <2>1, LenProperties DEF Orders
<1>5. ASSUME NEW i \in 1..Len(order'[t].todo)
      PROVE  order'[t].todo[i] = Whole(t)'[Done(t)' + i]
  <2>1. i + n \in 1..Len(order[t].todo)
    BY <1>2, <1>4
  <2>2. order[t].todo[i + n] = Whole(t)[Done(t) + (i + n)]
    BY <2>1 DEF Followed
  <2>3. Done(t) + (i + n) = Done(t)' + i
    BY <1>2, <1>3, <1>4, Positions
  <2> QED
    BY <1>1, <2>2, <2>3
<1>6. ASSUME NEW u \in Terminals \ {t}
      PROVE  /\ Len(order'[u].todo) <= Len(Whole(u)')
             /\ \A i \in 1..Len(order'[u].todo) : order'[u].todo[i] = Whole(u)'[Done(u)' + i]
  <2>1. order'[u] = order[u] /\ Whole(u)' = Whole(u)
    BY ProgramsStay DEF Whole, Others
  <2>2. Done(u)' = Done(u)
    BY <2>1 DEF Done
  <2> QED
    BY <2>1, <2>2 DEF Followed
<1>7. Len(order'[t].todo) <= Len(Whole(t)')
  BY <1>1, <1>2, <1>4
<1> QED
  BY <1>3, <1>5, <1>6, <1>7 DEF Followed

LEMMA GoesMoves ==
    ASSUME Typed, Followed, os' = os, NEW t \in Terminals, Busy(t), Goes(t)
    PROVE  Moves(t, 1) /\ Keeps(t)
<1>1. order[t] \in Orders /\ order[t].todo \in Seq(Steps) /\ order \in [Terminals -> Orders]
  BY Positions DEF Typed
<1>2. /\ Tail(order[t].todo) \in Seq(Steps) /\ Len(Tail(order[t].todo)) = Len(order[t].todo) - 1
      /\ \A i \in 1..Len(Tail(order[t].todo)) : Tail(order[t].todo)[i] = order[t].todo[i + 1]
  BY <1>1, HeadTailProperties DEF Busy
<1>3. order'[t] = [order[t] EXCEPT !.todo = Tail(@)] /\ order' \in [Terminals -> Orders]
  BY <1>1, <1>2 DEF Goes, Orders
<1>4. Others(t)
  BY <1>1 DEF Goes, Others
<1>5. /\ order'[t].verb = order[t].verb /\ order'[t].def = order[t].def
      /\ order'[t].token = order[t].token /\ order'[t].todo = Tail(order[t].todo)
      /\ Keeps(t)
  BY <1>1, <1>3 DEF Orders, Keeps
<1> QED
  BY <1>2, <1>3, <1>4, <1>5, Moved DEF Moves

LEMMA GoesFromMoves ==
    ASSUME Typed, Followed, os' = os, NEW t \in Terminals, Len(order[t].todo) >= 2,
           GoesFrom(t, 3)
    PROVE  Moves(t, 2) /\ Keeps(t)
<1>1. /\ order[t] \in Orders /\ order[t].todo \in Seq(Steps) /\ order \in [Terminals -> Orders]
      /\ Len(order[t].todo) \in Nat
  BY Positions DEF Typed
<1> DEFINE s == order[t].todo
           rest == SubSeq(s, 3, Len(s))
<1>2. /\ rest \in Seq(Steps) /\ Len(rest) = Len(s) - 2
      /\ \A i \in 1..Len(rest) : rest[i] = s[i + 2]
  <2>1. PICK n \in Nat : n = Len(s)
    BY <1>1
  <2>2. SubSeq(s, 3, n) \in Seq(Steps) /\ Len(SubSeq(s, 3, n)) = n - 2
    BY <1>1, <2>1, SubSeqProperties
  <2>3. \A i \in 1..(n - 2) : SubSeq(s, 3, n)[i] = s[3 + i - 1]
    BY <1>1, <2>1, SubSeqProperties
  <2>4. \A i \in 1..(n - 2) : 3 + i - 1 = i + 2
    BY <2>1
  <2> QED
    BY <2>1, <2>2, <2>3, <2>4
<1>3. order'[t] = [order[t] EXCEPT !.todo = rest]
  BY <1>1 DEF GoesFrom
<1> HIDE DEF rest
<1>4. order' \in [Terminals -> Orders]
  BY <1>1, <1>2 DEF GoesFrom, Orders, rest
<1>5. Others(t)
  BY <1>1 DEF GoesFrom, Others
<1>6. /\ order'[t].verb = order[t].verb /\ order'[t].def = order[t].def
      /\ order'[t].token = order[t].token /\ order'[t].todo = rest
      /\ Keeps(t)
  BY <1>1, <1>3 DEF Orders, Keeps
<1>7. Followed' /\ Done(t)' = Done(t) + 2
  BY <1>2, <1>4, <1>5, <1>6, Moved
<1> QED
  BY <1>4, <1>5, <1>6, <1>7 DEF Moves

LEMMA FailedMoves ==
    ASSUME Typed, Followed, os' = os, NEW t \in Terminals, order' = Failed(t)
    PROVE  /\ Moves(t, Len(order[t].todo))
           /\ order'[t].todo = <<>> /\ order'[t].failed
<1>1. /\ order[t] \in Orders /\ order \in [Terminals -> Orders] /\ Len(order[t].todo) \in Nat
      /\ <<>> \in Seq(Steps) /\ Len(<<>>) = 0
  BY Positions, EmptySeq DEF Typed
<1>2. order'[t] = [order[t] EXCEPT !.todo = <<>>, !.failed = TRUE] /\ Others(t)
  BY <1>1 DEF Failed, Others
<1>3. order' \in [Terminals -> Orders]
  BY <1>1 DEF Failed, Orders
<1>4. /\ order'[t].verb = order[t].verb /\ order'[t].def = order[t].def
      /\ order'[t].token = order[t].token /\ order'[t].todo = <<>> /\ order'[t].failed
  BY <1>1, <1>2 DEF Orders
<1>5. Len(order'[t].todo) = Len(order[t].todo) - Len(order[t].todo) /\ 1..Len(order'[t].todo) = {}
  BY <1>1, <1>4
<1> QED
  BY <1>1, <1>2, <1>3, <1>4, <1>5, Moved DEF Moves

LEMMA EnrollMoves ==
    ASSUME Typed, Followed, NEW t \in Terminals, Enroll(t)
    PROVE  Moves(t, 1) /\ order'[t].got = order[t].token /\ order'[t].failed = order[t].failed
<1>1. /\ order[t] \in Orders /\ order[t].todo \in Seq(Steps) /\ order \in [Terminals -> Orders]
      /\ os' = os /\ Busy(t)
  BY Positions DEF Typed, Enroll, counters, At
<1>2. /\ Tail(order[t].todo) \in Seq(Steps) /\ Len(Tail(order[t].todo)) = Len(order[t].todo) - 1
      /\ \A i \in 1..Len(Tail(order[t].todo)) : Tail(order[t].todo)[i] = order[t].todo[i + 1]
  BY <1>1, HeadTailProperties DEF Busy
<1>3. order'[t] = [order[t] EXCEPT !.todo = Tail(@), !.got = order[t].token] /\ Others(t)
  BY <1>1 DEF Enroll, Others
<1>4. order' \in [Terminals -> Orders]
  BY <1>1, <1>2 DEF Enroll, Orders
<1>5. /\ order'[t].verb = order[t].verb /\ order'[t].def = order[t].def
      /\ order'[t].token = order[t].token /\ order'[t].todo = Tail(order[t].todo)
      /\ order'[t].got = order[t].token /\ order'[t].failed = order[t].failed
  BY <1>1, <1>3 DEF Orders
<1> QED
  BY <1>1, <1>2, <1>3, <1>4, <1>5, Moved DEF Moves

LEMMA LookMoves ==
    ASSUME Typed, Followed, NEW t \in Terminals, Look(t)
    PROVE  /\ \/ Moves(t, 1)
              \/ /\ order[t].verb = "uninstall" /\ os = "linux" /\ Nothing
                 /\ Moves(t, Len(order[t].todo)) /\ order'[t].todo = <<>>
           /\ order'[t].got = order[t].got /\ order'[t].failed = order[t].failed
           /\ Head(order[t].todo) = "owned" => order'[t].found = Mine(t)
           /\ Head(order[t].todo) # "owned" => order'[t].found = order[t].found
<1>1. /\ order[t] \in Orders /\ order[t].todo \in Seq(Steps) /\ order \in [Terminals -> Orders]
      /\ os' = os /\ Busy(t) /\ Len(order[t].todo) \in Nat /\ <<>> \in Seq(Steps) /\ Len(<<>>) = 0
  BY Positions, EmptySeq DEF Typed, Look, counters
<1> DEFINE ends == order[t].verb = "uninstall" /\ os = "linux" /\ Nothing
                   /\ Head(order[t].todo) = "owned"
           rest == IF ends THEN <<>> ELSE Tail(order[t].todo)
           n == IF ends THEN Len(order[t].todo) ELSE 1
           saw == IF Head(order[t].todo) = "owned" THEN Mine(t) ELSE order[t].found
<1>2. /\ Tail(order[t].todo) \in Seq(Steps) /\ Len(Tail(order[t].todo)) = Len(order[t].todo) - 1
      /\ \A i \in 1..Len(Tail(order[t].todo)) : Tail(order[t].todo)[i] = order[t].todo[i + 1]
  BY <1>1, HeadTailProperties DEF Busy
<1>3. /\ rest \in Seq(Steps) /\ Len(rest) = Len(order[t].todo) - n /\ n \in Nat
      /\ \A i \in 1..Len(rest) : rest[i] = order[t].todo[i + n]
  BY <1>1, <1>2
<1>4. saw \in BOOLEAN
  BY <1>1 DEF Orders, Mine
<1>5. order'[t] = [order[t] EXCEPT !.todo = rest, !.found = saw] /\ Others(t)
  BY <1>1 DEF Look, Others
<1>6. order' = [order EXCEPT ![t] = [order[t] EXCEPT !.todo = rest, !.found = saw]]
  BY <1>1 DEF Look
<1> HIDE DEF rest, n, saw
<1>7. order' \in [Terminals -> Orders]
  BY <1>1, <1>3, <1>4, <1>6 DEF Orders
<1>8. /\ order'[t].verb = order[t].verb /\ order'[t].def = order[t].def
      /\ order'[t].token = order[t].token /\ order'[t].todo = rest
      /\ order'[t].got = order[t].got /\ order'[t].failed = order[t].failed
      /\ order'[t].found = saw
  BY <1>1, <1>5 DEF Orders
<1>9. Moves(t, n)
  BY <1>1, <1>3, <1>5, <1>7, <1>8, Moved DEF Moves
<1> QED
  BY <1>8, <1>9 DEF rest, n, saw

(* The actions of a command that go on by a step, and those that end it.    *)
LEMMA StepMoves ==
    ASSUME Typed, Followed, NEW t \in Terminals,
           Open(t) \/ Close(t) \/ Save(t) \/ Write(t) \/ Remove(t) \/ Call(t)
    PROVE  Moves(t, 1) /\ Keeps(t)
<1>1. os' = os /\ Busy(t) /\ Goes(t)
  BY DEF Open, Close, Save, Write, Remove, Call, counters, At
<1> QED
  BY <1>1, GoesMoves

LEMMA EnrollSavedMoves ==
    ASSUME Typed, Followed, NEW t \in Terminals, EnrollSaved(t)
    PROVE  Moves(t, 2) /\ Keeps(t)
<1>1. os' = os /\ Busy(t) /\ GoesFrom(t, 3) /\ Head(order[t].todo) = "enroll"
  BY DEF EnrollSaved, At, counters
<1>2. /\ Placed(order[t].verb, Done(t) + 1, "enroll") /\ Laid(order[t].verb)
      /\ Len(order[t].todo) = Len(Whole(t)) - Done(t) /\ Len(Whole(t)) \in Nat
      /\ Done(t) \in Nat
  BY <1>1, AtPlace, Positions
<1>3. Len(Whole(t)) >= 4
  BY <1>2 DEF Placed, Locks, Laid, LaidAs, CloseAt, Native, Whole
<1>4. Done(t) <= 2
  BY <1>2 DEF Placed, Locks
<1>5. Len(order[t].todo) >= 2
  BY <1>2, <1>3, <1>4
<1> QED
  BY <1>1, <1>5, GoesFromMoves

LEMMA CreateMoves ==
    ASSUME Typed, Followed, NEW t \in Terminals, Create(t)
    PROVE  \/ Moves(t, 1) /\ Keeps(t)
           \/ Moves(t, 2) /\ Keeps(t)
<1>1. os' = os /\ Busy(t) /\ Head(order[t].todo) = "create"
  BY DEF Create, At, counters
<1>2. /\ Placed(order[t].verb, Done(t) + 1, "create") /\ Laid(order[t].verb)
      /\ Len(order[t].todo) = Len(Whole(t)) - Done(t) /\ Len(Whole(t)) \in Nat
      /\ Done(t) \in Nat
  BY <1>1, AtPlace, Positions
<1>3. Done(t) + 1 < CloseAt(order[t].verb) /\ CloseAt(order[t].verb) \in 0..Len(Whole(t))
  BY <1>2 DEF Placed, Locks, Laid, LaidAs, Whole
<1>4. Len(order[t].todo) >= 2
  BY <1>2, <1>3
<1>5. Goes(t) \/ GoesFrom(t, 3)
  BY DEF Create
<1> QED
  BY <1>1, <1>4, <1>5, GoesMoves, GoesFromMoves

LEMMA EndMoves ==
    ASSUME Typed, Followed, NEW t \in Terminals,
           Refuse(t) \/ CallFails(t) \/ AnswerLost(t) \/ Dies(t)
    PROVE  /\ Moves(t, Len(order[t].todo))
           /\ order'[t].todo = <<>> /\ order'[t].failed
<1>1. os' = os /\ order' = Failed(t)
  BY DEF Refuse, CallFails, AnswerLost, Dies, counters
<1> QED
  BY <1>1, FailedMoves

(* What no step touches keeps its place.                                    *)
LEMMA OthersStay ==
    ASSUME os' = os, NEW u \in Terminals, order'[u] = order[u]
    PROVE  /\ Busy(u)' <=> Busy(u)
           /\ Whole(u)' = Whole(u) /\ Done(u)' = Done(u)
           /\ Inside(u)' <=> Inside(u)
           /\ Saves(u)' <=> Saves(u)
           /\ PastIdentity(u)' <=> PastIdentity(u)
           /\ Sure(u)' <=> Sure(u)
           /\ Manages(u)' <=> Manages(u)
<1>1. Busy(u)' <=> Busy(u)
  BY DEF Busy
<1>2. Whole(u)' = Whole(u) /\ Done(u)' = Done(u)
  BY ProgramsStay DEF Whole, Done
<1>3. Inside(u)' <=> Inside(u)
  BY <1>1, <1>2 DEF Inside, CloseAt, Native
<1>4. /\ Saves(u)' <=> Saves(u)
      /\ PastIdentity(u)' <=> PastIdentity(u)
      /\ Sure(u)' <=> Sure(u)
      /\ Manages(u)' <=> Manages(u)
  BY <1>1, <1>2 DEF Saves, PastIdentity, Sure, Manages
<1> QED
  BY <1>1, <1>2, <1>3, <1>4

(* A terminal without an order, and one that begins.                        *)
LEMMA Idle ==
    /\ NoOrder \in Orders /\ NoOrder.verb = "project" /\ NoOrder.todo = <<>>
    /\ NoOrder.failed /\ NoOrder.found = FALSE
  BY EmptySeq DEF NoOrder, Orders, Verbs, Files

LEMMA OrdersFollow ==
    ASSUME Typed, Followed, os' = os, order' \in [Terminals -> Orders],
           \A u \in Terminals : \/ order'[u] = order[u]
                                \/ order'[u].todo = <<>>
                                \/ order'[u].todo = Program(order'[u].verb)
    PROVE  Followed'
<1> SUFFICES ASSUME NEW u \in Terminals
             PROVE  /\ Len(order'[u].todo) <= Len(Whole(u)')
                    /\ \A i \in 1..Len(order'[u].todo) :
                          order'[u].todo[i] = Whole(u)'[Done(u)' + i]
  BY DEF Followed
<1>1. Whole(u)' = Program(order'[u].verb)
  BY ProgramsStay DEF Whole
<1>2. order'[u].verb \in Verbs /\ order'[u].todo \in Seq(Steps)
  BY DEF Orders
<1>3. Len(Whole(u)') \in Nat
  BY <1>1, <1>2, LaidOut, LenProperties DEF Typed, Laid, LaidAs
<1>4. CASE order'[u] = order[u]
  BY <1>4, OthersStay DEF Followed
<1>5. CASE order'[u].todo = <<>>
  BY <1>3, <1>5, EmptySeq
<1>6. CASE order'[u].todo = Program(order'[u].verb)
  <2>1. Done(u)' = 0
    BY <1>1, <1>3, <1>6 DEF Done
  <2>2. \A i \in 1..Len(Whole(u)') : 0 + i = i
    BY <1>3
  <2> QED
    BY <1>1, <1>3, <1>6, <2>1, <2>2
<1> QED
  BY <1>4, <1>5, <1>6

LEMMA BeginOrders ==
    ASSUME Typed, Followed, NEW t \in Terminals, Begin(t)
    PROVE  /\ order' \in [Terminals -> Orders] /\ Followed'
           /\ order'[t].def \in Definitions /\ ~order'[t].failed
           /\ Busy(t)' /\ Done(t)' = 0
           /\ \A u \in Terminals \ {t} : \/ order'[u] = order[u]
                                         \/ order'[u] = NoOrder /\ ~Busy(u)
           /\ \A u \in Terminals \ {t} : Manages(t)' /\ Manages(u)' => overlapped'
           /\ overlapped => overlapped'
<1>1. PICK verb \in Verbs, d \in Definitions, token \in 1..issued :
          LET others == {u \in Terminals \ {t} : verb \in ServiceVerbs /\ Manages(u)} IN
          /\ order' = [u \in Terminals |->
                IF u = t THEN [NoOrder EXCEPT !.verb = verb, !.def = d, !.token = token,
                                              !.todo = Program(verb), !.failed = FALSE]
                ELSE IF u \in others /\ ~Busy(u) THEN NoOrder ELSE order[u]]
          /\ overlapped' = (overlapped \/ \E u \in others : Busy(u))
  BY DEF Begin
<1>2. /\ Laid(verb) /\ order \in [Terminals -> Orders] /\ token \in Nat /\ os' = os
      /\ d \in Files
  BY LaidOut DEF Typed, Begin, Files
<1> DEFINE fresh == [NoOrder EXCEPT !.verb = verb, !.def = d, !.token = token,
                                    !.todo = Program(verb), !.failed = FALSE]
<1>3. PICK none \in Orders : none = NoOrder
  BY Idle
<1>4. /\ fresh \in Orders /\ fresh.verb = verb /\ fresh.def = d
      /\ fresh.todo = Program(verb) /\ fresh.failed = FALSE
  <2>1. Program(verb) \in Seq(Steps)
    BY <1>2 DEF Laid, LaidAs
  <2>2. fresh = [none EXCEPT !.verb = verb, !.def = d, !.token = token,
                             !.todo = Program(verb), !.failed = FALSE]
    BY <1>3
  <2> HIDE DEF fresh
  <2> QED
    BY <1>2, <2>1, <2>2 DEF Orders
<1> HIDE DEF fresh
<1>5. order'[t] = fresh
  BY <1>1 DEF fresh
<1>6. \A u \in Terminals \ {t} :
          order'[u] = IF verb \in ServiceVerbs /\ Manages(u) /\ ~Busy(u) THEN NoOrder ELSE order[u]
  BY <1>1
<1>7. order' \in [Terminals -> Orders]
  <2>1. \A u \in Terminals : order'[u] \in Orders
    BY <1>2, <1>4, <1>5, <1>6, Idle
  <2>2. order' = [u \in Terminals |-> order'[u]]
    BY <1>1
  <2> QED
    BY <2>1, <2>2
<1>8. Followed'
  BY <1>2, <1>4, <1>5, <1>6, <1>7, Idle, OrdersFollow
<1>9. Busy(t)' /\ Done(t)' = 0
  <2>1. Program(verb) # <<>> /\ Len(Program(verb)) \in Nat
    BY <1>2, LenProperties DEF Laid, LaidAs
  <2>2. Whole(t)' = Program(verb)
    BY <1>2, <1>4, <1>5, ProgramsStay DEF Whole
  <2> QED
    BY <1>4, <1>5, <2>1, <2>2 DEF Busy, Done
<1>10. ASSUME NEW u \in Terminals \ {t}, Manages(t)', Manages(u)'
       PROVE  overlapped'
  <2>1. verb \in ServiceVerbs
    BY <1>4, <1>5, <1>10 DEF Manages
  <2>2. order'[u] # NoOrder
    BY <1>10, Idle DEF Manages, ServiceVerbs
  <2>3. order'[u] = order[u] /\ Manages(u) /\ Busy(u)
    BY <1>6, <1>10, <2>1, <2>2 DEF Manages
  <2> QED
    BY <1>1, <2>1, <2>3
<1>11. overlapped => overlapped'
  BY <1>1
<1>12. \A u \in Terminals \ {t} : order'[u] = order[u] \/ (order'[u] = NoOrder /\ ~Busy(u))
  BY <1>6
<1> QED
  BY <1>4, <1>5, <1>7, <1>8, <1>9, <1>10, <1>11, <1>12

LEMMA RebootOrders ==
    ASSUME Typed, Followed, Reboot
    PROVE  /\ order' \in [Terminals -> Orders] /\ Followed'
           /\ \A u \in Terminals : ~Busy(u)'
           /\ \A u \in Terminals : order'[u] = order[u] \/ order'[u] = NoOrder
<1>1. os' = os /\ order \in [Terminals -> Orders]
  BY DEF Reboot, Typed
<1>2. \A u \in Terminals : order'[u] = IF Busy(u) THEN NoOrder ELSE order[u]
  BY DEF Reboot
<1>3. order' \in [Terminals -> Orders]
  <2>1. \A u \in Terminals : order'[u] \in Orders
    BY <1>1, <1>2, Idle
  <2> QED
    BY <2>1 DEF Reboot
<1>4. \A u \in Terminals : ~Busy(u)'
  BY <1>2, Idle DEF Busy
<1>5. Followed'
  BY <1>1, <1>2, <1>3, Idle, OrdersFollow
<1> QED
  BY <1>2, <1>3, <1>4, <1>5

-----------------------------------------------------------------------------
(* Types, and the programs' ends.                                           *)

Outside == Expire \/ Regenerate \/ Revoke \/ Signal \/ AgentOpens \/ AgentRefused \/ AgentDies
Ends(t) == Refuse(t) \/ CallFails(t) \/ AnswerLost(t) \/ Dies(t)

LEMMA MovesTyped ==
    ASSUME Typed, os' = os, NEW t \in Terminals, NEW n, Moves(t, n), Busy(t),
           order'[t].failed = order[t].failed \/ order'[t].todo = <<>>
    PROVE  \A u \in Terminals : Busy(u)' => order'[u].def \in Definitions /\ ~order'[u].failed
<1> SUFFICES ASSUME NEW u \in Terminals, Busy(u)'
             PROVE  order'[u].def \in Definitions /\ ~order'[u].failed
  OBVIOUS
<1>1. CASE u = t
  BY <1>1 DEF Moves, Typed, Busy
<1>2. CASE u # t
  BY <1>2 DEF Moves, Others, Typed, Busy
<1> QED
  BY <1>1, <1>2

(* Every action of a command takes steps off it.                            *)
LEMMA CommandMoves ==
    ASSUME Typed, Followed, NEW t \in Terminals,
           \/ Open(t) \/ Close(t) \/ EnrollSaved(t) \/ Enroll(t) \/ Save(t) \/ Look(t)
           \/ Create(t) \/ Write(t) \/ Remove(t) \/ Call(t) \/ Ends(t)
    PROVE  /\ Busy(t) /\ \E n \in Nat : Moves(t, n)
           /\ order'[t].failed = order[t].failed \/ order'[t].todo = <<>>
<1>1. Len(order[t].todo) \in Nat
  BY Positions
<1>2. CASE Open(t) \/ Close(t) \/ Save(t) \/ Write(t) \/ Remove(t) \/ Call(t)
  <2>1. Busy(t)
    BY <1>2 DEF Open, Close, Save, Write, Remove, Call, At
  <2> QED
    BY <1>2, <2>1, StepMoves DEF Keeps
<1>3. CASE EnrollSaved(t)
  BY <1>3, EnrollSavedMoves DEF Keeps, EnrollSaved, At
<1>4. CASE Enroll(t)
  BY <1>4, EnrollMoves DEF Enroll, At
<1>5. CASE Look(t)
  BY <1>1, <1>5, LookMoves DEF Look
<1>6. CASE Create(t)
  BY <1>6, CreateMoves DEF Keeps, Create, At
<1>7. CASE Ends(t)
  BY <1>1, <1>7, EndMoves DEF Ends, Refuse, CallFails, AnswerLost, Dies, At
<1> QED
  BY <1>2, <1>3, <1>4, <1>5, <1>6, <1>7

LEMMA Actions ==
    ASSUME Next
    PROVE  \/ Outside
           \/ Reboot
           \/ \E t \in Terminals : Begin(t)
           \/ \E t \in Terminals :
                 \/ Open(t) \/ Close(t) \/ EnrollSaved(t) \/ Enroll(t) \/ Save(t) \/ Look(t)
                 \/ Create(t) \/ Write(t) \/ Remove(t) \/ Call(t) \/ Ends(t)
  BY DEF Next, Outside, Ends

LEMMA OutsideKeeps == ASSUME Outside PROVE order' = order /\ os' = os /\ overlapped' = overlapped
  BY DEF Outside, Expire, Regenerate, Revoke, Signal, AgentOpens, AgentRefused, AgentDies, counters

LEMMA StepOrders ==
    ASSUME Typed, Followed, Next
    PROVE  /\ Followed' /\ order' \in [Terminals -> Orders]
           /\ \A u \in Terminals :
                 Busy(u)' => order'[u].def \in Definitions /\ ~order'[u].failed
<1>1. CASE Outside
  <2>1. order' = order /\ os' = os
    BY <1>1, OutsideKeeps
  <2>2. Followed'
    BY <2>1, OrdersFollow DEF Typed
  <2> QED
    BY <2>1, <2>2 DEF Typed, Busy
<1>2. CASE Reboot
  BY <1>2, RebootOrders
<1>3. ASSUME NEW t \in Terminals, Begin(t)
      PROVE  /\ Followed' /\ order' \in [Terminals -> Orders]
             /\ \A u \in Terminals :
                   Busy(u)' => order'[u].def \in Definitions /\ ~order'[u].failed
  <2>1. /\ order' \in [Terminals -> Orders] /\ Followed'
        /\ order'[t].def \in Definitions /\ ~order'[t].failed
        /\ \A u \in Terminals \ {t} : order'[u] = order[u] \/ (order'[u] = NoOrder /\ ~Busy(u))
    BY <1>3, BeginOrders
  <2>2. ASSUME NEW u \in Terminals \ {t}, Busy(u)'
        PROVE  order'[u].def \in Definitions /\ ~order'[u].failed
    <3>1. order'[u].todo # <<>>
      BY <2>2 DEF Busy
    <3>2. order'[u] = order[u]
      BY <2>1, <3>1, Idle
    <3> QED
      BY <3>1, <3>2 DEF Typed, Busy
  <2> QED
    BY <2>1, <2>2
<1>4. ASSUME NEW t \in Terminals,
             \/ Open(t) \/ Close(t) \/ EnrollSaved(t) \/ Enroll(t) \/ Save(t) \/ Look(t)
             \/ Create(t) \/ Write(t) \/ Remove(t) \/ Call(t) \/ Ends(t)
      PROVE  /\ Followed' /\ order' \in [Terminals -> Orders]
             /\ \A u \in Terminals :
                   Busy(u)' => order'[u].def \in Definitions /\ ~order'[u].failed
  <2>1. PICK n \in Nat : Moves(t, n)
    BY <1>4, CommandMoves
  <2>2. Followed' /\ order' \in [Terminals -> Orders]
    BY <2>1 DEF Moves
  <2>3. os' = os /\ Busy(t) /\ (order'[t].failed = order[t].failed \/ order'[t].todo = <<>>)
    BY <1>4, CommandMoves, SystemStays
  <2> QED
    BY <2>1, <2>2, <2>3, MovesTyped
<1> QED
  BY <1>1, <1>2, <1>3, <1>4, Actions

(* The manager's answers.                                                   *)
LEMMA ManagerTyped ==
    ASSUME Typed, NEW step \in ManagerSteps, Manager(step)
    PROVE  /\ definition' = definition /\ loaded' \in Files /\ enabled' \in BOOLEAN
           /\ agent' \in {"off", "starting", "on"}
<1>1. Shown \in Files
  BY DEF Shown, Typed
<1>2. "none" \in Files
  BY DEF Files
<1> QED
  BY <1>1, <1>2 DEF Manager, ManagerSteps, Typed

LEMMA ServiceTyped ==
    ASSUME Typed, Followed, Next
    PROVE  /\ definition' \in Files /\ loaded' \in Files /\ enabled' \in BOOLEAN
           /\ agent' \in {"off", "starting", "on"}
<1> DEFINE Goal == /\ definition' \in Files /\ loaded' \in Files /\ enabled' \in BOOLEAN
                   /\ agent' \in {"off", "starting", "on"}
<1> USE DEF service, counters
<1>1. CASE Outside
  BY <1>1 DEF Outside, Expire, Regenerate, Revoke, Signal, AgentOpens, AgentRefused, AgentDies, Typed
<1>2. CASE Reboot
  BY <1>2 DEF Reboot, Typed, Files
<1>3. ASSUME NEW t \in Terminals, Begin(t) PROVE Goal
  BY <1>3 DEF Begin, Typed
<1>4. ASSUME NEW t \in Terminals,
             \/ Open(t) \/ Close(t) \/ EnrollSaved(t) \/ Enroll(t) \/ Save(t) \/ Look(t)
             \/ Refuse(t) \/ AnswerLost(t) \/ Dies(t)
      PROVE  Goal
  BY <1>4 DEF Open, Close, EnrollSaved, Enroll, Save, Look, Refuse, AnswerLost, Dies, Typed
<1>5. ASSUME NEW t \in Terminals, Create(t) \/ Write(t) \/ Remove(t) PROVE Goal
  <2>1. order[t].def \in Files
    BY Positions DEF Orders
  <2> QED
    BY <1>5, <2>1 DEF Create, Write, Remove, Typed, Files
<1>6. ASSUME NEW t \in Terminals, Call(t) PROVE Goal
  <2>1. Head(order[t].todo) \in ManagerSteps /\ Manager(Head(order[t].todo))
    BY <1>6 DEF Call
  <2> QED
    BY <2>1, ManagerTyped DEF Typed
<1>7. ASSUME NEW t \in Terminals, CallFails(t) PROVE Goal
  <2>1. Head(order[t].todo) \in ManagerSteps /\ (UNCHANGED service \/ Manager(Head(order[t].todo)))
    BY <1>7 DEF CallFails
  <2> QED
    BY <2>1, ManagerTyped DEF Typed
<1> QED
  BY <1>1, <1>2, <1>3, <1>4, <1>5, <1>6, <1>7, Actions DEF Ends

LEMMA FleetTyped ==
    ASSUME Typed, Followed, Next
    PROVE  identity' \in Nat /\ issued' \in Nat /\ environment' \in Environments
<1> DEFINE Goal == identity' \in Nat /\ issued' \in Nat /\ environment' \in Environments
<1> USE DEF service, counters, Environments
<1>1. CASE Outside
  <2>1. CASE Expire \/ Signal
    BY <2>1 DEF Expire, Signal, Typed
  <2>2. CASE Regenerate
    <3>1. PICK token \in Nat : token = issued + 1
      BY DEF Typed
    <3>2. /\ environment' = [environment EXCEPT !.state = "pending", !.token = token,
                                                !.connection = "awaiting"]
          /\ issued' = token /\ identity' = identity
      BY <2>2, <3>1 DEF Regenerate
    <3> QED
      BY <3>1, <3>2 DEF Typed
  <2>3. CASE Revoke
    BY <2>3 DEF Revoke, Typed
  <2>4. CASE AgentOpens \/ AgentRefused \/ AgentDies
    BY <2>4 DEF AgentOpens, AgentRefused, AgentDies, Typed
  <2> QED
    BY <1>1, <2>1, <2>2, <2>3, <2>4 DEF Outside
<1>2. CASE Reboot
  BY <1>2 DEF Reboot, Typed
<1>3. ASSUME NEW t \in Terminals,
             \/ Begin(t) \/ Open(t) \/ Close(t) \/ EnrollSaved(t) \/ Look(t)
             \/ Create(t) \/ Write(t) \/ Remove(t) \/ Call(t) \/ Refuse(t) \/ CallFails(t) \/ Dies(t)
      PROVE  Goal
  BY <1>3 DEF Begin, Open, Close, EnrollSaved, Look, Create, Write, Remove, Call, Refuse,
              CallFails, Dies, Typed
<1>4. ASSUME NEW t \in Terminals, Save(t) PROVE Goal
  <2>1. order[t].got \in Nat
    BY Positions DEF Orders
  <2> QED
    BY <1>4, <2>1 DEF Save, Typed
<1>5. ASSUME NEW t \in Terminals, Enroll(t) \/ AnswerLost(t) PROVE Goal
  <2>1. order[t].token \in Nat
    BY Positions DEF Orders
  <2> QED
    BY <1>5, <2>1 DEF Enroll, AnswerLost, Enrolled, Typed
<1> QED
  BY <1>1, <1>2, <1>3, <1>4, <1>5, Actions DEF Ends

LEMMA StepTyped == ASSUME Typed, Followed, Next PROVE Typed' /\ Followed'
<1>1. /\ Followed' /\ order' \in [Terminals -> Orders]
      /\ \A u \in Terminals : Busy(u)' => order'[u].def \in Definitions /\ ~order'[u].failed
  BY StepOrders
<1>2. os' \in Systems
  BY SystemStays DEF Typed
<1> QED
  BY <1>1, <1>2, ServiceTyped, FleetTyped DEF Typed

-----------------------------------------------------------------------------
(* The registry's lock.                                                     *)

LEMMA InsideStays ==
    ASSUME Typed, Followed, os' = os, NEW t \in Terminals, NEW n \in Nat, Moves(t, n), Busy(t),
           Head(order[t].todo) # "open"
    PROVE  \A u \in Terminals : Inside(u)' => Inside(u)
<1> SUFFICES ASSUME NEW u \in Terminals, Inside(u)'
             PROVE  Inside(u)
  OBVIOUS
<1>1. CASE u # t
  <2>1. order'[u] = order[u]
    BY <1>1 DEF Moves, Others
  <2> QED
    BY <2>1, OthersStay
<1>2. CASE u = t
  <2>1. CloseAt(order[t].verb)' = CloseAt(order[t].verb)
    BY DEF Moves, CloseAt, Native
  <2>2. Done(t) + n < CloseAt(order[t].verb)
    BY <1>2, <2>1 DEF Inside, Moves
  <2>3. Done(t) \in Nat /\ Placed(order[t].verb, Done(t) + 1, Head(order[t].todo))
    BY AtPlace, Positions
  <2>4. Laid(order[t].verb)
    BY Positions
  <2>5. CloseAt(order[t].verb) \in Nat
    BY DEF CloseAt, Native
  <2>6. order[t].verb \in Locking
    BY <2>2, <2>3 DEF CloseAt, Locking
  <2>7. Done(t) # 0
    BY <2>3, <2>6 DEF Placed, Locks
  <2> QED
    BY <1>2, <2>2, <2>3, <2>5, <2>7 DEF Inside
<1> QED
  BY <1>1, <1>2

LEMMA OwnersApart ==
    ASSUME Typed, Locked, NEW t \in Terminals, Inside(t)
    PROVE  /\ owner = t /\ agent # "on"
           /\ \A u \in Terminals \ {t} : ~Inside(u)
  BY DEF Locked, Terminals

(* A step that neither opens nor closes leaves the lock as it was.          *)
LEMMA LockKept ==
    ASSUME Typed, Followed, Locked, os' = os, NEW t \in Terminals, NEW n \in Nat, Moves(t, n),
           Busy(t), Head(order[t].todo) # "open", owner' = owner, agent' = agent
    PROVE  Locked'
  BY InsideStays DEF Locked

LEMMA LockedOutside == ASSUME Typed, Locked, Outside PROVE Locked'
<1>1. order' = order /\ os' = os
  BY OutsideKeeps
<1>2. \A u \in Terminals : Inside(u)' <=> Inside(u)
  BY <1>1, OthersStay
<1>3. CASE Expire \/ Regenerate \/ Revoke \/ Signal
  BY <1>2, <1>3 DEF Expire, Regenerate, Revoke, Signal, service, Locked
<1>4. CASE AgentOpens
  BY <1>2, <1>4 DEF AgentOpens, Locked, Terminals
<1>5. CASE AgentRefused
  BY <1>2, <1>5 DEF AgentRefused, Locked
<1>6. CASE AgentDies
  BY <1>2, <1>6 DEF AgentDies, Locked, Terminals
<1> QED
  BY <1>3, <1>4, <1>5, <1>6 DEF Outside

LEMMA LockedBegin ==
    ASSUME Typed, Followed, Locked, NEW t \in Terminals, Begin(t)
    PROVE  Locked'
<1>1. os' = os /\ owner' = owner /\ agent' = agent
  BY DEF Begin, service
<1>2. ~Inside(t)'
  BY BeginOrders DEF Inside
<1>3. ASSUME NEW u \in Terminals \ {t}, Inside(u)' PROVE Inside(u)
  <2>1. order'[u].todo # <<>>
    BY <1>3 DEF Inside, Busy
  <2>2. order'[u] = order[u]
    BY <2>1, BeginOrders, Idle
  <2> QED
    BY <1>1, <1>3, <2>2, OthersStay
<1> QED
  BY <1>1, <1>2, <1>3 DEF Locked

LEMMA LockedOpen ==
    ASSUME Typed, Followed, Locked, NEW t \in Terminals, Open(t)
    PROVE  Locked'
<1>1. os' = os /\ owner = "none" /\ owner' = t /\ agent' = agent /\ Moves(t, 1)
  BY StepMoves DEF Open, service, counters
<1>2. agent # "on" /\ \A u \in Terminals : ~Inside(u)
  BY <1>1 DEF Locked, Terminals
<1>3. \A u \in Terminals \ {t} : ~Inside(u)'
  BY <1>1, <1>2, OthersStay DEF Moves, Others
<1> QED
  BY <1>1, <1>2, <1>3 DEF Locked

LEMMA LockedClose ==
    ASSUME Typed, Followed, Locked, NEW t \in Terminals, Close(t)
    PROVE  Locked'
<1>1. /\ os' = os /\ owner' = "none" /\ agent' = agent /\ Moves(t, 1) /\ Busy(t)
      /\ Head(order[t].todo) = "close"
  BY StepMoves DEF Close, service, counters, At
<1>2. Done(t) \in Nat /\ Placed(order[t].verb, Done(t) + 1, "close")
  BY <1>1, AtPlace, Positions
<1>3. Done(t) + 1 = CloseAt(order[t].verb)
  BY <1>2 DEF Placed, Locks
<1>4. Done(t) >= 1
  BY <1>2, <1>3 DEF CloseAt, Native
<1>5. Inside(t)
  BY <1>1, <1>2, <1>3, <1>4 DEF Inside
<1>6. agent # "on" /\ \A u \in Terminals \ {t} : ~Inside(u)
  BY <1>5, OwnersApart
<1>7. \A u \in Terminals \ {t} : ~Inside(u)'
  BY <1>1, <1>6, OthersStay DEF Moves, Others
<1>8. ~Inside(t)'
  <2>1. CloseAt(order[t].verb)' = CloseAt(order[t].verb)
    BY <1>1 DEF Moves, CloseAt, Native
  <2>2. Done(t)' = CloseAt(order[t].verb)
    BY <1>1, <1>3 DEF Moves
  <2> QED
    BY <1>2, <1>3, <2>1, <2>2 DEF Inside
<1> QED
  BY <1>1, <1>6, <1>7, <1>8 DEF Locked

LEMMA ManagerAndLock ==
    ASSUME Typed, NEW step \in ManagerSteps, Manager(step), agent' = "on"
    PROVE  agent = "on" /\ step \notin {"restart", "stop", "bootout"}
  BY DEF Manager, ManagerSteps, Typed

LEMMA LockedCall ==
    ASSUME Typed, Followed, Locked, NEW t \in Terminals, Call(t)
    PROVE  Locked'
<1> DEFINE step == Head(order[t].todo)
<1>1. /\ os' = os /\ Busy(t) /\ step \in ManagerSteps /\ Manager(step) /\ Moves(t, 1)
      /\ owner' = OwnerAfter(step)
  BY StepMoves DEF Call, counters
<1>2. step # "open"
  BY <1>1 DEF ManagerSteps
<1>3. \A u \in Terminals : Inside(u)' => Inside(u)
  BY <1>1, <1>2, InsideStays
<1>4. \A u \in Terminals : owner = u => owner' = u
  BY <1>1 DEF OwnerAfter, FreedBy, Terminals
<1>5. agent' = "on" => owner' = "agent"
  BY <1>1, ManagerAndLock DEF OwnerAfter, Locked
<1> QED
  BY <1>3, <1>4, <1>5 DEF Locked

LEMMA LockedEnds ==
    ASSUME Typed, Followed, Locked, NEW t \in Terminals, Ends(t)
    PROVE  Locked'
<1>1. os' = os /\ Others(t) /\ ~Busy(t)'
  BY EndMoves DEF Ends, Refuse, CallFails, AnswerLost, Dies, counters, Moves, Busy
<1>2. \A u \in Terminals : Inside(u)' => Inside(u) /\ u # t
  BY <1>1, OthersStay DEF Others, Inside
<1>3. CASE Refuse(t) \/ AnswerLost(t) \/ Dies(t)
  <2>1. owner' = FreedBy(t) /\ agent' = agent
    BY <1>3 DEF Refuse, AnswerLost, Dies, service
  <2> QED
    BY <1>2, <2>1 DEF FreedBy, Locked, Terminals
<1>4. CASE CallFails(t)
  <2>1. CASE agent' = agent /\ owner' = FreedBy(t)
    BY <1>2, <2>1 DEF FreedBy, Locked, Terminals
  <2>2. ASSUME NEW step \in ManagerSteps, Manager(step),
               owner' = IF owner = t THEN "none" ELSE OwnerAfter(step)
        PROVE  Locked'
    <3>1. agent' = "on" => owner = "agent" /\ owner' = "agent"
      BY <2>2, ManagerAndLock DEF OwnerAfter, Locked, Terminals
    <3>2. \A u \in Terminals : owner = u /\ u # t => owner' = u
      BY <2>2 DEF OwnerAfter, FreedBy, Terminals
    <3> QED
      BY <1>2, <3>1, <3>2 DEF Locked
  <2> QED
    BY <1>4, <2>1, <2>2 DEF CallFails, service
<1> QED
  BY <1>3, <1>4 DEF Ends

LEMMA StepLocked == ASSUME Typed, Followed, Locked, Next PROVE Locked'
<1>1. os' = os
  BY SystemStays
<1>2. CASE Reboot
  BY <1>2, RebootOrders DEF Reboot, Locked, Inside
<1>3. ASSUME NEW t \in Terminals,
             \/ EnrollSaved(t) \/ Enroll(t) \/ Save(t) \/ Look(t)
             \/ Create(t) \/ Write(t) \/ Remove(t)
      PROVE  Locked'
  <2>1. Busy(t) /\ \E n \in Nat : Moves(t, n)
    BY <1>3, CommandMoves
  <2>2. owner' = owner /\ agent' = agent
    BY <1>3 DEF EnrollSaved, Enroll, Save, Look, Create, Write, Remove, service
  <2>3. Head(order[t].todo) # "open"
    BY <1>3 DEF EnrollSaved, Enroll, Save, Look, Create, Write, Remove, At, Sees
  <2> QED
    BY <1>1, <2>1, <2>2, <2>3, LockKept
<1> QED
  BY <1>2, <1>3, Actions, LockedOutside, LockedBegin, LockedOpen, LockedClose, LockedCall,
     LockedEnds

-----------------------------------------------------------------------------
(* The machine's identity.                                                  *)

(* Where a command is when it enrols, saves, creates or writes.             *)
LEMMA AtEnroll ==
    ASSUME Typed, Followed, NEW t \in Terminals, At(t, "enroll")
    PROVE  /\ Inside(t)
           /\ \/ order[t].verb = "setup" /\ Done(t) = 2
              \/ order[t].verb = "enroll" /\ Done(t) = 1
<1>1. Busy(t) /\ Done(t) \in Nat /\ Placed(order[t].verb, Done(t) + 1, "enroll")
  BY AtPlace, Positions DEF At
<1>2. \/ order[t].verb = "setup" /\ Done(t) = 2
      \/ order[t].verb = "enroll" /\ Done(t) = 1
  BY <1>1 DEF Placed, Locks
<1> QED
  BY <1>1, <1>2 DEF Inside, CloseAt, Native

LEMMA AtSave ==
    ASSUME Typed, Followed, NEW t \in Terminals, At(t, "save")
    PROVE  Saves(t)
<1>1. Busy(t) /\ Done(t) \in Nat /\ Placed(order[t].verb, Done(t) + 1, "save")
  BY AtPlace, Positions DEF At
<1> QED
  BY <1>1 DEF Placed, Locks, Saves

LEMMA SavesInside == ASSUME Typed, NEW t \in Terminals, Saves(t) PROVE Inside(t)
  BY DEF Saves, Inside, CloseAt, Native

LEMMA AtCreate ==
    ASSUME Typed, Followed, NEW t \in Terminals, At(t, "create") \/ At(t, "write")
    PROVE  PastIdentity(t)
<1>1. PICK s \in {"create", "write"} : At(t, s)
  OBVIOUS
<1>2. Busy(t) /\ Done(t) \in Nat /\ Placed(order[t].verb, Done(t) + 1, s)
  BY <1>1, AtPlace, Positions DEF At
<1> QED
  BY <1>1, <1>2 DEF Placed, Locks, PastIdentity

(* A step of a command makes it neither enrolled nor about to save, unless  *)
(* it is the one that does.                                                 *)
LEMMA PastStays ==
    ASSUME Typed, Followed, os' = os, NEW t \in Terminals, Moves(t, 1), Busy(t),
           Head(order[t].todo) \notin {"open", "save"}
    PROVE  \A u \in Terminals : PastIdentity(u)' => PastIdentity(u)
<1> SUFFICES ASSUME NEW u \in Terminals, PastIdentity(u)'
             PROVE  PastIdentity(u)
  OBVIOUS
<1>1. CASE u # t
  BY <1>1, OthersStay DEF Moves, Others
<1>2. CASE u = t
  <2>1. Done(t) \in Nat /\ Placed(order[t].verb, Done(t) + 1, Head(order[t].todo))
    BY AtPlace, Positions
  <2>2. order'[t].verb = order[t].verb /\ Done(t)' = Done(t) + 1
    BY DEF Moves
  <2> QED
    BY <1>2, <2>1, <2>2 DEF PastIdentity, Placed, Locks, Locking
<1> QED
  BY <1>1, <1>2

LEMMA SavesStays ==
    ASSUME Typed, Followed, os' = os, NEW t \in Terminals, Moves(t, 1), Busy(t),
           Head(order[t].todo) # "enroll"
    PROVE  \A u \in Terminals : Saves(u)' => Saves(u) /\ u # t
<1> SUFFICES ASSUME NEW u \in Terminals, Saves(u)'
             PROVE  Saves(u) /\ u # t
  OBVIOUS
<1>1. CASE u # t
  BY <1>1, OthersStay DEF Moves, Others
<1>2. CASE u = t
  <2>1. Done(t) \in Nat /\ Placed(order[t].verb, Done(t) + 1, Head(order[t].todo))
    BY AtPlace, Positions
  <2>2. order'[t].verb = order[t].verb /\ Done(t)' = Done(t) + 1
    BY DEF Moves
  <2> QED
    BY <1>2, <2>1, <2>2 DEF Saves, Placed, Locks
<1> QED
  BY <1>1, <1>2

(* The manager is told to start, or to enable, only what is there.          *)
There == definition # "none" \/ loaded # "none" \/ agent # "off" \/ enabled
LEMMA ManagerStarts ==
    ASSUME SetupAssumption, Typed, NEW step \in ManagerSteps, Possible(step), Manager(step), There'
    PROVE  There
<1>1. "none" \notin Definitions
  BY DEF SetupAssumption
<1> QED
  BY <1>1 DEF Manager, ManagerSteps, Possible, Shown, There, Typed

LEMMA ServiceNeedsIdentity ==
    ASSUME SetupAssumption, Typed, Followed, Identified, Next
    PROVE  There' => identity # 0
<1>0. There => identity # 0
  BY DEF Identified, There
<1>1. CASE Outside
  <2>1. There' => There
    BY <1>1 DEF Outside, Expire, Regenerate, Revoke, Signal, AgentOpens, AgentRefused, AgentDies,
                service, There
  <2> QED
    BY <1>0, <2>1
<1>2. CASE Reboot
  <2>1. There' => There
    BY <1>2 DEF Reboot, There, SetupAssumption
  <2> QED
    BY <1>0, <2>1
<1>3. ASSUME NEW t \in Terminals,
             \/ Begin(t) \/ Open(t) \/ Close(t) \/ EnrollSaved(t) \/ Enroll(t) \/ Save(t)
             \/ Look(t) \/ Refuse(t) \/ AnswerLost(t) \/ Dies(t)
      PROVE  There' => identity # 0
  <2>1. There' => There
    BY <1>3 DEF Begin, Open, Close, EnrollSaved, Enroll, Save, Look, Refuse, AnswerLost, Dies,
                service, There
  <2> QED
    BY <1>0, <2>1
<1>4. ASSUME NEW t \in Terminals, Create(t) \/ Write(t)
      PROVE  identity # 0
  <2>1. PastIdentity(t)
    BY <1>4, AtCreate DEF Create, Write
  <2> QED
    BY <2>1 DEF Identified
<1>5. ASSUME NEW t \in Terminals, Remove(t)
      PROVE  There' => identity # 0
  <2>1. There' => There
    BY <1>5 DEF Remove, There
  <2> QED
    BY <1>0, <2>1
<1>6. ASSUME NEW t \in Terminals, Call(t) \/ CallFails(t)
      PROVE  There' => identity # 0
  <2>1. CASE UNCHANGED service
    BY <1>0, <2>1 DEF service, There
  <2>2. CASE ~UNCHANGED service
    <3>1. /\ Head(order[t].todo) \in ManagerSteps /\ Possible(Head(order[t].todo))
          /\ Manager(Head(order[t].todo))
      BY <1>6, <2>2 DEF Call, CallFails
    <3> QED
      BY <1>0, <3>1, ManagerStarts
  <2> QED
    BY <2>1, <2>2
<1> QED
  BY <1>1, <1>2, <1>3, <1>4, <1>5, <1>6, Actions DEF Ends

(* An identity stays what it is, and a save makes one.                      *)
LEMMA IdentityStays ==
    ASSUME Typed, Followed, Identified, Next
    PROVE  /\ identity # 0 => identity' = identity
           /\ \A t \in Terminals : Save(t) => identity' # 0
<1>1. ASSUME NEW t \in Terminals, Save(t)
      PROVE  identity' # 0 /\ (identity # 0 => identity' = identity)
  <2>1. order[t].got # 0
    BY <1>1, AtSave DEF Save, Identified
  <2> QED
    BY <1>1, <2>1 DEF Save
<1>2. ASSUME \A t \in Terminals : ~Save(t)
      PROVE  identity' = identity
  <2>1. CASE Outside \/ Reboot
    BY <2>1 DEF Outside, Reboot, Expire, Regenerate, Revoke, Signal, AgentOpens, AgentRefused,
                AgentDies
  <2>2. ASSUME NEW t \in Terminals,
               \/ Begin(t) \/ Open(t) \/ Close(t) \/ EnrollSaved(t) \/ Enroll(t) \/ Look(t)
               \/ Create(t) \/ Write(t) \/ Remove(t) \/ Call(t) \/ Ends(t)
        PROVE  identity' = identity
    BY <2>2 DEF Begin, Open, Close, EnrollSaved, Enroll, Look, Create, Write, Remove, Call, Ends,
                Refuse, CallFails, AnswerLost, Dies
  <2> QED
    BY <1>2, <2>1, <2>2, Actions
<1> QED
  BY <1>1, <1>2

LEMMA StepPast ==
    ASSUME Typed, Followed, Identified, Next
    PROVE  \A u \in Terminals : PastIdentity(u)' => identity' # 0
<1>0. /\ os' = os
      /\ identity # 0 => identity' # 0
      /\ \A u \in Terminals : PastIdentity(u) => identity # 0
  BY SystemStays, IdentityStays DEF Identified
<1>1. CASE Outside
  BY <1>0, <1>1, OutsideKeeps, OthersStay
<1>2. CASE Reboot
  BY <1>2, RebootOrders DEF PastIdentity
<1>3. ASSUME NEW t \in Terminals, Begin(t), NEW u \in Terminals, PastIdentity(u)'
      PROVE  identity' # 0
  <2>1. ~PastIdentity(t)'
    BY <1>3, BeginOrders DEF PastIdentity
  <2>2. u # t /\ order'[u].todo # <<>>
    BY <1>3, <2>1 DEF PastIdentity, Busy
  <2>3. order'[u] = order[u]
    BY <1>3, <2>2, BeginOrders, Idle
  <2> QED
    BY <1>0, <1>3, <2>3, OthersStay
<1>4. ASSUME NEW t \in Terminals, Open(t), NEW u \in Terminals, PastIdentity(u)'
      PROVE  identity' # 0
  <2>1. /\ Moves(t, 1) /\ Busy(t) /\ Head(order[t].todo) = "open"
        /\ order[t].verb = "install" => identity # 0
    BY <1>4, StepMoves DEF Open, At
  <2>2. CASE u # t
    BY <1>0, <1>4, <2>1, <2>2, OthersStay DEF Moves, Others
  <2>3. CASE u = t
    <3>1. Done(t) \in Nat /\ Placed(order[t].verb, Done(t) + 1, "open")
      BY <2>1, AtPlace, Positions
    <3>2. order'[t].verb = order[t].verb /\ Done(t)' = Done(t) + 1
      BY <2>1 DEF Moves
    <3>3. order[t].verb = "install"
      BY <1>4, <2>3, <3>1, <3>2 DEF PastIdentity, Placed, Locks
    <3> QED
      BY <1>0, <2>1, <3>3
  <2> QED
    BY <2>2, <2>3
<1>5. ASSUME NEW t \in Terminals, Save(t) \/ EnrollSaved(t)
      PROVE  identity' # 0
  BY <1>0, <1>5, IdentityStays DEF EnrollSaved
<1>6. ASSUME NEW t \in Terminals, NEW u \in Terminals, PastIdentity(u)',
             \/ Close(t) \/ Enroll(t) \/ Write(t) \/ Remove(t) \/ Call(t)
      PROVE  identity' # 0
  <2>1. Moves(t, 1) /\ Busy(t)
    BY <1>6, StepMoves, EnrollMoves, CommandMoves
  <2>2. Head(order[t].todo) \notin {"open", "save"}
    BY <1>6 DEF Close, Enroll, Write, Remove, Call, ManagerSteps, At
  <2> QED
    BY <1>0, <1>6, <2>1, <2>2, PastStays
<1>7. ASSUME NEW t \in Terminals, NEW u \in Terminals, PastIdentity(u)', Look(t) \/ Ends(t)
      PROVE  identity' # 0
  <2>1. CASE Moves(t, 1) /\ Look(t)
    <3>1. Busy(t) /\ Head(order[t].todo) \notin {"open", "save"}
      BY <2>1 DEF Look, Sees
    <3> QED
      BY <1>0, <1>7, <2>1, <3>1, PastStays
  <2>2. CASE Others(t) /\ order'[t].todo = <<>>
    <3>1. u # t
      BY <1>7, <2>2 DEF PastIdentity, Busy
    <3> QED
      BY <1>0, <1>7, <2>2, <3>1, OthersStay DEF Others
  <2> QED
    BY <1>7, <2>1, <2>2, LookMoves, EndMoves DEF Ends, Moves
<1>8. ASSUME NEW t \in Terminals, NEW u \in Terminals, PastIdentity(u)', Create(t)
      PROVE  identity' # 0
  <2>1. PastIdentity(t) /\ Others(t)
    BY <1>8, AtCreate, CreateMoves DEF Create, Moves
  <2>2. PastIdentity(u)
    BY <1>0, <1>8, <2>1, OthersStay DEF Others
  <2> QED
    BY <1>0, <2>2
<1> QED
  BY <1>1, <1>2, <1>3, <1>4, <1>5, <1>6, <1>7, <1>8, Actions

(* What the fleet's record says of an identity that is about to be saved.   *)
KnownTo(got) == got # 0 /\ (environment.state = "enrolled" => environment.agent = got)

LEMMA StepSaves ==
    ASSUME Typed, Followed, Locked, Identified, Next
    PROVE  \A u \in Terminals : Saves(u)' => KnownTo(order[u].got)'
<1>0. os' = os /\ \A u \in Terminals : Saves(u) => KnownTo(order[u].got)
  BY SystemStays DEF Identified, KnownTo
<1>1. CASE Outside
  <2>1. \A u \in Terminals : Saves(u)' => Saves(u) /\ order'[u] = order[u]
    BY <1>1, OutsideKeeps, OthersStay
  <2>2. environment'.state = "enrolled" =>
           environment.state = "enrolled" /\ environment'.agent = environment.agent
    <3>1. environment \in Environments
      BY DEF Typed
    <3>2. CASE Regenerate
      BY <3>1, <3>2 DEF Regenerate, Environments
    <3>3. CASE Revoke
      BY <3>3 DEF Revoke
    <3>4. CASE Expire \/ Signal
      BY <3>1, <3>4 DEF Expire, Signal, Environments
    <3>5. CASE AgentOpens \/ AgentRefused \/ AgentDies
      BY <3>5 DEF AgentOpens, AgentRefused, AgentDies
    <3> QED
      BY <1>1, <3>2, <3>3, <3>4, <3>5 DEF Outside
  <2> QED
    BY <1>0, <2>1, <2>2 DEF KnownTo
<1>2. CASE Reboot
  BY <1>2, RebootOrders DEF Saves
<1>3. ASSUME NEW t \in Terminals, Begin(t), NEW u \in Terminals, Saves(u)'
      PROVE  KnownTo(order[u].got)'
  <2>1. ~Saves(t)' /\ environment' = environment
    <3>1. Done(t)' = 0
      BY <1>3, BeginOrders
    <3>2. ~Saves(t)'
      BY <3>1 DEF Saves
    <3> QED
      BY <1>3, <3>2 DEF Begin
  <2>2. u # t /\ order'[u].todo # <<>>
    BY <1>3, <2>1 DEF Saves, Busy
  <2>3. order'[u] = order[u]
    BY <1>3, <2>2, BeginOrders, Idle
  <2> QED
    BY <1>0, <1>3, <2>1, <2>3, OthersStay DEF KnownTo
<1>4. ASSUME NEW t \in Terminals, NEW u \in Terminals, Saves(u)', Others(t), u # t,
             environment' = environment
      PROVE  KnownTo(order[u].got)'
  BY <1>0, <1>4, OthersStay DEF Others, KnownTo
<1>5. ASSUME NEW t \in Terminals, NEW u \in Terminals, Saves(u)',
             \/ Open(t) \/ Close(t) \/ Save(t) \/ Write(t) \/ Remove(t) \/ Call(t)
             \/ (Look(t) /\ Moves(t, 1))
      PROVE  KnownTo(order[u].got)'
  <2>1. Moves(t, 1) /\ Busy(t)
    BY <1>5, StepMoves, CommandMoves
  <2>2. Head(order[t].todo) # "enroll"
    BY <1>5 DEF Open, Close, Save, Write, Remove, Call, Look, Sees, ManagerSteps, At
  <2>3. u # t
    BY <1>0, <1>5, <2>1, <2>2, SavesStays
  <2>4. environment' = environment
    BY <1>5 DEF Open, Close, Save, Write, Remove, Call, Look
  <2> QED
    BY <1>4, <1>5, <2>1, <2>3, <2>4 DEF Moves
<1>6. ASSUME NEW t \in Terminals, NEW u \in Terminals, Saves(u)', EnrollSaved(t) \/ Create(t)
      PROVE  KnownTo(order[u].got)'
  <2>1. environment' = environment /\ Others(t)
    BY <1>6, EnrollSavedMoves, CreateMoves DEF EnrollSaved, Create, Moves
  <2>2. ~Saves(t)'
    <3>1. CASE EnrollSaved(t)
      <4>1. order'[t].verb = order[t].verb /\ Done(t)' = Done(t) + 2
        BY <3>1, EnrollSavedMoves DEF Moves
      <4>2. \/ order[t].verb = "setup" /\ Done(t) = 2
            \/ order[t].verb = "enroll" /\ Done(t) = 1
        BY <3>1, AtEnroll DEF EnrollSaved
      <4> QED
        BY <4>1, <4>2 DEF Saves
    <3>2. CASE Create(t)
      <4>1. /\ order'[t].verb = order[t].verb
            /\ Done(t)' = Done(t) + 1 \/ Done(t)' = Done(t) + 2
        BY <3>2, CreateMoves DEF Moves
      <4>2. PastIdentity(t) /\ Done(t) \in Nat
        BY <3>2, AtCreate, Positions DEF Create
      <4> QED
        BY <4>1, <4>2 DEF Saves, PastIdentity
    <3> QED
      BY <1>6, <3>1, <3>2
  <2> QED
    BY <1>4, <1>6, <2>1, <2>2
<1>7. ASSUME NEW t \in Terminals, NEW u \in Terminals, Saves(u)', Enroll(t)
      PROVE  KnownTo(order[u].got)'
  <2>1. Inside(t) /\ Others(t) /\ order'[t].got = order[t].token
    BY <1>7, AtEnroll, EnrollMoves DEF Enroll, Moves
  <2>2. u = t
    <3>1. ASSUME u # t PROVE FALSE
      <4>1. Saves(u)
        BY <1>0, <1>7, <2>1, <3>1, OthersStay DEF Others
      <4> QED
        BY <2>1, <3>1, <4>1, SavesInside, OwnersApart
    <3> QED
      BY <3>1
  <2>3. order[t].token # 0 /\ environment'.agent = order[t].token
    BY <1>7 DEF Enroll, Valid, Enrolled, Typed, Environments
  <2> QED
    BY <2>1, <2>2, <2>3 DEF KnownTo
<1>8. ASSUME NEW t \in Terminals, NEW u \in Terminals, Saves(u)', Others(t), order'[t].todo = <<>>,
             Look(t) \/ Ends(t)
      PROVE  KnownTo(order[u].got)'
  <2>1. u # t
    BY <1>8 DEF Saves, Busy
  <2>2. CASE environment' = environment
    BY <1>4, <1>8, <2>1, <2>2
  <2>3. CASE AnswerLost(t)
    <3>1. Inside(t) /\ Saves(u)
      BY <1>0, <1>8, <2>1, <2>3, AtEnroll, OthersStay DEF AnswerLost, Others
    <3> QED
      BY <2>1, <3>1, SavesInside, OwnersApart
  <2> QED
    BY <1>8, <2>2, <2>3 DEF Look, Ends, Refuse, CallFails, Dies
<1> QED
  BY <1>1, <1>2, <1>3, <1>5, <1>6, <1>7, <1>8, Actions, LookMoves, EndMoves DEF Ends, Moves

LEMMA StepKept ==
    ASSUME Typed, Followed, Identified, Next
    PROVE  EnrolmentIsKept'
<1>0. EnrolmentIsKept
  BY DEF Identified
<1>1. CASE identity' = identity /\ environment' = environment
  BY <1>0, <1>1 DEF EnrolmentIsKept
<1>2. CASE Expire \/ Regenerate \/ Revoke \/ Signal
  <2>1. environment \in Environments
    BY DEF Typed
  <2>2. CASE Regenerate
    BY <1>0, <2>1, <2>2 DEF Regenerate, EnrolmentIsKept, Environments
  <2>3. CASE Revoke
    BY <1>0, <2>3 DEF Revoke, EnrolmentIsKept
  <2>4. CASE Expire
    BY <1>0, <2>1, <2>4 DEF Expire, EnrolmentIsKept, Environments
  <2>5. CASE Signal
    BY <1>0, <2>1, <2>5 DEF Signal, EnrolmentIsKept, Environments
  <2> QED
    BY <1>2, <2>2, <2>3, <2>4, <2>5
<1>3. ASSUME NEW t \in Terminals, Save(t) PROVE EnrolmentIsKept'
  <2>1. environment.state = "enrolled" => environment.agent = order[t].got
    BY <1>3, AtSave DEF Save, Identified
  <2>2. identity' = order[t].got /\ environment' = environment
    BY <1>3 DEF Save
  <2> QED
    BY <1>0, <2>1, <2>2 DEF EnrolmentIsKept
<1>4. ASSUME NEW t \in Terminals, Enroll(t) \/ AnswerLost(t) PROVE EnrolmentIsKept'
  <2>1. identity' = 0 /\ environment'.state = "enrolled"
    BY <1>4 DEF Enroll, AnswerLost, Enrolled, Typed, Environments
  <2> QED
    BY <2>1 DEF EnrolmentIsKept
<1>5. ASSUME NEW t \in Terminals,
             \/ Begin(t) \/ Open(t) \/ Close(t) \/ EnrollSaved(t) \/ Look(t) \/ Create(t)
             \/ Write(t) \/ Remove(t) \/ Call(t) \/ Refuse(t) \/ CallFails(t) \/ Dies(t)
      PROVE  identity' = identity /\ environment' = environment
  BY <1>5 DEF Begin, Open, Close, EnrollSaved, Look, Create, Write, Remove, Call, Refuse,
              CallFails, Dies
<1>6. CASE Reboot \/ AgentOpens \/ AgentRefused \/ AgentDies
  BY <1>1, <1>6 DEF Reboot, AgentOpens, AgentRefused, AgentDies
<1> QED
  BY <1>1, <1>2, <1>3, <1>4, <1>5, <1>6, Actions DEF Ends, Outside

LEMMA StepIdentified ==
    ASSUME SetupAssumption, Typed, Followed, Locked, Identified, Next
    PROVE  Identified'
<1>1. There' => identity' # 0
  BY ServiceNeedsIdentity, IdentityStays
<1> QED
  BY <1>1, StepPast, StepSaves, StepKept DEF Identified, There, KnownTo

-----------------------------------------------------------------------------
(* What the commands of the service establish.                              *)

Alone == \A t, u \in Terminals : Manages(t) /\ Manages(u) => t = u
Quiet == os = "linux" /\ Nothing => ~enabled /\ agent = "off"
Sounds == \A t \in Terminals : Sound(t)

LEMMA OverlapStays == ASSUME Typed, Followed, Next PROVE overlapped => overlapped'
<1>1. CASE Outside \/ Reboot
  BY <1>1, OutsideKeeps DEF Reboot
<1>2. ASSUME NEW t \in Terminals, Begin(t) PROVE overlapped => overlapped'
  BY <1>2, BeginOrders
<1>3. ASSUME NEW t \in Terminals,
             \/ Open(t) \/ Close(t) \/ EnrollSaved(t) \/ Enroll(t) \/ Save(t) \/ Look(t)
             \/ Create(t) \/ Write(t) \/ Remove(t) \/ Call(t) \/ Ends(t)
      PROVE  overlapped' = overlapped
  BY <1>3 DEF Open, Close, EnrollSaved, Enroll, Save, Look, Create, Write, Remove, Call, Ends,
              Refuse, CallFails, AnswerLost, Dies, counters
<1> QED
  BY <1>1, <1>2, <1>3, Actions

LEMMA StepDarwin ==
    ASSUME Typed, Followed, Next, os = "darwin" => ~enabled
    PROVE  (os = "darwin" => ~enabled)'
<1>1. os' = os
  BY SystemStays
<1>2. ASSUME NEW t \in Terminals, Call(t) \/ CallFails(t), os = "darwin"
      PROVE  enabled' = enabled
  <2>1. Busy(t) /\ Head(order[t].todo) \in ManagerSteps
    BY <1>2 DEF Call, CallFails
  <2>2. Head(order[t].todo) \in {"bootstrap", "bootout"}
    BY <1>2, <2>1, AtPlace DEF Placed, Serves
  <2> QED
    BY <1>2, <2>2 DEF Call, CallFails, Manager, service
<1>3. ASSUME \A t \in Terminals : ~Call(t) /\ ~CallFails(t)
      PROVE  enabled' = enabled
  <2>1. CASE Outside \/ Reboot
    BY <2>1 DEF Outside, Reboot, Expire, Regenerate, Revoke, Signal, AgentOpens, AgentRefused,
                AgentDies, service
  <2>2. ASSUME NEW t \in Terminals,
               \/ Begin(t) \/ Open(t) \/ Close(t) \/ EnrollSaved(t) \/ Enroll(t) \/ Save(t)
               \/ Look(t) \/ Create(t) \/ Write(t) \/ Remove(t) \/ Refuse(t) \/ AnswerLost(t)
               \/ Dies(t)
        PROVE  enabled' = enabled
    BY <2>2 DEF Begin, Open, Close, EnrollSaved, Enroll, Save, Look, Create, Write, Remove,
                Refuse, AnswerLost, Dies, service
  <2> QED
    BY <1>3, <2>1, <2>2, Actions DEF Ends
<1> QED
  BY <1>1, <1>2, <1>3

LEMMA StepAlone == ASSUME Typed, Followed, Next, Alone, ~overlapped' PROVE Alone'
<1>1. CASE Outside
  BY <1>1, OutsideKeeps DEF Alone, Manages
<1>2. CASE Reboot
  <2>1. \A u \in Terminals : Manages(u)' => Manages(u)
    BY <1>2, RebootOrders, Idle DEF Manages, ServiceVerbs
  <2> QED
    BY <2>1 DEF Alone
<1>3. ASSUME NEW t \in Terminals, Begin(t) PROVE Alone'
  <2>1. \A u \in Terminals \ {t} : Manages(u)' => Manages(u) /\ ~Manages(t)'
    BY <1>3, BeginOrders, Idle DEF Manages, ServiceVerbs
  <2> QED
    BY <2>1 DEF Alone
<1>4. ASSUME NEW t \in Terminals,
             \/ Open(t) \/ Close(t) \/ EnrollSaved(t) \/ Enroll(t) \/ Save(t) \/ Look(t)
             \/ Create(t) \/ Write(t) \/ Remove(t) \/ Call(t) \/ Ends(t)
      PROVE  Alone'
  <2>1. PICK n \in Nat : Moves(t, n)
    BY <1>4, CommandMoves
  <2>2. \A u \in Terminals : order'[u].verb = order[u].verb
    BY <2>1 DEF Moves, Others
  <2> QED
    BY <2>2 DEF Alone, Manages
<1> QED
  BY <1>1, <1>2, <1>3, <1>4, Actions

(* An order that no step touches, and one of no service.                    *)
LEMMA SoundStays ==
    ASSUME os' = os, NEW u \in Terminals, order'[u] = order[u], Sound(u),
           definition' = definition, loaded' = loaded, enabled' = enabled,
           agent = "off" => agent' = "off"
    PROVE  Sound(u)'
<1>1. Sure(u)' <=> Sure(u)
  BY OthersStay
<1>2. Done(u)' = Done(u)
  BY OthersStay
<1> QED
  BY <1>1, <1>2 DEF Sound, Undone, Mine, Nothing

LEMMA SoundAside == ASSUME NEW u \in Terminals, ~Manages(u)' PROVE Sound(u)'
  BY DEF Manages, ServiceVerbs, Sound, Sure

LEMMA SoundEnded ==
    ASSUME NEW u \in Terminals, order'[u].todo = <<>>, order'[u].failed
    PROVE  Sound(u)'
  BY DEF Sound, Sure, Busy

(* A step of the one command of the service leaves no other to speak of.    *)
LEMMA SoundsAlone ==
    ASSUME os' = os, Alone, NEW t \in Terminals, Manages(t), Others(t), Sound(t)'
    PROVE  Sounds'
<1>1. ASSUME NEW u \in Terminals \ {t} PROVE Sound(u)'
  <2>1. ~Manages(u)'
    BY OthersStay DEF Alone, Others
  <2> QED
    BY <2>1, SoundAside
<1> QED
  BY <1>1 DEF Sounds

(* A step that leaves the service alone.                                    *)
LEMMA SoundsIdle ==
    ASSUME os' = os, Sounds, NEW t \in Terminals, Others(t), Sound(t)', UNCHANGED service
    PROVE  Sounds'
<1>1. ASSUME NEW u \in Terminals \ {t} PROVE Sound(u)'
  BY SoundStays DEF Others, Sounds, service
<1> QED
  BY <1>1 DEF Sounds

LEMMA QuietOutside ==
    ASSUME Typed, Outside, Quiet, Sounds
    PROVE  Quiet' /\ Sounds'
<1>1. order' = order /\ os' = os
  BY OutsideKeeps
<1>2. /\ definition' = definition /\ loaded' = loaded /\ enabled' = enabled
      /\ agent = "off" => agent' = "off"
  BY DEF Outside, Expire, Regenerate, Revoke, Signal, AgentOpens, AgentRefused, AgentDies, service
<1>3. Sounds'
  BY <1>1, <1>2, SoundStays DEF Sounds
<1> QED
  BY <1>1, <1>2, <1>3 DEF Quiet, Nothing

LEMMA QuietReboot ==
    ASSUME SetupAssumption, Typed, Followed, Reboot, Quiet, Sounds
    PROVE  Quiet' /\ Sounds'
<1>1. /\ os' = os /\ definition' = definition /\ enabled' = enabled
      /\ Nothing => agent' = "off" /\ loaded' = "none"
  BY DEF Reboot, Nothing, SetupAssumption
<1>2. ASSUME NEW u \in Terminals PROVE Sound(u)'
  <2>1. ~Busy(u)' /\ (order'[u] = order[u] \/ order'[u] = NoOrder)
    BY RebootOrders
  <2>2. CASE order'[u] = NoOrder
    BY <2>2, Idle, SoundAside DEF Manages, ServiceVerbs
  <2>3. CASE order'[u] = order[u] /\ order[u].verb = "uninstall" /\ ~order[u].failed
    <3>1. ~Busy(u) /\ Done(u)' = Done(u)
      BY <1>1, <2>1, <2>3, OthersStay
    <3>2. Done(u) = Len(Whole(u)) /\ Len(Whole(u)) = Native(8, 5)
      <4>1. Laid(order[u].verb) /\ Done(u) \in 0..Len(Whole(u)) /\ Len(Whole(u)) \in Nat
        BY Positions
      <4>2. Done(u) = Len(Whole(u))
        BY <3>1, <4>1, Positions
      <4> QED
        BY <2>3, <4>1, <4>2 DEF Laid, LaidAs, Whole
    <3>3. Undone(u)
      BY <2>3 DEF Sounds, Sound
    <3>4. Nothing /\ (os = "linux" => ~enabled)
      BY <3>2, <3>3 DEF Undone, Native
    <3> QED
      BY <1>1, <2>1, <3>4 DEF Sound, Sure, Undone, Nothing
  <2>4. CASE order'[u] = order[u] /\ ~(order[u].verb = "uninstall" /\ ~order[u].failed)
    BY <2>1, <2>4 DEF Sound, Sure
  <2> QED
    BY <2>1, <2>2, <2>3, <2>4
<1> QED
  BY <1>1, <1>2 DEF Quiet, Sounds, Nothing

LEMMA QuietBegin ==
    ASSUME Typed, Followed, NEW t \in Terminals, Begin(t), Quiet, Sounds
    PROVE  Quiet' /\ Sounds'
<1>1. os' = os /\ UNCHANGED service
  BY DEF Begin
<1>2. Done(t)' = 0
  BY BeginOrders
<1>3. Sound(t)'
  BY <1>2 DEF Sound, Sure, Undone
<1>4. ASSUME NEW u \in Terminals \ {t} PROVE Sound(u)'
  <2>1. CASE order'[u] = order[u]
    BY <1>1, <2>1, SoundStays DEF Sounds, service
  <2>2. CASE order'[u] = NoOrder
    BY <2>2, Idle, SoundAside DEF Manages, ServiceVerbs
  <2> QED
    BY <2>1, <2>2, BeginOrders
<1> QED
  BY <1>1, <1>3, <1>4 DEF Quiet, Sounds, Nothing, service

(* A step of a command that leaves the service alone.                       *)
LEMMA SoundGoes ==
    ASSUME Typed, Followed, NEW t \in Terminals, Sound(t), Moves(t, 1), Keeps(t), Busy(t), os' = os,
           UNCHANGED service,
           Head(order[t].todo) \notin
              {"present", "owned", "stop", "disable", "remove", "bootout", "unlink"}
    PROVE  Sound(t)'
<1>1. Done(t) \in Nat /\ Placed(order[t].verb, Done(t) + 1, Head(order[t].todo))
  BY AtPlace, Positions
<1>2. /\ order'[t].verb = order[t].verb /\ order'[t].def = order[t].def
      /\ Done(t)' = Done(t) + 1
      /\ order'[t].failed = order[t].failed /\ order'[t].found = order[t].found
  BY DEF Moves, Keeps
<1>3. os = "linux" /\ Sure(t)' => Sure(t)
  BY <1>1, <1>2 DEF Sure, Placed, Serves
<1>4. Mine(t)' <=> Mine(t)
  BY <1>2 DEF Mine, service
<1>5. ASSUME order[t].verb = "uninstall", Undone(t) PROVE Undone(t)'
  <2>1. CASE os = "linux"
    BY <1>1, <1>2, <1>5, <2>1 DEF Undone, Placed, Undoes, Nothing, service
  <2>2. CASE os = "darwin"
    BY <1>1, <1>2, <1>5, <2>2 DEF Undone, Placed, Undoes, Nothing, service
  <2> QED
    BY <2>1, <2>2 DEF Typed, Systems
<1> QED
  BY <1>2, <1>3, <1>4, <1>5 DEF Sound

LEMMA SoundLook ==
    ASSUME SetupAssumption, Typed, Followed, NEW t \in Terminals, Sound(t), Quiet, Look(t)
    PROVE  Sound(t)'
<1>1. os' = os /\ UNCHANGED service /\ Busy(t) /\ Sees(t, Head(order[t].todo))
  BY DEF Look, counters
<1>2. Done(t) \in Nat /\ Placed(order[t].verb, Done(t) + 1, Head(order[t].todo))
  BY <1>1, AtPlace, Positions
<1>3. CASE Moves(t, 1)
  <2>1. /\ order'[t].verb = order[t].verb /\ order'[t].def = order[t].def
        /\ Done(t)' = Done(t) + 1 /\ order'[t].failed = order[t].failed
    BY <1>3, LookMoves DEF Moves
  <2>2. Mine(t)' <=> Mine(t)
    BY <1>1, <2>1 DEF Mine, service
  <2>3. Head(order[t].todo) = "present" => Mine(t)
    BY <1>1 DEF Sees
  <2>4. os = "linux" /\ Sure(t)' => Mine(t)
    BY <1>1, <1>2, <2>1, <2>3 DEF Sure, Placed, Serves, Sound
  <2>5. Head(order[t].todo) \notin {"stop", "disable", "remove", "bootout", "unlink"}
    BY <1>1 DEF Sees
  <2>6. Head(order[t].todo) = "owned" => (~order'[t].found => Nothing)
    BY <1>1, LookMoves DEF Sees, Owned
  <2>7. ASSUME order[t].verb = "uninstall", Undone(t) PROVE Undone(t)'
    <3>1. CASE os = "linux"
      BY <1>1, <1>2, <2>1, <2>5, <2>7, <3>1 DEF Undone, Placed, Undoes, Nothing, service
    <3>2. CASE os = "darwin"
      <4>1. Done(t) = 3 => Head(order[t].todo) = "owned"
        BY <1>2, <2>7, <3>2 DEF Placed, Undoes
      <4> QED
        BY <1>1, <1>2, <2>1, <2>5, <2>6, <2>7, <3>2, <4>1
        DEF Undone, Placed, Undoes, Nothing, service
    <3> QED
      BY <3>1, <3>2 DEF Typed, Systems
  <2> QED
    BY <1>1, <2>1, <2>2, <2>4, <2>7 DEF Sound
<1>4. CASE os = "linux" /\ Nothing /\ order'[t].todo = <<>>
  <2>1. Nothing' /\ ~enabled' /\ agent' = "off" /\ ~Sure(t)'
    BY <1>1, <1>4 DEF Quiet, Nothing, service, Sure, Busy
  <2> QED
    BY <1>1, <1>4, <2>1 DEF Sound, Undone
<1> QED
  BY <1>3, <1>4, LookMoves

(* A command that only looks, talks to the fleet, or ends.                  *)
LEMMA QuietIdle ==
    ASSUME SetupAssumption, Typed, Followed, Quiet, Sounds, NEW t \in Terminals,
           \/ Open(t) \/ Close(t) \/ EnrollSaved(t) \/ Enroll(t) \/ Save(t) \/ Look(t)
           \/ Refuse(t) \/ AnswerLost(t) \/ Dies(t)
    PROVE  Quiet' /\ Sounds'
<1>1. os' = os /\ UNCHANGED service /\ Others(t) /\ Busy(t)
  <2>1. os' = os /\ UNCHANGED service
    BY DEF Open, Close, EnrollSaved, Enroll, Save, Look, Refuse, AnswerLost, Dies, counters
  <2> QED
    BY <2>1, CommandMoves DEF Moves, Ends
<1>2. Sound(t)
  BY DEF Sounds
<1>3. Sound(t)'
  <2>1. CASE Open(t) \/ Close(t) \/ Save(t)
    <3>1. Moves(t, 1) /\ Keeps(t)
      BY <2>1, StepMoves
    <3>2. Head(order[t].todo) \in {"open", "close", "save"}
      BY <2>1 DEF Open, Close, Save, At
    <3> QED
      BY <1>1, <1>2, <3>1, <3>2, SoundGoes
  <2>2. CASE Look(t)
    BY <1>2, <2>2, SoundLook
  <2>3. CASE Enroll(t) \/ EnrollSaved(t)
    <3>1. /\ order'[t].verb = order[t].verb
          /\ Done(t)' = Done(t) + 1 \/ Done(t)' = Done(t) + 2
      BY <2>3, EnrollMoves, EnrollSavedMoves DEF Moves
    <3>2. \/ order[t].verb = "setup" /\ Done(t) = 2
          \/ order[t].verb = "enroll" /\ Done(t) = 1
      BY <2>3, AtEnroll DEF Enroll, EnrollSaved
    <3> QED
      BY <3>1, <3>2 DEF Sound, Sure
  <2>4. CASE Refuse(t) \/ AnswerLost(t) \/ Dies(t)
    BY <2>4, EndMoves, SoundEnded
  <2> QED
    BY <2>1, <2>2, <2>3, <2>4
<1> QED
  BY <1>1, <1>3, SoundsIdle DEF Quiet, Nothing, service

LEMMA QuietWrites ==
    ASSUME SetupAssumption, Typed, Followed, Alone, Quiet, Sounds, NEW t \in Terminals,
           Create(t) \/ Write(t)
    PROVE  Quiet' /\ Sounds'
<1>1. os' = os /\ loaded' = loaded /\ enabled' = enabled /\ agent' = agent /\ Busy(t)
  BY DEF Create, Write, counters, At
<1>2. PastIdentity(t)
  BY AtCreate DEF Create, Write
<1>3. Manages(t)
  BY <1>2 DEF PastIdentity, Manages, ServiceVerbs
<1>4. /\ Others(t) /\ order'[t].verb = order[t].verb
      /\ Done(t)' = Done(t) + 1 \/ Done(t)' = Done(t) + 2
  BY StepMoves, CreateMoves DEF Moves
<1>5. Done(t) \in Nat /\ Placed(order[t].verb, Done(t) + 1, Head(order[t].todo))
      /\ Head(order[t].todo) \in {"create", "write"}
  BY <1>1, AtPlace, Positions DEF Create, Write, At
<1>6. Done(t) + 1 < CloseAt(order[t].verb)
  BY <1>5 DEF Placed, Locks
<1>7. os = "linux" => ~Sure(t)'
  BY <1>2, <1>4, <1>5, <1>6 DEF Sure, PastIdentity, CloseAt, Native
<1>8. Sound(t)'
  BY <1>1, <1>2, <1>4, <1>7 DEF Sound, PastIdentity
<1>9. Nothing' => Nothing
  <2>1. order[t].def \in Definitions
    BY <1>1 DEF Typed
  <2> QED
    BY <2>1 DEF Create, Write, Nothing, SetupAssumption
<1> QED
  BY <1>1, <1>3, <1>4, <1>8, <1>9, SoundsAlone DEF Quiet

LEMMA QuietRemove ==
    ASSUME Typed, Followed, Alone, Quiet, Sounds, NEW t \in Terminals, Remove(t)
    PROVE  Quiet' /\ Sounds'
<1>1. /\ os' = os /\ loaded' = loaded /\ enabled' = enabled /\ agent' = agent /\ Busy(t)
      /\ Moves(t, 1) /\ Keeps(t)
  BY StepMoves DEF Remove, counters, At
<1>2. /\ Done(t) \in Nat /\ Placed(order[t].verb, Done(t) + 1, Head(order[t].todo))
      /\ Head(order[t].todo) \in {"remove", "unlink"}
  BY <1>1, AtPlace, Positions DEF Remove, At
<1>3. /\ order[t].verb = "uninstall"
      /\ IF Head(order[t].todo) = "remove" THEN os = "linux" /\ Done(t) = 6
                                           ELSE os = "darwin" /\ Done(t) = 4
  BY <1>2 DEF Placed, Undoes
<1>4. Undone(t)
  BY <1>1, <1>3 DEF Typed, Sounds, Sound
<1>5. Nothing'
  <2>1. CASE Head(order[t].todo) = "unlink" /\ ~order[t].found
    BY <1>1, <1>3, <1>4, <2>1 DEF Undone, Remove, At, Nothing
  <2>2. CASE ~(Head(order[t].todo) = "unlink" /\ ~order[t].found)
    BY <1>1, <2>2 DEF Remove, At, Nothing
  <2> QED
    BY <2>1, <2>2
<1>6. order'[t].verb = "uninstall" /\ Done(t)' = Done(t) + 1 /\ Others(t)
  BY <1>1, <1>3 DEF Moves
<1>7. Undone(t)'
  <2>1. CASE os = "linux"
    BY <1>1, <1>3, <1>4, <1>5, <2>1 DEF Undone
  <2>2. CASE os = "darwin"
    BY <1>1, <1>3, <1>4, <1>5, <2>2 DEF Undone
  <2> QED
    BY <2>1, <2>2 DEF Typed, Systems
<1>8. Sound(t)'
  BY <1>6, <1>7 DEF Sound, Sure
<1>9. Quiet'
  BY <1>1, <1>3, <1>4 DEF Quiet, Undone
<1>10. Manages(t)
  BY <1>3 DEF Manages, ServiceVerbs
<1> QED
  BY <1>1, <1>6, <1>8, <1>9, <1>10, SoundsAlone

(* The manager starts nothing that is not there to be started.              *)
LEMMA QuietManager ==
    ASSUME SetupAssumption, Typed, Followed, Quiet, NEW t \in Terminals, Sound(t), Busy(t),
           os' = os, Head(order[t].todo) \in ManagerSteps, Possible(Head(order[t].todo)),
           Manager(Head(order[t].todo))
    PROVE  Quiet' /\ definition' = definition
<1> DEFINE step == Head(order[t].todo)
<1>1. Done(t) \in Nat /\ Placed(order[t].verb, Done(t) + 1, step)
  BY AtPlace, Positions
<1>2. definition' = definition
  BY DEF Manager, ManagerSteps
<1>3. ASSUME os = "linux", Nothing PROVE step \notin {"enable", "start", "restart", "bootstrap"}
  <2>1. step # "bootstrap"
    BY <1>1, <1>3 DEF Placed, Serves
  <2>2. step # "enable"
    BY <1>3 DEF Possible, Nothing, SetupAssumption
  <2>3. ASSUME step \in {"start", "restart"} PROVE FALSE
    <3>1. Sure(t)
      BY <1>1, <1>3, <2>3 DEF Placed, Serves, Sure
    <3>2. Mine(t) /\ order[t].def \in Definitions
      BY <1>3, <3>1 DEF Sound, Typed
    <3> QED
      BY <1>3, <3>2 DEF Mine, Nothing, SetupAssumption
  <2> QED
    BY <2>1, <2>2, <2>3
<1>4. Quiet'
  <2> SUFFICES ASSUME os = "linux", Nothing PROVE ~enabled' /\ agent' = "off"
    BY <1>2 DEF Quiet, Nothing
  <2>1. ~enabled /\ agent = "off"
    BY DEF Quiet
  <2>2. step \in {"reload", "disable", "stop", "bootout"}
    BY <1>3 DEF ManagerSteps
  <2> QED
    BY <2>1, <2>2 DEF Manager
<1> QED
  BY <1>2, <1>4

LEMMA QuietCall ==
    ASSUME SetupAssumption, Typed, Followed, Alone, Quiet, Sounds, NEW t \in Terminals, Call(t)
    PROVE  Quiet' /\ Sounds'
<1> DEFINE step == Head(order[t].todo)
<1>1. /\ os' = os /\ Busy(t) /\ Moves(t, 1) /\ Keeps(t) /\ step \in ManagerSteps
      /\ Possible(step) /\ Manager(step)
  BY StepMoves DEF Call, counters
<1>2. Done(t) \in Nat /\ Placed(order[t].verb, Done(t) + 1, step)
  BY <1>1, AtPlace, Positions
<1>3. Sound(t) /\ ~order[t].failed
  BY <1>1 DEF Sounds, Typed
<1>4. Quiet' /\ definition' = definition
  BY <1>1, <1>3, QuietManager
<1>5. /\ order'[t].verb = order[t].verb /\ order'[t].def = order[t].def
      /\ Done(t)' = Done(t) + 1 /\ Others(t) /\ order'[t].found = order[t].found
  BY <1>1 DEF Moves, Keeps
<1>6. os = "linux" /\ Sure(t)' => Sure(t)
  BY <1>1, <1>2, <1>5 DEF Sure, Placed, Serves, ManagerSteps
<1>7. Mine(t)' <=> Mine(t)
  BY <1>4, <1>5 DEF Mine
<1>8. ASSUME order[t].verb = "uninstall" PROVE Undone(t)'
  <2>1. Undone(t)
    BY <1>3, <1>8 DEF Sound
  <2>2. CASE os = "linux"
    <3>1. step \in {"reload", "disable", "stop"}
      BY <1>1, <1>2, <1>8, <2>2 DEF Placed, Undoes, Serves, ManagerSteps
    <3>2. /\ agent = "off" => agent' = "off"
          /\ ~enabled => ~enabled'
          /\ step = "stop" => agent' = "off"
          /\ step = "disable" => ~enabled'
      BY <1>1, <3>1 DEF Manager
    <3>3. /\ Done(t) = 2 => step = "stop"
          /\ Done(t) = 3 => step = "disable"
          /\ Done(t) # 6
      BY <1>2, <1>8, <2>2, <3>1 DEF Placed, Undoes
    <3> QED
      BY <1>1, <1>2, <1>4, <1>5, <2>1, <2>2, <3>2, <3>3 DEF Undone, Nothing
  <2>3. CASE os = "darwin"
    <3>1. step = "bootout"
      BY <1>1, <1>2, <1>8, <2>3 DEF Placed, Undoes, Serves, ManagerSteps
    <3>2. agent' = "off" /\ loaded' = "none"
      BY <1>1, <3>1 DEF Manager
    <3>3. Done(t) # 3 /\ Done(t) # 4
      BY <1>2, <1>8, <2>3, <3>1 DEF Placed, Undoes
    <3> QED
      BY <1>1, <1>2, <1>4, <1>5, <2>1, <2>3, <3>2, <3>3 DEF Undone, Nothing
  <2> QED
    BY <2>2, <2>3 DEF Typed, Systems
<1>9. Sound(t)'
  BY <1>1, <1>3, <1>5, <1>6, <1>7, <1>8 DEF Sound
<1>10. Manages(t)
  BY <1>1, <1>2 DEF Placed, Serves, Manages
<1> QED
  BY <1>1, <1>4, <1>5, <1>9, <1>10, SoundsAlone

LEMMA QuietCallFails ==
    ASSUME SetupAssumption, Typed, Followed, Alone, Quiet, Sounds, NEW t \in Terminals,
           CallFails(t)
    PROVE  Quiet' /\ Sounds'
<1> DEFINE step == Head(order[t].todo)
<1>1. os' = os /\ Busy(t) /\ step \in ManagerSteps /\ Others(t) /\ Sound(t)'
  BY EndMoves, SoundEnded DEF CallFails, Moves
<1>2. Manages(t)
  <2>1. Placed(order[t].verb, Done(t) + 1, step)
    BY <1>1, AtPlace
  <2> QED
    BY <1>1, <2>1 DEF Placed, Serves, Manages
<1>3. Sounds'
  BY <1>1, <1>2, SoundsAlone
<1>4. CASE UNCHANGED service
  BY <1>1, <1>3, <1>4 DEF Quiet, Nothing, service
<1>5. CASE Possible(step) /\ Manager(step)
  <2>1. Sound(t)
    BY DEF Sounds
  <2> QED
    BY <1>1, <1>3, <1>5, <2>1, QuietManager
<1> QED
  BY <1>4, <1>5 DEF CallFails

LEMMA StepUndisturbed ==
    ASSUME SetupAssumption, Typed, Followed, Undisturbed, Next
    PROVE  Undisturbed'
<1>1. (os = "darwin" => ~enabled)'
  BY StepDarwin DEF Undisturbed
<1>2. ASSUME ~overlapped' PROVE Alone' /\ Quiet' /\ Sounds'
  <2>1. Alone /\ Quiet /\ Sounds
    BY <1>2, OverlapStays DEF Undisturbed, Alone, Quiet, Sounds
  <2>2. Alone'
    BY <1>2, <2>1, StepAlone
  <2>3. Quiet' /\ Sounds'
    BY <2>1, Actions, QuietOutside, QuietReboot, QuietBegin, QuietIdle, QuietWrites, QuietRemove,
       QuietCall, QuietCallFails DEF Ends
  <2> QED
    BY <2>2, <2>3
<1> QED
  BY <1>1, <1>2 DEF Undisturbed, Alone, Quiet, Sounds

-----------------------------------------------------------------------------
(* The theorem.                                                             *)

LEMMA InitHolds == ASSUME SetupAssumption, Init PROVE IInv
<1>1. \A t \in Terminals : order[t] = NoOrder /\ ~Busy(t)
  BY Idle DEF Init, Busy
<1>2. Typed
  <2>1. order \in [Terminals -> Orders]
    BY Idle DEF Init
  <2>2. os \in Systems /\ identity \in Nat /\ issued \in Nat /\ environment \in Environments
    BY DEF Init, Systems, Environments
  <2>3. /\ definition \in Files /\ loaded \in Files /\ enabled \in BOOLEAN
        /\ agent \in {"off", "starting", "on"}
    BY DEF Init, Files
  <2> QED
    BY <1>1, <2>1, <2>2, <2>3 DEF Typed
<1>3. Followed
  <2> SUFFICES ASSUME NEW t \in Terminals
               PROVE  /\ Len(order[t].todo) <= Len(Whole(t))
                      /\ \A i \in 1..Len(order[t].todo) :
                            order[t].todo[i] = Whole(t)[Done(t) + i]
    BY DEF Followed
  <2>1. order[t].todo = <<>> /\ Len(<<>>) = 0
    BY <1>1, Idle, EmptySeq
  <2>2. Laid(order[t].verb)
    BY <1>2, LaidOut DEF Typed, Orders
  <2>3. Len(Whole(t)) \in Nat
    BY <2>2, LenProperties DEF Laid, LaidAs, Whole
  <2> QED
    BY <2>1, <2>3
<1>4. Locked
  BY <1>1 DEF Init, Locked, Inside
<1>5. Identified
  <2>1. \A t \in Terminals : ~PastIdentity(t) /\ ~Saves(t)
    BY <1>1 DEF PastIdentity, Saves
  <2>2. There => identity # 0
    <3>1. CASE definition = "none"
      BY <3>1 DEF Init, There
    <3>2. CASE definition # "none"
      BY <3>2 DEF Init
    <3> QED
      BY <3>1, <3>2
  <2>3. EnrolmentIsKept
    BY DEF Init, EnrolmentIsKept
  <2> QED
    BY <2>1, <2>2, <2>3 DEF Identified, There
<1>6. Undisturbed
  <2>1. \A t \in Terminals : ~Manages(t) /\ Sound(t)
    BY <1>1, Idle DEF Manages, ServiceVerbs, Sound, Sure
  <2> QED
    BY <2>1 DEF Init, Undisturbed, Nothing
<1> QED
  BY <1>2, <1>3, <1>4, <1>5, <1>6 DEF IInv

LEMMA StepHolds == ASSUME SetupAssumption, IInv, [Next]_setupVars PROVE IInv'
<1>1. CASE Next
  BY <1>1, StepTyped, StepLocked, StepIdentified, StepUndisturbed DEF IInv
<1>2. CASE UNCHANGED setupVars
  <2>1. /\ order' = order /\ os' = os /\ owner' = owner /\ agent' = agent
        /\ definition' = definition /\ loaded' = loaded /\ enabled' = enabled
        /\ identity' = identity /\ environment' = environment /\ overlapped' = overlapped
        /\ issued' = issued
    BY <1>2 DEF setupVars
  <2>2. Typed'
    BY <2>1 DEF IInv, Typed, Busy
  <2>3. Followed'
    BY <2>1, OrdersFollow DEF IInv, Typed
  <2>4. Locked' /\ Identified'
    BY <2>1, OthersStay DEF IInv, Locked, Identified, EnrolmentIsKept
  <2>5. ASSUME ~overlapped PROVE Sounds'
    BY <2>1, <2>5, SoundStays DEF IInv, Undisturbed, Sounds
  <2>6. Undisturbed'
    BY <2>1, <2>5 DEF IInv, Undisturbed, Sounds, Manages, Nothing
  <2> QED
    BY <2>2, <2>3, <2>4, <2>6 DEF IInv
<1> QED
  BY <1>1, <1>2

LEMMA IInvHolds == ASSUME IInv PROVE SetupHolds
<1>1. EnrolmentIsKept /\ AgentsHaveIdentities
  BY DEF IInv, Identified, AgentsHaveIdentities
<1>2. ASSUME NEW t \in Terminals, order[t].verb = "uninstall", ~Busy(t), ~order[t].failed,
             ~overlapped
      PROVE  Nothing /\ ~enabled /\ agent = "off" /\ (os = "darwin" => loaded = "none")
  <2>1. Typed /\ Followed /\ Undone(t)
    BY <1>2 DEF IInv, Undisturbed, Sound
  <2>2. Done(t) = Len(Whole(t)) /\ Laid(order[t].verb)
    BY <1>2, <2>1, Positions
  <2>3. Done(t) = Native(8, 5)
    BY <1>2, <2>2 DEF Laid, LaidAs, Whole
  <2>4. os = "darwin" => ~enabled
    BY DEF IInv, Undisturbed
  <2> QED
    BY <2>1, <2>3, <2>4 DEF Undone, Native, Typed, Systems
<1> QED
  BY <1>1, <1>2 DEF SetupHolds, UninstallHolds

(* A machine's identity is the one the fleet enrolled, no agent runs or is  *)
(* started at boot without one, and an uninstall that says it is done has   *)
(* left nothing of the service (agent.ts, agent-service.ts, setup.ts,       *)
(* enrollment.ts).                                                          *)
THEOREM SetupAlwaysHolds ==
    ASSUME SetupAssumption
    PROVE  Spec => []SetupHolds
<1>1. Init => IInv
  BY InitHolds
<1>2. IInv /\ [Next]_setupVars => IInv'
  BY StepHolds
<1>3. IInv => SetupHolds
  BY IInvHolds
<1> QED
  BY <1>1, <1>2, <1>3, PTL DEF Spec

=============================================================================
