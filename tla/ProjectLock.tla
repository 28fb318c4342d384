---------------------------- MODULE ProjectLock ----------------------------
(***************************************************************************)
(* The project lock file of packages/orchestrator/src/lock.ts.  A daemon   *)
(* guards its project with one file, created with open(path, "wx"),        *)
(* renewed in place by a heartbeat timer, and removed either by its owner  *)
(* or by a contender that judges it inactive.  Every await between two     *)
(* file operations is an interleaving point: a contender reads the file,   *)
(* then probes the process it names, then removes the file by its name.    *)
(*                                                                         *)
(* The file system is modelled by inodes, because a renewal keeps a handle *)
(* open across its read and its write: `path' is the inode the lock path   *)
(* names, and a handle may name an inode that is no longer linked.  A      *)
(* process acquires once, so its owner token is the process itself.        *)
(***************************************************************************)
EXTENDS Naturals

CONSTANTS
    Procs,          \* processes that may run the daemon
    NoProc,         \* no owner: the contents of a file that cannot be parsed
    MaxInodes,      \* bound: lock files created in one behaviour
    MaxPauses,      \* bound: leases that expire under a live owner
    MaxCrashes      \* bound: processes that die without releasing

ASSUME LockAssumption ==
    /\ NoProc \notin Procs
    /\ MaxInodes \in Nat \ {0} /\ MaxPauses \in Nat /\ MaxCrashes \in Nat

VARIABLES
    path,       \* the inode at lockPath, 0 when the file is missing
    inode,      \* inode -> the record in it, and whether its lease is in date
    used,       \* inodes created so far
    pc,         \* process -> where it is in its life
    beating,    \* processes whose heartbeat timer runs
    fd,         \* process -> the inode its handle names, 0 for no open handle
    hand,       \* process -> the record a contender has read and goes by
    overtaken,  \* history: contenders that went by a record as a start took the lock
    pauses, crashes

vars == <<path, inode, used, pc, beating, fd, hand, overtaken, pauses, crashes>>

Inodes == 1..MaxInodes
Record == [owner : Procs \union {NoProc}, fresh : BOOLEAN]
Blank == [owner |-> NoProc, fresh |-> FALSE]

\* "owned" runs the daemon, "stopping" shuts it down with the lock still in
\* hand, "release" has read its own record and is about to remove the file.
Owning == {"owned", "stopping", "release"}
Places == {"idle", "open", "write", "read", "judge", "remove", "gone"} \union Owning

Owner(p) == pc[p] \in Owning
Contends(p) == pc[p] \in {"judge", "remove"}

TypeOK ==
    /\ path \in 0..MaxInodes
    /\ inode \in [Inodes -> Record]
    /\ used \in 0..MaxInodes
    /\ pc \in [Procs -> Places]
    /\ beating \in SUBSET Procs
    /\ fd \in [Procs -> 0..MaxInodes]
    /\ hand \in [Procs -> Record]
    /\ overtaken \in SUBSET Procs
    /\ pauses \in 0..MaxPauses
    /\ crashes \in 0..MaxCrashes

Init ==
    /\ path = 0 /\ used = 0
    /\ inode = [k \in Inodes |-> Blank]
    /\ pc = [p \in Procs |-> "idle"]
    /\ beating = {}
    /\ fd = [p \in Procs |-> 0]
    /\ hand = [p \in Procs |-> Blank]
    /\ overtaken = {}
    /\ pauses = 0 /\ crashes = 0

-----------------------------------------------------------------------------
(* acquireProjectLock                                                       *)

Goto(p, place) == pc' = [pc EXCEPT ![p] = place]
KeepFiles == UNCHANGED <<path, inode, used>>
KeepClock == UNCHANGED <<pauses, crashes>>
KeepHands == UNCHANGED <<hand, overtaken>>

StartAcquire(p) ==
    /\ pc[p] = "idle"
    /\ Goto(p, "open")
    /\ KeepFiles /\ KeepClock /\ KeepHands /\ UNCHANGED <<beating, fd>>

(* open(lockPath, "wx") succeeds: the file exists and is empty.             *)
OpenExclusive(p) ==
    /\ pc[p] = "open" /\ path = 0 /\ used < MaxInodes
    /\ used' = used + 1
    /\ path' = used + 1
    /\ fd' = [fd EXCEPT ![p] = used + 1]
    /\ overtaken' = overtaken \union {q \in Procs : Contends(q)}
    /\ Goto(p, "write")
    /\ KeepClock /\ UNCHANGED <<inode, beating, hand>>

(* open fails with EEXIST: the loop goes on to read the file.               *)
OpenExists(p) ==
    /\ pc[p] = "open" /\ path # 0
    /\ Goto(p, "read")
    /\ KeepFiles /\ KeepClock /\ KeepHands /\ UNCHANGED <<beating, fd>>

(* The record is written through the handle and the heartbeat starts.       *)
WriteRecord(p) ==
    /\ pc[p] = "write"
    /\ inode' = [inode EXCEPT ![fd[p]] = [owner |-> p, fresh |-> TRUE]]
    /\ fd' = [fd EXCEPT ![p] = 0]
    /\ beating' = beating \union {p}
    /\ Goto(p, "owned")
    /\ KeepClock /\ KeepHands /\ UNCHANGED <<path, used>>

(* What a contender finds in the file: a missing one restarts the loop, an  *)
(* unparsable one is read again up to a limit, any other is judged next.    *)
ReadLock(p) ==
    /\ pc[p] = "read"
    /\ \/ path = 0 /\ Goto(p, "open") /\ UNCHANGED hand
       \/ /\ path # 0 /\ inode[path].owner = NoProc
          /\ Goto(p, "open") \/ Goto(p, "gone")
          /\ UNCHANGED hand
       \/ /\ path # 0 /\ inode[path].owner # NoProc
          /\ hand' = [hand EXCEPT ![p] = inode[path]]
          /\ Goto(p, "judge")
    /\ KeepFiles /\ KeepClock /\ UNCHANGED <<beating, fd, overtaken>>

(* Slip: an owner that is shutting down counts as gone.                     *)
IsActiveWhileOwned(rec) == pc[rec.owner] = "owned" /\ rec.fresh

(* isActiveLock: the recorded process runs and its lease is in date.        *)
(* Process identities (recycled pids) and records without a heartbeat       *)
(* (older releases) are left out.                                           *)
IsActiveLock(rec) == pc[rec.owner] # "gone" /\ rec.fresh

(* The process that the record in hand names is probed now; the file may    *)
(* have changed since it was read.                                          *)
Judge(p) ==
    /\ pc[p] = "judge"
    /\ Goto(p, IF IsActiveLock(hand[p]) THEN "gone" ELSE "remove")
    /\ hand' = [hand EXCEPT ![p] = Blank]
    /\ KeepFiles /\ KeepClock /\ UNCHANGED <<beating, fd, overtaken>>

(* rm(lockPath, force): removes whatever the path names by now.             *)
RemoveInactive(p) ==
    /\ pc[p] = "remove"
    /\ path' = 0
    /\ Goto(p, "open")
    /\ KeepClock /\ KeepHands /\ UNCHANGED <<inode, used, beating, fd>>

-----------------------------------------------------------------------------
(* renewProjectLock, run by the heartbeat timer                             *)

RenewOpen(p) ==
    /\ p \in beating /\ fd[p] = 0 /\ path # 0
    /\ fd' = [fd EXCEPT ![p] = path]
    /\ KeepFiles /\ KeepClock /\ KeepHands /\ UNCHANGED <<pc, beating>>

(* Slip: the token is not compared.                                         *)
RenewUnchecked(p) ==
    /\ Owner(p) /\ fd[p] # 0
    /\ inode' = [inode EXCEPT ![fd[p]] = [owner |-> p, fresh |-> TRUE]]
    /\ fd' = [fd EXCEPT ![p] = 0]
    /\ KeepClock /\ KeepHands /\ UNCHANGED <<path, used, pc, beating>>

(* The handle's contents carry our token: they are rewritten in place, in   *)
(* the inode the handle names, linked or not.                               *)
RenewWrite(p) ==
    /\ Owner(p) /\ fd[p] # 0 /\ inode[fd[p]].owner = p
    /\ inode' = [inode EXCEPT ![fd[p]].fresh = TRUE]
    /\ fd' = [fd EXCEPT ![p] = 0]
    /\ KeepClock /\ KeepHands /\ UNCHANGED <<path, used, pc, beating>>

(* Slip: only a missing file is a lost lease.                               *)
LeaseLostIfMissing(p) ==
    /\ p \in beating /\ fd[p] = 0 /\ path = 0
    /\ beating' = beating \ {p}
    /\ Goto(p, IF pc[p] = "owned" THEN "stopping" ELSE pc[p])
    /\ KeepFiles /\ KeepClock /\ KeepHands /\ UNCHANGED fd

(* No file, or another token in it: the heartbeat stops and                 *)
(* failClosedOnLeaseLoss sends SIGTERM to our own process.                  *)
LeaseLost(p) ==
    /\ \/ p \in beating /\ fd[p] = 0 /\ path = 0
       \/ Owner(p) /\ fd[p] # 0 /\ inode[fd[p]].owner # p
    /\ fd' = [fd EXCEPT ![p] = 0]
    /\ beating' = beating \ {p}
    /\ Goto(p, IF pc[p] = "owned" THEN "stopping" ELSE pc[p])
    /\ KeepFiles /\ KeepClock /\ KeepHands

-----------------------------------------------------------------------------
(* The daemon stops, by a signal or because its work is done, and its       *)
(* cleanup ends in releaseProjectLock.                                      *)
Stop(p) ==
    /\ pc[p] = "owned"
    /\ Goto(p, "stopping")
    /\ KeepFiles /\ KeepClock /\ KeepHands /\ UNCHANGED <<beating, fd>>

(* The timer is cleared and the file is read: only our own is removed.      *)
ReleaseRead(p) ==
    /\ pc[p] = "stopping"
    /\ beating' = beating \ {p}
    /\ IF path # 0 /\ inode[path].owner = p
       THEN Goto(p, "release") /\ UNCHANGED fd
       ELSE Goto(p, "gone") /\ fd' = [fd EXCEPT ![p] = 0]
    /\ KeepFiles /\ KeepClock /\ KeepHands

ReleaseRemove(p) ==
    /\ pc[p] = "release"
    /\ path' = 0
    /\ Goto(p, "gone")
    /\ fd' = [fd EXCEPT ![p] = 0]
    /\ KeepClock /\ KeepHands /\ UNCHANGED <<inode, used, beating>>

-----------------------------------------------------------------------------
(* The environment: a process dies and leaves its file behind, or is        *)
(* suspended past the TTL: an owner's lease expires while it lives, or the  *)
(* lease that a contender has read is over by the time it judges.           *)
Crash(p) ==
    /\ crashes < MaxCrashes /\ pc[p] \notin {"idle", "gone"}
    /\ crashes' = crashes + 1
    /\ fd' = [fd EXCEPT ![p] = 0]
    /\ beating' = beating \ {p}
    /\ Goto(p, "gone")
    /\ KeepFiles /\ KeepHands /\ UNCHANGED pauses

LeaseExpires(p) ==
    /\ pauses < MaxPauses
    /\ pauses' = pauses + 1
    /\ \/ /\ Owner(p) /\ UNCHANGED hand
          /\ \E k \in Inodes :
                /\ inode[k] = [owner |-> p, fresh |-> TRUE]
                /\ inode' = [inode EXCEPT ![k].fresh = FALSE]
       \/ /\ pc[p] = "judge" /\ hand[p].fresh /\ UNCHANGED inode
          /\ hand' = [hand EXCEPT ![p].fresh = FALSE]
    /\ UNCHANGED <<path, used, pc, beating, fd, overtaken, crashes>>

Acquire(p) ==
    \/ StartAcquire(p) \/ OpenExclusive(p) \/ OpenExists(p)
    \/ WriteRecord(p) \/ ReadLock(p) \/ Judge(p) \/ RemoveInactive(p)

Heartbeat(p) == RenewOpen(p) \/ RenewWrite(p) \/ LeaseLost(p)

Release(p) == Stop(p) \/ ReleaseRead(p) \/ ReleaseRemove(p)

Next == \E p \in Procs :
    Acquire(p) \/ Heartbeat(p) \/ Release(p) \/ Crash(p) \/ LeaseExpires(p)

Spec == Init /\ [][Next]_vars

(* The timer fires and I/O completes; a daemon told to stop does so, unless *)
(* its heartbeats go on for ever.  No fairness is assumed of starts or of   *)
(* Stop: a daemon may run for ever.                                         *)
GoesOn(p) == WriteRecord(p) \/ Heartbeat(p) \/ ReleaseRead(p) \/ ReleaseRemove(p)
FairSpec == Spec /\ \A p \in Procs : WF_vars(GoesOn(p))

-----------------------------------------------------------------------------
(* Nobody has overslept, and no start has taken the lock while another was  *)
(* between its reading of the file (lock.ts:113) and its removal (145).     *)
Undisturbed == pauses = 0 /\ overtaken = {}

(* No two processes own the project at once: acquireProjectLock refuses     *)
(* the second ("already running"), whoever dies or shuts down meanwhile.    *)
(* A contender whose reading another start overtakes removes that start's   *)
(* file by name, and one that oversleeps a lease removes a living owner's:  *)
(* then only SplitOwnersResolve is left.                                    *)
SingleOwner ==
    Undisturbed => \A p, q \in Procs : Owner(p) /\ Owner(q) => p = q

(* An owner that has not removed its file is met by the next contender: the *)
(* lock path names a file with the owner's token in it.                     *)
OwnerIsPublished ==
    Undisturbed => \A p \in Procs : Owner(p) => path # 0 /\ inode[path].owner = p

(* A heartbeat renews nobody else's lease: the token in a lock file never   *)
(* changes once written, and no lease of a departed process is renewed.     *)
RenewsOnlyItsOwn ==
    [][\A k \in Inodes :
          /\ inode[k].owner # NoProc => inode'[k].owner = inode[k].owner
          /\ ~inode[k].fresh /\ inode'[k].fresh => pc'[inode'[k].owner] \in Owning]_vars

(* An owner whose file another start has replaced finds out at a heartbeat  *)
(* and stops: two daemons do not run on the project for ever.               *)
SplitOwnersResolve ==
    []<>(\A p, q \in Procs : Owner(p) /\ Owner(q) => p = q)
=============================================================================
