------------------------- MODULE ProjectLockProofs -------------------------
(* What holds of the project lock for any number of processes, lock files,  *)
(* suspensions and crashes.                                                 *)
EXTENDS ProjectLock, TLAPS

(* A file is written once: a process about to write its record holds the    *)
(* only handle, of that kind, on a file that exists and is still empty.     *)
Unwritten ==
    /\ \A k \in Inodes : k > used => inode[k].owner = NoProc
    /\ \A p \in Procs : pc[p] = "write" =>
          /\ fd[p] \in 1..used
          /\ inode[fd[p]].owner = NoProc
          /\ \A q \in Procs : pc[q] = "write" /\ fd[q] = fd[p] => q = p

(* A lease that is renewed or runs out leaves a record, of the same owner.  *)
LEMMA LeaseChanges ==
    \A rec \in Record :
        /\ [rec EXCEPT !.fresh = TRUE] \in Record /\ [rec EXCEPT !.fresh = TRUE].owner = rec.owner
        /\ [rec EXCEPT !.fresh = FALSE] \in Record /\ [rec EXCEPT !.fresh = FALSE].owner = rec.owner
BY DEF Record

-----------------------------------------------------------------------------
(* Every reachable state of the lock model is well typed.                   *)
THEOREM LockTypeCorrect == Spec => []TypeOK
<1>1. Init => TypeOK
  <2>1. Blank \in Record
    BY DEF Blank, Record
  <2>2. "idle" \in Places
    BY DEF Places
  <2>3. ASSUME Init PROVE hand \in [Procs -> Record] /\ inode \in [Inodes -> Record]
    BY <2>1, <2>3 DEF Init
  <2>4. ASSUME Init PROVE pc \in [Procs -> Places] /\ fd \in [Procs -> 0..MaxInodes]
    BY <2>2, <2>4, LockAssumption DEF Init
  <2> QED
    BY <2>3, <2>4, LockAssumption DEF Init, TypeOK
<1>2. TypeOK /\ [Next]_vars => TypeOK'
  <2> SUFFICES ASSUME TypeOK, [Next]_vars PROVE TypeOK'
    OBVIOUS
  <2> USE LockAssumption DEF TypeOK, Record, Places, Owning, Goto, KeepFiles, KeepClock, KeepHands
  <2>1. CASE UNCHANGED vars
    BY <2>1 DEF vars
  <2>2. ASSUME NEW p \in Procs, StartAcquire(p) PROVE TypeOK'
    BY <2>2 DEF StartAcquire
  <2>3. ASSUME NEW p \in Procs, OpenExclusive(p) PROVE TypeOK'
    BY <2>3 DEF OpenExclusive
  <2>4. ASSUME NEW p \in Procs, OpenExists(p) PROVE TypeOK'
    BY <2>4 DEF OpenExists
  <2>5. ASSUME NEW p \in Procs, WriteRecord(p) PROVE TypeOK'
    <3>1. inode' \in [Inodes -> Record]
      <4>1. [owner |-> p, fresh |-> TRUE] \in Record
        OBVIOUS
      <4> QED
        BY <2>5, <4>1 DEF WriteRecord
    <3> QED
      BY <2>5, <3>1 DEF WriteRecord
  <2>6. ASSUME NEW p \in Procs, ReadLock(p) PROVE TypeOK'
    <3>1. path # 0 => inode[path] \in Record
      BY DEF Inodes
    <3> QED
      BY <2>6, <3>1 DEF ReadLock
  <2>16. ASSUME NEW p \in Procs, Judge(p) PROVE TypeOK'
    BY <2>16 DEF Judge, Blank
  <2>7. ASSUME NEW p \in Procs, RemoveInactive(p) PROVE TypeOK'
    BY <2>7 DEF RemoveInactive
  <2>8. ASSUME NEW p \in Procs, RenewOpen(p) PROVE TypeOK'
    BY <2>8 DEF RenewOpen
  <2>9. ASSUME NEW p \in Procs, RenewWrite(p) PROVE TypeOK'
    <3>1. fd[p] \in Inodes
      BY <2>9 DEF RenewWrite, Inodes
    <3>2. inode' \in [Inodes -> Record]
      <4>1. inode \in [Inodes -> Record] /\ inode' = [inode EXCEPT ![fd[p]].fresh = TRUE]
        BY <2>9 DEF RenewWrite
      <4> HIDE DEF Record
      <4> QED
        BY ONLY <3>1, <4>1, LeaseChanges
    <3> QED
      BY <2>9, <3>2 DEF RenewWrite
  <2>10. ASSUME NEW p \in Procs, LeaseLost(p) PROVE TypeOK'
    BY <2>10 DEF LeaseLost
  <2>11. ASSUME NEW p \in Procs, Stop(p) PROVE TypeOK'
    BY <2>11 DEF Stop
  <2>12. ASSUME NEW p \in Procs, ReleaseRead(p) PROVE TypeOK'
    BY <2>12 DEF ReleaseRead
  <2>13. ASSUME NEW p \in Procs, ReleaseRemove(p) PROVE TypeOK'
    BY <2>13 DEF ReleaseRemove
  <2>14. ASSUME NEW p \in Procs, Crash(p) PROVE TypeOK'
    BY <2>14 DEF Crash
  <2>15. ASSUME NEW p \in Procs, LeaseExpires(p) PROVE TypeOK'
    <3>1. inode' \in [Inodes -> Record]
      <4>1. /\ inode \in [Inodes -> Record]
            /\ UNCHANGED inode \/ \E k \in Inodes : inode' = [inode EXCEPT ![k].fresh = FALSE]
        BY <2>15 DEF LeaseExpires
      <4> HIDE DEF Record
      <4>2. CASE UNCHANGED inode
        BY ONLY <4>1, <4>2
      <4>3. ASSUME NEW k \in Inodes, inode' = [inode EXCEPT ![k].fresh = FALSE]
            PROVE  inode' \in [Inodes -> Record]
        BY ONLY <4>1, <4>3, LeaseChanges
      <4> QED
        BY ONLY <4>1, <4>2, <4>3
    <3>2. hand' \in [Procs -> Record]
      <4>1. /\ hand \in [Procs -> Record]
            /\ UNCHANGED hand \/ hand' = [hand EXCEPT ![p].fresh = FALSE]
        BY <2>15 DEF LeaseExpires
      <4> HIDE DEF Record
      <4>2. CASE UNCHANGED hand
        BY ONLY <4>1, <4>2
      <4>3. CASE hand' = [hand EXCEPT ![p].fresh = FALSE]
        BY ONLY p \in Procs, <4>1, <4>3, LeaseChanges
      <4> QED
        BY ONLY <4>1, <4>2, <4>3
    <3> QED
      BY <2>15, <3>1, <3>2 DEF LeaseExpires
  <2> QED
    BY <2>1, <2>2, <2>3, <2>4, <2>5, <2>6, <2>7, <2>8, <2>9, <2>10, <2>11, <2>12,
       <2>13, <2>14, <2>15, <2>16 DEF Next, Acquire, Heartbeat, Release
<1> QED
  BY <1>1, <1>2, PTL DEF Spec

-----------------------------------------------------------------------------
(* Unwritten is inductive, given the types.                                 *)
LEMMA UnwrittenInvariant == Spec => []Unwritten
<1>1. Init => Unwritten
  BY DEF Init, Unwritten, Inodes, Blank
<1>2. TypeOK /\ Unwritten /\ [Next]_vars => Unwritten'
  <2> SUFFICES ASSUME TypeOK, Unwritten, [Next]_vars PROVE Unwritten'
    OBVIOUS
  <2> USE LockAssumption DEF TypeOK, Unwritten, Inodes, Owner, Owning, Goto, KeepFiles, KeepClock, KeepHands
  <2>1. CASE UNCHANGED vars
    BY <2>1 DEF vars
  <2>2. ASSUME NEW p \in Procs, StartAcquire(p) PROVE Unwritten'
    BY <2>2 DEF StartAcquire
  <2>3. ASSUME NEW p \in Procs, OpenExclusive(p) PROVE Unwritten'
    BY <2>3 DEF OpenExclusive
  <2>4. ASSUME NEW p \in Procs, OpenExists(p) PROVE Unwritten'
    BY <2>4 DEF OpenExists
  <2>5. ASSUME NEW p \in Procs, WriteRecord(p) PROVE Unwritten'
    BY <2>5 DEF WriteRecord
  <2>6. ASSUME NEW p \in Procs, ReadLock(p) PROVE Unwritten'
    BY <2>6 DEF ReadLock
  <2>16. ASSUME NEW p \in Procs, Judge(p) PROVE Unwritten'
    BY <2>16 DEF Judge
  <2>7. ASSUME NEW p \in Procs, RemoveInactive(p) PROVE Unwritten'
    BY <2>7 DEF RemoveInactive
  <2>8. ASSUME NEW p \in Procs, RenewOpen(p) PROVE Unwritten'
    BY <2>8 DEF RenewOpen
  <2>9. ASSUME NEW p \in Procs, RenewWrite(p) PROVE Unwritten'
    <3>1. \A k \in Inodes : inode'[k].owner = inode[k].owner
      <4>1. /\ inode \in [Inodes -> Record] /\ fd[p] \in Inodes
            /\ inode' = [inode EXCEPT ![fd[p]].fresh = TRUE]
        BY <2>9 DEF RenewWrite
      <4> QED
        BY ONLY <4>1, LeaseChanges
    <3>2. UNCHANGED <<used, pc>> /\ fd' = [fd EXCEPT ![p] = 0] /\ pc[p] # "write"
      BY <2>9 DEF RenewWrite
    <3> QED
      BY ONLY Unwritten, <3>1, <3>2, fd \in [Procs -> 0..MaxInodes] DEF Unwritten
  <2>10. ASSUME NEW p \in Procs, LeaseLost(p) PROVE Unwritten'
    BY <2>10 DEF LeaseLost
  <2>11. ASSUME NEW p \in Procs, Stop(p) PROVE Unwritten'
    BY <2>11 DEF Stop
  <2>12. ASSUME NEW p \in Procs, ReleaseRead(p) PROVE Unwritten'
    BY <2>12 DEF ReleaseRead
  <2>13. ASSUME NEW p \in Procs, ReleaseRemove(p) PROVE Unwritten'
    BY <2>13 DEF ReleaseRemove
  <2>14. ASSUME NEW p \in Procs, Crash(p) PROVE Unwritten'
    <3>1. UNCHANGED <<used, inode>> /\ \A q \in Procs : pc'[q] = "write" => pc[q] = "write" /\ fd'[q] = fd[q]
      BY <2>14 DEF Crash
    <3> QED
      BY ONLY Unwritten, <3>1 DEF Unwritten
  <2>15. ASSUME NEW p \in Procs, LeaseExpires(p) PROVE Unwritten'
    <3>1. \A k \in Inodes : inode'[k].owner = inode[k].owner
      <4>1. /\ inode \in [Inodes -> Record]
            /\ UNCHANGED inode \/ \E k \in Inodes : inode' = [inode EXCEPT ![k].fresh = FALSE]
        BY <2>15 DEF LeaseExpires
      <4> QED
        BY ONLY <4>1, LeaseChanges
    <3> QED
      <4>1. UNCHANGED <<used, pc, fd>>
        BY <2>15 DEF LeaseExpires
      <4>2. \A q \in Procs : fd[q] \in Inodes => inode'[fd[q]].owner = inode[fd[q]].owner
        BY <3>1
      <4>3. 1..used \subseteq Inodes
        OBVIOUS
      <4> QED
        BY ONLY Unwritten, <3>1, <4>1, <4>2, <4>3 DEF Unwritten
  <2> QED
    BY <2>1, <2>2, <2>3, <2>4, <2>5, <2>6, <2>7, <2>8, <2>9, <2>10, <2>11, <2>12,
       <2>13, <2>14, <2>15, <2>16 DEF Next, Acquire, Heartbeat, Release
<1> QED
  BY <1>1, <1>2, LockTypeCorrect, PTL DEF Spec

(* The step property of RenewsOnlyItsOwn.                                   *)
RenewalIsOwn ==
    \A k \in Inodes :
        /\ inode[k].owner # NoProc => inode'[k].owner = inode[k].owner
        /\ ~inode[k].fresh /\ inode'[k].fresh => pc'[inode'[k].owner] \in Owning

(* A heartbeat (renewProjectLock) that opened the file of one owner and     *)
(* writes after another start has replaced it renews nobody else's lease,   *)
(* however many starts, suspensions and crashes there are.                  *)
THEOREM RenewalSafe == Spec => RenewsOnlyItsOwn
<1>1. TypeOK /\ Unwritten /\ [Next]_vars => [RenewalIsOwn]_vars
  <2> SUFFICES ASSUME TypeOK, Unwritten, Next PROVE RenewalIsOwn
    OBVIOUS
  <2> USE DEF TypeOK, Record, Inodes, RenewalIsOwn
  <2>1. ASSUME UNCHANGED inode PROVE RenewalIsOwn
    BY <2>1
  <2>2. ASSUME NEW p \in Procs, WriteRecord(p) PROVE RenewalIsOwn
    BY <2>2 DEF WriteRecord, Unwritten, Goto, Owning
  <2>3. ASSUME NEW p \in Procs, RenewWrite(p) PROVE RenewalIsOwn
    <3>1. fd[p] \in Inodes
      BY <2>3 DEF RenewWrite
    <3>2. \A k \in Inodes : inode'[k] = IF k = fd[p] THEN [inode[k] EXCEPT !.fresh = TRUE] ELSE inode[k]
      BY <2>3, <3>1 DEF RenewWrite
    <3> QED
      BY <2>3, <3>2 DEF RenewWrite, Owner
  <2>4. ASSUME NEW p \in Procs, LeaseExpires(p) PROVE RenewalIsOwn
    <3>1. CASE \E k \in Inodes : inode' = [inode EXCEPT ![k].fresh = FALSE]
      BY <3>1
    <3> QED
      BY <2>1, <2>4, <3>1 DEF LeaseExpires
  <2>5. ASSUME NEW p \in Procs,
               \/ StartAcquire(p) \/ OpenExclusive(p) \/ OpenExists(p) \/ ReadLock(p)
               \/ Judge(p) \/ RemoveInactive(p) \/ RenewOpen(p) \/ LeaseLost(p) \/ Release(p) \/ Crash(p)
        PROVE  UNCHANGED inode
    BY <2>5 DEF StartAcquire, OpenExclusive, OpenExists, ReadLock, Judge, RemoveInactive, RenewOpen,
                LeaseLost, Release, Stop, ReleaseRead, ReleaseRemove, Crash, KeepFiles
  <2> QED
    BY <2>1, <2>2, <2>3, <2>4, <2>5 DEF Next, Acquire, Heartbeat
<1> QED
  BY <1>1, LockTypeCorrect, UnwrittenInvariant, PTL DEF Spec, RenewsOnlyItsOwn, RenewalIsOwn

-----------------------------------------------------------------------------
(* With every renewal in time and no reading overtaken, the file of a       *)
(* living owner stays where it is: a contender goes by the record of the    *)
(* file that is there, and removes it only when its process is gone.        *)
Orderly ==
    /\ \A p \in Procs : Owner(p) => path # 0 /\ inode[path].owner = p
    /\ \A p \in Procs : pc[p] = "write" => path # 0 /\ path = fd[p]
    /\ \A k \in Inodes : inode[k].owner # NoProc => inode[k].fresh
    /\ \A p \in Procs : pc[p] = "judge" =>
          /\ hand[p].owner \in Procs /\ hand[p].fresh
          /\ path # 0 => inode[path].owner = hand[p].owner
    /\ \A p \in Procs : pc[p] = "remove" /\ path # 0 =>
          inode[path].owner \in Procs /\ pc[inode[path].owner] = "gone"
    /\ \A p \in beating : pc[p] \in {"owned", "stopping"}
    /\ path <= used

(* No two processes own the project, as acquireProjectLock promises, for    *)
(* any number of starts, ends and deaths with the lock in hand, until a     *)
(* process oversleeps or a start overtakes another's reading of the file.   *)
THEOREM LockExcludes == Spec => [](SingleOwner /\ OwnerIsPublished)
<1> DEFINE Strong == TypeOK /\ Unwritten /\ (Undisturbed => Orderly)
<1>1. Init => Orderly
  BY LockAssumption DEF Init, Orderly, Owner, Owning, Blank, Inodes
<1>2. Strong /\ [Next]_vars => (Undisturbed => Orderly)'
  <2> SUFFICES ASSUME TypeOK, Unwritten, Undisturbed => Orderly, [Next]_vars, Undisturbed'
               PROVE  Orderly'
    OBVIOUS
  <2>0. Undisturbed /\ \A p \in Procs : ~LeaseExpires(p)
    <3>1. ASSUME NEW p \in Procs PROVE ~LeaseExpires(p)
      BY LockAssumption DEF TypeOK, LeaseExpires, Undisturbed
    <3>2. overtaken \subseteq overtaken' /\ pauses' = pauses
      <4>1. CASE UNCHANGED vars
        BY <4>1 DEF vars
      <4>2. ASSUME NEW p \in Procs, Acquire(p) PROVE overtaken \subseteq overtaken' /\ pauses' = pauses
        BY <4>2 DEF Acquire, StartAcquire, OpenExclusive, OpenExists, WriteRecord, ReadLock,
                    Judge, RemoveInactive, KeepClock, KeepHands
      <4>3. ASSUME NEW p \in Procs, Heartbeat(p) \/ Release(p) \/ Crash(p)
            PROVE  overtaken \subseteq overtaken' /\ pauses' = pauses
        BY <4>3 DEF Heartbeat, Release, RenewOpen, RenewWrite, LeaseLost, Stop, ReleaseRead,
                    ReleaseRemove, Crash, KeepClock, KeepHands
      <4> QED
        BY <3>1, <4>1, <4>2, <4>3 DEF Next
    <3> QED
      BY <3>1, <3>2 DEF Undisturbed
  <2>00. Orderly
    BY <2>0
  <2> USE <2>00, LockAssumption DEF TypeOK, Record, Unwritten, Orderly, Inodes, Owner, Owning,
                                    Goto, KeepFiles, KeepClock, KeepHands
  <2>1. CASE UNCHANGED vars
    BY <2>1 DEF vars
  <2>2. ASSUME NEW p \in Procs, StartAcquire(p) PROVE Orderly'
    BY <2>2 DEF StartAcquire
  <2>3. ASSUME NEW p \in Procs, OpenExclusive(p) PROVE Orderly'
    <3>1. \A q \in Procs : pc[q] # "judge" /\ pc[q] # "remove"
      BY <2>3 DEF OpenExclusive, Undisturbed, Contends
    <3>2. \A q \in Procs : pc'[q] # "judge" /\ pc'[q] # "remove"
      BY <2>3, <3>1 DEF OpenExclusive
    <3> QED
      BY <2>3, <3>2 DEF OpenExclusive
  <2>4. ASSUME NEW p \in Procs, OpenExists(p) PROVE Orderly'
    BY <2>4 DEF OpenExists
  <2>5. ASSUME NEW p \in Procs, WriteRecord(p) PROVE Orderly'
    <3>1. path \in Inodes /\ fd[p] = path /\ inode[path].owner = NoProc
      BY <2>5 DEF WriteRecord
    <3>2. path' = path /\ inode' = [inode EXCEPT ![path] = [owner |-> p, fresh |-> TRUE]]
      BY <2>5, <3>1 DEF WriteRecord
    <3>3. \A q \in Procs : q # p => ~Owner(q) /\ pc[q] \notin {"write", "judge", "remove"}
      BY <2>5, <3>1 DEF WriteRecord
    <3>4. pc' = [pc EXCEPT ![p] = "owned"] /\ fd' = [fd EXCEPT ![p] = 0]
      BY <2>5 DEF WriteRecord
    <3>5. \A q \in Procs : pc'[q] \notin {"write", "judge", "remove"} /\ (Owner(q)' <=> q = p)
      BY <3>3, <3>4
    <3> QED
      BY <2>5, <3>1, <3>2, <3>4, <3>5 DEF WriteRecord
  <2>6. ASSUME NEW p \in Procs, ReadLock(p) PROVE Orderly'
    <3>1. /\ UNCHANGED <<path, inode, used, beating, fd>>
          /\ pc[p] = "read"
          /\ pc' = [pc EXCEPT ![p] = pc'[p]] /\ pc'[p] \in {"open", "gone", "judge"}
      BY <2>6 DEF ReadLock
    <3>2. \A q \in Procs : q # p => hand'[q] = hand[q] /\ pc'[q] = pc[q]
      BY <2>6, <3>1 DEF ReadLock
    <3>3. pc'[p] = "judge" => path # 0 /\ path \in Inodes /\ hand'[p] = inode[path]
                              /\ inode[path].owner # NoProc
      BY <2>6 DEF ReadLock
    <3>4. \A q \in Procs : Owner(q)' <=> Owner(q)
      BY <3>1, <3>2
    <3>5. \A q \in Procs : pc'[q] = "judge" =>
             /\ hand'[q].owner \in Procs /\ hand'[q].fresh
             /\ path # 0 => inode[path].owner = hand'[q].owner
      <4>1. CASE pc'[p] = "judge"
        BY <3>2, <3>3, <4>1
      <4>2. CASE pc'[p] # "judge"
        BY <3>2, <4>2
      <4> QED
        BY <4>1, <4>2
    <3>6. \A q \in Procs : pc'[q] = "remove" => pc[q] = "remove"
      BY <3>1, <3>2
    <3>7. \A q \in Procs : pc'[q] = "write" => pc[q] = "write"
      BY <3>1, <3>2
    <3>8. path # 0 /\ pc[inode[path].owner] = "gone" /\ inode[path].owner \in Procs
          => pc'[inode[path].owner] = "gone"
      BY <3>1, <3>2
    <3>9. \A q \in Procs : pc'[q] = "remove" /\ path # 0 =>
             inode[path].owner \in Procs /\ pc'[inode[path].owner] = "gone"
      BY <3>6, <3>8
    <3>10. \A q \in beating : pc'[q] \in {"owned", "stopping"}
      BY <3>1, <3>2
    <3>11. \A q \in Procs : Owner(q)' => path # 0 /\ inode[path].owner = q
      BY <3>4
    <3>12. \A q \in Procs : pc'[q] = "write" => path # 0 /\ path = fd[q]
      BY <3>7
    <3> QED
      BY ONLY <2>00, <3>1, <3>5, <3>9, <3>10, <3>11, <3>12 DEF Orderly, Inodes
  <2>16. ASSUME NEW p \in Procs, Judge(p) PROVE Orderly'
    <3>1. /\ UNCHANGED <<path, inode, used, beating, fd>> /\ pc[p] = "judge"
          /\ pc' = [pc EXCEPT ![p] = pc'[p]] /\ pc'[p] \in {"remove", "gone"}
      BY <2>16 DEF Judge
    <3>2. \A q \in Procs : q # p => hand'[q] = hand[q] /\ pc'[q] = pc[q]
      BY <2>16, <3>1 DEF Judge
    <3>3. pc'[p] = "remove" => pc[hand[p].owner] = "gone"
      BY <2>16 DEF Judge, IsActiveLock
    <3>4. \A q \in Procs : Owner(q)' <=> Owner(q)
      BY <3>1, <3>2
    <3>5. \A q \in Procs : pc'[q] = "judge" => q # p
      BY <3>1
    <3>6. \A q \in Procs : pc'[q] = "write" => q # p /\ pc[q] = "write"
      BY <3>1, <3>2
    <3>7. \A r \in Procs : pc[r] = "gone" => pc'[r] = "gone"
      BY <3>1, <3>2
    <3>8. \A q \in Procs : pc'[q] = "remove" /\ path # 0 =>
             inode[path].owner \in Procs /\ pc'[inode[path].owner] = "gone"
      <4>1. ASSUME pc'[p] = "remove", path # 0
            PROVE  inode[path].owner \in Procs /\ pc[inode[path].owner] = "gone"
        BY <3>1, <3>3, <4>1
      <4> QED
        BY <3>2, <3>7, <4>1
    <3>9. \A q \in Procs : pc'[q] = "judge" =>
             /\ hand'[q].owner \in Procs /\ hand'[q].fresh
             /\ path # 0 => inode[path].owner = hand'[q].owner
      BY <3>2, <3>5
    <3>10. \A q \in beating : pc'[q] \in {"owned", "stopping"}
      BY <3>1, <3>2
    <3>11. \A q \in Procs : Owner(q)' => path # 0 /\ inode[path].owner = q
      BY <3>4
    <3>12. \A q \in Procs : pc'[q] = "write" => path # 0 /\ path = fd[q]
      BY <3>6
    <3> QED
      BY ONLY <2>00, <3>1, <3>8, <3>9, <3>10, <3>11, <3>12 DEF Orderly, Inodes
  <2>7. ASSUME NEW p \in Procs, RemoveInactive(p) PROVE Orderly'
    <3>1. path # 0 => path \in Inodes /\ inode[path].owner \in Procs
                      /\ pc[inode[path].owner] = "gone"
      BY <2>7 DEF RemoveInactive
    <3>2. \A q \in Procs : ~Owner(q) /\ pc[q] # "write"
      BY <3>1
    <3>3. \A q \in Procs : ~Owner(q)' /\ pc'[q] # "write"
      BY <2>7, <3>2 DEF RemoveInactive
    <3> QED
      BY <2>7, <3>3 DEF RemoveInactive
  <2>8. ASSUME NEW p \in Procs, RenewOpen(p) PROVE Orderly'
    BY <2>8 DEF RenewOpen
  <2>9. ASSUME NEW p \in Procs, RenewWrite(p) PROVE Orderly'
    <3>1. fd[p] \in Inodes
      BY <2>9 DEF RenewWrite
    <3>2. \A k \in Inodes : inode'[k] = IF k = fd[p] THEN [inode[k] EXCEPT !.fresh = TRUE] ELSE inode[k]
      BY <2>9, <3>1 DEF RenewWrite
    <3> QED
      BY <2>9, <3>2 DEF RenewWrite
  <2>10. ASSUME NEW p \in Procs, LeaseLost(p) PROVE Orderly'
    BY <2>10 DEF LeaseLost
  <2>11. ASSUME NEW p \in Procs, Stop(p) PROVE Orderly'
    BY <2>11 DEF Stop
  <2>12. ASSUME NEW p \in Procs, ReleaseRead(p) PROVE Orderly'
    <3>1. path # 0 /\ inode[path].owner = p
      BY <2>12 DEF ReleaseRead
    <3>2. pc' = [pc EXCEPT ![p] = "release"] /\ UNCHANGED <<path, inode, used, fd, hand>>
      BY <2>12, <3>1 DEF ReleaseRead
    <3>3. \A q \in Procs : Owner(q)' <=> Owner(q)
      BY <2>12, <3>2 DEF ReleaseRead
    <3> QED
      BY <2>12, <3>2, <3>3 DEF ReleaseRead
  <2>13. ASSUME NEW p \in Procs, ReleaseRemove(p) PROVE Orderly'
    <3>1. path # 0 /\ inode[path].owner = p
      BY <2>13 DEF ReleaseRemove
    <3>2. \A q \in Procs : q # p => ~Owner(q) /\ pc[q] # "write"
      BY <3>1
    <3>3. \A q \in Procs : ~Owner(q)' /\ pc'[q] # "write"
      BY <2>13, <3>2 DEF ReleaseRemove
    <3> QED
      BY <2>13, <3>3 DEF ReleaseRemove
  <2>14. ASSUME NEW p \in Procs, Crash(p) PROVE Orderly'
    BY <2>14 DEF Crash
  <2> QED
    BY <2>0, <2>1, <2>2, <2>3, <2>4, <2>5, <2>6, <2>7, <2>8, <2>9, <2>10, <2>11, <2>12,
       <2>13, <2>14, <2>16 DEF Next, Acquire, Heartbeat, Release
<1>3. Strong => SingleOwner /\ OwnerIsPublished
  <2>1. Orderly => \A p \in Procs : Owner(p) => path # 0 /\ inode[path].owner = p
    BY DEF Orderly
  <2> QED
    BY <2>1 DEF OwnerIsPublished, SingleOwner
<1> QED
  BY <1>1, <1>2, <1>3, LockTypeCorrect, UnwrittenInvariant, PTL DEF Spec
=============================================================================
