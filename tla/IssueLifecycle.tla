--------------------------- MODULE IssueLifecycle ---------------------------
(***************************************************************************)
(* What the coordination records promise, apart from how the scheduler     *)
(* keeps them: packages/core/src/contracts/issue-orchestration.ts.  Each   *)
(* issue has a lifecycle state in the daemon's memory and one on disk.     *)
(* States change along the table of legal transitions, a claim is on disk  *)
(* before anything is done under it, and a crash goes back to the disk.    *)
(***************************************************************************)
CONSTANTS Issues

VARIABLES
    state,      \* issue -> its state in memory
    saved       \* issue -> its state on disk

Claimed == {"claimed", "running", "retry_queued"}
Unclaimed == {"none", "released"}

(* ISSUE_ORCHESTRATION_TRANSITIONS, for the moves other than a claim; the   *)
(* legacy state "unclaimed" is written by no code.                          *)
Legal == [claimed |-> {"running", "retry_queued", "released"},
          running |-> {"retry_queued", "released"},
          retry_queued |-> {"running", "released"}]

TypeOK ==
    /\ state \in [Issues -> Claimed \union Unclaimed]
    /\ saved \in [Issues -> Claimed \union Unclaimed]

Init ==
    /\ state = [i \in Issues |-> "none"]
    /\ saved = [i \in Issues |-> "none"]

(* A free issue is claimed, on disk at once.                                *)
Claim(i) ==
    /\ state[i] \in Unclaimed
    /\ state' = [state EXCEPT ![i] = "claimed"]
    /\ saved' = state'

(* A claimed issue moves on, in memory first or on disk at once.            *)
Move(i) ==
    /\ state[i] \in Claimed
    /\ \E s \in Legal[state[i]] : state' = [state EXCEPT ![i] = s]
    /\ saved' \in {saved, state'}

Save == saved' = state /\ UNCHANGED state

Crash == state' = saved /\ UNCHANGED saved

Next == (\E i \in Issues : Claim(i) \/ Move(i)) \/ Save \/ Crash

Spec == Init /\ [][Next]_<<state, saved>>

(* An issue worked on in memory is claimed on disk: no crash can leave a    *)
(* run behind for an issue that the next daemon takes for free.             *)
ClaimsAreSaved == \A i \in Issues : state[i] \in Claimed => saved[i] \in Claimed
=============================================================================
