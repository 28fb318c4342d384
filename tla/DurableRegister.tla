--------------------------- MODULE DurableRegister ---------------------------
(***************************************************************************)
(* What a state file promises its writers and readers: the saves take      *)
(* effect one after the other, a reader sees the last one that did, and a  *)
(* crash takes back only saves that have not been acknowledged, or, as     *)
(* long as the place of the file is new, all of them.                      *)
(***************************************************************************)
EXTENDS Naturals, Sequences, FiniteSetsExt, SequencesExt

CONSTANT Saves

VARIABLES
    past,       \* the saves that took effect, in order; readers see the last
    floor,      \* the first saves of past, up to the last acknowledged
    place       \* "new", or "kept" on the disk

vars == <<past, floor, place>>

Init == past = <<>> /\ floor = 0 /\ place \in {"new", "kept"}

TakeEffect(s) ==
    /\ s \notin ToSet(past)
    /\ past' = Append(past, s)
    /\ UNCHANGED <<floor, place>>

Acknowledge(s) ==
    /\ \E i \in DOMAIN past : past[i] = s /\ floor' = IF i > floor THEN i ELSE floor
    /\ UNCHANGED <<past, place>>

Settle == place' = "kept" /\ UNCHANGED <<past, floor>>

Crash ==
    \E n \in floor..Len(past) :
        /\ past' = SubSeq(past, 1, n) /\ place' \in {place, "kept"}
        /\ UNCHANGED floor

Ruin == place = "new" /\ past' = <<>> /\ floor' = 0 /\ UNCHANGED place

Next == Settle \/ Crash \/ Ruin \/ \E s \in Saves : TakeEffect(s) \/ Acknowledge(s)

Spec == Init /\ [][Next]_vars
==============================================================================
