------------------------------ MODULE LogChunks ------------------------------
(***************************************************************************)
(* What one bounded read makes of the bytes of a log                       *)
(* (management-agent/src/local-read.ts): the largest prefix whose text is  *)
(* within the limit, less a character the chunk would cut.  A byte is of a *)
(* class: "a" a character of its own, "n" one that JSON escapes, "2" and   *)
(* "3" the lead of a character of that many bytes, "c" a continuation, "x" *)
(* a byte that UTF-8 has not.  A character is named by its lead, "?" is    *)
(* U+FFFD.                                                                 *)
(***************************************************************************)
EXTENDS Integers, Sequences, FiniteSets, FiniteSetsExt

CONSTANT MaxBytes       \* selection.maxBytes

Width(b) == CASE b = "2" -> 2 [] b = "3" -> 3 [] OTHER -> 1

(* The bytes that follow the lead at i as its own, up to the first that     *)
(* cannot: that many belong to one character or to one replacement.         *)
Run(bytes, i) ==
    LET last == Min({Len(bytes), i + Width(bytes[i]) - 1}) IN
    Max({j \in i..last : \A k \in i + 1..j : bytes[k] = "c"})

Owned(bytes, i) == bytes[i] = "c" /\ \E l \in 1..i - 1 : Width(bytes[l]) > 1 /\ Run(bytes, l) >= i

(* What TextDecoder.decode(bytes, {stream}) emits for the byte at i: a      *)
(* streaming decoder keeps a character that has not ended to itself.        *)
Token(bytes, stream, i) ==
    LET whole == Run(bytes, i) = i + Width(bytes[i]) - 1
        pending == Run(bytes, i) = Len(bytes) /\ ~whole
    IN CASE Owned(bytes, i) \/ (pending /\ stream) -> "nothing"
         [] whole /\ bytes[i] \notin {"c", "x"} -> bytes[i]
         [] OTHER -> "?"

Decode(bytes, stream) ==
    SelectSeq([i \in 1..Len(bytes) |-> Token(bytes, stream, i)], LAMBDA t : t # "nothing")

(* The bytes of a text on the wire, and in a JSON string.                   *)
Count(text, t) == Cardinality({i \in 1..Len(text) : text[i] = t})
Wire(text) == Len(text) + Count(text, "2") + 2 * (Count(text, "3") + Count(text, "?"))
Json(text) == Wire(text) + Count(text, "n")

(* Slip: the bytes of the last character are counted one too many.          *)
UncutLate(bytes, n) ==
    LET start == Max({0} \union {i \in 1..n : bytes[i] # "c"})
    IN IF start > 0 /\ n - start + 2 < Width(bytes[start]) THEN start - 1 ELSE n

(* The prefix of n bytes without a character that it cuts.                  *)
Uncut(bytes, n) ==
    LET start == Max({0} \union {i \in 1..n : bytes[i] # "c"})
    IN IF start > 0 /\ n - start + 1 < Width(bytes[start]) THEN start - 1 ELSE n

(* The chunk at offset, in a file that had size bytes when it was looked    *)
(* at.  The binary search finds the largest prefix that fits: its text only *)
(* grows with it.                                                           *)
Chunk(bytes, offset, size) ==
    LET Text(n) == Decode(SubSeq(bytes, 1, n), offset + n < size)
        found == Max({n \in 0..Len(bytes) : Wire(Text(n)) <= MaxBytes})
        kept == IF offset + found < size THEN Uncut(bytes, found) ELSE found
    IN [consumed |-> kept, text |-> Text(kept)]
=============================================================================
