------------------------------ MODULE ByteFifo ------------------------------
(***************************************************************************)
(* What RingBuffer promises its caller: a first-in first-out queue of at   *)
(* most MaxSize bytes.  RingBuffer.tla implements this module.             *)
(***************************************************************************)
EXTENDS Integers, Sequences

CONSTANTS Bytes, MaxSize,
          MaxChunk   \* bound: bytes in one call

VARIABLES q,    \* the bytes stored, oldest first
          out   \* the bytes the last reading call handed out

vars == <<q, out>>

Chunks == UNION {[1 .. n -> Bytes] : n \in 0 .. MaxChunk}

Least(a, b) == IF a <= b THEN a ELSE b
Prefix(n) == SubSeq(q, 1, Least(n, Len(q)))
Rest(n) == SubSeq(q, n + 1, Len(q))

Init == q = <<>> /\ out = <<>>

(* As much of d as fits is stored. *)
Put(d) == /\ q' = q \o SubSeq(d, 1, Least(Len(d), MaxSize - Len(q)))
          /\ UNCHANGED out

Take(n) == /\ out' = Prefix(n)
           /\ q' = Rest(Least(n, Len(q)))

Look(n) == out' = Prefix(n) /\ UNCHANGED q

(* Bytes read in place are given up. *)
Skip(n) == /\ n <= Len(q)
           /\ q' = Rest(n)
           /\ UNCHANGED out

Clear == q' = <<>> /\ UNCHANGED out

Next == \/ \E d \in Chunks : Put(d)
        \/ \E n \in 0 .. MaxChunk : Take(n) \/ Look(n) \/ Skip(n)
        \/ Clear

Spec == Init /\ [][Next]_vars
=============================================================================
