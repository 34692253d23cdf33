---------------------------- MODULE RingOffsets ----------------------------
(***************************************************************************)
(* The pointer arithmetic of RingBuffer (src/Library/ring_buffer.cpp):     *)
(* m_frontPtr and m_rearPtr as offsets f and r into m_ringBuf, which holds *)
(* one byte more than it may store so that full and empty differ.          *)
(***************************************************************************)
EXTENDS Integers

CONSTANT MaxSize     \* m_maxSize

ASSUME MaxSizeAssumption == MaxSize \in Nat \ {0}

RealSize == MaxSize + 1
Offsets == 0 .. MaxSize

(* `if (p >= m_ringEndPtr) p -= m_realSize' *)
Wrap(p) == IF p >= RealSize THEN p - RealSize ELSE p

GetUseSize(f, r) == IF f > r THEN (RealSize - f) + r ELSE r - f

GetFreeSize(f, r) ==
  IF f = r THEN MaxSize
  ELSE IF f < r THEN MaxSize - (r - f)
  ELSE f - (r + 1)

(* Bytes that can be written at the rear without wrapping ... *)
DirectEnqueueSize(f, r) ==
  IF f > r THEN f - (r + 1)
  ELSE IF f = 0 THEN RealSize - (r + 1)
  ELSE RealSize - r

(* ... and then from the start of the buffer: *usedSize. *)
AfterEnqueueSize(f, r) == IF f > r \/ f = 0 THEN 0 ELSE f - 1

(* Bytes that can be read at the front without wrapping. *)
DirectDequeueSize(f, r) == IF f > r THEN RealSize - f ELSE r - f

IsMin(S, m) == m \in S /\ \A x \in S : m <= x

(* The byte at which a copy loop of at most size bytes stops: the first i     *)
(* that satisfies its exit test, or all of them.                              *)
LoopCount(size, stops) ==
  IF stops = {} THEN size ELSE CHOOSE m \in stops : IsMin(stops, m)

(* Bytes Enqueue copies: it stops when the next write would reach front.      *)
EnqueueCount(f, r, size) ==
  IF Wrap(r + 1) = f THEN 0
  ELSE LoopCount(size, {i \in 1 .. size : Wrap(Wrap(r + i) + 1) = f})

(* Faulty variant: the copy stops one byte before rear. *)
DequeueCountShort(f, r, size) ==
  IF f = r THEN 0
  ELSE LoopCount(size, {i \in 1 .. size : Wrap(Wrap(f + i) + 1) = r})

(* Bytes Dequeue and Peek copy: they stop when they have reached rear.        *)
DequeueCount(f, r, size) ==
  IF f = r THEN 0
  ELSE LoopCount(size, {i \in 1 .. size : Wrap(f + i) = r})

(* The tests by which MoveRear and MoveFront accept a distance.               *)
MoveRearOK(f, r, size) ==
  /\ size # 0
  /\ IF r < f - 1 THEN r + size <= f - 1
     ELSE r + size >= RealSize => r + size - RealSize <= f - 1

MoveFrontOK(f, r, size) ==
  /\ size # 0
  /\ IF f < r THEN f + size <= r
     ELSE f + size >= RealSize => f + size - RealSize <= r
============================================================================
