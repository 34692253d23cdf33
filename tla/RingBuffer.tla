----------------------------- MODULE RingBuffer -----------------------------
(***************************************************************************)
(* RingBuffer of src/Library/ring_buffer.cpp (the client's CRingBuffer,    *)
(* src/cpp-project/2DGame/Lib, is the same code).  Besides the copying     *)
(* calls a caller may fill the free space in place, as WSARecv does, and   *)
(* then call MoveRear, or read the stored bytes in place, as send does,    *)
(* and then call MoveFront; the callers never move by more than the size   *)
(* the buffer told them.                                                   *)
(***************************************************************************)
EXTENDS RingOffsets, Sequences

CONSTANTS Bytes,      \* values of a byte
          MaxChunk    \* bound: bytes in one call

ASSUME MaxChunkAssumption == MaxChunk \in Nat
ASSUME BytesAssumption == Bytes # {}

VARIABLES front, rear,   \* m_frontPtr, m_rearPtr as offsets
          buf,           \* m_ringBuf
          out            \* bytes the last reading call handed out

vars == <<front, rear, buf, out>>

Chunks == UNION {[1 .. n -> Bytes] : n \in 0 .. MaxChunk}

Init == /\ front = 0 /\ rear = 0
        /\ buf = [o \in Offsets |-> CHOOSE b \in Bytes : TRUE]
        /\ out = <<>>

Use == GetUseSize(front, rear)
Free == GetFreeSize(front, rear)

(* The distance from offset p forward to offset o. *)
Ahead(p, o) == IF o >= p THEN o - p ELSE o - p + RealSize

(* The buffer with the first n bytes of d copied in at the rear. *)
Written(d, n) ==
  [o \in Offsets |-> IF Ahead(rear, o) < n THEN d[Ahead(rear, o) + 1] ELSE buf[o]]

(* The n bytes from the front on. *)
Stored(n) == [i \in 1 .. n |-> buf[Wrap(front + i - 1)]]

Enqueue(d) == LET n == EnqueueCount(front, rear, Len(d))
              IN /\ buf' = Written(d, n)
                 /\ rear' = Wrap(rear + n)
                 /\ UNCHANGED <<front, out>>

(* Faulty variant: front is advanced by the size asked for. *)
DequeueAll(size) == LET n == DequeueCount(front, rear, size)
                    IN /\ out' = Stored(n)
                       /\ front' = Wrap(front + size)
                       /\ UNCHANGED <<rear, buf>>

Dequeue(size) == LET n == DequeueCount(front, rear, size)
                 IN /\ out' = Stored(n)
                    /\ front' = Wrap(front + n)
                    /\ UNCHANGED <<rear, buf>>

Peek(size) == /\ out' = Stored(DequeueCount(front, rear, size))
              /\ UNCHANGED <<front, rear, buf>>

(* WSARecv or recv has stored d in the space DirectEnqueueSize offered, then  *)
(* MoveRear.                                                                  *)
Receive(d) ==
  /\ Len(d) <= DirectEnqueueSize(front, rear) + AfterEnqueueSize(front, rear)
  /\ MoveRearOK(front, rear, Len(d))
  /\ buf' = Written(d, Len(d))
  /\ rear' = Wrap(rear + Len(d))
  /\ UNCHANGED <<front, out>>

(* MoveFront over bytes that were peeked at or sent from in place. *)
MoveFront(size) ==
  /\ size <= Use
  /\ MoveFrontOK(front, rear, size)
  /\ front' = Wrap(front + size)
  /\ UNCHANGED <<rear, buf, out>>

ClearBuffer == /\ front' = 0 /\ rear' = 0
               /\ UNCHANGED <<buf, out>>

Next == \/ \E d \in Chunks : Enqueue(d) \/ Receive(d)
        \/ \E size \in 0 .. MaxChunk : Dequeue(size) \/ Peek(size) \/ MoveFront(size)
        \/ ClearBuffer

Spec == Init /\ [][Next]_vars
-----------------------------------------------------------------------------
TypeOK == /\ front \in Offsets /\ rear \in Offsets
          /\ buf \in [Offsets -> Bytes]
          /\ out \in Seq(Bytes)

(* The sizes a caller plans with agree (ring_buffer.cpp:43-120): what is used *)
(* and what is free add up, the two pieces a WSARecv is given are exactly the *)
(* free space, and what can be read in place is stored.                       *)
SizesAgree ==
  /\ Use + Free = MaxSize
  /\ DirectEnqueueSize(front, rear) + AfterEnqueueSize(front, rear) = Free
  /\ DirectDequeueSize(front, rear) <= Use
  /\ Use > 0 => DirectDequeueSize(front, rear) > 0

(* MoveRear and MoveFront accept exactly the distances that fit               *)
(* (ring_buffer.cpp:206-259), except on a full, respectively empty, buffer,   *)
(* where their tests can let any distance up to the end of the array through. *)
MovesExact ==
  \A n \in 1 .. RealSize :
    /\ Free > 0 => (MoveRearOK(front, rear, n) <=> n <= Free)
    /\ Use > 0 => (MoveFrontOK(front, rear, n) <=> n <= Use)

(* The buffer is a bounded byte queue.                                        *)
Fifo == INSTANCE ByteFifo WITH q <- Stored(Use)
IsFifo == Fifo!Spec
=============================================================================
