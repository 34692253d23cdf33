---------------------------- MODULE PacketStream ----------------------------
(***************************************************************************)
(* A TCP connection that carries length-prefixed packets into a receive    *)
(* ring buffer, seen by the receiver.  A byte is <<k, j>>, the j-th byte   *)
(* of packet k; the first HeaderSize bytes of a packet hold the number of  *)
(* bytes that follow them.  The ring buffer is its two offsets and the     *)
(* bytes stored between them (RingBuffer.tla shows that it is a queue).    *)
(***************************************************************************)
EXTENDS RingOffsets, Sequences

CONSTANTS HeaderSize,   \* sizeof(unsigned int)
          Count         \* bound: packets on the connection

ASSUME StreamAssumption == HeaderSize \in Nat \ {0} /\ Count \in Nat

VARIABLES side,       \* who receives: "client", "server" or "none"
          sizes,      \* the size of each packet after its header
          stream,     \* bytes the kernel has not handed over yet
          rqFront, rqRear, content,   \* RecvQ
          delivered,  \* the bytes of each packet dispatched, without header
          pc          \* what the receiver does

streamVars == <<side, sizes, stream, rqFront, rqRear, content, delivered>>

Body(k, n) == [j \in 1 .. n |-> <<k, HeaderSize + j>>]
Packet(k, n) == [j \in 1 .. HeaderSize + n |-> <<k, j>>]

(* The bytes of the packets from the k-th on. *)
BytesFrom(sz) ==
  LET from[k \in 1 .. Count + 1] ==
        IF k > Count THEN <<>> ELSE Packet(k, sz[k]) \o from[k + 1]
  IN from

StreamInit(S) == /\ sizes \in [1 .. Count -> S]
                 /\ stream = BytesFrom(sizes)[1]
                 /\ rqFront = 0 /\ rqRear = 0 /\ content = <<>>
                 /\ delivered = <<>>

RecvUse == GetUseSize(rqFront, rqRear)

First(n) == SubSeq(content, 1, n)

(* What the first HeaderSize bytes say when they are read as a length:        *)
(* anything when they are not a header.                                       *)
HeaderValues ==
  LET k == content[1][1]
  IN IF First(HeaderSize) = [j \in 1 .. HeaderSize |-> <<k, j>>]
       THEN {sizes[k]}
       ELSE 0 .. MaxSize

(* The kernel stores the next n bytes at the rear and MoveRear follows.       *)
Arrive(n) == /\ content' = content \o SubSeq(stream, 1, n)
             /\ stream' = SubSeq(stream, n + 1, Len(stream))
             /\ rqRear' = Wrap(rqRear + n)
             /\ UNCHANGED <<side, sizes, rqFront, delivered>>

(* The first n bytes leave the buffer. *)
Consume(n) == /\ content' = SubSeq(content, n + 1, Len(content))
              /\ rqFront' = Wrap(rqFront + n)
              /\ UNCHANGED <<side, sizes, stream, rqRear>>

(* Faulty variant: the bytes to skip are not skipped. *)
DispatchFromStart(skip, n) == delivered' = Append(delivered, SubSeq(content, 1, n))

(* The n bytes behind the first `skip' are handed to the application. *)
Dispatch(skip, n) == delivered' = Append(delivered, SubSeq(content, skip + 1, skip + n))
=============================================================================
