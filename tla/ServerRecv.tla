----------------------------- MODULE ServerRecv -----------------------------
(***************************************************************************)
(* How the server cuts a connection into packets: netIOThread's receive    *)
(* branch, netWSARecvPacket and netWSARecvPost                             *)
(* (src/Library/net_server.cpp:280-295,316-426).  A WSARecv is posted over *)
(* all the free space of the ring buffer, its completion moves the rear,   *)
(* whole packets are taken off and handed to OnRecv, and the next WSARecv  *)
(* is posted.                                                              *)
(***************************************************************************)
EXTENDS PacketStream

CONSTANT ServerSizes   \* bound: sizes of a packet after its header

ASSUME ServerSizesAssumption == ServerSizes \subseteq Nat

(* pc is "pending", "parse", "post", "error" or "closed".                     *)
VARIABLE offered    \* bytes of buffer the pending WSARecv may fill

serverVars == <<streamVars, pc, offered>>

ServerInit == /\ StreamInit(ServerSizes)
              /\ side = "server" /\ pc = "post" /\ offered = 0

Post == /\ pc = "post"
        /\ pc' = "pending"
        /\ offered' = DirectEnqueueSize(rqFront, rqRear) + AfterEnqueueSize(rqFront, rqRear)
        /\ UNCHANGED streamVars

(* A completion with n > 0 bytes; a rejected MoveRear leaves the session      *)
(* without a WSARecv.                                                         *)
Completion(n) ==
  /\ pc = "pending" /\ n <= offered /\ n <= Len(stream)
  /\ IF MoveRearOK(rqFront, rqRear, n)
       THEN Arrive(n) /\ pc' = "parse"
       ELSE pc' = "error" /\ UNCHANGED streamVars
  /\ UNCHANGED offered

(* A completion without bytes: the peer closed after its last byte, or there  *)
(* was no room to receive into.  The session is disconnected.                 *)
CompletionEmpty ==
  /\ pc = "pending" /\ (stream = <<>> \/ offered = 0)
  /\ pc' = "closed"
  /\ UNCHANGED <<streamVars, offered>>

(* Faulty variant: a packet is whole only when more bytes follow it. *)
NeedMoreStrict(payload) == RecvUse <= HeaderSize + payload

NeedMore(payload) == RecvUse < HeaderSize + payload

(* "Has No Header" or "Not Enough Payload". *)
ServerParseIncomplete ==
  /\ pc = "parse"
  /\ RecvUse >= HeaderSize => \E payload \in HeaderValues : NeedMore(payload)
  /\ pc' = "post"
  /\ UNCHANGED <<streamVars, offered>>

(* The header is skipped and the payload dequeued and handed to OnRecv.       *)
ServerParsePacket ==
  /\ pc = "parse" /\ RecvUse >= HeaderSize
  /\ \E payload \in HeaderValues :
       LET n == DequeueCount(Wrap(rqFront + HeaderSize), rqRear, payload)
       IN /\ ~NeedMore(payload)
          /\ IF ~MoveFrontOK(rqFront, rqRear, HeaderSize)
               THEN pc' = "error" /\ UNCHANGED streamVars
               ELSE /\ Consume(HeaderSize + n)
                    /\ IF n = payload
                         THEN Dispatch(HeaderSize, n) /\ UNCHANGED pc
                         ELSE pc' = "error" /\ UNCHANGED delivered
  /\ UNCHANGED offered

ServerNext == \/ Post \/ CompletionEmpty \/ ServerParseIncomplete \/ ServerParsePacket
              \/ \E n \in 1 .. MaxSize : Completion(n)

(* The I/O thread keeps running and the kernel completes what is pending.     *)
ServerSpec == ServerInit /\ [][ServerNext]_serverVars /\ WF_serverVars(ServerNext)
-----------------------------------------------------------------------------
(* OnRecv gets the packets sent, whole and in order, however the connection   *)
(* cut them up (net_server.cpp:316-363).                                      *)
PacketsIntact ==
  side = "server" => \A k \in 1 .. Len(delivered) : delivered[k] = Body(k, sizes[k])

(* Every packet sent reaches OnRecv: no WSARecv is posted over no space,      *)
(* which would complete empty and disconnect the client, no step of the       *)
(* parser fails and none stays behind in the buffer (net_server.cpp:274-277,  *)
(* 318-392).                                                                  *)
ServerGetsAll == side = "server" => <>(Len(delivered) = Count)
=============================================================================
