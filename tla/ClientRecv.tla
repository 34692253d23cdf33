----------------------------- MODULE ClientRecv -----------------------------
(***************************************************************************)
(* How the game client cuts its connection into packets:                   *)
(* CNetworkMgr::RecvEvent, called for each FD_READ                         *)
(* (src/cpp-project/2DGame/NetworkMgr.cpp:125-188).  The bytes after a     *)
(* packet's length are its type, TypeSize bytes, and its payload; the      *)
(* length counts both.                                                     *)
(***************************************************************************)
EXTENDS PacketStream

CONSTANTS TypeSize,     \* sizeof(int)
          Coalesce,     \* whether bytes of two packets may arrive in one recv
          ClientSizes   \* bound: sizes of a packet after its length

ASSUME ClientRecvAssumption ==
  /\ TypeSize \in Nat \ {0} /\ Coalesce \in BOOLEAN
  /\ \A n \in ClientSizes : n \in Nat /\ n >= TypeSize

(* pc is "idle", "parse" or, after RecvEvent returned false, "quit".          *)
clientVars == <<streamVars, pc>>

ClientInit == StreamInit(ClientSizes) /\ side = "client" /\ pc = "idle"

(* recv() fills at most the space up to the end of the buffer; into no space  *)
(* it returns 0, which MoveRear rejects.  The loop behind it is the Parse     *)
(* actions.                                                                   *)
Recv(n) ==
  /\ pc = "idle" /\ stream # <<>>
  /\ n <= DirectEnqueueSize(rqFront, rqRear) /\ n <= Len(stream)
  /\ n = 0 => DirectEnqueueSize(rqFront, rqRear) = 0
  /\ Coalesce \/ \A i \in 1 .. n : stream[i][1] = stream[1][1]
  /\ IF MoveRearOK(rqFront, rqRear, n)
       THEN Arrive(n) /\ pc' = "parse"
       ELSE pc' = "quit" /\ UNCHANGED streamVars

ClientParseIncomplete ==
  /\ pc = "parse"
  /\ RecvUse >= HeaderSize => \E len \in HeaderValues : RecvUse < HeaderSize + len
  /\ pc' = "idle"
  /\ UNCHANGED streamVars

(* The length and the type are skipped, then Dequeue is asked for len bytes   *)
(* although len - TypeSize of the packet are left, and its result compared    *)
(* with the latter.                                                           *)
ClientParsePacket ==
  /\ pc = "parse" /\ RecvUse >= HeaderSize
  /\ \E len \in HeaderValues :
       LET f == Wrap(rqFront + HeaderSize)
           n == DequeueCount(Wrap(f + TypeSize), rqRear, len)
       IN /\ RecvUse >= HeaderSize + len
          /\ IF MoveFrontOK(rqFront, rqRear, HeaderSize) /\ MoveFrontOK(f, rqRear, TypeSize)
               THEN /\ Consume(HeaderSize + TypeSize + n)
                    /\ IF n = len - TypeSize
                         THEN Dispatch(HeaderSize + TypeSize, n) /\ UNCHANGED pc
                         ELSE pc' = "quit" /\ UNCHANGED delivered
               ELSE pc' = "quit" /\ UNCHANGED streamVars

ClientNext == \/ ClientParseIncomplete \/ ClientParsePacket
              \/ \E n \in 0 .. MaxSize : Recv(n)

(* The message loop keeps running. *)
ClientSpec == ClientInit /\ [][ClientNext]_clientVars /\ WF_clientVars(ClientNext)
-----------------------------------------------------------------------------
(* The payload of each packet dispatched to PacketProc is the one sent        *)
(* (NetworkMgr.cpp:163-178).                                                  *)
PayloadsIntact ==
  side = "client" => \A k \in 1 .. Len(delivered) :
    delivered[k] = [j \in 1 .. sizes[k] - TypeSize |-> <<k, HeaderSize + TypeSize + j>>]

(* Every packet sent is dispatched by the client, if no two of them share a   *)
(* recv (NetworkMgr.cpp:147-185).                                             *)
ClientGetsAll == side = "client" => <>(Len(delivered) = Count)

(* RecvEvent does not fail on packets the server sent: whether two of them    *)
(* are received at once or one after the other makes no difference            *)
(* (NetworkMgr.cpp:145).                                                      *)
NeverQuits == pc # "quit"
=============================================================================
