----------------------------- MODULE ClientSend -----------------------------
(***************************************************************************)
(* How the game client sends: CNetworkMgr::SendPacket, SendEvent and the   *)
(* FD_CONNECT and FD_WRITE branches of NetworkProc                         *)
(* (src/cpp-project/2DGame/NetworkMgr.cpp).  The socket does not block:    *)
(* WSAAsyncSelect posts FD_WRITE after the connection is made and again    *)
(* when there is room after a send that found none.  All calls are made by *)
(* the thread of the message loop; the kernel sends on meanwhile.  Byte    *)
(* <<k, j>> is the j-th of packet k.                                       *)
(***************************************************************************)
EXTENDS RingOffsets, Sequences

CONSTANTS PacketSizes,   \* bound: sizes of a packet
          MaxPackets,    \* bound: packets sent
          KernelSize     \* bytes the kernel takes before send fails

ASSUME KernelAssumption == KernelSize \in Nat \ {0}
ASSUME PacketSizesAssumption == PacketSizes \subseteq Nat \ {0}

VARIABLES sqFront, sqRear, queued,   \* g_SendQ: offsets and bytes
          kernel, wire,              \* bytes taken by send, and those sent on
          given,                     \* bytes SendPacket was given
          packets,                   \* number of SendPacket calls
          torn,                      \* a packet did not fit into g_SendQ
          isConnected, isSendPossible,
          armed, posted,             \* FD_WRITE: to be posted; in the message queue
           sendPc,                    \* "idle", in SendEvent "send" or "write", "quit"
          sendFailed                 \* auxiliary: the last SendEvent ended in an error

sendVars == <<sqFront, sqRear, queued, kernel, wire, given, packets, torn,
              isConnected, isSendPossible, armed, posted, sendPc, sendFailed>>
queueVars == <<sqFront, sqRear, queued>>
eventVars == <<isConnected, isSendPossible, armed, posted>>

SendInit == /\ sqFront = 0 /\ sqRear = 0 /\ queued = <<>>
            /\ kernel = <<>> /\ wire = <<>> /\ given = <<>>
            /\ packets = 0 /\ torn = FALSE
            /\ isConnected = FALSE /\ isSendPossible = FALSE
            /\ armed = FALSE /\ posted = FALSE
            /\ sendPc = "idle" /\ sendFailed = FALSE

(* SendEvent runs: for SendPacket, or for an FD_WRITE. *)
InSendEvent == sendPc \in {"send", "write"}

(* Where a SendEvent that fails leads: NetworkProc's caller ends the client,  *)
(* SendPacket's does not look.                                                *)
AfterError == IF sendPc = "write" THEN "quit" ELSE "idle"

OnConnect == /\ sendPc = "idle" /\ ~isConnected
             /\ isConnected' = TRUE /\ isSendPossible' = TRUE /\ armed' = TRUE
             /\ UNCHANGED <<queueVars, kernel, wire, given, packets, torn, posted, sendPc, sendFailed>>

(* What Enqueue stored of the packet is sent; its result is not looked at. *)
SendPacket(size) ==
  LET p == [j \in 1 .. size |-> <<packets + 1, j>>]
      n == EnqueueCount(sqFront, sqRear, size)
  IN /\ sendPc = "idle" /\ packets < MaxPackets
     /\ packets' = packets + 1
     /\ IF isConnected
          THEN /\ queued' = queued \o SubSeq(p, 1, n)
               /\ sqRear' = Wrap(sqRear + n)
               /\ given' = given \o p
               /\ torn' = (torn \/ n < size)
               /\ sendPc' = "send" /\ sendFailed' = FALSE
          ELSE UNCHANGED <<queueVars, given, torn, sendPc, sendFailed>>
     /\ UNCHANGED <<sqFront, kernel, wire, eventVars>>

Direct == DirectDequeueSize(sqFront, sqRear)
Room == KernelSize - Len(kernel)

SendDone == /\ InSendEvent /\ (~isSendPossible \/ Direct = 0)
            /\ sendPc' = "idle"
            /\ UNCHANGED <<queueVars, kernel, wire, given, packets, torn, eventVars, sendFailed>>

(* send takes n bytes, MoveFront follows and the loop goes on. *)
SendSome(n) ==
  /\ InSendEvent /\ isSendPossible
  /\ n <= Direct /\ n <= Room
  /\ kernel' = kernel \o SubSeq(queued, 1, n)
  /\ IF MoveFrontOK(sqFront, sqRear, n)
       THEN /\ sqFront' = Wrap(sqFront + n)
            /\ queued' = SubSeq(queued, n + 1, Len(queued))
            /\ UNCHANGED <<sendPc, sendFailed>>
       ELSE /\ sendPc' = AfterError /\ sendFailed' = TRUE
            /\ UNCHANGED <<sqFront, queued>>
  /\ UNCHANGED <<sqRear, wire, given, packets, torn, eventVars>>

(* WSAEWOULDBLOCK *)
SendBlocked ==
  /\ InSendEvent /\ isSendPossible /\ Direct # 0 /\ Room = 0
  /\ isSendPossible' = FALSE /\ armed' = TRUE /\ sendPc' = "idle"
  /\ UNCHANGED <<queueVars, kernel, wire, given, packets, torn, isConnected, posted, sendFailed>>

(* Any other error: the bytes stay, and so does the belief that send can.     *)
SendFailed == /\ InSendEvent /\ isSendPossible /\ Direct # 0
              /\ sendPc' = AfterError /\ sendFailed' = TRUE
              /\ UNCHANGED <<queueVars, kernel, wire, given, packets, torn, eventVars>>

(* FD_CLOSE, or an event with an error. *)
OnClose == /\ sendPc = "idle" /\ isConnected
           /\ sendPc' = "quit"
           /\ UNCHANGED <<queueVars, kernel, wire, given, packets, torn, eventVars, sendFailed>>

(* Faulty variant: the bytes left over wait for the next SendPacket. *)
OnWriteNoSend == /\ sendPc = "idle" /\ posted
                 /\ posted' = FALSE /\ isSendPossible' = TRUE
                 /\ UNCHANGED <<queueVars, kernel, wire, given, packets, torn, isConnected, armed,
                                sendPc, sendFailed>>

OnWrite == /\ sendPc = "idle" /\ posted
           /\ posted' = FALSE /\ isSendPossible' = TRUE
           /\ sendPc' = "write" /\ sendFailed' = FALSE
           /\ UNCHANGED <<queueVars, kernel, wire, given, packets, torn, isConnected, armed>>

(* The kernel sends a byte on, or notices that FD_WRITE is due. *)
Transmit == /\ kernel # <<>>
            /\ wire' = Append(wire, Head(kernel)) /\ kernel' = Tail(kernel)
            /\ UNCHANGED <<queueVars, given, packets, torn, eventVars, sendPc, sendFailed>>

PostWrite == /\ armed /\ Room > 0
             /\ armed' = FALSE /\ posted' = TRUE
             /\ UNCHANGED <<queueVars, kernel, wire, given, packets, torn,
                            isConnected, isSendPossible, sendPc, sendFailed>>

SendNext == \/ OnConnect \/ OnClose \/ OnWrite \/ Transmit \/ PostWrite
            \/ SendDone \/ SendBlocked \/ SendFailed
            \/ \E size \in PacketSizes : SendPacket(size)
            \/ \E n \in 1 .. MaxSize : SendSome(n)

SendSpec == SendInit /\ [][SendNext]_sendVars
-----------------------------------------------------------------------------
(* Bytes stay behind only after an error that SendPacket's caller does not    *)
(* look at: unless the last SendEvent ended in one, a client back in its      *)
(* message loop with bytes queued believes that it cannot send and an         *)
(* FD_WRITE is on its way.  Unless a packet found no room, what was sent, is  *)
(* being sent and is queued are the packets whole and in order, bytes sent    *)
(* again after an error too, in a queue that is what its offsets say          *)
(* (NetworkMgr.cpp:94-117, 190-217, 264-275).                                 *)
SendOwed ==
  /\ isConnected /\ sendPc = "idle" /\ queued # <<>> /\ ~sendFailed
       => ~isSendPossible /\ (armed \/ posted)
  /\ ~torn => wire \o kernel \o queued = given
  /\ sendPc # "quit" => Len(queued) = GetUseSize(sqFront, sqRear)
=============================================================================
