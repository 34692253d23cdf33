----------------------------- MODULE NetServer -----------------------------
(***************************************************************************)
(* Session life cycle of NetServer (src/Library/net_server.cpp): the       *)
(* accept thread, the I/O completion threads and outside callers of        *)
(* SendPacket share an array of sessions.  A session is kept alive by      *)
(* IOCount; whoever takes it to zero claims the release by one 32-bit      *)
(* compare-and-swap over (ReleaseFlag, IOCount) and returns the slot's     *)
(* index to the stack the accept thread pops.                              *)
(*                                                                         *)
(* One action per access to shared state.  Each reference a thread has     *)
(* taken with an InterlockedIncrement16 and not yet given back is a token  *)
(* in held[t]; DecreaseIOCount(p) is the step Decrease and, for the thread *)
(* that reaches zero, the four Release steps.                              *)
(***************************************************************************)
EXTENDS Integers, FiniteSets

CONSTANTS Slots,      \* indices of m_sessionVec
          Workers,    \* I/O threads (netIOThread)
          Apps,       \* outside threads that call SendPacket
          Acceptor,   \* the accept thread (netAcceptThread)
          NoSlot,     \* pSession before a thread has one
          NoToken,
          MaxConn,    \* bound: connections that arrive
          MaxCalls,   \* bound: SendPacket calls the outside threads make
          Refuses,    \* whether OnConnectionRequest may refuse a client
          StaleCalls  \* whether outside callers may name an index that has
                      \* no joined session

ASSUME ThreadsAssumption ==
  /\ IsFiniteSet(Workers) /\ IsFiniteSet(Apps)
  /\ Workers \cap Apps = {} /\ Acceptor \notin Workers \cup Apps
ASSUME SlotsAssumption == IsFiniteSet(Slots) /\ NoSlot \notin Slots
ASSUME BoundsAssumption == MaxConn \in Nat /\ MaxCalls \in Nat
ASSUME FlagsAssumption == Refuses \in BOOLEAN /\ StaleCalls \in BOOLEAN

(* The references a thread can hold: on the completion it is processing, by *)
(* AcquireLock, for the WSARecv or WSASend it is about to issue, and by     *)
(* DisconnectSession.                                                       *)
Tokens == {"op", "lock", "io", "disc"}

ASSUME TokensAssumption == NoToken \notin Tokens

Threads == Workers \cup Apps \cup {Acceptor}

VARIABLES
  (* the session array *)
  ioCount,   \* Session::IOCount
  released,  \* Session::ReleaseFlag
  ioSend,    \* Session::IOSend
  shut,      \* Session::IsShutdown and the socket's shutdown
  conn,      \* the connection Session::Socket belongs to, 0 for none
  sendQ,     \* packets in Session::SendQ
  (* the kernel *)
  open,      \* accepted connections whose socket is not closed
  recvs,     \* WSARecv calls whose completion nobody has dequeued
  sends,     \* WSASend calls whose completion nobody has dequeued
  arrived,   \* connections accept() has returned, numbered from 1
  closing,   \* connections the peer has closed
  (* m_indexStack: nodes linked for each index, and m_stackCount *)
  free, freeCount,
  (* the threads *)
  pc,
  cur,       \* pSession
  held,      \* references taken and not yet given back
  token,     \* the reference DecreaseIOCount is giving back
  calls,     \* SendPacket calls the outside threads may still make
  (* auxiliary *)
  joined,    \* slots whose session has been handed to OnClientJoin
  everInit   \* slots InitSession has run for

session == <<ioCount, released, ioSend, shut, conn, sendQ>>
kernel  == <<open, recvs, sends, arrived, closing>>
stack   == <<free, freeCount>>
aux     == <<joined, everInit>>
thread  == <<pc, cur, held, token>>
vars == <<ioCount, released, ioSend, shut, conn, sendQ, open, recvs, sends,
          arrived, closing, free, freeCount, pc, cur, held, token, calls,
          joined, everInit>>

Init == /\ ioCount = [s \in Slots |-> 0]
        /\ released = [s \in Slots |-> FALSE]
        /\ ioSend = [s \in Slots |-> FALSE]
        /\ shut = [s \in Slots |-> FALSE]
        /\ conn = [s \in Slots |-> 0]
        /\ sendQ = [s \in Slots |-> 0]
        /\ open = {}
        /\ recvs = [s \in Slots |-> 0]
        /\ sends = [s \in Slots |-> 0]
        /\ arrived = 0
        /\ closing = {}
        /\ free = [s \in Slots |-> 1]
        /\ freeCount = Cardinality(Slots)
        /\ pc = [t \in Threads |-> "idle"]
        /\ cur = [t \in Threads |-> NoSlot]
        /\ held = [t \in Threads |-> {}]
        /\ token = [t \in Threads |-> NoToken]
        /\ calls = MaxCalls
        /\ joined = {} /\ everInit = {}
------------------------------------------------------------------------------
(* Where a thread goes next. *)

At(t, label) == pc[t] = label

Goto(t, label) == /\ pc' = [pc EXCEPT ![t] = label]
                  /\ UNCHANGED <<cur, token>>

Drop(t, k) == /\ pc' = [pc EXCEPT ![t] = "decrease"]
              /\ token' = [token EXCEPT ![t] = k]
              /\ UNCHANGED cur

Finish(t) == /\ pc' = [pc EXCEPT ![t] = "idle"]
             /\ cur' = [cur EXCEPT ![t] = NoSlot]
             /\ token' = [token EXCEPT ![t] = NoToken]

(* SendPost and RecvPost over: SendPacket gives its lock back, an I/O thread *)
(* the reference of the completion it was processing, and the accept thread  *)
(* goes back to accept().                                                    *)
PostDone(t) == IF "lock" \in held[t] THEN Drop(t, "lock")
               ELSE IF t \in Workers THEN Drop(t, "op")
               ELSE Finish(t)

(* Where DecreaseIOCount returns to, by the reference it gave back.          *)
Return(t) ==
  CASE token[t] = "io" -> IF "lock" \in held[t] THEN Drop(t, "lock")
                          ELSE Goto(t, "discInc")
    [] token[t] = "lock" -> IF t = Acceptor THEN Goto(t, "recvInc") ELSE Finish(t)
    [] token[t] = "disc" -> IF t \in Workers THEN Drop(t, "op") ELSE Finish(t)
    [] OTHER -> Finish(t)

(* InterlockedIncrement16(&pSession->IOCount), remembered as a reference. *)
Take(t, k) == /\ ioCount' = [ioCount EXCEPT ![cur[t]] = @ + 1]
              /\ held' = [held EXCEPT ![t] = @ \cup {k}]

(* A call on the session's socket can succeed only in this state. *)
SocketUsable(s) == ~shut[s] /\ conn[s] \in open
------------------------------------------------------------------------------
(* netAcceptThread *)

Accept(t) ==
  /\ t = Acceptor /\ At(t, "idle") /\ arrived < MaxConn
  /\ arrived' = arrived + 1
  /\ open' = open \cup {arrived + 1}
  /\ Goto(t, "full")
  /\ UNCHANGED <<session, stack, recvs, sends, closing, held, calls, aux>>

IsEmpty == \A s \in Slots : free[s] = 0

(* "user is full": the connection is closed. *)
RefuseFull(t) ==
  /\ At(t, "full") /\ IsEmpty
  /\ open' = open \ {arrived}
  /\ Finish(t)
  /\ UNCHANGED <<session, stack, recvs, sends, arrived, closing, held, calls, aux>>

NotFull(t) ==
  /\ At(t, "full") /\ ~IsEmpty
  /\ Goto(t, "popGate")
  /\ UNCHANGED <<session, kernel, stack, held, calls, aux>>

(* m_indexStack->Pop: the counter gate, then the node.  A refused gate ends  *)
(* the accept thread.                                                        *)
PopGate(t) ==
  /\ At(t, "popGate")
  /\ IF freeCount - 1 < 0
       THEN Goto(t, "exited") /\ UNCHANGED freeCount
       ELSE Goto(t, "popTake") /\ freeCount' = freeCount - 1
  /\ UNCHANGED <<session, kernel, free, held, calls, aux>>

PopTake(t) ==
  /\ At(t, "popTake")
  /\ \E s \in Slots :
       /\ free[s] > 0
       /\ free' = [free EXCEPT ![s] = @ - 1]
       /\ cur' = [cur EXCEPT ![t] = s]
  /\ pc' = [pc EXCEPT ![t] = "init"]
  /\ UNCHANGED <<session, kernel, freeCount, held, token, calls, aux>>

(* InitSession writes IOCount and IOSend first ... *)
InitSession(t) ==
  /\ At(t, "init")
  /\ ioCount' = [ioCount EXCEPT ![cur[t]] = 1]
  /\ ioSend' = [ioSend EXCEPT ![cur[t]] = FALSE]
  /\ everInit' = everInit \cup {cur[t]}
  /\ Goto(t, "initFlag")
  /\ UNCHANGED <<released, shut, conn, sendQ, kernel, stack, held, calls, joined>>

(* ... and ReleaseFlag, IsShutdown and the socket after them. *)
InitSocket(t) ==
  /\ At(t, "initFlag")
  /\ released' = [released EXCEPT ![cur[t]] = FALSE]
  /\ shut' = [shut EXCEPT ![cur[t]] = FALSE]
  /\ conn' = [conn EXCEPT ![cur[t]] = arrived]
  /\ Goto(t, "request")
  /\ UNCHANGED <<ioCount, ioSend, sendQ, kernel, stack, held, calls, aux>>

(* OnConnectionRequest returned false: the index is not pushed back. *)
RefuseClient(t) ==
  /\ At(t, "request") /\ Refuses
  /\ open' = open \ {arrived}
  /\ Finish(t)
  /\ UNCHANGED <<session, recvs, sends, arrived, closing, stack, held, calls, aux>>

(* CreateIoCompletionPort; when it fails the session is disconnected. *)
Associate(t) ==
  /\ At(t, "request")
  /\ Goto(t, "join") \/ Goto(t, "discInc")
  /\ UNCHANGED <<session, kernel, stack, held, calls, aux>>

(* OnClientJoin: the application sends the client its first packet. *)
Join(t) ==
  /\ At(t, "join")
  /\ joined' = joined \cup {cur[t]}
  /\ Goto(t, "acquire")
  /\ UNCHANGED <<session, kernel, stack, held, calls, everInit>>
------------------------------------------------------------------------------
(* SendPacket from outside, netWSASendPacket and netWSASendPost *)

SendPacket(t, s) ==
  /\ t \in Apps /\ At(t, "idle") /\ calls > 0
  /\ StaleCalls \/ s \in joined
  /\ calls' = calls - 1
  /\ cur' = [cur EXCEPT ![t] = s]
  /\ pc' = [pc EXCEPT ![t] = "acquire"]
  /\ UNCHANGED <<session, kernel, stack, held, token, aux>>

(* AcquireLock: a count that was zero means there is no session. *)
AcquireLock(t) ==
  /\ At(t, "acquire")
  /\ Take(t, "lock")
  /\ IF ioCount[cur[t]] = 0 THEN Drop(t, "lock") ELSE Goto(t, "enqueue")
  /\ UNCHANGED <<released, ioSend, shut, conn, sendQ, kernel, stack, calls, aux>>

Enqueue(t) ==
  /\ At(t, "enqueue")
  /\ sendQ' = [sendQ EXCEPT ![cur[t]] = @ + 1]
  /\ Goto(t, "sendSize")
  /\ UNCHANGED <<ioCount, released, ioSend, shut, conn, kernel, stack, held, calls, aux>>

SendSize(t) ==
  /\ At(t, "sendSize")
  /\ IF sendQ[cur[t]] = 0 THEN PostDone(t) ELSE Goto(t, "sendFlag")
  /\ UNCHANGED <<session, kernel, stack, held, calls, aux>>

(* Faulty variant: what IOSend was before is not looked at. *)
SendFlagUnchecked(t) ==
  /\ At(t, "sendFlag")
  /\ ioSend' = [ioSend EXCEPT ![cur[t]] = TRUE]
  /\ Goto(t, "drain")
  /\ UNCHANGED <<ioCount, released, shut, conn, sendQ, kernel, stack, held, calls, aux>>

SendFlag(t) ==
  /\ At(t, "sendFlag")
  /\ ioSend' = [ioSend EXCEPT ![cur[t]] = TRUE]
  /\ IF ioSend[cur[t]] THEN PostDone(t) ELSE Goto(t, "drain")
  /\ UNCHANGED <<ioCount, released, shut, conn, sendQ, kernel, stack, held, calls, aux>>

(* The Dequeue loop takes some of the packets, or finds none. *)
Drain(t) ==
  /\ At(t, "drain")
  /\ IF sendQ[cur[t]] = 0
       THEN /\ ioSend' = [ioSend EXCEPT ![cur[t]] = FALSE]
            /\ PostDone(t)
            /\ UNCHANGED sendQ
       ELSE /\ \E n \in 0 .. sendQ[cur[t]] - 1 : sendQ' = [sendQ EXCEPT ![cur[t]] = n]
            /\ Goto(t, "sendInc")
            /\ UNCHANGED ioSend
  /\ UNCHANGED <<ioCount, released, shut, conn, kernel, stack, held, calls, aux>>

SendInc(t) ==
  /\ At(t, "sendInc")
  /\ Take(t, "io")
  /\ Goto(t, "sendPost")
  /\ UNCHANGED <<released, ioSend, shut, conn, sendQ, kernel, stack, calls, aux>>

(* WSASend: the reference passes to the pending operation, or is dropped. *)
WSASend(t) ==
  /\ At(t, "sendPost")
  /\ \/ /\ SocketUsable(cur[t])
        /\ sends' = [sends EXCEPT ![cur[t]] = @ + 1]
        /\ held' = [held EXCEPT ![t] = @ \ {"io"}]
        /\ PostDone(t)
     \/ Drop(t, "io") /\ UNCHANGED <<sends, held>>
  /\ UNCHANGED <<session, open, recvs, arrived, closing, stack, calls, aux>>
------------------------------------------------------------------------------
(* netIOThread, netWSARecvPacket and netWSARecvPost *)

(* Faulty variant: a completion without bytes is not told apart. *)
GetRecvIgnoresZero(t, s, zero) ==
  /\ t \in Workers /\ At(t, "idle") /\ recvs[s] > 0
  /\ recvs' = [recvs EXCEPT ![s] = @ - 1]
  /\ cur' = [cur EXCEPT ![t] = s]
  /\ held' = [held EXCEPT ![t] = {"op"}]
  /\ pc' = [pc EXCEPT ![t] = "recvPacket"]
  /\ UNCHANGED <<session, open, sends, arrived, closing, stack, token, calls, aux>>

(* A completion is dequeued; `zero' when it carries no bytes: the peer closed *)
(* the connection or the operation was cancelled.                             *)
GetRecv(t, s, zero) ==
  /\ t \in Workers /\ At(t, "idle") /\ recvs[s] > 0
  /\ recvs' = [recvs EXCEPT ![s] = @ - 1]
  /\ cur' = [cur EXCEPT ![t] = s]
  /\ held' = [held EXCEPT ![t] = {"op"}]
  /\ pc' = [pc EXCEPT ![t] = IF zero THEN "discInc" ELSE "recvPacket"]
  /\ UNCHANGED <<session, open, sends, arrived, closing, stack, token, calls, aux>>

(* Faulty variant: recvFlags of the send OVERLAPPED is left set. *)
GetSendAsRecv(t, s, zero) ==
  /\ t \in Workers /\ At(t, "idle") /\ sends[s] > 0
  /\ sends' = [sends EXCEPT ![s] = @ - 1]
  /\ cur' = [cur EXCEPT ![t] = s]
  /\ held' = [held EXCEPT ![t] = {"op"}]
  /\ pc' = [pc EXCEPT ![t] = IF zero THEN "discInc" ELSE "recvPacket"]
  /\ UNCHANGED <<session, open, recvs, arrived, closing, stack, token, calls, aux>>

GetSend(t, s, zero) ==
  /\ t \in Workers /\ At(t, "idle") /\ sends[s] > 0
  /\ sends' = [sends EXCEPT ![s] = @ - 1]
  /\ cur' = [cur EXCEPT ![t] = s]
  /\ held' = [held EXCEPT ![t] = {"op"}]
  /\ pc' = [pc EXCEPT ![t] = IF zero THEN "discInc" ELSE "sendReset"]
  /\ UNCHANGED <<session, open, recvs, arrived, closing, stack, token, calls, aux>>

(* Faulty variant: no new WSARecv follows. *)
RecvPacketNoPost(t) ==
  /\ At(t, "recvPacket")
  /\ Drop(t, "op")
  /\ UNCHANGED <<session, kernel, stack, held, calls, aux>>

(* The packets received are handed to OnRecv, which may report an error. *)
RecvPacket(t) ==
  /\ At(t, "recvPacket")
  /\ Goto(t, "recvInc") \/ Goto(t, "discInc")
  /\ UNCHANGED <<session, kernel, stack, held, calls, aux>>

(* Faulty variant: the WSARecv is issued without a reference. *)
RecvIncForgotten(t) ==
  /\ At(t, "recvInc")
  /\ Goto(t, "recvPost")
  /\ UNCHANGED <<session, kernel, stack, held, calls, aux>>

RecvInc(t) ==
  /\ At(t, "recvInc")
  /\ Take(t, "io")
  /\ Goto(t, "recvPost")
  /\ UNCHANGED <<released, ioSend, shut, conn, sendQ, kernel, stack, calls, aux>>

WSARecv(t) ==
  /\ At(t, "recvPost")
  /\ \/ /\ SocketUsable(cur[t])
        /\ recvs' = [recvs EXCEPT ![cur[t]] = @ + 1]
        /\ held' = [held EXCEPT ![t] = @ \ {"io"}]
        /\ PostDone(t)
     \/ Drop(t, "io") /\ UNCHANGED <<recvs, held>>
  /\ UNCHANGED <<session, open, sends, arrived, closing, stack, calls, aux>>

(* A send completed: IOSend is cleared, then netWSASendPost. *)
SendReset(t) ==
  /\ At(t, "sendReset")
  /\ ioSend' = [ioSend EXCEPT ![cur[t]] = FALSE]
  /\ Goto(t, "sendSize")
  /\ UNCHANGED <<ioCount, released, shut, conn, sendQ, kernel, stack, held, calls, aux>>
------------------------------------------------------------------------------
(* DisconnectSession and DecreaseIOCount *)

DiscInc(t) ==
  /\ At(t, "discInc")
  /\ Take(t, "disc")
  /\ IF ioCount[cur[t]] = 0 THEN Drop(t, "disc") ELSE Goto(t, "shutdown")
  /\ UNCHANGED <<released, ioSend, shut, conn, sendQ, kernel, stack, calls, aux>>

(* IsShutdown, CancelIoEx and shutdown(): what is pending completes with no  *)
(* bytes, what is issued from now on fails.                                  *)
Shutdown(t) ==
  /\ At(t, "shutdown")
  /\ shut' = [shut EXCEPT ![cur[t]] = TRUE]
  /\ Drop(t, "disc")
  /\ UNCHANGED <<ioCount, released, ioSend, conn, sendQ, kernel, stack, held, calls, aux>>

Decrease(t) ==
  /\ At(t, "decrease")
  /\ ioCount' = [ioCount EXCEPT ![cur[t]] = @ - 1]
  /\ held' = [held EXCEPT ![t] = @ \ {token[t]}]
  /\ IF ioCount[cur[t]] - 1 = 0 THEN Goto(t, "claim") ELSE Return(t)
  /\ UNCHANGED <<released, ioSend, shut, conn, sendQ, kernel, stack, calls, aux>>

(* Faulty variant: ReleaseFlag is not part of the comparison. *)
ClaimCountOnly(t) ==
  /\ At(t, "claim")
  /\ IF ioCount[cur[t]] = 0
       THEN /\ released' = [released EXCEPT ![cur[t]] = TRUE]
            /\ Goto(t, "close")
       ELSE Return(t) /\ UNCHANGED released
  /\ UNCHANGED <<ioCount, ioSend, shut, conn, sendQ, kernel, stack, held, calls, aux>>

(* The compare-and-swap of (ReleaseFlag, IOCount) from (0, 0) to (1, 0). *)
Claim(t) ==
  /\ At(t, "claim")
  /\ IF ~released[cur[t]] /\ ioCount[cur[t]] = 0
       THEN /\ released' = [released EXCEPT ![cur[t]] = TRUE]
            /\ Goto(t, "close")
       ELSE Return(t) /\ UNCHANGED released
  /\ UNCHANGED <<ioCount, ioSend, shut, conn, sendQ, kernel, stack, held, calls, aux>>

(* closesocket, then OnClientLeave. *)
CloseSocket(t) ==
  /\ At(t, "close")
  /\ open' = open \ {conn[cur[t]]}
  /\ Goto(t, "pushIndex")
  /\ UNCHANGED <<session, recvs, sends, arrived, closing, stack, held, calls, aux>>

(* m_indexStack->Push: the node is linked, then counted. *)
PushIndex(t) ==
  /\ At(t, "pushIndex")
  /\ free' = [free EXCEPT ![cur[t]] = @ + 1]
  /\ Goto(t, "pushCount")
  /\ UNCHANGED <<session, kernel, freeCount, held, calls, aux>>

PushCount(t) ==
  /\ At(t, "pushCount")
  /\ freeCount' = freeCount + 1
  /\ Return(t)
  /\ UNCHANGED <<session, kernel, free, held, calls, aux>>
------------------------------------------------------------------------------
(* The peer of an accepted connection closes it. *)
PeerCloses(c) ==
  /\ c \in open \ closing
  /\ closing' = closing \cup {c}
  /\ UNCHANGED <<session, open, recvs, sends, arrived, stack, thread, calls, aux>>

AcceptStep(t) == \/ Accept(t) \/ RefuseFull(t) \/ NotFull(t) \/ PopGate(t)
                 \/ PopTake(t) \/ InitSession(t) \/ InitSocket(t)
                 \/ RefuseClient(t) \/ Associate(t) \/ Join(t)

SendStep(t) == \/ AcquireLock(t) \/ Enqueue(t) \/ SendSize(t) \/ SendFlag(t)
               \/ Drain(t) \/ SendInc(t) \/ WSASend(t)

RecvStep(t) == \/ RecvPacket(t) \/ RecvInc(t) \/ WSARecv(t) \/ SendReset(t)

ReleaseStep(t) == \/ DiscInc(t) \/ Shutdown(t) \/ Decrease(t) \/ Claim(t)
                  \/ CloseSocket(t) \/ PushIndex(t) \/ PushCount(t)

(* What a thread does next inside the call it is in. *)
Step(t) == AcceptStep(t) \/ SendStep(t) \/ RecvStep(t) \/ ReleaseStep(t)

Next == \/ \E t \in Threads : Step(t)
        \/ \E t \in Threads, s \in Slots : SendPacket(t, s)
        \/ \E t \in Threads, s \in Slots, zero \in BOOLEAN :
              GetRecv(t, s, zero) \/ GetSend(t, s, zero)
        \/ \E c \in 1 .. MaxConn : PeerCloses(c)

Spec == Init /\ [][Next]_vars

(* Threads inside a call keep running.  The kernel delivers the completion   *)
(* without bytes of a connection that was shut down or closed by its peer,   *)
(* and the completion port hands completions out in order, so none waits     *)
(* forever.  Nothing makes clients arrive, close or send, or callers call.   *)
FairSpec ==
  /\ Spec
  /\ \A t \in Threads : WF_vars(Step(t))
  /\ \A s \in Slots :
       /\ SF_vars((shut[s] \/ conn[s] \in closing)
                    /\ \E t \in Workers : GetRecv(t, s, TRUE))
       /\ SF_vars((shut[s] \/ conn[s] \in closing)
                    /\ \E t \in Workers, zero \in BOOLEAN : GetSend(t, s, zero))
------------------------------------------------------------------------------
Labels == {"idle", "exited", "full", "popGate", "popTake", "init", "initFlag",
           "request", "join", "acquire", "enqueue", "sendSize", "sendFlag",
           "drain", "sendInc", "sendPost", "recvPacket", "recvInc", "recvPost",
           "sendReset", "discInc", "shutdown", "decrease", "claim", "close",
           "pushIndex", "pushCount"}

On(t, s, labels) == cur[t] = s /\ pc[t] \in labels

(* The references threads hold on session s. *)
Refs(s) == {r \in Threads \X Tokens : cur[r[1]] = s /\ r[2] \in held[r[1]]}

(* Reference accounting (net_server.cpp:378,495,532,557,572,594): IOCount is  *)
(* exactly the creation reference, plus one for each I/O in the kernel, plus  *)
(* one for each reference a thread has taken and not given back.  No path     *)
(* through an error or a completion forgets or doubles one.                   *)
RefCount ==
  \A s \in Slots :
    ioCount[s] = (IF s \in everInit THEN 1 ELSE 0) + recvs[s] + sends[s]
                 + Cardinality(Refs(s))

(* One OVERLAPPED for sends (session.h:27,30): at most one WSASend is pending *)
(* or being prepared on a session, and IOSend is raised while it is.          *)
Senders(s) == {t \in Threads : On(t, s, {"drain", "sendInc", "sendPost"})}
OneSend ==
  \A s \in Slots :
    /\ sends[s] + Cardinality(Senders(s)) <= 1
    /\ (sends[s] > 0 \/ Senders(s) # {}) => ioSend[s]

(* One OVERLAPPED and one consumer for the receive ring buffer (session.h:17, *)
(* 29): at most one WSARecv is pending, being processed or being issued.      *)
Receivers(s) == {t \in Threads : On(t, s, {"recvPacket", "recvInc", "recvPost"})}
Joining(s) == {t \in {Acceptor} :
                 cur[t] = s /\ (pc[t] \in {"join", "acquire", "enqueue"}
                                \/ "lock" \in held[t])}
OneRecv == \A s \in Slots :
  recvs[s] + Cardinality(Receivers(s)) + Cardinality(Joining(s)) <= 1

(* No deaf session (net_server.cpp:246,289-293,365): a joined session that is *)
(* not shut down has a WSARecv pending, or a thread that will post one or     *)
(* disconnect it.                                                             *)
Disconnecting(t, s) ==
  \/ On(t, s, {"discInc", "shutdown"})
  \/ cur[t] = s /\ held[t] \in {{"io"}, {"op", "io"}} /\ token[t] = "io"
NoDeafSession ==
  \A s \in joined :
    \/ shut[s] \/ recvs[s] > 0
    \/ Receivers(s) # {} \/ Joining(s) # {}
    \/ \E t \in Threads : Disconnecting(t, s)

(* Whatever index outside callers name, and whenever, a slot's index is never *)
(* on the stack, or on its way to or from it, more than twice: the release    *)
(* flag lets one initialisation give back one index (net_server.cpp:574).     *)
IndexCopies(s) ==
  free[s] + Cardinality({t \in Threads : On(t, s, {"close", "pushIndex"})})
          + Cardinality({t \in Threads : On(t, s, {"init", "initFlag"})})
IndexCopiesBounded ==
  \A s \in Slots : IndexCopies(s) + (IF released[s] THEN 0 ELSE 1) <= 2

(* A connection whose peer closed it is shut down by the server.              *)
PeerCloseNoticed ==
  \A s \in Slots : (s \in joined /\ conn[s] \in closing) ~> shut[s]

(* A session that was disconnected is released and its index returned         *)
(* (net_server.h:28, OnClientLeave, "after release").                         *)
DisconnectedReleased == \A s \in Slots : shut[s] ~> free[s] > 0
==============================================================================
