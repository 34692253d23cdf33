-------------------------- MODULE NetServerProofs --------------------------
(* Proofs about NetServer for any slots and threads: what holds whatever the  *)
(* outside callers do, and what holds as long as they name sessions that have *)
(* joined.                                                                    *)
EXTENDS NetServer, FiniteSetTheorems, TLAPS

(* Every variable has its type.                                               *)
TypeOK ==
  /\ ioCount \in [Slots -> Int]
  /\ released \in [Slots -> BOOLEAN] /\ ioSend \in [Slots -> BOOLEAN]
  /\ shut \in [Slots -> BOOLEAN] /\ conn \in [Slots -> Nat]
  /\ sendQ \in [Slots -> Nat]
  /\ open \subseteq Nat /\ closing \subseteq Nat /\ arrived \in Nat
  /\ recvs \in [Slots -> Nat] /\ sends \in [Slots -> Nat]
  /\ free \in [Slots -> Nat] /\ freeCount \in Int
  /\ pc \in [Threads -> Labels]
  /\ cur \in [Threads -> Slots \cup {NoSlot}]
  /\ held \in [Threads -> SUBSET Tokens]
  /\ token \in [Threads -> Tokens \cup {NoToken}]
  /\ calls \in Nat
  /\ joined \subseteq Slots /\ everInit \subseteq Slots

(* Where a thread is outside any call on a session, where the accept thread   *)
(* sets one up, and where a session is released.                              *)
Outside == {"idle", "exited", "full", "popGate", "popTake"}
Setup == {"init", "initFlag", "request", "join"}
Releasing == {"claim", "close", "pushIndex", "pushCount"}

(* Inside a call a thread has a session.                                      *)
OnSession == \A t \in Threads : pc[t] \notin Outside => cur[t] \in Slots

(* The reference under which a thread sends, and the one under which it       *)
(* receives or disconnects.                                                   *)
Own(t) == IF t \in Workers THEN {"op"} ELSE {"lock"}
Work(t) == IF t \in Workers THEN {"op"} ELSE {}

(* The references a thread holds at each place in the code, and the one       *)
(* DecreaseIOCount is giving back; no release ever starts.                    *)
HoldingAt(t) ==
  /\ pc[t] \in Outside => held[t] = {} /\ cur[t] = NoSlot
  /\ pc[t] \in Setup \cup {"full", "popGate", "popTake", "exited"} => held[t] = {} /\ t = Acceptor
  /\ pc[t] = "acquire" => held[t] = {} /\ t \notin Workers
  /\ pc[t] = "enqueue" => held[t] = {"lock"} /\ t \notin Workers
  /\ pc[t] \in {"sendSize", "sendFlag", "drain", "sendInc"} => held[t] = Own(t)
  /\ pc[t] = "sendPost" => held[t] = Own(t) \cup {"io"}
  /\ pc[t] \in {"recvPacket", "sendReset"} => held[t] = {"op"} /\ t \in Workers
  /\ pc[t] \in {"recvInc", "discInc"} => held[t] = Work(t) /\ t \notin Apps
  /\ pc[t] = "recvPost" => held[t] = Work(t) \cup {"io"} /\ t \notin Apps
  /\ pc[t] = "shutdown" => held[t] = Work(t) \cup {"disc"} /\ t \notin Apps
  /\ pc[t] = "decrease" =>
       \/ token[t] = "op" /\ held[t] = {"op"} /\ t \in Workers
       \/ token[t] = "lock" /\ held[t] = {"lock"} /\ t \notin Workers
       \/ token[t] = "io" /\ held[t] = Own(t) \cup {"io"}
       \/ token[t] = "io" /\ held[t] = {"io"} /\ t = Acceptor
       \/ token[t] = "disc" /\ held[t] = Work(t) \cup {"disc"} /\ t \notin Apps
  /\ pc[t] \notin Releasing
  /\ pc[t] \in Labels \ {"decrease", "discInc", "shutdown"} => token[t] # "io"

Holding == \A t \in Threads : HoldingAt(t)

(* A slot's index is on the stack, with the accept thread, or used up; until  *)
(* the session joins nobody but the accept thread is on it.                   *)
Fresh == \A s \in Slots :
  /\ free[s] + (IF s \in everInit THEN 1 ELSE 0)
             + (IF On(Acceptor, s, {"init"}) THEN 1 ELSE 0) <= 1
  /\ s \in joined => s \in everInit
  /\ s \notin joined =>
       /\ recvs[s] = 0 /\ sends[s] = 0
       /\ \A t \in Threads : cur[t] = s =>
            /\ t = Acceptor /\ pc[t] \in Setup \cup {"discInc", "shutdown", "decrease"}
            /\ pc[t] = "decrease" => token[t] = "disc"
  /\ On(Acceptor, s, Setup) => s \notin joined
  /\ \A t \in Threads : cur[t] = s => s \in everInit \/ pc[t] = "init"

NeverReleased == \A s \in Slots : ~released[s]

(* OneSend, with the thread that is about to lower IOSend.                    *)
Sending(s) == {t \in Threads : On(t, s, {"drain", "sendInc", "sendPost", "sendReset"})}
OneSender == \A s \in Slots :
  /\ sends[s] <= 1
  /\ sends[s] = 1 => Sending(s) = {}
  /\ \A t, u \in Sending(s) : t = u
  /\ sends[s] = 1 \/ Sending(s) # {} => ioSend[s]

(* OneRecv, one thread or one pending WSARecv.                                *)
Receiving(s) == Receivers(s) \cup Joining(s)
OneReceiver == \A s \in Slots :
  /\ recvs[s] <= 1
  /\ recvs[s] = 1 => Receiving(s) = {}
  /\ \A t, u \in Receiving(s) : t = u

(* NoDeafSession, one thread's share in it.                                   *)
Cared(t, s) == \/ shut[s] \/ recvs[s] > 0
               \/ t \in Receivers(s) \cup Joining(s) \/ Disconnecting(t, s)
(* All a thread can do next.                                                  *)
ThreadStep(t) == \/ Step(t)
                 \/ \E s \in Slots : SendPacket(t, s)
                 \/ \E s \in Slots, zero \in BOOLEAN : GetRecv(t, s, zero) \/ GetSend(t, s, zero)
-----------------------------------------------------------------------------
(* The references there can be are finitely many.                             *)
LEMMA RefsFinite ==
  ASSUME NEW s
  PROVE  /\ IsFiniteSet(Refs(s)) /\ Cardinality(Refs(s)) \in Nat
         /\ IsFiniteSet(Refs(s)') /\ Cardinality(Refs(s)') \in Nat
<1>1. IsFiniteSet(Threads)
  BY ThreadsAssumption, FS_Union, FS_Singleton DEF Threads
<1>2. IsFiniteSet(Tokens)
  <2>1. Tokens = {"op"} \cup ({"lock"} \cup ({"io"} \cup {"disc"}))
    BY DEF Tokens
  <2> QED BY <2>1, FS_Union, FS_Singleton
<1>3. IsFiniteSet(Threads \X Tokens)
  BY <1>1, <1>2, FS_Product
<1>4. Refs(s) \subseteq Threads \X Tokens /\ Refs(s)' \subseteq Threads \X Tokens
  BY DEF Refs
<1> QED BY <1>3, <1>4, FS_Subset, FS_CardinalityType

(* A thread with a reference keeps IOCount above zero.                        *)
LEMMA HasRef ==
  ASSUME TypeOK, RefCount, NEW t \in Threads, cur[t] \in everInit
  PROVE  /\ ioCount[cur[t]] >= 1
         /\ held[t] # {} => ioCount[cur[t]] >= 2
<1> DEFINE s == cur[t]
<1>1. s \in Slots /\ recvs[s] \in Nat /\ sends[s] \in Nat /\ held[t] \subseteq Tokens
  BY DEF TypeOK
<1>2. ioCount[s] = 1 + recvs[s] + sends[s] + Cardinality(Refs(s))
  BY <1>1 DEF RefCount
<1>3. Cardinality(Refs(s)) \in Nat
  BY RefsFinite
<1>4. ASSUME held[t] # {} PROVE Cardinality(Refs(s)) # 0
  <2>1. PICK k \in held[t] : TRUE
    BY <1>4
  <2>2. <<t, k>> \in Refs(s)
    BY <2>1, <1>1 DEF Refs
  <2> QED BY <2>2, RefsFinite, FS_EmptySet
<1> QED BY <1>1, <1>2, <1>3, <1>4

(* Where DecreaseIOCount goes on, reference by reference.                     *)
LEMMA Returns ==
  ASSUME NEW t \in Threads, Return(t)
  PROVE  /\ token[t] = "io" /\ "lock" \in held[t] => Drop(t, "lock")
         /\ token[t] = "io" /\ "lock" \notin held[t] => Goto(t, "discInc")
         /\ token[t] = "lock" => IF t = Acceptor THEN Goto(t, "recvInc") ELSE Finish(t)
         /\ token[t] = "disc" => IF t \in Workers THEN Drop(t, "op") ELSE Finish(t)
         /\ token[t] = "op" => Finish(t)
<1>1. CASE token[t] = "io"
  BY <1>1 DEF Return
<1>2. CASE token[t] = "lock"
  BY <1>2 DEF Return
<1>3. CASE token[t] = "disc"
  BY <1>3 DEF Return
<1>4. CASE token[t] = "op"
  BY <1>4 DEF Return
<1> QED BY <1>1, <1>2, <1>3, <1>4


(* A step of one thread leaves what the others know as it is.                 *)
LEMMA OthersStay ==
  ASSUME TypeOK,
         NEW t \in Threads, ThreadStep(t)
  PROVE  \A u \in Threads \ {t} :
           /\ pc'[u] = pc[u] /\ cur'[u] = cur[u]
           /\ held'[u] = held[u] /\ token'[u] = token[u]
<1> USE DEF TypeOK, At, session, kernel, stack, aux, thread
<1>1. CASE Accept(t) BY <1>1 DEF Accept, Goto
<1>2. CASE RefuseFull(t) BY <1>2 DEF RefuseFull, Finish
<1>3. CASE NotFull(t) BY <1>3 DEF NotFull, Goto
<1>4. CASE PopGate(t) BY <1>4 DEF PopGate, Goto
<1>5. CASE PopTake(t) BY <1>5 DEF PopTake
<1>6. CASE InitSession(t) BY <1>6 DEF InitSession, Goto
<1>7. CASE InitSocket(t) BY <1>7 DEF InitSocket, Goto
<1>8. CASE RefuseClient(t) BY <1>8 DEF RefuseClient, Finish
<1>9. CASE Associate(t) BY <1>9 DEF Associate, Goto
<1>10. CASE Join(t) BY <1>10 DEF Join, Goto
<1>11. CASE AcquireLock(t) BY <1>11 DEF AcquireLock, Goto, Drop, Take
<1>12. CASE Enqueue(t) BY <1>12 DEF Enqueue, Goto
<1>13. CASE SendSize(t) BY <1>13 DEF SendSize, Goto, Drop, PostDone, Finish
<1>14. CASE SendFlag(t) BY <1>14 DEF SendFlag, Goto, Drop, PostDone, Finish
<1>15. CASE Drain(t) BY <1>15 DEF Drain, Goto, Drop, PostDone, Finish
<1>16. CASE SendInc(t) BY <1>16 DEF SendInc, Goto, Take
<1>17. CASE WSASend(t) BY <1>17 DEF WSASend, Goto, Drop, PostDone, Finish
<1>18. CASE RecvPacket(t) BY <1>18 DEF RecvPacket, Goto
<1>19. CASE RecvInc(t) BY <1>19 DEF RecvInc, Goto, Take
<1>20. CASE WSARecv(t) BY <1>20 DEF WSARecv, Goto, Drop, PostDone, Finish
<1>21. CASE SendReset(t) BY <1>21 DEF SendReset, Goto
<1>22. CASE DiscInc(t) BY <1>22 DEF DiscInc, Goto, Drop, Take
<1>23. CASE Shutdown(t) BY <1>23 DEF Shutdown, Drop
<1>24. CASE Decrease(t) BY <1>24 DEF Decrease, Goto, Drop, Return, Finish
<1>25. CASE Claim(t) BY <1>25 DEF Claim, Goto, Drop, Return, Finish
<1>26. CASE CloseSocket(t) BY <1>26 DEF CloseSocket, Goto
<1>27. CASE PushIndex(t) BY <1>27 DEF PushIndex, Goto
<1>28. CASE PushCount(t) BY <1>28 DEF PushCount, Goto, Drop, Return, Finish
<1>29. ASSUME NEW s \in Slots, SendPacket(t, s)
       PROVE \A u \in Threads \ {t} :
           /\ pc'[u] = pc[u] /\ cur'[u] = cur[u]
           /\ held'[u] = held[u] /\ token'[u] = token[u]
  BY <1>29 DEF SendPacket
<1>30. ASSUME NEW s \in Slots, NEW zero \in BOOLEAN, GetRecv(t, s, zero)
       PROVE \A u \in Threads \ {t} :
           /\ pc'[u] = pc[u] /\ cur'[u] = cur[u]
           /\ held'[u] = held[u] /\ token'[u] = token[u]
  BY <1>30 DEF GetRecv
<1>31. ASSUME NEW s \in Slots, NEW zero \in BOOLEAN, GetSend(t, s, zero)
       PROVE \A u \in Threads \ {t} :
           /\ pc'[u] = pc[u] /\ cur'[u] = cur[u]
           /\ held'[u] = held[u] /\ token'[u] = token[u]
  BY <1>31 DEF GetSend
<1> QED
  BY <1>1, <1>2, <1>3, <1>4, <1>5, <1>6, <1>7, <1>8, <1>9, <1>10, <1>11,
     <1>12, <1>13, <1>14, <1>15, <1>16, <1>17, <1>18, <1>19, <1>20, <1>21, <1>22,
     <1>23, <1>24, <1>25, <1>26, <1>27, <1>28, <1>29, <1>30, <1>31
  DEF ThreadStep, Step, AcceptStep, SendStep, RecvStep, ReleaseStep

(* Whatever outside callers do.                                               *)
LEMMA TypeStep ==
  ASSUME TypeOK, OnSession,
         NEW t \in Threads, ThreadStep(t)
  PROVE  TypeOK' /\ OnSession'
<1> USE SlotsAssumption
    DEF TypeOK, OnSession, Outside, At, Tokens, Labels, session, kernel, stack, aux, thread
<1>1. CASE Accept(t) BY <1>1 DEF Accept, Goto
<1>2. CASE RefuseFull(t) BY <1>2 DEF RefuseFull, Finish
<1>3. CASE NotFull(t) BY <1>3 DEF NotFull, Goto
<1>4. CASE PopGate(t) BY <1>4 DEF PopGate, Goto
<1>5. CASE PopTake(t) BY <1>5 DEF PopTake
<1>6. CASE InitSession(t) BY <1>6 DEF InitSession, Goto
<1>7. CASE InitSocket(t) BY <1>7 DEF InitSocket, Goto
<1>8. CASE RefuseClient(t) BY <1>8 DEF RefuseClient, Finish
<1>9. CASE Associate(t) BY <1>9 DEF Associate, Goto
<1>10. CASE Join(t) BY <1>10 DEF Join, Goto
<1>11. CASE AcquireLock(t) BY <1>11 DEF AcquireLock, Goto, Drop, Take
<1>12. CASE Enqueue(t) BY <1>12 DEF Enqueue, Goto
<1>13. CASE SendSize(t) BY <1>13 DEF SendSize, Goto, Drop, PostDone, Finish
<1>14. CASE SendFlag(t) BY <1>14 DEF SendFlag, Goto, Drop, PostDone, Finish
<1>15. CASE Drain(t)
  <2>1. \A n \in 0 .. sendQ[cur[t]] - 1 : n \in Nat
    OBVIOUS
  <2>2. sendQ' \in [Slots -> Nat]
    BY <1>15, <2>1 DEF Drain
  <2>3. ioSend' \in [Slots -> BOOLEAN]
    BY <1>15 DEF Drain
  <2>4. /\ pc' \in [Threads -> Labels] /\ cur' \in [Threads -> Slots \cup {NoSlot}]
        /\ token' \in [Threads -> Tokens \cup {NoToken}] /\ OnSession'
    BY <1>15 DEF Drain, Goto, Drop, PostDone, Finish
  <2> QED BY <1>15, <2>2, <2>3, <2>4 DEF Drain
<1>16. CASE SendInc(t) BY <1>16 DEF SendInc, Goto, Take
<1>17. CASE WSASend(t) BY <1>17 DEF WSASend, Goto, Drop, PostDone, Finish
<1>18. CASE RecvPacket(t) BY <1>18 DEF RecvPacket, Goto
<1>19. CASE RecvInc(t) BY <1>19 DEF RecvInc, Goto, Take
<1>20. CASE WSARecv(t) BY <1>20 DEF WSARecv, Goto, Drop, PostDone, Finish
<1>21. CASE SendReset(t) BY <1>21 DEF SendReset, Goto
<1>22. CASE DiscInc(t) BY <1>22 DEF DiscInc, Goto, Drop, Take
<1>23. CASE Shutdown(t) BY <1>23 DEF Shutdown, Drop
<1>24. CASE Decrease(t) BY <1>24 DEF Decrease, Goto, Drop, Return, Finish
<1>25. CASE Claim(t) BY <1>25 DEF Claim, Goto, Drop, Return, Finish
<1>26. CASE CloseSocket(t) BY <1>26 DEF CloseSocket, Goto
<1>27. CASE PushIndex(t) BY <1>27 DEF PushIndex, Goto
<1>28. CASE PushCount(t) BY <1>28 DEF PushCount, Goto, Drop, Return, Finish
<1>29. ASSUME NEW s \in Slots, SendPacket(t, s) PROVE TypeOK' /\ OnSession'
  BY <1>29 DEF SendPacket
<1>30. ASSUME NEW s \in Slots, NEW zero \in BOOLEAN, GetRecv(t, s, zero)
       PROVE TypeOK' /\ OnSession'
  BY <1>30 DEF GetRecv
<1>31. ASSUME NEW s \in Slots, NEW zero \in BOOLEAN, GetSend(t, s, zero)
       PROVE TypeOK' /\ OnSession'
  BY <1>31 DEF GetSend
<1> QED
  BY <1>1, <1>2, <1>3, <1>4, <1>5, <1>6, <1>7, <1>8, <1>9, <1>10, <1>11,
     <1>12, <1>13, <1>14, <1>15, <1>16, <1>17, <1>18, <1>19, <1>20, <1>21, <1>22,
     <1>23, <1>24, <1>25, <1>26, <1>27, <1>28, <1>29, <1>30, <1>31
  DEF ThreadStep, Step, AcceptStep, SendStep, RecvStep, ReleaseStep

(* While callers name joined sessions: DecreaseIOCount never reaches zero, so *)
(* no step leads to the release of a session.                                 *)
LEMMA HoldingSelf ==
  ASSUME ~StaleCalls, TypeOK, OnSession, Holding, Fresh, RefCount,
         NEW t \in Threads, ThreadStep(t)
  PROVE  HoldingAt(t)'
<1> USE SlotsAssumption, ThreadsAssumption, TokensAssumption
    DEF TypeOK, OnSession, Holding, HoldingAt, Own, Work, Outside, Setup, Releasing,
        At, Tokens, Labels, Threads, session, kernel, stack, aux, thread
<1>1. CASE Accept(t) BY <1>1 DEF Accept, Goto
<1>2. CASE RefuseFull(t) BY <1>2 DEF RefuseFull, Finish
<1>3. CASE NotFull(t) BY <1>3 DEF NotFull, Goto
<1>4. CASE PopGate(t) BY <1>4 DEF PopGate, Goto
<1>5. CASE PopTake(t) BY <1>5 DEF PopTake
<1>6. CASE InitSession(t) BY <1>6 DEF InitSession, Goto
<1>7. CASE InitSocket(t) BY <1>7 DEF InitSocket, Goto
<1>8. CASE RefuseClient(t) BY <1>8 DEF RefuseClient, Finish
<1>9. CASE Associate(t) BY <1>9 DEF Associate, Goto
<1>10. CASE Join(t) BY <1>10 DEF Join, Goto
<1>11. CASE AcquireLock(t) BY <1>11 DEF AcquireLock, Goto, Drop, Take
<1>12. CASE Enqueue(t) BY <1>12 DEF Enqueue, Goto
<1>13. CASE SendSize(t) BY <1>13 DEF SendSize, Goto, Drop, PostDone, Finish
<1>14. CASE SendFlag(t) BY <1>14 DEF SendFlag, Goto, Drop, PostDone, Finish
<1>15. CASE Drain(t) BY <1>15 DEF Drain, Goto, Drop, PostDone, Finish
<1>16. CASE SendInc(t) BY <1>16 DEF SendInc, Goto, Take
<1>17. CASE WSASend(t) BY <1>17 DEF WSASend, Goto, Drop, PostDone, Finish
<1>18. CASE RecvPacket(t) BY <1>18 DEF RecvPacket, Goto
<1>19. CASE RecvInc(t) BY <1>19 DEF RecvInc, Goto, Take
<1>20. CASE WSARecv(t) BY <1>20 DEF WSARecv, Goto, Drop, PostDone, Finish
<1>21. CASE SendReset(t) BY <1>21 DEF SendReset, Goto
<1>22. CASE DiscInc(t) BY <1>22 DEF DiscInc, Goto, Drop, Take
<1>23. CASE Shutdown(t) BY <1>23 DEF Shutdown, Drop
<1>24. CASE Decrease(t)
  <2>1. cur[t] \in everInit /\ token[t] \in held[t]
    BY <1>24 DEF Decrease, Fresh
  <2>2. ioCount[cur[t]] >= 2
    BY <2>1, HasRef
  <2>3. Return(t) /\ held' = [held EXCEPT ![t] = held[t] \ {token[t]}]
    BY <1>24, <2>2 DEF Decrease
  <2>4. held'[t] = held[t] \ {token[t]} /\ pc[t] = "decrease"
    BY <1>24, <2>3 DEF Decrease
  <2>5. CASE token[t] = "op" /\ held[t] = {"op"} /\ t \in Workers
    BY <2>3, <2>4, <2>5, Returns DEF Finish
  <2>6. CASE token[t] = "lock" /\ held[t] = {"lock"} /\ t \notin Workers
    BY <2>3, <2>4, <2>6, Returns DEF Finish, Goto
  <2>7. CASE token[t] = "io" /\ held[t] = Own(t) \cup {"io"}
    <3>1. CASE t \in Workers
      <4>1. "lock" \notin held[t] /\ held'[t] = {"op"}
        BY <3>1, <2>4, <2>7
      <4> QED BY <3>1, <4>1, <2>3, <2>7, Returns DEF Goto
    <3>2. CASE t \notin Workers
      <4>1. "lock" \in held[t] /\ held'[t] = {"lock"}
        BY <3>2, <2>4, <2>7
      <4> QED BY <3>2, <4>1, <2>3, <2>7, Returns DEF Drop
    <3> QED BY <3>1, <3>2
  <2>8. CASE token[t] = "io" /\ held[t] = {"io"} /\ t = Acceptor
    BY <2>3, <2>4, <2>8, Returns DEF Drop, Goto
  <2>9. CASE token[t] = "disc" /\ held[t] = Work(t) \cup {"disc"} /\ t \notin Apps
    BY <2>3, <2>4, <2>9, Returns DEF Drop, Finish
  <2> QED BY <2>4, <2>5, <2>6, <2>7, <2>8, <2>9
<1>25. CASE Claim(t) BY <1>25 DEF Claim, Goto, Drop, Return, Finish
<1>26. CASE CloseSocket(t) BY <1>26 DEF CloseSocket, Goto
<1>27. CASE PushIndex(t) BY <1>27 DEF PushIndex, Goto
<1>28. CASE PushCount(t) BY <1>28 DEF PushCount, Goto, Drop, Return, Finish
<1>29. ASSUME NEW s \in Slots, SendPacket(t, s) PROVE HoldingAt(t)'
  BY <1>29 DEF SendPacket
<1>30. ASSUME NEW s \in Slots, NEW zero \in BOOLEAN, GetRecv(t, s, zero)
       PROVE HoldingAt(t)'
  BY <1>30 DEF GetRecv
<1>31. ASSUME NEW s \in Slots, NEW zero \in BOOLEAN, GetSend(t, s, zero)
       PROVE HoldingAt(t)'
  BY <1>31 DEF GetSend
<1> QED
  BY <1>1, <1>2, <1>3, <1>4, <1>5, <1>6, <1>7, <1>8, <1>9, <1>10, <1>11,
     <1>12, <1>13, <1>14, <1>15, <1>16, <1>17, <1>18, <1>19, <1>20, <1>21, <1>22,
     <1>23, <1>24, <1>25, <1>26, <1>27, <1>28, <1>29, <1>30, <1>31
  DEF ThreadStep, Step, AcceptStep, SendStep, RecvStep, ReleaseStep

(* An index is taken once, and its session is left to the accept thread.      *)
LEMMA FreshStep ==
  ASSUME ~StaleCalls, TypeOK, OnSession, Holding, Fresh, TypeOK', Holding',
         NEW t \in Threads, ThreadStep(t)
  PROVE  Fresh'
<1> USE SlotsAssumption, ThreadsAssumption
    DEF TypeOK, OnSession, Holding, HoldingAt, Fresh, On, Outside, Setup, Releasing,
        At, Threads, session, kernel, stack, aux, thread
<1>1. CASE Accept(t) BY <1>1 DEF Accept, Goto
<1>2. CASE RefuseFull(t) BY <1>2 DEF RefuseFull, Finish
<1>3. CASE NotFull(t) BY <1>3 DEF NotFull, Goto
<1>4. CASE PopGate(t) BY <1>4 DEF PopGate, Goto
<1>5. CASE PopTake(t) BY <1>5 DEF PopTake
<1>6. CASE InitSession(t) BY <1>6 DEF InitSession, Goto
<1>7. CASE InitSocket(t) BY <1>7 DEF InitSocket, Goto
<1>8. CASE RefuseClient(t) BY <1>8 DEF RefuseClient, Finish
<1>9. CASE Associate(t) BY <1>9 DEF Associate, Goto
<1>10. CASE Join(t) BY <1>10 DEF Join, Goto
<1>11. CASE AcquireLock(t) BY <1>11 DEF AcquireLock, Goto, Drop, Take
<1>12. CASE Enqueue(t) BY <1>12 DEF Enqueue, Goto
<1>13. CASE SendSize(t) BY <1>13 DEF SendSize, Goto, Drop, PostDone, Finish
<1>14. CASE SendFlag(t) BY <1>14 DEF SendFlag, Goto, Drop, PostDone, Finish
<1>15. CASE Drain(t) BY <1>15 DEF Drain, Goto, Drop, PostDone, Finish
<1>16. CASE SendInc(t) BY <1>16 DEF SendInc, Goto, Take
<1>17. CASE WSASend(t) BY <1>17 DEF WSASend, Goto, Drop, PostDone, Finish
<1>18. CASE RecvPacket(t) BY <1>18 DEF RecvPacket, Goto
<1>19. CASE RecvInc(t) BY <1>19 DEF RecvInc, Goto, Take
<1>20. CASE WSARecv(t) BY <1>20 DEF WSARecv, Goto, Drop, PostDone, Finish
<1>21. CASE SendReset(t) BY <1>21 DEF SendReset, Goto
<1>22. CASE DiscInc(t) BY <1>22 DEF DiscInc, Goto, Drop, Take
<1>23. CASE Shutdown(t) BY <1>23 DEF Shutdown, Drop
<1>24. CASE Decrease(t)
  <2>1. pc' \in [Threads -> Labels] /\ pc'[t] # "claim"
    OBVIOUS
  <2>2. Return(t)
    BY <1>24, <2>1 DEF Decrease, Goto
  <2> QED BY <1>24, <2>2, Returns DEF Decrease, Goto, Drop, Finish
<1>25. CASE Claim(t) BY <1>25 DEF Claim, Goto, Drop, Return, Finish
<1>26. CASE CloseSocket(t) BY <1>26 DEF CloseSocket, Goto
<1>27. CASE PushIndex(t) BY <1>27 DEF PushIndex, Goto
<1>28. CASE PushCount(t) BY <1>28 DEF PushCount, Goto, Drop, Return, Finish
<1>29. ASSUME NEW s \in Slots, SendPacket(t, s) PROVE Fresh'
  BY <1>29 DEF SendPacket
<1>30. ASSUME NEW s \in Slots, NEW zero \in BOOLEAN, GetRecv(t, s, zero)
       PROVE Fresh'
  BY <1>30 DEF GetRecv
<1>31. ASSUME NEW s \in Slots, NEW zero \in BOOLEAN, GetSend(t, s, zero)
       PROVE Fresh'
  BY <1>31 DEF GetSend
<1> QED
  BY <1>1, <1>2, <1>3, <1>4, <1>5, <1>6, <1>7, <1>8, <1>9, <1>10, <1>11,
     <1>12, <1>13, <1>14, <1>15, <1>16, <1>17, <1>18, <1>19, <1>20, <1>21, <1>22,
     <1>23, <1>24, <1>25, <1>26, <1>27, <1>28, <1>29, <1>30, <1>31
  DEF ThreadStep, Step, AcceptStep, SendStep, RecvStep, ReleaseStep

(* Only who raises IOSend sends, and only who had it raised lowers it.        *)
LEMMA OneSenderStep ==
  ASSUME TypeOK, OnSession, Holding, Fresh, OneSender,
         NEW t \in Threads, ThreadStep(t)
  PROVE  OneSender'
<1> USE SlotsAssumption, ThreadsAssumption
    DEF TypeOK, OnSession, Holding, HoldingAt, Fresh, OneSender, Sending, On, Outside,
        Setup, Releasing, At, Threads, session, kernel, stack, aux, thread
<1>1. CASE Accept(t) BY <1>1 DEF Accept, Goto
<1>2. CASE RefuseFull(t) BY <1>2 DEF RefuseFull, Finish
<1>3. CASE NotFull(t) BY <1>3 DEF NotFull, Goto
<1>4. CASE PopGate(t) BY <1>4 DEF PopGate, Goto
<1>5. CASE PopTake(t) BY <1>5 DEF PopTake
<1>6. CASE InitSession(t) BY <1>6 DEF InitSession, Goto
<1>7. CASE InitSocket(t) BY <1>7 DEF InitSocket, Goto
<1>8. CASE RefuseClient(t) BY <1>8 DEF RefuseClient, Finish
<1>9. CASE Associate(t) BY <1>9 DEF Associate, Goto
<1>10. CASE Join(t) BY <1>10 DEF Join, Goto
<1>11. CASE AcquireLock(t) BY <1>11 DEF AcquireLock, Goto, Drop, Take
<1>12. CASE Enqueue(t) BY <1>12 DEF Enqueue, Goto
<1>13. CASE SendSize(t) BY <1>13 DEF SendSize, Goto, Drop, PostDone, Finish
<1>14. CASE SendFlag(t) BY <1>14 DEF SendFlag, Goto, Drop, PostDone, Finish
<1>15. CASE Drain(t) BY <1>15 DEF Drain, Goto, Drop, PostDone, Finish
<1>16. CASE SendInc(t) BY <1>16 DEF SendInc, Goto, Take
<1>17. CASE WSASend(t) BY <1>17 DEF WSASend, Goto, Drop, PostDone, Finish
<1>18. CASE RecvPacket(t) BY <1>18 DEF RecvPacket, Goto
<1>19. CASE RecvInc(t) BY <1>19 DEF RecvInc, Goto, Take
<1>20. CASE WSARecv(t) BY <1>20 DEF WSARecv, Goto, Drop, PostDone, Finish
<1>21. CASE SendReset(t) BY <1>21 DEF SendReset, Goto
<1>22. CASE DiscInc(t) BY <1>22 DEF DiscInc, Goto, Drop, Take
<1>23. CASE Shutdown(t) BY <1>23 DEF Shutdown, Drop
<1>24. CASE Decrease(t) BY <1>24 DEF Decrease, Goto, Drop, Return, Finish
<1>25. CASE Claim(t) BY <1>25 DEF Claim, Goto, Drop, Return, Finish
<1>26. CASE CloseSocket(t) BY <1>26 DEF CloseSocket, Goto
<1>27. CASE PushIndex(t) BY <1>27 DEF PushIndex, Goto
<1>28. CASE PushCount(t) BY <1>28 DEF PushCount, Goto, Drop, Return, Finish
<1>29. ASSUME NEW s \in Slots, SendPacket(t, s) PROVE OneSender'
  BY <1>29 DEF SendPacket
<1>30. ASSUME NEW s \in Slots, NEW zero \in BOOLEAN, GetRecv(t, s, zero)
       PROVE OneSender'
  BY <1>30 DEF GetRecv
<1>31. ASSUME NEW s \in Slots, NEW zero \in BOOLEAN, GetSend(t, s, zero)
       PROVE OneSender'
  BY <1>31 DEF GetSend
<1> QED
  BY <1>1, <1>2, <1>3, <1>4, <1>5, <1>6, <1>7, <1>8, <1>9, <1>10, <1>11,
     <1>12, <1>13, <1>14, <1>15, <1>16, <1>17, <1>18, <1>19, <1>20, <1>21, <1>22,
     <1>23, <1>24, <1>25, <1>26, <1>27, <1>28, <1>29, <1>30, <1>31
  DEF ThreadStep, Step, AcceptStep, SendStep, RecvStep, ReleaseStep

(* The right to post the next WSARecv passes from hand to hand.               *)
LEMMA OneReceiverStep ==
  ASSUME ~StaleCalls, TypeOK, OnSession, Holding, Fresh, OneReceiver,
         NEW t \in Threads, ThreadStep(t)
  PROVE  OneReceiver'
<1> USE SlotsAssumption, ThreadsAssumption
    DEF TypeOK, OnSession, Holding, HoldingAt, Fresh, OneReceiver, Receiving, Receivers,
        Joining, On, Own, Work, Outside, Setup, Releasing, At, Threads,
        session, kernel, stack, aux, thread
<1>1. CASE Accept(t) BY <1>1 DEF Accept, Goto
<1>2. CASE RefuseFull(t) BY <1>2 DEF RefuseFull, Finish
<1>3. CASE NotFull(t) BY <1>3 DEF NotFull, Goto
<1>4. CASE PopGate(t) BY <1>4 DEF PopGate, Goto
<1>5. CASE PopTake(t) BY <1>5 DEF PopTake
<1>6. CASE InitSession(t) BY <1>6 DEF InitSession, Goto
<1>7. CASE InitSocket(t) BY <1>7 DEF InitSocket, Goto
<1>8. CASE RefuseClient(t) BY <1>8 DEF RefuseClient, Finish
<1>9. CASE Associate(t) BY <1>9 DEF Associate, Goto
<1>10. CASE Join(t) BY <1>10 DEF Join, Goto
<1>11. CASE AcquireLock(t) BY <1>11 DEF AcquireLock, Goto, Drop, Take
<1>12. CASE Enqueue(t) BY <1>12 DEF Enqueue, Goto
<1>13. CASE SendSize(t) BY <1>13 DEF SendSize, Goto, Drop, PostDone, Finish
<1>14. CASE SendFlag(t) BY <1>14 DEF SendFlag, Goto, Drop, PostDone, Finish
<1>15. CASE Drain(t) BY <1>15 DEF Drain, Goto, Drop, PostDone, Finish
<1>16. CASE SendInc(t) BY <1>16 DEF SendInc, Goto, Take
<1>17. CASE WSASend(t) BY <1>17 DEF WSASend, Goto, Drop, PostDone, Finish
<1>18. CASE RecvPacket(t) BY <1>18 DEF RecvPacket, Goto
<1>19. CASE RecvInc(t) BY <1>19 DEF RecvInc, Goto, Take
<1>20. CASE WSARecv(t) BY <1>20 DEF WSARecv, Goto, Drop, PostDone, Finish
<1>21. CASE SendReset(t) BY <1>21 DEF SendReset, Goto
<1>22. CASE DiscInc(t) BY <1>22 DEF DiscInc, Goto, Drop, Take
<1>23. CASE Shutdown(t) BY <1>23 DEF Shutdown, Drop
<1>24. CASE Decrease(t) BY <1>24 DEF Decrease, Goto, Drop, Return, Finish
<1>25. CASE Claim(t) BY <1>25 DEF Claim, Goto, Drop, Return, Finish
<1>26. CASE CloseSocket(t) BY <1>26 DEF CloseSocket, Goto
<1>27. CASE PushIndex(t) BY <1>27 DEF PushIndex, Goto
<1>28. CASE PushCount(t) BY <1>28 DEF PushCount, Goto, Drop, Return, Finish
<1>29. ASSUME NEW s \in Slots, SendPacket(t, s) PROVE OneReceiver'
  BY <1>29 DEF SendPacket
<1>30. ASSUME NEW s \in Slots, NEW zero \in BOOLEAN, GetRecv(t, s, zero)
       PROVE OneReceiver'
  BY <1>30 DEF GetRecv
<1>31. ASSUME NEW s \in Slots, NEW zero \in BOOLEAN, GetSend(t, s, zero)
       PROVE OneReceiver'
  BY <1>31 DEF GetSend
<1> QED
  BY <1>1, <1>2, <1>3, <1>4, <1>5, <1>6, <1>7, <1>8, <1>9, <1>10, <1>11,
     <1>12, <1>13, <1>14, <1>15, <1>16, <1>17, <1>18, <1>19, <1>20, <1>21, <1>22,
     <1>23, <1>24, <1>25, <1>26, <1>27, <1>28, <1>29, <1>30, <1>31
  DEF ThreadStep, Step, AcceptStep, SendStep, RecvStep, ReleaseStep

(* A thread that cares for a session does not drop it.                        *)
LEMMA CaredSelf ==
  ASSUME ~StaleCalls, TypeOK, OnSession, Holding, Holding', Fresh, OneReceiver, RefCount,
         NEW r \in joined,
         NEW t \in Threads, ThreadStep(t)
  PROVE  Cared(t, r) => Cared(t, r)'
<1> USE SlotsAssumption, ThreadsAssumption
    DEF TypeOK, OnSession, Holding, HoldingAt, Fresh, Cared, Disconnecting,
        Receivers, Joining, On, Own, Work, Outside, Setup, Releasing, At, Threads,
        session, kernel, stack, aux, thread
<1>1. CASE Accept(t) BY <1>1 DEF Accept, Goto
<1>2. CASE RefuseFull(t) BY <1>2 DEF RefuseFull, Finish
<1>3. CASE NotFull(t) BY <1>3 DEF NotFull, Goto
<1>4. CASE PopGate(t) BY <1>4 DEF PopGate, Goto
<1>5. CASE PopTake(t) BY <1>5 DEF PopTake
<1>6. CASE InitSession(t) BY <1>6 DEF InitSession, Goto
<1>7. CASE InitSocket(t) BY <1>7 DEF InitSocket, Goto
<1>8. CASE RefuseClient(t) BY <1>8 DEF RefuseClient, Finish
<1>9. CASE Associate(t) BY <1>9 DEF Associate, Goto
<1>10. CASE Join(t) BY <1>10 DEF Join, Goto
<1>11. CASE AcquireLock(t) BY <1>11 DEF AcquireLock, Goto, Drop, Take
<1>12. CASE Enqueue(t) BY <1>12 DEF Enqueue, Goto
<1>13. CASE SendSize(t) BY <1>13 DEF SendSize, Goto, Drop, PostDone, Finish
<1>14. CASE SendFlag(t) BY <1>14 DEF SendFlag, Goto, Drop, PostDone, Finish
<1>15. CASE Drain(t) BY <1>15 DEF Drain, Goto, Drop, PostDone, Finish
<1>16. CASE SendInc(t) BY <1>16 DEF SendInc, Goto, Take
<1>17. CASE WSASend(t) BY <1>17 DEF WSASend, Goto, Drop, PostDone, Finish
<1>18. CASE RecvPacket(t) BY <1>18 DEF RecvPacket, Goto
<1>19. CASE RecvInc(t) BY <1>19 DEF RecvInc, Goto, Take
<1>20. CASE WSARecv(t) BY <1>20 DEF WSARecv, Goto, Drop, PostDone, Finish
<1>21. CASE SendReset(t) BY <1>21 DEF SendReset, Goto
<1>22. CASE DiscInc(t)
  <2>1. ioCount[cur[t]] # 0
    BY <1>22, HasRef DEF DiscInc
  <2> QED BY <1>22, <2>1 DEF DiscInc, Take, Goto
<1>23. CASE Shutdown(t) BY <1>23 DEF Shutdown, Drop
<1>24. CASE Decrease(t) BY <1>24 DEF Decrease, Goto, Drop, Return, Finish
<1>25. CASE Claim(t) BY <1>25 DEF Claim, Goto, Drop, Return, Finish
<1>26. CASE CloseSocket(t) BY <1>26 DEF CloseSocket, Goto
<1>27. CASE PushIndex(t) BY <1>27 DEF PushIndex, Goto
<1>28. CASE PushCount(t) BY <1>28 DEF PushCount, Goto, Drop, Return, Finish
<1>29. ASSUME NEW s \in Slots, SendPacket(t, s)
       PROVE Cared(t, r) => Cared(t, r)'
  BY <1>29 DEF SendPacket
<1>30. ASSUME NEW s \in Slots, NEW zero \in BOOLEAN, GetRecv(t, s, zero)
       PROVE Cared(t, r) => Cared(t, r)'
  BY <1>30 DEF GetRecv
<1>31. ASSUME NEW s \in Slots, NEW zero \in BOOLEAN, GetSend(t, s, zero)
       PROVE Cared(t, r) => Cared(t, r)'
  BY <1>31 DEF GetSend
<1> QED
  BY <1>1, <1>2, <1>3, <1>4, <1>5, <1>6, <1>7, <1>8, <1>9, <1>10, <1>11,
     <1>12, <1>13, <1>14, <1>15, <1>16, <1>17, <1>18, <1>19, <1>20, <1>21, <1>22,
     <1>23, <1>24, <1>25, <1>26, <1>27, <1>28, <1>29, <1>30, <1>31
  DEF ThreadStep, Step, AcceptStep, SendStep, RecvStep, ReleaseStep

(* How the references on each session change with those of one thread.        *)
OneMoves(t) == \A u \in Threads \ {t} : cur'[u] = cur[u] /\ held'[u] = held[u]

LEMMA RefsSame ==
  ASSUME NEW t \in Threads, OneMoves(t), held'[t] = held[t],
         cur'[t] = cur[t] \/ held[t] = {}, NEW s
  PROVE  Refs(s)' = Refs(s)
BY DEF Refs, OneMoves

LEMMA RefTaken ==
  ASSUME NEW t \in Threads, OneMoves(t), NEW k \in Tokens \ held[t],
         held'[t] = held[t] \cup {k}, cur'[t] = cur[t] \/ held[t] = {}, NEW s
  PROVE  Cardinality(Refs(s)') = Cardinality(Refs(s)) + (IF s = cur'[t] THEN 1 ELSE 0)
<1>1. CASE s = cur'[t]
  <2>1. Refs(s)' = Refs(s) \cup {<<t, k>>}
    BY <1>1 DEF Refs, OneMoves
  <2>2. <<t, k>> \notin Refs(s)
    BY DEF Refs
  <2>3. Cardinality(Refs(s) \cup {<<t, k>>}) = Cardinality(Refs(s)) + 1
    BY <2>2, RefsFinite, FS_AddElement
  <2> QED BY <1>1, <2>1, <2>3
<1>2. CASE s # cur'[t]
  <2>1. Refs(s)' = Refs(s)
    BY <1>2 DEF Refs, OneMoves
  <2> QED BY <1>2, <2>1, RefsFinite
<1> QED BY <1>1, <1>2

LEMMA RefDropped ==
  ASSUME NEW t \in Threads, OneMoves(t), NEW k \in Tokens, k \in held[t],
         held'[t] = held[t] \ {k}, cur'[t] = cur[t] \/ held'[t] = {}, NEW s
  PROVE  Cardinality(Refs(s)) = Cardinality(Refs(s)') + (IF s = cur[t] THEN 1 ELSE 0)
<1>1. CASE s = cur[t]
  <2>1. Refs(s) = Refs(s)' \cup {<<t, k>>}
    BY <1>1 DEF Refs, OneMoves
  <2>2. <<t, k>> \notin Refs(s)'
    BY DEF Refs
  <2>3. Cardinality(Refs(s)' \cup {<<t, k>>}) = Cardinality(Refs(s)') + 1
    BY <2>2, RefsFinite, FS_AddElement
  <2> QED BY <1>1, <2>1, <2>3
<1>2. CASE s # cur[t]
  <2>1. Refs(s)' = Refs(s)
    BY <1>2 DEF Refs, OneMoves
  <2> QED BY <1>2, <2>1, RefsFinite
<1> QED BY <1>1, <1>2

(* What the steps do to the references, one kind after the other.             *)
Keeps(t) == /\ UNCHANGED <<ioCount, recvs, sends, everInit, held>>
            /\ cur'[t] = cur[t] \/ held[t] = {}
Takes(t, k) == /\ k \in Tokens \ held[t] /\ held'[t] = held[t] \cup {k}
               /\ cur[t] \in Slots /\ cur'[t] = cur[t]
               /\ ioCount' = [ioCount EXCEPT ![cur[t]] = @ + 1]
               /\ UNCHANGED <<recvs, sends, everInit>>

LEMMA AcceptKeeps ==
  ASSUME TypeOK, OnSession, Holding, NEW t \in Threads, AcceptStep(t), ~InitSession(t)
  PROVE  Keeps(t)
BY SlotsAssumption DEF TypeOK, OnSession, Holding, HoldingAt, Outside, Setup, At, session,
   kernel, stack, aux, AcceptStep, Accept, RefuseFull, NotFull, PopGate, PopTake,
   InitSocket, RefuseClient, Associate, Join, Goto, Finish, Keeps

LEMMA SendKeeps ==
  ASSUME TypeOK, OnSession, Holding, NEW t \in Threads,
         Enqueue(t) \/ SendSize(t) \/ SendFlag(t) \/ Drain(t) \/ SendReset(t)
  PROVE  Keeps(t)
<1> USE DEF TypeOK, OnSession, Holding, HoldingAt, Own, At, session, kernel, stack, aux, Keeps
<1>1. CASE Enqueue(t) BY <1>1 DEF Enqueue, Goto
<1>2. CASE SendSize(t) BY <1>2 DEF SendSize, PostDone, Goto, Drop
<1>3. CASE SendFlag(t) BY <1>3 DEF SendFlag, PostDone, Goto, Drop
<1>4. CASE Drain(t) BY <1>4 DEF Drain, PostDone, Goto, Drop
<1>5. CASE SendReset(t) BY <1>5 DEF SendReset, Goto
<1> QED BY <1>1, <1>2, <1>3, <1>4, <1>5

LEMMA OtherKeeps ==
  ASSUME TypeOK, OnSession, Holding, NEW t \in Threads,
         \/ RecvPacket(t) \/ Shutdown(t) \/ Claim(t) \/ CloseSocket(t) \/ PushIndex(t)
         \/ PushCount(t) \/ \E s \in Slots : SendPacket(t, s)
  PROVE  Keeps(t)
BY SlotsAssumption DEF TypeOK, OnSession, Holding, HoldingAt, Outside, Releasing, At, session,
   kernel, stack, aux, RecvPacket, Shutdown, Claim, CloseSocket, PushIndex, PushCount,
   SendPacket, Goto, Drop, Keeps

LEMMA StepTakes ==
  ASSUME TypeOK, OnSession, Holding, NEW t \in Threads
  PROVE  /\ AcquireLock(t) => Takes(t, "lock")
         /\ SendInc(t) \/ RecvInc(t) => Takes(t, "io")
         /\ DiscInc(t) => Takes(t, "disc")
<1> USE DEF TypeOK, OnSession, Holding, HoldingAt, Own, Work, Outside, Tokens, At, kernel,
            stack, aux, Take, Goto, Takes
<1>1. AcquireLock(t) => Takes(t, "lock")
  BY DEF AcquireLock, Drop
<1>2. SendInc(t) => Takes(t, "io")
  BY DEF SendInc
<1>3. RecvInc(t) => Takes(t, "io")
  BY DEF RecvInc
<1>4. DiscInc(t) => Takes(t, "disc")
  BY DEF DiscInc, Drop
<1> QED BY <1>1, <1>2, <1>3, <1>4

(* The equation of one session.                                               *)
Accounted(s) == ioCount[s] = (IF s \in everInit THEN 1 ELSE 0) + recvs[s] + sends[s]
                              + Cardinality(Refs(s))

LEMMA AccountsTyped ==
  ASSUME TypeOK, RefCount, NEW s \in Slots
  PROVE  /\ Accounted(s)
         /\ ioCount[s] \in Int /\ recvs[s] \in Nat /\ sends[s] \in Nat
         /\ Cardinality(Refs(s)) \in Nat /\ Cardinality(Refs(s)') \in Nat
BY RefsFinite DEF TypeOK, RefCount, Accounted

(* No step forgets or doubles a reference.                                    *)
LEMMA RefCountStep ==
  ASSUME ~StaleCalls, TypeOK, OnSession, Holding, Fresh, RefCount, Holding',
         NEW t \in Threads, ThreadStep(t)
  PROVE  RefCount'
<1> SUFFICES ASSUME NEW q \in Slots PROVE Accounted(q)'
  BY DEF RefCount, Accounted
<1>a. /\ Accounted(q)
      /\ ioCount[q] \in Int /\ recvs[q] \in Nat /\ sends[q] \in Nat
      /\ Cardinality(Refs(q)) \in Nat /\ Cardinality(Refs(q)') \in Nat
  BY AccountsTyped
<1>0. OneMoves(t)
  BY OthersStay DEF OneMoves
<1>1. CASE Keeps(t) BY <1>a, <1>0, <1>1, RefsSame DEF Accounted, Keeps
<1>2. ASSUME NEW k, Takes(t, k) PROVE Accounted(q)'
  <2>1. Cardinality(Refs(q)') = Cardinality(Refs(q))
                                      + (IF q = cur[t] THEN 1 ELSE 0)
    BY <1>0, <1>2, RefTaken DEF Takes
  <2> QED BY <1>a, <1>2, <2>1 DEF Accounted, Takes, TypeOK
<1>3. CASE InitSession(t)
  <2>1. /\ cur[t] \in Slots /\ cur[t] \notin joined /\ cur[t] \notin everInit /\ t = Acceptor
        /\ held[t] = {} /\ held' = held /\ cur' = cur
        /\ ioCount' = [ioCount EXCEPT ![cur[t]] = 1] /\ everInit' = everInit \cup {cur[t]}
        /\ UNCHANGED <<recvs, sends>>
    BY <1>3, SlotsAssumption DEF InitSession, Goto, TypeOK, OnSession, Holding, HoldingAt,
                Fresh, On, Outside, Setup, At, kernel, Threads
  <2>2. Refs(cur[t]) = {} /\ recvs[cur[t]] = 0 /\ sends[cur[t]] = 0
    BY <2>1 DEF Refs, Fresh
  <2>3. Refs(q)' = Refs(q)
    BY <2>1 DEF Refs
  <2>4. CASE q = cur[t]
    <3>1. ioCount'[q] = 1 /\ q \in everInit' /\ recvs'[q] = 0 /\ sends'[q] = 0
      BY <2>1, <2>2, <2>4 DEF TypeOK
    <3>2. Cardinality(Refs(q)') = 0
      BY <2>2, <2>3, <2>4, FS_EmptySet
    <3> QED BY <3>1, <3>2 DEF Accounted
  <2>5. CASE q # cur[t]
    <3>1. ioCount'[q] = ioCount[q] /\ (q \in everInit' <=> q \in everInit)
      BY <2>1, <2>5 DEF TypeOK
    <3> QED BY <1>a, <2>1, <2>3, <2>5, <3>1 DEF Accounted
  <2> QED BY <2>4, <2>5
<1>4. ASSUME NEW s \in Slots, NEW zero \in BOOLEAN, GetRecv(t, s, zero) PROVE Accounted(q)'
  <2>1. /\ held[t] = {} /\ held'[t] = {"op"} /\ cur'[t] = s
        /\ recvs[s] \in Nat /\ recvs[s] > 0 /\ recvs' = [recvs EXCEPT ![s] = @ - 1]
        /\ UNCHANGED <<ioCount, sends, everInit>>
    BY <1>4 DEF GetRecv, TypeOK, Holding, HoldingAt, Outside, At, session, aux
  <2>2. held'[t] = held[t] \cup {"op"} /\ "op" \in Tokens \ held[t]
    BY <2>1 DEF Tokens
  <2>3. Cardinality(Refs(q)') = Cardinality(Refs(q))
                                      + (IF q = s THEN 1 ELSE 0)
    BY <1>0, <2>1, <2>2, RefTaken
  <2> QED BY <1>a, <2>1, <2>3 DEF Accounted, TypeOK
<1>5. ASSUME NEW s \in Slots, NEW zero \in BOOLEAN, GetSend(t, s, zero) PROVE Accounted(q)'
  <2>1. /\ held[t] = {} /\ held'[t] = {"op"} /\ cur'[t] = s
        /\ sends[s] \in Nat /\ sends[s] > 0 /\ sends' = [sends EXCEPT ![s] = @ - 1]
        /\ UNCHANGED <<ioCount, recvs, everInit>>
    BY <1>5 DEF GetSend, TypeOK, Holding, HoldingAt, Outside, At, session, aux
  <2>2. held'[t] = held[t] \cup {"op"} /\ "op" \in Tokens \ held[t]
    BY <2>1 DEF Tokens
  <2>3. Cardinality(Refs(q)') = Cardinality(Refs(q))
                                      + (IF q = s THEN 1 ELSE 0)
    BY <1>0, <2>1, <2>2, RefTaken
  <2> QED BY <1>a, <2>1, <2>3 DEF Accounted, TypeOK
<1>6. CASE WSASend(t)
  <2>0. cur[t] \in Slots /\ "io" \in held[t] /\ "io" \in Tokens
    BY <1>6 DEF WSASend, TypeOK, OnSession, Holding, HoldingAt, Outside, At, Tokens
  <2>1. CASE Drop(t, "io") /\ UNCHANGED <<sends, held>>
    BY <1>6, <2>1, <1>1 DEF WSASend, Drop, Keeps, session, aux
  <2>2. CASE sends' = [sends EXCEPT ![cur[t]] = @ + 1] /\ held' = [held EXCEPT ![t] = @ \ {"io"}]
             /\ PostDone(t)
    <3>1. /\ held'[t] = held[t] \ {"io"} /\ cur'[t] = cur[t]
          /\ UNCHANGED <<ioCount, recvs, everInit>>
      BY <1>6, <2>2 DEF WSASend, PostDone, Drop, Finish, TypeOK, Holding, HoldingAt, Own, At,
                        session, aux
    <3>2. Cardinality(Refs(q)) = Cardinality(Refs(q)')
                                      + (IF q = cur[t] THEN 1 ELSE 0)
      BY <1>0, <2>0, <3>1, RefDropped
    <3> QED BY <1>a, <2>0, <2>2, <3>1, <3>2 DEF Accounted, TypeOK
  <2> QED BY <1>6, <2>1, <2>2 DEF WSASend
<1>7. CASE WSARecv(t)
  <2>0. cur[t] \in Slots /\ "io" \in held[t] /\ "io" \in Tokens
    BY <1>7 DEF WSARecv, TypeOK, OnSession, Holding, HoldingAt, Outside, At, Tokens
  <2>1. CASE Drop(t, "io") /\ UNCHANGED <<recvs, held>>
    BY <1>7, <2>1, <1>1 DEF WSARecv, Drop, Keeps, session, aux
  <2>2. CASE recvs' = [recvs EXCEPT ![cur[t]] = @ + 1] /\ held' = [held EXCEPT ![t] = @ \ {"io"}]
             /\ PostDone(t)
    <3>1. /\ held'[t] = held[t] \ {"io"} /\ (cur'[t] = cur[t] \/ held'[t] = {})
          /\ UNCHANGED <<ioCount, sends, everInit>>
      BY <1>7, <2>2, ThreadsAssumption DEF WSARecv, PostDone, Drop, Finish, TypeOK, Holding, HoldingAt,
                        Work, At, session, aux, Threads
    <3>2. Cardinality(Refs(q)) = Cardinality(Refs(q)')
                                      + (IF q = cur[t] THEN 1 ELSE 0)
      BY <1>0, <2>0, <3>1, RefDropped
    <3> QED BY <1>a, <2>0, <2>2, <3>1, <3>2 DEF Accounted, TypeOK
  <2> QED BY <1>7, <2>1, <2>2 DEF WSARecv
<1>8. CASE Decrease(t)
  <2>0. cur[t] \in Slots /\ token[t] \in held[t] /\ token[t] \in Tokens
    BY <1>8 DEF Decrease, TypeOK, OnSession, Holding, HoldingAt, Outside, At, Tokens
  <2>1. /\ held'[t] = held[t] \ {token[t]} /\ ioCount' = [ioCount EXCEPT ![cur[t]] = @ - 1]
        /\ UNCHANGED <<recvs, sends, everInit>>
    BY <1>8 DEF Decrease, kernel, aux, TypeOK
  <2>2. cur'[t] = cur[t] \/ held'[t] = {}
    <3>1. CASE Finish(t)
      BY <3>1 DEF Finish, TypeOK, Holding, HoldingAt, Outside
    <3>2. CASE ~Finish(t)
      BY <1>8, <3>2 DEF Decrease, Return, Goto, Drop
    <3> QED BY <3>1, <3>2
  <2>3. Cardinality(Refs(q)) = Cardinality(Refs(q)')
                                      + (IF q = cur[t] THEN 1 ELSE 0)
    BY <1>0, <2>0, <2>1, <2>2, RefDropped
  <2> QED BY <1>a, <2>0, <2>1, <2>3 DEF Accounted, TypeOK
<1> QED
  BY <1>1, <1>2, <1>3, <1>4, <1>5, <1>6, <1>7, <1>8, AcceptKeeps, SendKeeps, OtherKeeps,
     StepTakes
  DEF ThreadStep, Step, SendStep, RecvStep, ReleaseStep


(* The threads that give the slot's index back, and those that have it to     *)
(* initialise the session with.                                               *)
Closers(s) == {u \in Threads : On(u, s, {"close", "pushIndex"})}
Initers(s) == {u \in Threads : On(u, s, {"init", "initFlag"})}

LEMMA CopiesFinite ==
  ASSUME NEW s
  PROVE  /\ IsFiniteSet(Closers(s)) /\ Cardinality(Closers(s)) \in Nat
         /\ IsFiniteSet(Initers(s)) /\ Cardinality(Initers(s)) \in Nat
         /\ IsFiniteSet(Closers(s)') /\ Cardinality(Closers(s)') \in Nat
         /\ IsFiniteSet(Initers(s)') /\ Cardinality(Initers(s)') \in Nat
<1>1. IsFiniteSet(Threads)
  BY ThreadsAssumption, FS_Union, FS_Singleton DEF Threads
<1>2. /\ Closers(s) \subseteq Threads /\ Initers(s) \subseteq Threads
      /\ Closers(s)' \subseteq Threads /\ Initers(s)' \subseteq Threads
  BY DEF Closers, Initers
<1> QED BY <1>1, <1>2, FS_Subset, FS_CardinalityType

(* One thread comes to a place, leaves it or stays where it is.               *)
LEMMA Arrives ==
  ASSUME NEW S, IsFiniteSet(S), NEW t, t \notin S
  PROVE  Cardinality(S \cup {t}) = Cardinality(S) + 1 /\ Cardinality(S) \in Nat
BY FS_AddElement, FS_CardinalityType

Bound(s) == free[s] + Cardinality(Closers(s)) + Cardinality(Initers(s))
                    + (IF released[s] THEN 0 ELSE 1) <= 2

Carrying == {"init", "initFlag", "close", "pushIndex"}

LEMMA ReturnPlaces ==
  ASSUME TypeOK, NEW t \in Threads, Return(t)
  PROVE  pc'[t] \notin Carrying
<1> USE DEF TypeOK, Carrying, Goto, Drop, Finish
<1>1. CASE token[t] = "io"
  BY <1>1 DEF Return
<1>2. CASE token[t] = "lock"
  BY <1>2 DEF Return
<1>3. CASE token[t] = "disc"
  BY <1>3 DEF Return
<1>4. CASE token[t] \notin {"io", "lock", "disc"}
  BY <1>4 DEF Return
<1> QED BY <1>1, <1>2, <1>3, <1>4

(* The other steps carry no index anywhere.                                   *)
Carries(t) == PopTake(t) \/ InitSocket(t) \/ Claim(t) \/ PushIndex(t)
Elsewhere(t) == pc[t] \notin Carrying /\ pc'[t] \notin Carrying

LEMMA StaysOff ==
  ASSUME TypeOK, OnSession, NEW t \in Threads, ThreadStep(t), ~Carries(t)
  PROVE  /\ UNCHANGED <<free, released>>
         /\ \/ Elsewhere(t)
            \/ InitSession(t) \/ CloseSocket(t)
<1> USE DEF TypeOK, Carrying, Elsewhere, At, session, kernel, stack, aux
<1>1. CASE AcceptStep(t)
  BY <1>1 DEF AcceptStep, Carries, Accept, RefuseFull, NotFull, PopGate, InitSession,
     RefuseClient, Associate, Join, Goto, Finish
<1>2. CASE SendStep(t)
  <2>1. PostDone(t) => pc'[t] \notin Carrying
    BY DEF PostDone, Drop, Finish
  <2> QED BY <1>2, <2>1 DEF SendStep, AcquireLock, Enqueue, SendSize, SendFlag, Drain, SendInc,
          WSASend, Goto, Drop
<1>3. CASE RecvStep(t)
  <2>1. PostDone(t) => pc'[t] \notin Carrying
    BY DEF PostDone, Drop, Finish
  <2> QED BY <1>3, <2>1 DEF RecvStep, RecvPacket, RecvInc, WSARecv, SendReset, Goto, Drop
<1>4. CASE ReleaseStep(t)
  BY <1>4, ReturnPlaces DEF ReleaseStep, Carries, DiscInc, Shutdown, Decrease, CloseSocket,
     PushCount, Goto, Drop
<1>5. CASE ~Step(t)
  BY <1>5 DEF ThreadStep, SendPacket, GetRecv, GetSend
<1> QED BY <1>1, <1>2, <1>3, <1>4, <1>5 DEF Step

(* No step adds an index that the release flag does not account for.          *)
LEMMA CopiesStep ==
  ASSUME TypeOK, OnSession, IndexCopiesBounded, NEW t \in Threads, ThreadStep(t)
  PROVE  IndexCopiesBounded'
<1> SUFFICES ASSUME NEW s \in Slots PROVE Bound(s)'
  BY DEF IndexCopiesBounded, IndexCopies, Bound, Closers, Initers
<1>0. Bound(s)
  BY DEF IndexCopiesBounded, IndexCopies, Bound, Closers, Initers
<1>1. /\ free[s] \in Nat /\ Cardinality(Closers(s)) \in Nat /\ Cardinality(Initers(s)) \in Nat
      /\ Cardinality(Closers(s)') \in Nat /\ Cardinality(Initers(s)') \in Nat
  BY CopiesFinite DEF TypeOK
<1>2. \A u \in Threads \ {t} : pc'[u] = pc[u] /\ cur'[u] = cur[u]
  BY OthersStay
<1>3. CASE PopTake(t)
  <2>1. Closers(s)' = Closers(s) /\ released' = released
    BY <1>2, <1>3 DEF PopTake, Closers, On, At, TypeOK, session
  <2>2. CASE cur'[t] = s
    <3>1. t \notin Initers(s) /\ Initers(s)' = Initers(s) \cup {t} /\ free'[s] = free[s] - 1
      BY <1>2, <1>3, <2>2 DEF PopTake, Initers, On, At, TypeOK
    <3>2. Cardinality(Initers(s)') = Cardinality(Initers(s)) + 1
      BY <3>1, CopiesFinite, Arrives
    <3> QED BY <1>0, <1>1, <2>1, <3>1, <3>2 DEF Bound
  <2>3. CASE cur'[t] # s
    <3>1. Initers(s)' = Initers(s) /\ free'[s] = free[s]
      BY <1>2, <1>3, <2>3 DEF PopTake, Initers, On, At, TypeOK
    <3> QED BY <1>0, <1>1, <2>1, <3>1 DEF Bound
  <2> QED BY <2>2, <2>3
<1>4. CASE InitSocket(t)
  <2>1. Closers(s)' = Closers(s) /\ free' = free
    BY <1>2, <1>4 DEF InitSocket, Goto, Closers, On, At, TypeOK, stack
  <2>2. CASE cur[t] = s
    <3>1. /\ t \notin Initers(s)' /\ Initers(s) = Initers(s)' \cup {t}
      BY <1>2, <1>4, <2>2 DEF InitSocket, Goto, Initers, On, At, TypeOK
    <3>2. Cardinality(Initers(s)) = Cardinality(Initers(s)') + 1
      BY <3>1, CopiesFinite, Arrives
    <3> QED BY <1>0, <1>1, <2>1, <3>2 DEF Bound
  <2>3. CASE cur[t] # s
    <3>1. Initers(s)' = Initers(s) /\ released'[s] = released[s]
      BY <1>2, <1>4, <2>3 DEF InitSocket, Goto, Initers, On, At, TypeOK
    <3> QED BY <1>0, <1>1, <2>1, <3>1 DEF Bound
  <2> QED BY <2>2, <2>3
<1>5. CASE Claim(t)
  <2>0. /\ pc[t] = "claim" /\ pc'[t] \notin {"init", "initFlag"} /\ cur'[t] \in {cur[t], NoSlot}
        /\ pc'[t] \in {"close", "pushIndex"} =>
             cur'[t] = cur[t] /\ ~released[cur[t]] /\ ioCount[cur[t]] = 0
        /\ released' = IF ~released[cur[t]] /\ ioCount[cur[t]] = 0
                         THEN [released EXCEPT ![cur[t]] = TRUE] ELSE released
    <3>1. CASE ~released[cur[t]] /\ ioCount[cur[t]] = 0
      BY <1>5, <3>1 DEF Claim, Goto, At, TypeOK
    <3>2. CASE ~(~released[cur[t]] /\ ioCount[cur[t]] = 0)
      <4>1. Return(t) /\ pc'[t] \notin Carrying /\ released' = released /\ pc[t] = "claim"
        BY <1>5, <3>2, ReturnPlaces DEF Claim, At
      <4>2. cur'[t] \in {cur[t], NoSlot}
        BY <4>1 DEF Return, Goto, Drop, Finish, TypeOK
      <4> QED BY <3>2, <4>1, <4>2 DEF Carrying
    <3> QED BY <3>1, <3>2
  <2>1. Initers(s)' = Initers(s) /\ free' = free
    BY <1>2, <1>5, <2>0 DEF Claim, Initers, On, stack
  <2>2. CASE cur[t] = s /\ ~released[s] /\ ioCount[s] = 0
    <3>1. t \notin Closers(s) /\ Closers(s)' = Closers(s) \cup {t} /\ released'[s]
      BY <1>2, <1>5, <2>2 DEF Claim, Goto, Closers, On, At, TypeOK
    <3>2. Cardinality(Closers(s)') = Cardinality(Closers(s)) + 1
      BY <3>1, CopiesFinite, Arrives
    <3> QED BY <1>0, <1>1, <2>1, <2>2, <3>1, <3>2 DEF Bound
  <2>3. CASE ~(cur[t] = s /\ ~released[s] /\ ioCount[s] = 0)
    <3>1. Closers(s)' = Closers(s) /\ released'[s] = released[s]
      BY <1>2, <2>0, <2>3, SlotsAssumption DEF Closers, On, TypeOK
    <3> QED BY <1>0, <1>1, <2>1, <3>1 DEF Bound
  <2> QED BY <2>2, <2>3
<1>6. CASE PushIndex(t)
  <2>1. Initers(s)' = Initers(s) /\ released' = released
    BY <1>2, <1>6 DEF PushIndex, Goto, Initers, On, At, TypeOK, session
  <2>2. CASE cur[t] = s
    <3>1. t \notin Closers(s)' /\ Closers(s) = Closers(s)' \cup {t} /\ free'[s] = free[s] + 1
      BY <1>2, <1>6, <2>2 DEF PushIndex, Goto, Closers, On, At, TypeOK
    <3>2. Cardinality(Closers(s)) = Cardinality(Closers(s)') + 1
      BY <3>1, CopiesFinite, Arrives
    <3> QED BY <1>0, <1>1, <2>1, <3>1, <3>2 DEF Bound
  <2>3. CASE cur[t] # s
    <3>1. Closers(s)' = Closers(s) /\ free'[s] = free[s]
      BY <1>2, <1>6, <2>3 DEF PushIndex, Goto, Closers, On, At, TypeOK
    <3> QED BY <1>0, <1>1, <2>1, <3>1 DEF Bound
  <2> QED BY <2>2, <2>3
<1>7. ASSUME UNCHANGED <<free, released>>,
             On(t, s, {"close", "pushIndex"})' <=> On(t, s, {"close", "pushIndex"}),
             On(t, s, {"init", "initFlag"})' <=> On(t, s, {"init", "initFlag"})
      PROVE  Bound(s)'
  <2>1. Closers(s)' = Closers(s) /\ Initers(s)' = Initers(s)
    BY <1>2, <1>7 DEF Closers, Initers, On
  <2> QED BY <1>0, <1>7, <2>1 DEF Bound
<1>8. CASE InitSession(t) BY <1>7, <1>8 DEF InitSession, Goto, On, At, TypeOK, stack
<1>9. CASE CloseSocket(t) BY <1>7, <1>9 DEF CloseSocket, Goto, On, At, TypeOK, stack, session
<1>10. CASE Elsewhere(t) /\ UNCHANGED <<free, released>>
  BY <1>7, <1>10 DEF Elsewhere, Carrying, On
<1> QED BY <1>3, <1>4, <1>5, <1>6, <1>8, <1>9, <1>10, StaysOff DEF Carries


(* What the invariants of the runs say follows from the parts.                *)
LEMMA AtMostOne ==
  ASSUME NEW S, \A a, b \in S : a = b
  PROVE  IsFiniteSet(S) /\ Cardinality(S) \in Nat /\ Cardinality(S) <= 1
         /\ (S = {} => Cardinality(S) = 0)
<1>1. CASE S = {}
  BY <1>1, FS_EmptySet
<1>2. ASSUME NEW x \in S PROVE S = {x}
  OBVIOUS
<1>3. ASSUME NEW x \in S PROVE IsFiniteSet(S) /\ Cardinality(S) = 1
  BY <1>2, <1>3, FS_Singleton
<1> QED BY <1>1, <1>3

LEMMA OneSendFollows ==
  ASSUME TypeOK, OneSender
  PROVE  OneSend
<1> SUFFICES ASSUME NEW s \in Slots
    PROVE  /\ sends[s] + Cardinality(Senders(s)) <= 1
           /\ (sends[s] > 0 \/ Senders(s) # {}) => ioSend[s]
  BY DEF OneSend
<1>1. Senders(s) \subseteq Sending(s)
  BY DEF Senders, Sending, On
<1>2. /\ Cardinality(Senders(s)) \in Nat /\ Cardinality(Senders(s)) <= 1
      /\ Senders(s) = {} => Cardinality(Senders(s)) = 0
  BY <1>1, AtMostOne DEF OneSender
<1> QED BY <1>1, <1>2 DEF OneSender, TypeOK

LEMMA OneRecvFollows ==
  ASSUME TypeOK, Holding, OneReceiver
  PROVE  OneRecv
<1> SUFFICES ASSUME NEW s \in Slots
    PROVE  recvs[s] + Cardinality(Receivers(s)) + Cardinality(Joining(s)) <= 1
  BY DEF OneRecv
<1>1. Receivers(s) \cap Joining(s) = {}
  BY ThreadsAssumption DEF Receivers, Joining, On, Holding, HoldingAt, Work, Threads
<1>2. \A a, b \in Receivers(s) \cup Joining(s) : a = b
  BY DEF OneReceiver, Receiving
<1>3. /\ Cardinality(Receivers(s)) \in Nat /\ Cardinality(Receivers(s)) <= 1
      /\ Receivers(s) = {} => Cardinality(Receivers(s)) = 0
  BY <1>2, AtMostOne
<1>4. /\ Cardinality(Joining(s)) \in Nat /\ Cardinality(Joining(s)) <= 1
      /\ Joining(s) = {} => Cardinality(Joining(s)) = 0
  BY <1>2, AtMostOne
<1>5. Receivers(s) = {} \/ Joining(s) = {}
  BY <1>1, <1>2
<1>6. recvs[s] \in Nat /\ recvs[s] <= 1 /\ (recvs[s] = 1 => Receivers(s) = {} /\ Joining(s) = {})
  BY DEF OneReceiver, Receiving, TypeOK
<1> QED BY <1>3, <1>4, <1>5, <1>6

(* Who changes the flags of a session.                                        *)
LEMMA JoinedStays ==
  ASSUME NEW t \in Threads, ThreadStep(t), ~Join(t)
  PROVE  joined' = joined
BY DEF aux, ThreadStep, Step, AcceptStep, SendStep, RecvStep, ReleaseStep,
   Accept, RefuseFull, NotFull, PopGate, PopTake, InitSession, InitSocket, RefuseClient,
   Associate, AcquireLock, Enqueue, SendSize, SendFlag, Drain, SendInc, WSASend, RecvPacket,
   RecvInc, WSARecv, SendReset, DiscInc, Shutdown, Decrease, Claim, CloseSocket, PushIndex,
   PushCount, SendPacket, GetRecv, GetSend

(* Somebody goes on caring for every joined session.                          *)
LEMMA NoDeafStep ==
  ASSUME ~StaleCalls, TypeOK, OnSession, Holding, Holding', Fresh, OneReceiver, RefCount,
         NoDeafSession, NEW t \in Threads, ThreadStep(t)
  PROVE  NoDeafSession'
<1> SUFFICES ASSUME NEW r \in joined' PROVE \E u \in Threads : Cared(u, r)'
  BY DEF NoDeafSession, Cared
<1>1. CASE r \in joined
  <2>1. CASE Cared(t, r)
    BY <1>1, <2>1, CaredSelf
  <2>2. CASE ~Cared(t, r)
    <3>1. PICK u \in Threads : u \in Receivers(r) \cup Joining(r) \/ Disconnecting(u, r)
      BY <1>1, <2>2 DEF NoDeafSession, Cared, Receivers, Joining, Threads
    <3>2. u # t
      BY <2>2, <3>1 DEF Cared
    <3>3. u \in Receivers(r)' \cup Joining(r)' \/ Disconnecting(u, r)'
      BY <3>1, <3>2, OthersStay DEF Receivers, Joining, Disconnecting, On
    <3> QED BY <3>3 DEF Cared
  <2> QED BY <2>1, <2>2
<1>2. CASE r \notin joined
  <2>1. CASE Join(t)
    <3>1. t = Acceptor /\ r = cur'[t] /\ pc'[t] = "acquire"
      BY <1>2, <2>1 DEF Join, Goto, At, Holding, HoldingAt, Setup, TypeOK
    <3> QED BY <3>1 DEF Cared, Joining, Threads
  <2>2. CASE ~Join(t)
    <3>1. joined' = joined
      BY <2>2, JoinedStays
    <3> QED BY <1>2, <3>1
  <2> QED BY <2>1, <2>2
<1> QED BY <1>1, <1>2

LEMMA ReleasedStays ==
  ASSUME NEW t \in Threads, ThreadStep(t), ~InitSocket(t), ~Claim(t)
  PROVE  released' = released
BY DEF session, ThreadStep, Step, AcceptStep, SendStep, RecvStep, ReleaseStep,
   Accept, RefuseFull, NotFull, PopGate, PopTake, InitSession, RefuseClient,
   Associate, Join, AcquireLock, Enqueue, SendSize, SendFlag, Drain, SendInc, WSASend,
   RecvPacket, RecvInc, WSARecv, SendReset, DiscInc, Shutdown, Decrease, CloseSocket,
   PushIndex, PushCount, SendPacket, GetRecv, GetSend

(* The release flag stays down.                                               *)
LEMMA NeverReleasedStep ==
  ASSUME ~StaleCalls, Holding, NeverReleased, TypeOK, NEW t \in Threads, ThreadStep(t)
  PROVE  NeverReleased'
<1>1. ~Claim(t)
  BY DEF Claim, At, Holding, HoldingAt, Releasing
<1>2. CASE InitSocket(t) BY <1>2 DEF InitSocket, NeverReleased, TypeOK
<1>3. ASSUME released' = released PROVE NeverReleased'
  BY <1>3 DEF NeverReleased
<1> QED BY <1>1, <1>2, <1>3, ReleasedStays
-----------------------------------------------------------------------------
(* Types, and what holds whatever outside callers do.                         *)
Always == TypeOK /\ OnSession /\ IndexCopiesBounded

LEMMA AlwaysHolds == Spec => []Always
<1>1. Init => Always
  <2> SUFFICES ASSUME Init PROVE Always
    OBVIOUS
  <2>1. TypeOK /\ OnSession
    <3>1. Cardinality(Slots) \in Nat
      BY SlotsAssumption, FS_CardinalityType
    <3> QED BY <3>1, BoundsAssumption DEF Init, TypeOK, OnSession, Outside, Labels
  <2>2. ASSUME NEW s \in Slots PROVE Closers(s) = {} /\ Initers(s) = {}
    BY DEF Init, Closers, Initers, On
  <2>3. \A s \in Slots : Bound(s)
    BY <2>2, FS_EmptySet DEF Bound, Init
  <2> QED BY <2>1, <2>3 DEF Always, IndexCopiesBounded, IndexCopies, Bound, Closers, Initers
<1>2. Always /\ [Next]_vars => Always'
  <2> SUFFICES ASSUME Always, [Next]_vars PROVE Always'
    OBVIOUS
  <2>1. ASSUME NEW t \in Threads, ThreadStep(t) PROVE Always'
    BY <2>1, TypeStep, CopiesStep DEF Always
  <2>2. ASSUME NEW c \in 1 .. MaxConn, PeerCloses(c) PROVE Always'
    <3>1. c \in Nat
      BY BoundsAssumption
    <3> QED BY <2>2, <3>1 DEF PeerCloses, Always, TypeOK, OnSession, IndexCopiesBounded, IndexCopies,
              On, session, stack, thread, aux
  <2>3. CASE UNCHANGED vars
    BY <2>3 DEF vars, Always, TypeOK, OnSession, IndexCopiesBounded, IndexCopies, On
  <2> QED BY <2>1, <2>2, <2>3 DEF Next, ThreadStep
<1> QED BY <1>1, <1>2, PTL DEF Spec

(* Every variable of the session array and of its threads keeps its type,     *)
(* and a thread inside a call has a session (net_server.cpp:180-600).         *)
THEOREM Typing == Spec => []TypeOK
BY AlwaysHolds, PTL DEF Always

(* Whatever index outside callers name and whenever, no index is on the stack *)
(* or on its way to or from it more than twice (net_server.cpp:574).          *)
THEOREM IndexCopiesAlways == Spec => []IndexCopiesBounded
BY AlwaysHolds, PTL DEF Always
-----------------------------------------------------------------------------
(* The callers name sessions that have joined.                                *)
IInv == /\ TypeOK /\ OnSession /\ Holding /\ Fresh /\ RefCount
        /\ OneSender /\ OneReceiver /\ NoDeafSession /\ NeverReleased

LEMMA InitIInv == Init => IInv
<1> SUFFICES ASSUME Init PROVE IInv
  OBVIOUS
<1>1. TypeOK /\ OnSession
  <2>1. Cardinality(Slots) \in Nat
    BY SlotsAssumption, FS_CardinalityType
  <2> QED BY <2>1, BoundsAssumption DEF Init, TypeOK, OnSession, Outside, Labels
<1>2. Holding
  BY TokensAssumption DEF Init, Holding, HoldingAt, Outside, Setup, Releasing, Tokens
<1>3. Fresh
  BY SlotsAssumption DEF Init, Fresh, On, Setup, Threads
<1>4. RefCount
  <2>1. \A s \in Slots : Refs(s) = {}
    BY DEF Init, Refs
  <2> QED BY <2>1, FS_EmptySet DEF Init, RefCount
<1>5. OneSender
  BY DEF Init, OneSender, Sending, On
<1>6. OneReceiver
  BY DEF Init, OneReceiver, Receiving, Receivers, Joining, On, Threads
<1>7. NoDeafSession /\ NeverReleased
  BY DEF Init, NoDeafSession, NeverReleased
<1> QED BY <1>1, <1>2, <1>3, <1>4, <1>5, <1>6, <1>7 DEF IInv

LEMMA StepIInv ==
  ASSUME ~StaleCalls, IInv, NEW t \in Threads, ThreadStep(t)
  PROVE  IInv'
<1> USE DEF IInv
<1>1. TypeOK' /\ OnSession'
  BY TypeStep
<1>2. Holding'
  <2>1. HoldingAt(t)'
    BY HoldingSelf
  <2>2. ASSUME NEW u \in Threads \ {t} PROVE HoldingAt(u)'
    BY OthersStay DEF Holding, HoldingAt, Own, Work
  <2> QED BY <2>1, <2>2 DEF Holding
<1>3. Fresh'
  BY <1>1, <1>2, FreshStep
<1>4. RefCount'
  BY <1>2, RefCountStep
<1>5. OneSender' /\ OneReceiver'
  BY OneSenderStep, OneReceiverStep
<1>6. NoDeafSession' /\ NeverReleased'
  BY <1>2, NoDeafStep, NeverReleasedStep
<1> QED BY <1>1, <1>2, <1>3, <1>4, <1>5, <1>6

LEMMA ClosesIInv ==
  ASSUME IInv, NEW c \in 1 .. MaxConn, PeerCloses(c)
  PROVE  IInv'
<1>1. /\ UNCHANGED <<ioCount, released, ioSend, shut, conn, sendQ, open, recvs, sends,
                     arrived, free, freeCount, pc, cur, held, token, calls, joined, everInit>>
      /\ closing' = closing \cup {c}
  BY DEF PeerCloses, session, stack, thread, aux
<1>2. c \in Nat
  BY BoundsAssumption
<1>3. TypeOK' /\ OnSession'
  BY <1>1, <1>2 DEF IInv, TypeOK, OnSession
<1>4. Holding' /\ Fresh'
  BY <1>1 DEF IInv, Holding, HoldingAt, Own, Work, Fresh, On
<1>5. RefCount'
  BY <1>1 DEF IInv, RefCount, Refs
<1>6. OneSender' /\ OneReceiver'
  BY <1>1 DEF IInv, OneSender, OneReceiver, Sending, Receiving, Receivers, Joining, On
<1>7. NoDeafSession' /\ NeverReleased'
  BY <1>1 DEF IInv, NoDeafSession, NeverReleased, Receivers, Joining, Disconnecting, On
<1> QED BY <1>3, <1>4, <1>5, <1>6, <1>7 DEF IInv

LEMMA StutterIInv ==
  ASSUME IInv, UNCHANGED vars
  PROVE  IInv'
<1> USE DEF IInv, vars
<1>1. TypeOK' /\ OnSession'
  BY DEF TypeOK, OnSession
<1>2. Holding' /\ Fresh'
  BY DEF Holding, HoldingAt, Own, Work, Fresh, On
<1>3. RefCount'
  BY DEF RefCount, Refs
<1>4. OneSender' /\ OneReceiver'
  BY DEF OneSender, OneReceiver, Sending, Receiving, Receivers, Joining, On
<1>5. NoDeafSession' /\ NeverReleased'
  BY DEF NoDeafSession, NeverReleased, Receivers, Joining, Disconnecting, On
<1> QED BY <1>1, <1>2, <1>3, <1>4, <1>5

LEMMA Inductive ==
  ASSUME ~StaleCalls
  PROVE  Spec => []IInv
<1>1. IInv /\ [Next]_vars => IInv'
  <2> SUFFICES ASSUME IInv, [Next]_vars PROVE IInv'
    OBVIOUS
  <2> QED BY StepIInv, ClosesIInv, StutterIInv DEF Next, ThreadStep
<1> QED BY <1>1, InitIInv, PTL DEF Spec

(* As long as callers name sessions that have joined: IOCount is exactly the  *)
(* references there are (net_server.cpp:378,495,532,557,572,594).             *)
THEOREM RefCountAlways ==
  ASSUME ~StaleCalls
  PROVE  Spec => []RefCount
BY Inductive, PTL DEF IInv

(* The OVERLAPPED of the sends is used for one WSASend at a time, with IOSend *)
(* raised (session.h:27,30).                                                  *)
THEOREM OneSendAlways ==
  ASSUME ~StaleCalls
  PROVE  Spec => []OneSend
<1>1. IInv => OneSend
  BY OneSendFollows DEF IInv
<1> QED BY <1>1, Inductive, PTL

(* One WSARecv at a time is pending, being processed or being issued, so the  *)
(* receive ring buffer has one consumer (session.h:17,29).                    *)
THEOREM OneRecvAlways ==
  ASSUME ~StaleCalls
  PROVE  Spec => []OneRecv
<1>1. IInv => OneRecv
  BY OneRecvFollows DEF IInv
<1> QED BY <1>1, Inductive, PTL

(* A joined session that is not shut down has a WSARecv pending or a thread   *)
(* that will post one or disconnect it (net_server.cpp:246,289-293,365).      *)
THEOREM NoDeafSessionAlways ==
  ASSUME ~StaleCalls
  PROVE  Spec => []NoDeafSession
BY Inductive, PTL DEF IInv

(* The reference InitSession creates a session with (net_server.cpp:594) is   *)
(* never given back: no session is ever released and no index comes back to   *)
(* the stack, whatever number of clients leave.                               *)
THEOREM NoSessionReleased ==
  ASSUME ~StaleCalls
  PROVE  Spec => [](\A s \in Slots : ~released[s] /\ (s \in everInit => free[s] = 0))
<1>1. IInv => \A s \in Slots : ~released[s] /\ (s \in everInit => free[s] = 0)
  BY DEF IInv, NeverReleased, Fresh, TypeOK
<1> QED BY <1>1, Inductive, PTL
==============================================================================
