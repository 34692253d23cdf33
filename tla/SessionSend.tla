---------------------------- MODULE SessionSend ----------------------------
(***************************************************************************)
(* The send pipeline of one live session: SendPacket enqueues a packet on  *)
(* SendQ and calls netWSASendPost, which batches what the queue holds into *)
(* one WSASend guarded by IOSend and remembers the packets on              *)
(* ReleasePacket; the completion clears IOSend, posts again and calls      *)
(* OnSend, which deletes the packets on ReleasePacket                      *)
(* (src/Library/net_server.cpp:296-308,428-517 and the application's       *)
(* OnSend, mmorpg_server.cpp:72-81).                                       *)
(*                                                                         *)
(* SendQ and ReleasePacket are seen through what LockFreeQueue lets two    *)
(* threads observe: the nodes and the counter change at different moments, *)
(* and a Dequeue that fails lowers the counter for a while.                *)
(***************************************************************************)
EXTENDS Integers, Sequences, FiniteSets, Functions

CONSTANTS Senders,   \* threads that call SendPacket
          Workers,   \* I/O threads
          Packets,   \* the packets, each sent once
          Batch,     \* WsaSendBufferSize
          Fails      \* whether WSASend may fail and completions carry nothing

ASSUME BatchAssumption == Batch \in Nat \ {0}
ASSUME ThreadsAssumption == Senders \cap Workers = {}
ASSUME FailsAssumption == Fails \in BOOLEAN

Threads == Senders \cup Workers

VARIABLES
  queue,     \* SendQ: the linked packets
  count,     \* SendQ's m_queueCount
  ioSend,    \* IOSend
  release,   \* ReleasePacket: the linked packets
  releaseCount,  \* ReleasePacket's m_queueCount
  inflight,  \* the packets of the WSASend the kernel is working on
  freed,     \* packets the application has deleted
  pc,
  batch,     \* wsaSendBuf of the thread that is posting
  packet,    \* byteArr: the packet a sender was called with
  broken,    \* a WSASend failed or a completion carried nothing
  turnedAway,  \* auxiliary: the last OnSend to end left a packet it could not get
  log,       \* auxiliary: the packets in the order they were queued
  wire       \* auxiliary: the packets in the order WSASend got them

vars == <<queue, count, ioSend, release, releaseCount, inflight, freed, pc,
          batch, packet, broken, turnedAway, log, wire>>
releaseVars == <<release, releaseCount, turnedAway>>

Init == /\ queue = <<>> /\ count = 0
        /\ ioSend = FALSE
        /\ release = <<>> /\ releaseCount = 0 /\ turnedAway = FALSE
        /\ inflight = <<>>
        /\ freed = {}
        /\ pc = [t \in Threads |-> "idle"]
        /\ batch = [t \in Threads |-> <<>>]
        /\ packet = [t \in Senders |-> {}]
        /\ broken = FALSE
        /\ log = <<>> /\ wire = <<>>

Goto(t, from, to) == pc[t] = from /\ pc' = [pc EXCEPT ![t] = to]

(* Faulty variant: OnSend is not called after a completion. *)
BackIdle(t) == "idle"

(* Where netWSASendPost returns to. *)
Back(t) == IF t \in Workers THEN "onSend" ELSE "idle"

(* The packets senders hold or have queued. *)
Used == Range(log) \cup UNION {packet[t] : t \in Senders}
------------------------------------------------------------------------------
(* netWSASendPacket, with the session's lock held *)

SendPacket(t, p) ==
  /\ t \in Senders /\ p \notin Used
  /\ Goto(t, "idle", "enqueue")
  /\ packet' = [packet EXCEPT ![t] = {p}]
  /\ UNCHANGED <<queue, count, ioSend, releaseVars, inflight, freed, batch, broken, log, wire>>

(* SendQ->Enqueue links the packet ... *)
EnqueueLink(t) ==
  /\ Goto(t, "enqueue", "enqueueCount")
  /\ \E p \in packet[t] : queue' = Append(queue, p) /\ log' = Append(log, p)
  /\ packet' = [packet EXCEPT ![t] = {}]
  /\ UNCHANGED <<count, ioSend, releaseVars, inflight, freed, batch, broken, wire>>

(* ... and counts it. *)
EnqueueCount(t) ==
  /\ Goto(t, "enqueueCount", "size")
  /\ count' = count + 1
  /\ UNCHANGED <<queue, ioSend, releaseVars, inflight, freed, batch, packet, broken, log, wire>>
------------------------------------------------------------------------------
(* netWSASendPost *)

Size(t) ==
  /\ Goto(t, "size", IF count = 0 THEN Back(t) ELSE "flag")
  /\ UNCHANGED <<queue, count, ioSend, releaseVars, inflight, freed, batch, packet, broken, log,
                 wire>>

(* Faulty variant: what IOSend was before is not looked at. *)
FlagUnchecked(t) ==
  /\ Goto(t, "flag", "dequeue")
  /\ ioSend' = TRUE
  /\ batch' = [batch EXCEPT ![t] = <<>>]
  /\ UNCHANGED <<queue, count, releaseVars, inflight, freed, packet, broken, log, wire>>

Flag(t) ==
  /\ Goto(t, "flag", IF ioSend THEN Back(t) ELSE "dequeue")
  /\ ioSend' = TRUE
  /\ batch' = [batch EXCEPT ![t] = <<>>]
  /\ UNCHANGED <<queue, count, releaseVars, inflight, freed, packet, broken, log, wire>>

DequeueGate(t) ==
  /\ Goto(t, "dequeue", IF count - 1 < 0 THEN "undo" ELSE "take")
  /\ count' = count - 1
  /\ UNCHANGED <<queue, ioSend, releaseVars, inflight, freed, batch, packet, broken, log, wire>>

(* Faulty variant: the packets already taken are forgotten. *)
DequeueUndoLosesBatch(t) ==
  /\ Goto(t, "undo", "nothing")
  /\ count' = count + 1
  /\ UNCHANGED <<queue, ioSend, releaseVars, inflight, freed, batch, packet, broken, log, wire>>

(* The Dequeue failed: the loop is over. *)
DequeueUndo(t) ==
  /\ Goto(t, "undo", IF batch[t] = <<>> THEN "nothing" ELSE "post")
  /\ count' = count + 1
  /\ UNCHANGED <<queue, ioSend, releaseVars, inflight, freed, batch, packet, broken, log, wire>>

DequeueTake(t) ==
  /\ queue # <<>>
  /\ Goto(t, "take", "remember")
  /\ batch' = [batch EXCEPT ![t] = Append(@, Head(queue))]
  /\ queue' = Tail(queue)
  /\ UNCHANGED <<count, ioSend, releaseVars, inflight, freed, packet, broken, log, wire>>

(* ReleasePacket->Enqueue links the packet ... *)
Remember(t) ==
  /\ Goto(t, "remember", "rememberCount")
  /\ release' = Append(release, batch[t][Len(batch[t])])
  /\ UNCHANGED <<queue, count, ioSend, releaseCount, inflight, freed, batch, packet, broken,
                 turnedAway, log, wire>>

(* ... and counts it. *)
RememberCount(t) ==
  /\ Goto(t, "rememberCount", IF Len(batch[t]) = Batch THEN "post" ELSE "dequeue")
  /\ releaseCount' = releaseCount + 1
  /\ UNCHANGED <<queue, count, ioSend, release, inflight, freed, batch, packet, broken,
                 turnedAway, log, wire>>

(* "No Packet to send" *)
NothingToSend(t) ==
  /\ Goto(t, "nothing", Back(t))
  /\ ioSend' = FALSE
  /\ UNCHANGED <<queue, count, releaseVars, inflight, freed, batch, packet, broken, log, wire>>

Post(t) ==
  /\ Goto(t, "post", Back(t))
  /\ \/ /\ inflight' = batch[t]
        /\ wire' = wire \o batch[t]
        /\ UNCHANGED broken
     \/ /\ Fails
        /\ broken' = TRUE
        /\ UNCHANGED <<inflight, wire>>
  /\ batch' = [batch EXCEPT ![t] = <<>>]
  /\ UNCHANGED <<queue, count, ioSend, releaseVars, freed, packet, log>>
------------------------------------------------------------------------------
(* netIOThread on the completion of the WSASend *)

Completion(t) ==
  /\ t \in Workers /\ inflight # <<>>
  /\ Goto(t, "idle", "reset")
  /\ inflight' = <<>>
  /\ UNCHANGED <<queue, count, ioSend, releaseVars, freed, batch, packet, broken, log, wire>>

(* No bytes transferred: the session is disconnected and nothing more sent. *)
CompletionFailed(t) ==
  /\ t \in Workers /\ inflight # <<>> /\ pc[t] = "idle" /\ Fails
  /\ inflight' = <<>>
  /\ broken' = TRUE
  /\ UNCHANGED <<queue, count, ioSend, releaseVars, freed, pc, batch, packet, log, wire>>

Reset(t) ==
  /\ Goto(t, "reset", "size")
  /\ ioSend' = FALSE
  /\ UNCHANGED <<queue, count, releaseVars, inflight, freed, batch, packet, broken, log, wire>>

(* The counted packets on ReleasePacket that no Dequeue was let in for: what  *)
(* the counter would be without those that failed and have not undone it.     *)
Unclaimed == releaseCount + Cardinality({u \in Threads : pc[u] = "onSendUndo"})

(* OnSend deletes packet after packet ... *)
OnSendGate(t) ==
  /\ Goto(t, "onSend", IF releaseCount - 1 < 0 THEN "onSendUndo" ELSE "onSendTake")
  /\ releaseCount' = releaseCount - 1
  /\ turnedAway' = IF releaseCount - 1 < 0 THEN Unclaimed > 0 ELSE turnedAway
  /\ UNCHANGED <<queue, count, ioSend, release, inflight, freed, batch, packet, broken,
                 log, wire>>

(* Faulty variant: the packet stays on ReleasePacket. *)
OnSendKeeps(t) ==
  /\ release # <<>>
  /\ Goto(t, "onSendTake", "onSend")
  /\ freed' = freed \cup {Head(release)}
  /\ UNCHANGED <<queue, count, ioSend, releaseVars, inflight, batch, packet, broken, log, wire>>

OnSendTake(t) ==
  /\ release # <<>>
  /\ Goto(t, "onSendTake", "onSend")
  /\ freed' = freed \cup {Head(release)}
  /\ release' = Tail(release)
  /\ UNCHANGED <<queue, count, ioSend, releaseCount, inflight, batch, packet, broken,
                 turnedAway, log, wire>>

(* ... until a Dequeue fails: no counted packet is left for it, or others     *)
(* that fail hold the counter down.                                           *)
OnSendUndo(t) ==
  /\ Goto(t, "onSendUndo", "idle")
  /\ releaseCount' = releaseCount + 1
  /\ UNCHANGED <<queue, count, ioSend, release, inflight, freed, batch, packet, broken,
                 turnedAway, log, wire>>
------------------------------------------------------------------------------
SendPost(t) == \/ Size(t) \/ Flag(t) \/ DequeueGate(t) \/ DequeueUndo(t)
               \/ DequeueTake(t) \/ Remember(t) \/ RememberCount(t)
               \/ NothingToSend(t) \/ Post(t)

(* What a thread does next inside the call it is in. *)
Step(t) == \/ EnqueueLink(t) \/ EnqueueCount(t) \/ SendPost(t)
           \/ Reset(t) \/ OnSendGate(t) \/ OnSendTake(t) \/ OnSendUndo(t)

Next == \/ \E t \in Threads : Step(t) \/ Completion(t) \/ CompletionFailed(t)
        \/ \E t \in Threads, p \in Packets : SendPacket(t, p)

Spec == Init /\ [][Next]_vars

(* Threads inside a call keep running and a completion is picked up by some   *)
(* I/O thread; nothing makes a caller send.                                   *)
FairSpec == /\ Spec
            /\ \A t \in Threads : WF_vars(Step(t))
            /\ SF_vars(\E t \in Workers : Completion(t))
------------------------------------------------------------------------------
TypeOK ==
  /\ queue \in Seq(Packets) /\ count \in Int
  /\ ioSend \in BOOLEAN
  /\ release \in Seq(Packets) /\ releaseCount \in Int /\ turnedAway \in BOOLEAN
  /\ inflight \in Seq(Packets)
  /\ freed \subseteq Packets
  /\ pc \in [Threads -> {"idle", "enqueue", "enqueueCount", "size", "flag",
                         "dequeue", "undo", "take", "remember", "rememberCount",
                         "nothing", "post", "reset", "onSend", "onSendTake", "onSendUndo"}]
  /\ batch \in [Threads -> Seq(Packets)]
  /\ packet \in [Senders -> SUBSET Packets]
  /\ broken \in BOOLEAN
  /\ log \in Seq(Packets) /\ wire \in Seq(Packets)

(* The threads that own the send OVERLAPPED. *)
Drainers == {t \in Threads :
               pc[t] \in {"dequeue", "undo", "take", "remember", "rememberCount",
                         "nothing", "post"}}

(* One OVERLAPPED (session.h:27,30; net_server.cpp:464-498): at most one      *)
(* thread prepares a WSASend, none while one is in flight or its completion   *)
(* has not cleared IOSend.                                                    *)
OneSend ==
  /\ Cardinality(Drainers \cup {t \in Workers : pc[t] = "reset"}) <= 1
  /\ inflight # <<>> => Drainers \cup {t \in Workers : pc[t] = "reset"} = {}
  /\ inflight # <<>> \/ Drainers # {} => ioSend

(* The packets taken off the queue and not yet handed to WSASend. *)
Taken == IF Drainers = {} THEN <<>>
         ELSE batch[CHOOSE t \in Drainers : TRUE]

(* Every packet is handed to WSASend once, in the order in which it entered   *)
(* SendQ, whichever threads do the sending (net_server.cpp:437,474-498).      *)
FifoOnce == ~broken => log = wire \o Taken \o queue

(* No packet is deleted twice, and none that went out is forgotten: until it  *)
(* is deleted it is on ReleasePacket, also if an OnSend was turned away       *)
(* (net_server.cpp:484; mmorpg_server.cpp:75-78).                             *)
FreedOnce ==
  /\ \A i, j \in 1 .. Len(release) : release[i] = release[j] => i = j
  /\ Range(release) \cap freed = {}
  /\ Range(wire) \subseteq Range(release) \cup freed

(* No packet the kernel is still sending is deleted ("after the send          *)
(* completed", net_server.h:33).                                              *)
NotFreedInFlight == Range(inflight) \cap freed = {}

(* When every call has returned and the kernel is idle nothing is left        *)
(* behind on SendQ (netWSASendPacket "sends a packet", net_server.h:45).      *)
NothingStranded ==
  (\A t \in Threads : pc[t] = "idle") /\ inflight = <<>> /\ ~broken
    => queue = <<>>

(* Every packet that went out is deleted in the end, unless an OnSend was     *)
(* turned away from it by the failing Dequeue of another and no OnSend got    *)
(* through since (lock_free_queue.h:81-84; mmorpg_server.cpp:75-81): nothing  *)
(* else leaves a packet of a completed send to a call that does not come.     *)
SentIsFreed ==
  \A p \in Packets : <>[](p \in Range(wire) /\ ~broken /\ ~turnedAway => p \in freed)
==============================================================================
