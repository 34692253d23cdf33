---------------------------- MODULE LockFreeQueue ----------------------------
(***************************************************************************)
(* LockFreeQueue<T> of src/Library/lock_free_queue.h: a linked queue with a *)
(* dummy node, whose head and tail are 128-bit pairs (node, nodeID), and a  *)
(* counter that gates Dequeue.  A node is linked by a single-word           *)
(* compare-and-swap on pNext of the tail node, which carries no tag.        *)
(*                                                                          *)
(* One action per access to shared memory.  Nodes are heap addresses.  The  *)
(* variable reuse, chosen at the start, says whether the allocator may      *)
(* overwrite a deleted node and hand out its address while some Enqueue     *)
(* still holds it as the tail it read.                                      *)
(***************************************************************************)
EXTENDS Integers, Sequences, FiniteSets, Functions

CONSTANTS Threads,   \* the threads that share the queue
          Nodes,     \* heap addresses a node can have
          Values,    \* the type T
          NULL,      \* nullptr
          NoValue,   \* *outVal before the first Dequeue
          MaxOps     \* bound: calls made in all

ASSUME NullAssumption == NULL \notin Nodes
ASSUME NodesAssumption == Nodes # {} /\ Values # {} /\ IsFiniteSet(Nodes) /\ IsFiniteSet(Threads)

VARIABLES
  reuse,
  head, tail, \* *m_pHead, *m_pTail: [node, id]
  count,      \* m_queueCount
  heap,       \* the allocated addresses
  val, next,  \* Node::val and Node::pNext of each address
  pc,
  own,        \* Enqueue: inputNode; Dequeue after its CAS: the node to delete
  ht, tt,     \* the locals hTop and tTop
  hn, tn,     \* pHeadNext; pPrevNext or pTailNext
  out, got,   \* *outVal during a Dequeue and after the last that succeeded
  left        \* calls that may still be made

shared == <<reuse, head, tail, count, heap, val, next>>
local == <<own, ht, tt, hn, tn, out>>
vars == <<shared, local, pc, got, left>>

NoCell == [node |-> NULL, id |-> 0]

Init == /\ reuse \in BOOLEAN
        /\ \E n \in Nodes : heap = {n} /\ head = [node |-> n, id |-> 1]
        /\ tail = head
        /\ count = 0
        /\ val = [n \in Nodes |-> CHOOSE v \in Values : TRUE]
        /\ next = [n \in Nodes |-> NULL]
        /\ pc = [t \in Threads |-> "idle"]
        /\ own = [t \in Threads |-> NULL]
        /\ ht = [t \in Threads |-> NoCell] /\ tt = [t \in Threads |-> NoCell]
        /\ hn = [t \in Threads |-> NULL] /\ tn = [t \in Threads |-> NULL]
        /\ out = [t \in Threads |-> NoValue]
        /\ got = [t \in Threads |-> NoValue]
        /\ left = MaxOps

Goto(t, from, to) == pc[t] = from /\ pc' = [pc EXCEPT ![t] = to]

Call == left > 0 /\ left' = left - 1

(* The locals of a call end with it. *)
Return(t) == /\ own' = [own EXCEPT ![t] = NULL]
             /\ ht' = [ht EXCEPT ![t] = NoCell] /\ tt' = [tt EXCEPT ![t] = NoCell]
             /\ hn' = [hn EXCEPT ![t] = NULL] /\ tn' = [tn EXCEPT ![t] = NULL]
             /\ out' = [out EXCEPT ![t] = NoValue]

(* Reading a field: its value while the node is allocated, else anything.   *)
ReadNode(n, field, range) == IF n \in heap THEN {field[n]} ELSE range

(* The locals a failed CAS overwrites are read again before they are used.  *)
CASTail(t, new) == IF tt[t] = tail
                   THEN tail' = [node |-> new, id |-> tail.id + 1]
                   ELSE UNCHANGED tail

ReadTailID(t, from, to) ==
  /\ Goto(t, from, to)
  /\ tt' = [tt EXCEPT ![t].id = tail.id]
  /\ UNCHANGED <<shared, own, ht, hn, tn, out, got, left>>

ReadTailNode(t, from, to) ==
  /\ Goto(t, from, to)
  /\ tt' = [tt EXCEPT ![t].node = tail.node]
  /\ UNCHANGED <<shared, own, ht, hn, tn, out, got, left>>

ReadTailNext(t, from, to) ==
  /\ Goto(t, from, to)
  /\ \E n \in ReadNode(tt[t].node, next, Nodes \cup {NULL}) :
       tn' = [tn EXCEPT ![t] = n]
  /\ UNCHANGED <<shared, own, ht, tt, hn, out, got, left>>

(* Helps a tail that lags behind, and starts over. *)
Help(t, from, to) ==
  /\ Goto(t, from, to)
  /\ CASTail(t, tn[t])
  /\ UNCHANGED <<reuse, head, count, heap, val, next, local, got, left>>
------------------------------------------------------------------------------
(* Enqueue *)

(* The addresses an Enqueue under way has read from the tail. *)
HeldTails == {tt[t].node : t \in {u \in Threads : pc[u] \in
                {"enqNext", "enqCheck", "enqLink", "enqSwing"}}}

EnqNew(t, v) ==
  /\ Goto(t, "idle", "enqInit") /\ Call
  /\ \E n \in Nodes \ heap :
       /\ reuse \/ n \notin HeldTails
       /\ heap' = heap \cup {n}
       /\ val' = [val EXCEPT ![n] = v]
       /\ next' = [next EXCEPT ![n] = NULL]
       /\ own' = [own EXCEPT ![t] = n]
  /\ UNCHANGED <<reuse, head, tail, count, ht, tt, hn, tn, out, got>>

(* pNext, which the constructor has cleared, is cleared once more. *)
EnqInit(t) ==
  /\ Goto(t, "enqInit", "enqID")
  /\ next' = [next EXCEPT ![own[t]] = NULL]
  /\ UNCHANGED <<reuse, head, tail, count, heap, val, local, got, left>>

EnqID(t) == ReadTailID(t, "enqID", "enqNode")
EnqNode(t) == ReadTailNode(t, "enqNode", "enqNext")
EnqNext(t) == ReadTailNext(t, "enqNext", "enqCheck")

EnqCheck(t) ==
  /\ Goto(t, "enqCheck", IF tt[t].id # tail.id THEN "enqID"
                         ELSE IF tn[t] = NULL THEN "enqLink" ELSE "enqHelp")
  /\ UNCHANGED <<shared, local, got, left>>

(* Faulty variant: the node is stored without looking at what is there. *)
EnqLinkStore(t) ==
  /\ Goto(t, "enqLink", "enqSwing")
  /\ next' = [next EXCEPT ![tt[t].node] = own[t]]
  /\ UNCHANGED <<reuse, head, tail, count, heap, val, local, got, left>>

(* The CAS on pNext.  A deleted node that was overwritten may hold a zero.  *)
EnqLink(t) ==
  /\ pc[t] = "enqLink"
  /\ \E n \in IF reuse THEN ReadNode(tt[t].node, next, {NULL, own[t]})
              ELSE {next[tt[t].node]} :
       /\ pc' = [pc EXCEPT ![t] = IF n = NULL THEN "enqSwing" ELSE "enqID"]
       /\ next' = IF n = NULL THEN [next EXCEPT ![tt[t].node] = own[t]] ELSE next
  /\ UNCHANGED <<reuse, head, tail, count, heap, val, local, got, left>>

EnqSwing(t) ==
  /\ Goto(t, "enqSwing", "enqCount")
  /\ CASTail(t, own[t])
  /\ UNCHANGED <<reuse, head, count, heap, val, next, local, got, left>>

EnqHelp(t) == Help(t, "enqHelp", "enqID")

EnqCount(t) ==
  /\ Goto(t, "enqCount", "idle")
  /\ count' = count + 1
  /\ Return(t)
  /\ UNCHANGED <<reuse, head, tail, heap, val, next, got, left>>
------------------------------------------------------------------------------
(* Dequeue *)

(* Faulty variant: the gate is off by one. *)
DeqGateOffByOne(t) ==
  /\ Goto(t, "idle", IF count < 0 THEN "deqUndo" ELSE "deqHeadID")
  /\ Call
  /\ count' = count - 1
  /\ UNCHANGED <<reuse, head, tail, heap, val, next, local, got>>

DeqGate(t) ==
  /\ Goto(t, "idle", IF count - 1 < 0 THEN "deqUndo" ELSE "deqHeadID")
  /\ Call
  /\ count' = count - 1
  /\ UNCHANGED <<reuse, head, tail, heap, val, next, local, got>>

DeqUndo(t) ==
  /\ Goto(t, "deqUndo", "idle")
  /\ count' = count + 1
  /\ UNCHANGED <<reuse, head, tail, heap, val, next, local, got, left>>

DeqHeadID(t) ==
  /\ Goto(t, "deqHeadID", "deqHeadNode")
  /\ ht' = [ht EXCEPT ![t].id = head.id]
  /\ UNCHANGED <<shared, own, tt, hn, tn, out, got, left>>

DeqHeadNode(t) ==
  /\ Goto(t, "deqHeadNode", "deqHeadNext")
  /\ ht' = [ht EXCEPT ![t].node = head.node]
  /\ UNCHANGED <<shared, own, tt, hn, tn, out, got, left>>

DeqHeadNext(t) ==
  /\ Goto(t, "deqHeadNext", "deqTailID")
  /\ \E n \in ReadNode(ht[t].node, next, Nodes \cup {NULL}) :
       hn' = [hn EXCEPT ![t] = n]
  /\ UNCHANGED <<shared, own, ht, tt, tn, out, got, left>>

DeqTailID(t) == ReadTailID(t, "deqTailID", "deqTailNode")
DeqTailNode(t) == ReadTailNode(t, "deqTailNode", "deqTailNext")
DeqTailNext(t) == ReadTailNext(t, "deqTailNext", "deqCheck")

(* Faulty variant: a lagging tail is not noticed. *)
DeqCheckNoHelp(t) ==
  /\ Goto(t, "deqCheck", IF tt[t].id # tail.id THEN "deqHeadID" ELSE "deqHead")
  /\ UNCHANGED <<shared, local, got, left>>

DeqCheck(t) ==
  /\ Goto(t, "deqCheck", IF tt[t].id # tail.id THEN "deqHeadID"
                         ELSE IF tn[t] # NULL THEN "deqHelp" ELSE "deqHead")
  /\ UNCHANGED <<shared, local, got, left>>

DeqHelp(t) == Help(t, "deqHelp", "deqHeadID")

DeqHead(t) ==
  /\ Goto(t, "deqHead", IF ht[t].id = head.id /\ hn[t] # NULL THEN "deqVal"
                        ELSE "deqHeadID")
  /\ UNCHANGED <<shared, local, got, left>>

DeqVal(t) ==
  /\ Goto(t, "deqVal", "deqCAS")
  /\ \E v \in ReadNode(hn[t], val, Values) : out' = [out EXCEPT ![t] = v]
  /\ UNCHANGED <<shared, own, ht, tt, hn, tn, got, left>>

DeqCAS(t) ==
  IF ht[t] = head
  THEN /\ Goto(t, "deqCAS", "deqDelete")
       /\ head' = [node |-> hn[t], id |-> head.id + 1]
       /\ own' = [own EXCEPT ![t] = ht[t].node]
       /\ got' = [got EXCEPT ![t] = out[t]]
       /\ UNCHANGED <<reuse, tail, count, heap, val, next, ht, tt, hn, tn, out, left>>
  ELSE Goto(t, "deqCAS", "deqHeadID") /\ UNCHANGED <<shared, local, got, left>>

DeqDelete(t) ==
  /\ Goto(t, "deqDelete", "idle")
  /\ heap' = heap \ {own[t]}
  /\ Return(t)
  /\ UNCHANGED <<reuse, head, tail, count, val, next, got, left>>
------------------------------------------------------------------------------
Enqueue(t) == \/ \E v \in Values : EnqNew(t, v)
              \/ EnqInit(t) \/ EnqID(t) \/ EnqNode(t) \/ EnqNext(t)
              \/ EnqCheck(t) \/ EnqLink(t) \/ EnqSwing(t) \/ EnqHelp(t)
              \/ EnqCount(t)

Dequeue(t) == \/ DeqGate(t) \/ DeqUndo(t) \/ DeqHeadID(t) \/ DeqHeadNode(t)
              \/ DeqHeadNext(t) \/ DeqTailID(t) \/ DeqTailNode(t)
              \/ DeqTailNext(t) \/ DeqCheck(t) \/ DeqHelp(t) \/ DeqHead(t)
              \/ DeqVal(t) \/ DeqCAS(t) \/ DeqDelete(t)

Next == \E t \in Threads : Enqueue(t) \/ Dequeue(t)

Spec == Init /\ [][Next]_vars
------------------------------------------------------------------------------
(* The nodes linked from the dummy node on, followed for as many steps as    *)
(* there are addresses.                                                      *)
Linked(first, nx) ==
  LET at[i \in 1 .. Cardinality(Nodes)] ==
        IF i = 1 THEN first
        ELSE IF at[i - 1] = NULL THEN NULL ELSE nx[at[i - 1]]
  IN  [i \in 1 .. Cardinality({j \in DOMAIN at : at[j] # NULL}) |-> at[i]]

Chain == Linked(head.node, next)

Reserved == {t \in Threads : pc[t] \in
               {"deqHeadID", "deqHeadNode", "deqHeadNext", "deqTailID",
                "deqTailNode", "deqTailNext", "deqCheck", "deqHelp", "deqHead",
                "deqVal", "deqCAS"}}

(* Whatever the allocator does: the nodes linked from the dummy node are     *)
(* allocated and all different, the tail is one of them, and a node about to *)
(* be deleted is none of them and deleted by one thread only                 *)
(* (lock_free_queue.h:98-116): no lagging tail and no stale head leads to a  *)
(* deleted node that is still linked.                                        *)
NodesSafe ==
  LET linked == {Chain[i] : i \in 1 .. Len(Chain)}
      Deleting == {t \in Threads : pc[t] = "deqDelete"}
  IN  /\ linked \subseteq heap /\ Cardinality(linked) = Len(Chain)
      /\ tail.node \in linked
      /\ \A t \in Deleting : /\ own[t] \in heap \ linked
                              /\ \A u \in Deleting : own[u] = own[t] => u = t

(* There is a linked node for every Dequeue the counter let through, so none *)
(* spins waiting for an Enqueue that may never come                          *)
(* (lock_free_queue.h:64,81-119).  Only while no address comes back: an      *)
(* Enqueue that links its node to a node that is no longer the tail counts a *)
(* node nobody can reach.                                                    *)
GateSound == ~reuse => Len(Chain) - 1 >= Cardinality(Reserved)

(* The queue is linearizable while no address comes back: it implements the  *)
(* atomic queue, with the values read off the linked nodes                   *)
(* (lock_free_queue.h:57-72,112-113).                                        *)
Abstract == INSTANCE ValueQueue
              WITH items <- IF reuse THEN <<>>
                            ELSE [i \in 1 .. Len(Chain) - 1 |-> val[Chain[i + 1]]],
                   got <- IF reuse THEN [t \in Threads |-> NoValue] ELSE got
Linearizable == Abstract!Spec
==============================================================================
