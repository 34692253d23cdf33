--------------------------- MODULE LockFreeStack ---------------------------
(***************************************************************************)
(* LockFreeStack<T> of src/Library/lock_free_stack.h: a Treiber stack      *)
(* whose top is a 128-bit pair (node, nodeID) replaced by a double-word    *)
(* compare-and-swap, with a separate counter that gates Pop.               *)
(*                                                                         *)
(* One action per access to shared memory, in the order of the code.       *)
(* Nodes are heap addresses: `new' may hand out any address that is not    *)
(* allocated, so an address comes back (ABA), and a popper may read a node *)
(* another popper has deleted; such a read returns anything.               *)
(***************************************************************************)
EXTENDS Integers, Sequences, FiniteSets

CONSTANTS Threads,   \* the threads that share the stack
          Nodes,     \* heap addresses a node can have
          Values,    \* the type T
          NULL,      \* nullptr
          NoValue,   \* outData before the first Pop
          MaxOps     \* bound: calls one thread makes

ASSUME NullAssumption == NULL \notin Nodes
ASSUME NoValueAssumption == NoValue \notin Values
ASSUME ValuesAssumption == Values # {}
ASSUME ThreadsAssumption == IsFiniteSet(Threads)
ASSUME MaxOpsAssumption == MaxOps \in Nat

VARIABLES
  top,     \* *m_topNode: [node |-> address or NULL, id |-> nodeID]
  count,   \* m_stackCount
  heap,    \* the allocated addresses
  data,    \* Node::data of each address
  next,    \* Node::pNext of each address
  pc,      \* where each thread is
  own,     \* Push: inputNode; Pop after its CAS: the node to delete
  ltop,    \* the local Top
  lnext,   \* Pop: the local pNext
  out,     \* Pop: *outData
  got,     \* the value handed out by the last Pop that returned true
  chain,   \* auxiliary: the addresses linked from top, top first
  left     \* calls a thread may still make

shared == <<top, count, heap, data, next>>
vars == <<top, count, heap, data, next, pc, own, ltop, lnext, out, got,
          chain, left>>

PushPcs == {"pushNode", "pushID", "pushCheck", "pushCAS"}
PopPcs  == {"popNode", "popID", "popNext", "popData", "popCheck", "popCAS"}
Pcs == {"idle", "pushCount", "popUndo", "popDelete"} \cup PushPcs \cup PopPcs

NoTop == [node |-> NULL, id |-> 0]

Init == /\ top = [node |-> NULL, id |-> 1]
        /\ count = 0
        /\ heap = {}
        /\ data = [n \in Nodes |-> CHOOSE v \in Values : TRUE]
        /\ next = [n \in Nodes |-> NULL]
        /\ pc = [t \in Threads |-> "idle"]
        /\ own = [t \in Threads |-> NULL]
        /\ ltop = [t \in Threads |-> NoTop]
        /\ lnext = [t \in Threads |-> NULL]
        /\ out = [t \in Threads |-> NoValue]
        /\ got = [t \in Threads |-> NoValue]
        /\ chain = <<>>
        /\ left = [t \in Threads |-> MaxOps]

Goto(t, from, to) == /\ pc[t] = from
                     /\ pc' = [pc EXCEPT ![t] = to]

(* A call begins only while the thread has calls left. *)
Call(t) == /\ left[t] > 0
           /\ left' = [left EXCEPT ![t] = @ - 1]

(* The locals of a call end with it. *)
EndLocals(t) == /\ ltop' = [ltop EXCEPT ![t] = NoTop]
                /\ lnext' = [lnext EXCEPT ![t] = NULL]
                /\ out' = [out EXCEPT ![t] = NoValue]
------------------------------------------------------------------------------
(* Push *)

PushNew(t, v) ==
  /\ Goto(t, "idle", "pushNode") /\ Call(t)
  /\ \E n \in Nodes \ heap :
       /\ heap' = heap \cup {n}
       /\ data' = [data EXCEPT ![n] = v]
       /\ next' = [next EXCEPT ![n] = NULL]
       /\ own' = [own EXCEPT ![t] = n]
  /\ UNCHANGED <<top, count, ltop, lnext, out, got, chain>>

ReadTopNode(t, from, to) ==
  /\ Goto(t, from, to)
  /\ ltop' = [ltop EXCEPT ![t].node = top.node]
  /\ UNCHANGED <<shared, own, lnext, out, got, chain, left>>

PushReadNode(t) == ReadTopNode(t, "pushNode", "pushID")

(* Reads nodeID and links the still private node in front of the top read. *)
PushReadID(t) ==
  /\ Goto(t, "pushID", "pushCheck")
  /\ ltop' = [ltop EXCEPT ![t].id = top.id]
  /\ next' = [next EXCEPT ![own[t]] = ltop[t].node]
  /\ UNCHANGED <<top, count, heap, data, own, lnext, out, got, chain, left>>

(* The recheck of nodeID: go on to the CAS, or start over. *)
Recheck(t, from, cas, retry) ==
  /\ Goto(t, from, IF ltop[t].id = top.id THEN cas ELSE retry)
  /\ UNCHANGED <<shared, own, ltop, lnext, out, got, chain, left>>

PushCheck(t) == Recheck(t, "pushCheck", "pushCAS", "pushNode")

(* A failed CAS stores the current top in the local one and loops. *)
CASFails(t, from, retry) ==
  /\ ltop[t] # top
  /\ Goto(t, from, retry)
  /\ ltop' = [ltop EXCEPT ![t] = top]
  /\ UNCHANGED <<shared, own, lnext, out, got, chain, left>>

PushCAS(t) ==
  \/ CASFails(t, "pushCAS", "pushNode")
  \/ /\ ltop[t] = top
     /\ Goto(t, "pushCAS", "pushCount")
     /\ top' = [node |-> own[t], id |-> top.id + 1]
     /\ chain' = <<own[t]>> \o chain
     /\ own' = [own EXCEPT ![t] = NULL]
     /\ UNCHANGED <<count, heap, data, next, ltop, lnext, out, got, left>>

PushCount(t) ==
  /\ Goto(t, "pushCount", "idle")
  /\ count' = count + 1
  /\ EndLocals(t)
  /\ UNCHANGED <<top, heap, data, next, own, got, chain, left>>
------------------------------------------------------------------------------
(* Pop *)

(* Faulty variant: the gate is off by one. *)
PopGateOffByOne(t) ==
  /\ Goto(t, "idle", IF count < 0 THEN "popUndo" ELSE "popNode")
  /\ Call(t)
  /\ count' = count - 1
  /\ UNCHANGED <<top, heap, data, next, own, ltop, lnext, out, got, chain>>

PopGate(t) ==
  /\ Goto(t, "idle", IF count - 1 < 0 THEN "popUndo" ELSE "popNode")
  /\ Call(t)
  /\ count' = count - 1
  /\ UNCHANGED <<top, heap, data, next, own, ltop, lnext, out, got, chain>>

(* Faulty variant: the failing Pop does not give its decrement back. *)
PopUndoForgotten(t) ==
  /\ Goto(t, "popUndo", "idle")
  /\ UNCHANGED <<shared, own, ltop, lnext, out, got, chain, left>>

(* Returns false. *)
PopUndo(t) ==
  /\ Goto(t, "popUndo", "idle")
  /\ count' = count + 1
  /\ UNCHANGED <<top, heap, data, next, own, ltop, lnext, out, got, chain, left>>

PopReadNode(t) == ReadTopNode(t, "popNode", "popID")

PopReadID(t) ==
  /\ Goto(t, "popID", IF ltop[t].node = NULL THEN "popNode" ELSE "popNext")
  /\ ltop' = [ltop EXCEPT ![t].id = top.id]
  /\ UNCHANGED <<shared, own, lnext, out, got, chain, left>>

(* What reading a field of node n can return: its value while n is         *)
(* allocated, anything once n is deleted.                                  *)
ReadNode(n, field, range) == IF n \in heap THEN {field[n]} ELSE range

PopReadNext(t) ==
  /\ Goto(t, "popNext", "popData")
  /\ \E x \in ReadNode(ltop[t].node, next, Nodes \cup {NULL}) :
       lnext' = [lnext EXCEPT ![t] = x]
  /\ UNCHANGED <<shared, own, ltop, out, got, chain, left>>

PopReadData(t) ==
  /\ Goto(t, "popData", "popCheck")
  /\ \E v \in ReadNode(ltop[t].node, data, Values) :
       out' = [out EXCEPT ![t] = v]
  /\ UNCHANGED <<shared, own, ltop, lnext, got, chain, left>>

PopCheck(t) == Recheck(t, "popCheck", "popCAS", "popNode")

(* Faulty variant: a single-word CAS that compares the pointer only. *)
PopCASPointerOnly(t) ==
  \/ CASFails(t, "popCAS", "popNode") /\ ltop[t].node # top.node
  \/ /\ ltop[t].node = top.node
     /\ Goto(t, "popCAS", "popDelete")
     /\ top' = [node |-> lnext[t], id |-> top.id + 1]
     /\ chain' = Tail(chain)
     /\ own' = [own EXCEPT ![t] = ltop[t].node]
     /\ got' = [got EXCEPT ![t] = out[t]]
     /\ UNCHANGED <<count, heap, data, next, ltop, lnext, out, left>>

PopCAS(t) ==
  \/ CASFails(t, "popCAS", "popNode")
  \/ /\ ltop[t] = top
     /\ Goto(t, "popCAS", "popDelete")
     /\ top' = [node |-> lnext[t], id |-> top.id + 1]
     /\ chain' = Tail(chain)
     /\ own' = [own EXCEPT ![t] = ltop[t].node]
     /\ got' = [got EXCEPT ![t] = out[t]]
     /\ UNCHANGED <<count, heap, data, next, ltop, lnext, out, left>>

PopDelete(t) ==
  /\ Goto(t, "popDelete", "idle")
  /\ heap' = heap \ {own[t]}
  /\ own' = [own EXCEPT ![t] = NULL]
  /\ EndLocals(t)
  /\ UNCHANGED <<top, count, data, next, got, chain, left>>
------------------------------------------------------------------------------
Push(t) == \/ \E v \in Values : PushNew(t, v)
           \/ PushReadNode(t) \/ PushReadID(t) \/ PushCheck(t)
           \/ PushCAS(t) \/ PushCount(t)

Pop(t) == \/ PopGate(t) \/ PopUndo(t) \/ PopReadNode(t) \/ PopReadID(t)
          \/ PopReadNext(t) \/ PopReadData(t) \/ PopCheck(t)
          \/ PopCAS(t) \/ PopDelete(t)

Next == \E t \in Threads : Push(t) \/ Pop(t)

Spec == Init /\ [][Next]_vars

(* A thread inside a call keeps running; nothing obliges it to call again.  *)
FairSpec == /\ Spec
            /\ \A t \in Threads :
                 WF_vars(pc[t] # "idle" /\ (Push(t) \/ Pop(t)))
------------------------------------------------------------------------------
(* isEmpty() and GetSize(): plain reads of the two shared words. *)
isEmpty == top.node = NULL
GetSize == count

TypeOK == /\ top \in [node : Nodes \cup {NULL}, id : Nat]
          /\ count \in Int
          /\ heap \subseteq Nodes
          /\ data \in [Nodes -> Values]
          /\ next \in [Nodes -> Nodes \cup {NULL}]
          /\ pc \in [Threads -> Pcs]
          /\ own \in [Threads -> Nodes \cup {NULL}]
          /\ ltop \in [Threads -> [node : Nodes \cup {NULL}, id : Nat]]
          /\ lnext \in [Threads -> Nodes \cup {NULL}]
          /\ out \in [Threads -> Values \cup {NoValue}]
          /\ got \in [Threads -> Values \cup {NoValue}]
          /\ chain \in Seq(Nodes)
          /\ left \in [Threads -> Nat]

(* The threads between a gate that let them through and their CAS. *)
Reserved == {t \in Threads : pc[t] \in PopPcs}
Uncounted == {t \in Threads : pc[t] = "pushCount"}
Undoing == {t \in Threads : pc[t] = "popUndo"}

(* What the pushers' and poppers' heap cells look like: the nodes linked    *)
(* from top are exactly chain, all allocated and all different, whatever    *)
(* stale pointers other threads still hold (lock_free_stack.h:42-56,69-88). *)
ChainIntact ==
  /\ top.node = IF chain = <<>> THEN NULL ELSE chain[1]
  /\ \A i \in 1 .. Len(chain) :
       /\ chain[i] \in heap
       /\ next[chain[i]] = IF i = Len(chain) THEN NULL ELSE chain[i + 1]
       /\ \A j \in 1 .. Len(chain) : chain[i] = chain[j] => i = j

(* A node a thread is about to link or to delete belongs to it alone: it is *)
(* not reachable from top and no other thread will link or delete it        *)
(* (lock_free_stack.h:35,83): no double delete, no delete of a linked node. *)
OwnedNodesPrivate ==
  \A t \in Threads : own[t] # NULL =>
    /\ own[t] \in heap
    /\ \A i \in 1 .. Len(chain) : chain[i] # own[t]
    /\ \A u \in Threads : own[u] = own[t] => u = t

(* The gate is sound: there is a linked node for every Pop that the counter *)
(* let through, so a Pop never spins on an empty stack waiting for a Push   *)
(* that may never come (lock_free_stack.h:63-76).                           *)
GateSound == Len(chain) >= Cardinality(Reserved)

(* A Pop whose tag still matches read the top node's own fields, so the CAS *)
(* never publishes a pointer or returns a value read from a deleted or      *)
(* reused node: the ABA protection (lock_free_stack.h:77-81).               *)
TagProtects ==
  \A t \in Threads : /\ pc[t] \in {"popCheck", "popCAS"}
                     /\ ltop[t] = top
                     => /\ top.node \in heap
                        /\ lnext[t] = next[top.node]
                        /\ out[t] = data[top.node]

(* Once no call is in progress the counter equals the number of linked      *)
(* nodes: no interleaving of failing and succeeding calls makes it drift    *)
(* (lock_free_stack.h:51,63-65).                                            *)
CountSettles ==
  (\A t \in Threads : pc[t] = "idle") => GetSize = Len(chain)

(* The stack is linearizable: it implements the atomic stack, with the      *)
(* values read off the linked nodes.                                        *)
Abstract == INSTANCE IndexStack
              WITH items <- [i \in 1 .. Len(chain) |-> data[chain[i]]]
Linearizable == Abstract!Spec

(* Lock-freedom: with finitely many calls every one of them returns, so a   *)
(* retry loop (lock_free_stack.h:42-57,70-88) only goes round because        *)
(* another call got through, and no Pop waits for a node that never comes.   *)
CallsReturn == \A t \in Threads : pc[t] # "idle" ~> pc[t] = "idle"
==============================================================================
