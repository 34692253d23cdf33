------------------------ MODULE LockFreeStackProofs ------------------------
(* LockFreeStack for any number of threads, addresses, values and calls.     *)
EXTENDS LockFreeStack, FiniteSetTheorems, SequenceTheorems, TLAPS

(* A thread holds a node exactly between its allocation and the CAS that      *)
(* links it, and between the CAS that unlinks it and its deletion.            *)
Owners == \A t \in Threads : own[t] # NULL <=> pc[t] \in PushPcs \cup {"popDelete"}

(* The node a pusher is about to link points to the top it read.              *)
Linked == \A t \in Threads : pc[t] \in {"pushCheck", "pushCAS"}
                               => next[own[t]] = ltop[t].node

(* A popper past the null test has a node.                                    *)
PopNode == \A t \in Threads : pc[t] \in {"popNext", "popData", "popCheck", "popCAS"}
                                => ltop[t].node # NULL

(* No thread has seen a tag that is still to come.                            *)
TagsBelow == \A t \in Threads : ltop[t].id <= top.id

(* While the pair a popper read is still the top, so is what it read behind   *)
(* it: tags only grow, and a linked node does not change.                     *)
ReadsCurrent ==
  \A t \in Threads : ltop[t] = top =>
    /\ pc[t] \in {"popData", "popCheck", "popCAS"} => lnext[t] = next[top.node]
    /\ pc[t] \in {"popCheck", "popCAS"} => out[t] = data[top.node]

IInv == /\ TypeOK /\ ChainIntact /\ OwnedNodesPrivate /\ Owners /\ Linked
        /\ PopNode /\ TagsBelow /\ ReadsCurrent
-----------------------------------------------------------------------------
(* A compare-and-swap that fails changes nothing but the local copy of the    *)
(* top (lock_free_stack.h:49-55,81-88).                                       *)
LEMMA CASFailsInv ==
  ASSUME IInv, NEW t \in Threads, NEW from \in {"pushCAS", "popCAS"},
         NEW retry \in {"pushNode", "popNode"},
         from \in PushPcs <=> retry \in PushPcs, CASFails(t, from, retry)
  PROVE  IInv'
  <1> USE DEF IInv, CASFails, Goto, shared
  <1>1. TypeOK'
    BY DEF TypeOK, Pcs, PushPcs, PopPcs
  <1>2. ChainIntact' /\ OwnedNodesPrivate'
    BY DEF ChainIntact, OwnedNodesPrivate
  <1>3. Owners'
    BY DEF TypeOK, Owners, PushPcs
  <1>4. Linked' /\ PopNode'
    BY DEF TypeOK, Linked, PopNode
  <1>5. TagsBelow'
    BY DEF TypeOK, TagsBelow
  <1>6. ReadsCurrent'
    BY DEF TypeOK, ReadsCurrent
  <1> QED
    BY <1>1, <1>2, <1>3, <1>4, <1>5, <1>6 DEF IInv

(* A fresh node is neither linked nor held by another thread, and nobody whose *)
(* pair is still the top has read it (lock_free_stack.h:35-41).               *)
LEMMA PushNewInv ==
  ASSUME IInv, NEW t \in Threads, NEW v \in Values, PushNew(t, v)
  PROVE  IInv'
  <1>1. TypeOK'
    BY DEF IInv, TypeOK, Pcs, PushPcs, PopPcs, PushNew, Goto, Call
  <1>2. ChainIntact'
    BY DEF IInv, TypeOK, ChainIntact, PushNew, Goto, Call
  <1>3. OwnedNodesPrivate'
    BY DEF IInv, TypeOK, OwnedNodesPrivate, ChainIntact, PushNew, Goto,
           Call
  <1>4. Owners'
    BY NullAssumption DEF IInv, TypeOK, Owners, PushPcs, PushNew, Goto, Call
  <1>5. Linked'
    BY DEF IInv, TypeOK, Linked, OwnedNodesPrivate, Owners, PushPcs,
           PushNew, Goto, Call
  <1>6. PopNode'
    BY DEF IInv, TypeOK, PopNode, PushNew, Goto, Call
  <1>7. TagsBelow'
    BY DEF IInv, TypeOK, TagsBelow, PushNew, Goto, Call
  <1>8. ReadsCurrent'
    BY DEF IInv, TypeOK, ReadsCurrent, ChainIntact, PopNode, PushNew,
           Goto, Call
  <1> QED
    BY <1>1, <1>2, <1>3, <1>4, <1>5, <1>6, <1>7, <1>8 DEF IInv

(* A read of one half of the top (lock_free_stack.h:44).                      *)
LEMMA PushReadNodeInv ==
  ASSUME IInv, NEW t \in Threads, PushReadNode(t)
  PROVE  IInv'
  <1>1. TypeOK'
    BY DEF IInv, TypeOK, Pcs, PushPcs, PopPcs, PushReadNode, ReadTopNode,
           Goto, shared
  <1>2. ChainIntact'
    BY DEF IInv, TypeOK, ChainIntact, PushReadNode, ReadTopNode, Goto,
           shared
  <1>3. OwnedNodesPrivate'
    BY DEF IInv, TypeOK, OwnedNodesPrivate, PushReadNode, ReadTopNode,
           Goto, shared
  <1>4. Owners'
    BY DEF IInv, TypeOK, Owners, PushPcs, PushReadNode, ReadTopNode, Goto,
           shared
  <1>5. Linked'
    BY DEF IInv, TypeOK, Linked, PushReadNode, ReadTopNode, Goto, shared
  <1>6. PopNode'
    BY DEF IInv, TypeOK, PopNode, PushReadNode, ReadTopNode, Goto, shared
  <1>7. TagsBelow'
    BY DEF IInv, TypeOK, TagsBelow, PushReadNode, ReadTopNode, Goto,
           shared
  <1>8. ReadsCurrent'
    BY DEF IInv, TypeOK, ReadsCurrent, PushReadNode, ReadTopNode, Goto,
           shared
  <1> QED
    BY <1>1, <1>2, <1>3, <1>4, <1>5, <1>6, <1>7, <1>8 DEF IInv

(* The write to the new node's link touches a private node, so the list and   *)
(* what the poppers have read stay as they are (lock_free_stack.h:45-46).     *)
LEMMA PushReadIDInv ==
  ASSUME IInv, NEW t \in Threads, PushReadID(t)
  PROVE  IInv'
  <1>1. TypeOK'
    <2>1. top.id \in Nat /\ ltop[t] \in [node : Nodes \cup {NULL}, id : Nat]
      BY DEF IInv, TypeOK
    <2>2. [ltop[t] EXCEPT !.id = top.id] \in [node : Nodes \cup {NULL}, id : Nat]
      BY <2>1
    <2>3. ltop' \in [Threads -> [node : Nodes \cup {NULL}, id : Nat]]
      BY <2>2 DEF IInv, TypeOK, PushReadID
    <2> QED
      BY <2>1, <2>3 DEF IInv, TypeOK, Pcs, PushPcs, PushReadID, Goto
  <1>2. ChainIntact'
    BY DEF IInv, TypeOK, ChainIntact, OwnedNodesPrivate, Owners, PushPcs,
           PushReadID, Goto
  <1>3. OwnedNodesPrivate'
    BY DEF IInv, TypeOK, OwnedNodesPrivate, PushReadID, Goto
  <1>4. Owners'
    BY DEF IInv, TypeOK, Owners, PushPcs, PushReadID, Goto
  <1>5. Linked'
    BY DEF IInv, TypeOK, Linked, OwnedNodesPrivate, Owners, PushPcs,
           PushReadID, Goto
  <1>6. PopNode'
    BY DEF IInv, TypeOK, PopNode, PushReadID, Goto
  <1>7. TagsBelow'
    BY DEF IInv, TypeOK, TagsBelow, PushReadID, Goto
  <1>8. ReadsCurrent'
    <2>1. SUFFICES ASSUME NEW u \in Threads, ltop'[u] = top,
                          pc'[u] \in {"popData", "popCheck", "popCAS"}
                   PROVE  /\ lnext[u] = next'[top.node]
                          /\ pc'[u] \in {"popCheck", "popCAS"} => out[u] = data[top.node]
      BY DEF ReadsCurrent, PushReadID
    <2>2. u # t /\ ltop[u] = top /\ pc[u] = pc'[u]
      BY <2>1 DEF IInv, TypeOK, PushReadID, Goto
    <2>3. top.node # NULL
      BY <2>1, <2>2 DEF IInv, PopNode
    <2>4. top.node # own[t]
      BY <2>3 DEF IInv, TypeOK, ChainIntact, OwnedNodesPrivate, Owners, PushPcs,
                  PushReadID, Goto
    <2>5. next'[top.node] = next[top.node]
      BY <2>3, <2>4 DEF IInv, TypeOK, PushReadID
    <2> QED
      BY <2>1, <2>2, <2>5 DEF IInv, ReadsCurrent
  <1> QED
    BY <1>1, <1>2, <1>3, <1>4, <1>5, <1>6, <1>7, <1>8 DEF IInv

(* The recheck only moves the thread (lock_free_stack.h:47-48).               *)
LEMMA PushCheckInv ==
  ASSUME IInv, NEW t \in Threads, PushCheck(t)
  PROVE  IInv'
  <1>1. TypeOK'
    BY DEF IInv, TypeOK, Pcs, PushPcs, PopPcs, PushCheck, Recheck, Goto,
           shared
  <1>2. ChainIntact'
    BY DEF IInv, TypeOK, ChainIntact, PushCheck, Recheck, Goto, shared
  <1>3. OwnedNodesPrivate'
    BY DEF IInv, TypeOK, OwnedNodesPrivate, PushCheck, Recheck, Goto,
           shared
  <1>4. Owners'
    BY DEF IInv, TypeOK, Owners, PushPcs, PushCheck, Recheck, Goto, shared
  <1>5. Linked'
    BY DEF IInv, TypeOK, Linked, PushCheck, Recheck, Goto, shared
  <1>6. PopNode'
    BY DEF IInv, TypeOK, PopNode, PushCheck, Recheck, Goto, shared
  <1>7. TagsBelow'
    BY DEF IInv, TypeOK, TagsBelow, PushCheck, Recheck, Goto, shared
  <1>8. ReadsCurrent'
    BY DEF IInv, TypeOK, ReadsCurrent, PushCheck, Recheck, Goto, shared
  <1> QED
    BY <1>1, <1>2, <1>3, <1>4, <1>5, <1>6, <1>7, <1>8 DEF IInv

(* The private node becomes the first of the list under a tag no thread has   *)
(* seen (lock_free_stack.h:49).                                               *)
LEMMA PushCASInv ==
  ASSUME IInv, NEW t \in Threads, PushCAS(t)
  PROVE  IInv'
  <1> DEFINE n == own[t]
             Linking == /\ ltop[t] = top
                        /\ Goto(t, "pushCAS", "pushCount")
                        /\ top' = [node |-> n, id |-> top.id + 1]
                        /\ chain' = <<n>> \o chain
                        /\ own' = [own EXCEPT ![t] = NULL]
                        /\ UNCHANGED <<count, heap, data, next, ltop, lnext, out, got, left>>
  <1>1. CASE CASFails(t, "pushCAS", "pushNode")
    BY <1>1, CASFailsInv DEF PushPcs
  <1>2. CASE Linking
    <2>0. TypeOK /\ ChainIntact /\ OwnedNodesPrivate /\ Owners /\ Linked
      BY DEF IInv
    <2>1. /\ n \in heap /\ n \in Nodes /\ n # NULL
          /\ \A i \in 1 .. Len(chain) : chain[i] # n
          /\ next[n] = top.node
      BY <1>2, <2>0, NullAssumption
         DEF TypeOK, OwnedNodesPrivate, Owners, PushPcs, Linked, Goto
    <2>2. /\ chain' \in Seq(Nodes) /\ Len(chain') = Len(chain) + 1
          /\ chain'[1] = n
          /\ \A i \in 2 .. Len(chain) + 1 : chain'[i] = chain[i - 1]
      <3>1. chain \in Seq(Nodes) /\ <<n>> \in Seq(Nodes) /\ Len(<<n>>) = 1
        BY <2>0, <2>1 DEF TypeOK
      <3> QED
        BY <1>2, <3>1, ConcatProperties
    <2>3. TypeOK'
      BY <1>2, <2>0, <2>1, <2>2 DEF TypeOK, Pcs, PushPcs, PopPcs, Goto
    <2>4. ChainIntact'
      <3>1. top'.node = chain'[1] /\ chain' # <<>>
        BY <1>2, <2>2, <2>0 DEF TypeOK
      <3>2. ASSUME NEW i \in 1 .. Len(chain')
            PROVE  /\ chain'[i] \in heap
                   /\ next[chain'[i]] = IF i = Len(chain') THEN NULL ELSE chain'[i + 1]
                   /\ \A j \in 1 .. Len(chain') : chain'[i] = chain'[j] => i = j
        <4>1. Len(chain) \in Nat /\ (chain = <<>> <=> Len(chain) = 0)
          BY <2>0 DEF TypeOK
        <4>2. CASE i = 1
          <5>1. chain'[i] = n /\ n \in heap /\ i \in Nat
            BY <4>2, <2>1, <2>2
          <5>2. next[n] = IF Len(chain) = 0 THEN NULL ELSE chain[1]
            BY <4>1, <2>0, <2>1 DEF ChainIntact
          <5>3. Len(chain) # 0 => chain'[2] = chain[1]
            BY <4>1, <2>2
          <5>4. next[n] = IF 1 = Len(chain') THEN NULL ELSE chain'[1 + 1]
            BY <4>1, <5>2, <5>3, <2>2
          <5>5. ASSUME NEW j \in 1 .. Len(chain'), chain'[j] = n PROVE j = 1
            <6>1. ASSUME j # 1 PROVE chain'[j] = chain[j - 1] /\ j - 1 \in 1 .. Len(chain)
              BY <4>1, <6>1, <2>2
            <6> QED
              BY <5>5, <6>1, <2>1
          <5> QED
            BY <4>2, <5>1, <5>4, <5>5
        <4>3. CASE i # 1
          <5>1. i - 1 \in 1 .. Len(chain) /\ chain'[i] = chain[i - 1]
            BY <4>1, <4>3, <2>2
          <5>2. next[chain'[i]] = IF i = Len(chain') THEN NULL ELSE chain'[i + 1]
            <6>1. next[chain[i - 1]] = IF i - 1 = Len(chain) THEN NULL ELSE chain[i - 1 + 1]
              BY <5>1, <2>0 DEF ChainIntact
            <6>2. i - 1 # Len(chain) => i + 1 \in 2 .. Len(chain) + 1 /\ i - 1 + 1 = i
              BY <4>1, <5>1
            <6>3. i - 1 # Len(chain) => chain'[i + 1] = chain[i]
              BY <4>1, <5>1, <6>2, <2>2
            <6> QED
              BY <4>1, <5>1, <6>1, <6>2, <6>3, <2>2
          <5> QED
            BY <4>1, <5>1, <5>2, <2>0, <2>1, <2>2 DEF ChainIntact
        <4> QED
          BY <4>2, <4>3
      <3> QED
        BY <1>2, <3>1, <3>2 DEF ChainIntact
    <2>5. OwnedNodesPrivate'
      <3>1. \A u \in Threads : own'[u] = IF u = t THEN NULL ELSE own[u]
        BY <1>2, <2>0 DEF TypeOK
      <3>2. ASSUME NEW u \in Threads, u # t, own[u] # NULL
            PROVE  /\ own[u] \in heap
                   /\ \A i \in 1 .. Len(chain') : chain'[i] # own[u]
        <4>1. own[u] # n
          BY <2>0, <2>1, <3>2 DEF OwnedNodesPrivate
        <4>2. Len(chain) \in Nat
          BY <2>0 DEF TypeOK
        <4> QED
          BY <2>0, <2>2, <3>2, <4>1, <4>2 DEF OwnedNodesPrivate
      <3> QED
        BY <1>2, <2>0, <3>1, <3>2 DEF OwnedNodesPrivate
    <2>6. Owners'
      BY <1>2, <2>0 DEF TypeOK, Owners, PushPcs, Goto
    <2>7. Linked'
      BY <1>2, <2>0 DEF TypeOK, Linked, Goto
    <2>8. PopNode'
      BY <1>2, <2>0 DEF IInv, TypeOK, PopNode, Goto
    <2>9. top.id \in Nat /\ top'.id = top.id + 1 /\ ltop' = ltop
      BY <1>2, <2>0 DEF TypeOK
    <2>10. \A u \in Threads : ltop[u].id \in Nat /\ ltop[u].id <= top.id
      BY <2>0 DEF IInv, TypeOK, TagsBelow
    <2>11. TagsBelow'
      BY <2>9, <2>10 DEF TagsBelow
    <2>12. ReadsCurrent'
      <3>1. \A u \in Threads : ltop'[u].id # top'.id
        BY <2>9, <2>10
      <3> QED
        BY <3>1 DEF ReadsCurrent
    <2> QED
      BY <2>3, <2>4, <2>5, <2>6, <2>7, <2>8, <2>11, <2>12 DEF IInv
  <1> QED
    BY <1>1, <1>2 DEF PushCAS

(* The counter is apart from the list (lock_free_stack.h:51-58).              *)
LEMMA PushCountInv ==
  ASSUME IInv, NEW t \in Threads, PushCount(t)
  PROVE  IInv'
  <1>1. TypeOK'
    BY DEF IInv, TypeOK, Pcs, PushPcs, PopPcs, PushCount, Goto, EndLocals,
           NoTop
  <1>2. ChainIntact'
    BY DEF IInv, TypeOK, ChainIntact, PushCount, Goto, EndLocals, NoTop
  <1>3. OwnedNodesPrivate'
    BY DEF IInv, TypeOK, OwnedNodesPrivate, PushCount, Goto, EndLocals,
           NoTop
  <1>4. Owners'
    BY DEF IInv, TypeOK, Owners, PushPcs, PushCount, Goto, EndLocals,
           NoTop
  <1>5. Linked'
    BY DEF IInv, TypeOK, Linked, PushCount, Goto, EndLocals, NoTop
  <1>6. PopNode'
    BY DEF IInv, TypeOK, PopNode, PushCount, Goto, EndLocals, NoTop
  <1>7. TagsBelow'
    BY DEF IInv, TypeOK, TagsBelow, PushCount, Goto, EndLocals, NoTop
  <1>8. ReadsCurrent'
    BY DEF IInv, TypeOK, ReadsCurrent, PushCount, Goto, EndLocals, NoTop
  <1> QED
    BY <1>1, <1>2, <1>3, <1>4, <1>5, <1>6, <1>7, <1>8 DEF IInv

(* The gate only moves the thread and the counter (lock_free_stack.h:63).     *)
LEMMA PopGateInv ==
  ASSUME IInv, NEW t \in Threads, PopGate(t)
  PROVE  IInv'
  <1>1. TypeOK'
    BY DEF IInv, TypeOK, Pcs, PushPcs, PopPcs, PopGate, Goto, Call
  <1>2. ChainIntact'
    BY DEF IInv, TypeOK, ChainIntact, PopGate, Goto, Call
  <1>3. OwnedNodesPrivate'
    BY DEF IInv, TypeOK, OwnedNodesPrivate, PopGate, Goto, Call
  <1>4. Owners'
    BY DEF IInv, TypeOK, Owners, PushPcs, PopGate, Goto, Call
  <1>5. Linked'
    BY DEF IInv, TypeOK, Linked, PopGate, Goto, Call
  <1>6. PopNode'
    BY DEF IInv, TypeOK, PopNode, PopGate, Goto, Call
  <1>7. TagsBelow'
    BY DEF IInv, TypeOK, TagsBelow, PopGate, Goto, Call
  <1>8. ReadsCurrent'
    BY DEF IInv, TypeOK, ReadsCurrent, PopGate, Goto, Call
  <1> QED
    BY <1>1, <1>2, <1>3, <1>4, <1>5, <1>6, <1>7, <1>8 DEF IInv

(* So does giving the decrement back (lock_free_stack.h:65).                  *)
LEMMA PopUndoInv ==
  ASSUME IInv, NEW t \in Threads, PopUndo(t)
  PROVE  IInv'
  <1>1. TypeOK'
    BY DEF IInv, TypeOK, Pcs, PushPcs, PopPcs, PopUndo, Goto
  <1>2. ChainIntact'
    BY DEF IInv, TypeOK, ChainIntact, PopUndo, Goto
  <1>3. OwnedNodesPrivate'
    BY DEF IInv, TypeOK, OwnedNodesPrivate, PopUndo, Goto
  <1>4. Owners'
    BY DEF IInv, TypeOK, Owners, PushPcs, PopUndo, Goto
  <1>5. Linked'
    BY DEF IInv, TypeOK, Linked, PopUndo, Goto
  <1>6. PopNode'
    BY DEF IInv, TypeOK, PopNode, PopUndo, Goto
  <1>7. TagsBelow'
    BY DEF IInv, TypeOK, TagsBelow, PopUndo, Goto
  <1>8. ReadsCurrent'
    BY DEF IInv, TypeOK, ReadsCurrent, PopUndo, Goto
  <1> QED
    BY <1>1, <1>2, <1>3, <1>4, <1>5, <1>6, <1>7, <1>8 DEF IInv

(* A read of one half of the top (lock_free_stack.h:72).                      *)
LEMMA PopReadNodeInv ==
  ASSUME IInv, NEW t \in Threads, PopReadNode(t)
  PROVE  IInv'
  <1>1. TypeOK'
    BY DEF IInv, TypeOK, Pcs, PushPcs, PopPcs, PopReadNode, ReadTopNode,
           Goto, shared
  <1>2. ChainIntact'
    BY DEF IInv, TypeOK, ChainIntact, PopReadNode, ReadTopNode, Goto,
           shared
  <1>3. OwnedNodesPrivate'
    BY DEF IInv, TypeOK, OwnedNodesPrivate, PopReadNode, ReadTopNode,
           Goto, shared
  <1>4. Owners'
    BY DEF IInv, TypeOK, Owners, PushPcs, PopReadNode, ReadTopNode, Goto,
           shared
  <1>5. Linked'
    BY DEF IInv, TypeOK, Linked, PopReadNode, ReadTopNode, Goto, shared
  <1>6. PopNode'
    BY DEF IInv, TypeOK, PopNode, PopReadNode, ReadTopNode, Goto, shared
  <1>7. TagsBelow'
    BY DEF IInv, TypeOK, TagsBelow, PopReadNode, ReadTopNode, Goto, shared
  <1>8. ReadsCurrent'
    BY DEF IInv, TypeOK, ReadsCurrent, PopReadNode, ReadTopNode, Goto,
           shared
  <1> QED
    BY <1>1, <1>2, <1>3, <1>4, <1>5, <1>6, <1>7, <1>8 DEF IInv

(* The pair is complete; a null node is not followed (lock_free_stack.h:73-76). *)
LEMMA PopReadIDInv ==
  ASSUME IInv, NEW t \in Threads, PopReadID(t)
  PROVE  IInv'
  <1>1. TypeOK'
    <2>1. top.id \in Nat /\ ltop[t] \in [node : Nodes \cup {NULL}, id : Nat]
      BY DEF IInv, TypeOK
    <2>2. [ltop[t] EXCEPT !.id = top.id] \in [node : Nodes \cup {NULL}, id : Nat]
      BY <2>1
    <2>3. ltop' \in [Threads -> [node : Nodes \cup {NULL}, id : Nat]]
      BY <2>2 DEF IInv, TypeOK, PopReadID
    <2> QED
      BY <2>3 DEF IInv, TypeOK, Pcs, PopPcs, PopReadID, Goto, shared
  <1>2. ChainIntact'
    BY DEF IInv, TypeOK, ChainIntact, PopReadID, Goto, shared
  <1>3. OwnedNodesPrivate'
    BY DEF IInv, TypeOK, OwnedNodesPrivate, PopReadID, Goto, shared
  <1>4. Owners'
    BY DEF IInv, TypeOK, Owners, PushPcs, PopReadID, Goto, shared
  <1>5. Linked'
    BY DEF IInv, TypeOK, Linked, PopReadID, Goto, shared
  <1>6. PopNode'
    BY DEF IInv, TypeOK, PopNode, PopReadID, Goto, shared
  <1>7. TagsBelow'
    BY DEF IInv, TypeOK, TagsBelow, PopReadID, Goto, shared
  <1>8. ReadsCurrent'
    BY DEF IInv, TypeOK, ReadsCurrent, PopReadID, Goto, shared
  <1> QED
    BY <1>1, <1>2, <1>3, <1>4, <1>5, <1>6, <1>7, <1>8 DEF IInv

(* If the pair is the top its node is allocated, so the link read is the real *)
(* one; otherwise it may be anything (lock_free_stack.h:77).                  *)
LEMMA PopReadNextInv ==
  ASSUME IInv, NEW t \in Threads, PopReadNext(t)
  PROVE  IInv'
  <1>1. TypeOK'
    BY DEF IInv, TypeOK, Pcs, PushPcs, PopPcs, PopReadNext, ReadNode,
           Goto, shared
  <1>2. ChainIntact'
    BY DEF IInv, TypeOK, ChainIntact, PopReadNext, ReadNode, Goto, shared
  <1>3. OwnedNodesPrivate'
    BY DEF IInv, TypeOK, OwnedNodesPrivate, PopReadNext, ReadNode, Goto,
           shared
  <1>4. Owners'
    BY DEF IInv, TypeOK, Owners, PushPcs, PopReadNext, ReadNode, Goto,
           shared
  <1>5. Linked'
    BY DEF IInv, TypeOK, Linked, PopReadNext, ReadNode, Goto, shared
  <1>6. PopNode'
    BY DEF IInv, TypeOK, PopNode, PopReadNext, ReadNode, Goto, shared
  <1>7. TagsBelow'
    BY DEF IInv, TypeOK, TagsBelow, PopReadNext, ReadNode, Goto, shared
  <1>8. ReadsCurrent'
    BY DEF IInv, TypeOK, ReadsCurrent, ChainIntact, PopNode, PopReadNext,
           ReadNode, Goto, shared
  <1> QED
    BY <1>1, <1>2, <1>3, <1>4, <1>5, <1>6, <1>7, <1>8 DEF IInv

(* The same for the value (lock_free_stack.h:78).                             *)
LEMMA PopReadDataInv ==
  ASSUME IInv, NEW t \in Threads, PopReadData(t)
  PROVE  IInv'
  <1>1. TypeOK'
    BY DEF IInv, TypeOK, Pcs, PushPcs, PopPcs, PopReadData, ReadNode,
           Goto, shared
  <1>2. ChainIntact'
    BY DEF IInv, TypeOK, ChainIntact, PopReadData, ReadNode, Goto, shared
  <1>3. OwnedNodesPrivate'
    BY DEF IInv, TypeOK, OwnedNodesPrivate, PopReadData, ReadNode, Goto,
           shared
  <1>4. Owners'
    BY DEF IInv, TypeOK, Owners, PushPcs, PopReadData, ReadNode, Goto,
           shared
  <1>5. Linked'
    BY DEF IInv, TypeOK, Linked, PopReadData, ReadNode, Goto, shared
  <1>6. PopNode'
    BY DEF IInv, TypeOK, PopNode, PopReadData, ReadNode, Goto, shared
  <1>7. TagsBelow'
    BY DEF IInv, TypeOK, TagsBelow, PopReadData, ReadNode, Goto, shared
  <1>8. ReadsCurrent'
    BY DEF IInv, TypeOK, ReadsCurrent, ChainIntact, PopNode, PopReadData,
           ReadNode, Goto, shared
  <1> QED
    BY <1>1, <1>2, <1>3, <1>4, <1>5, <1>6, <1>7, <1>8 DEF IInv

(* The recheck only moves the thread (lock_free_stack.h:79-80).               *)
LEMMA PopCheckInv ==
  ASSUME IInv, NEW t \in Threads, PopCheck(t)
  PROVE  IInv'
  <1>1. TypeOK'
    BY DEF IInv, TypeOK, Pcs, PushPcs, PopPcs, PopCheck, Recheck, Goto,
           shared
  <1>2. ChainIntact'
    BY DEF IInv, TypeOK, ChainIntact, PopCheck, Recheck, Goto, shared
  <1>3. OwnedNodesPrivate'
    BY DEF IInv, TypeOK, OwnedNodesPrivate, PopCheck, Recheck, Goto,
           shared
  <1>4. Owners'
    BY DEF IInv, TypeOK, Owners, PushPcs, PopCheck, Recheck, Goto, shared
  <1>5. Linked'
    BY DEF IInv, TypeOK, Linked, PopCheck, Recheck, Goto, shared
  <1>6. PopNode'
    BY DEF IInv, TypeOK, PopNode, PopCheck, Recheck, Goto, shared
  <1>7. TagsBelow'
    BY DEF IInv, TypeOK, TagsBelow, PopCheck, Recheck, Goto, shared
  <1>8. ReadsCurrent'
    BY DEF IInv, TypeOK, ReadsCurrent, PopCheck, Recheck, Goto, shared
  <1> QED
    BY <1>1, <1>2, <1>3, <1>4, <1>5, <1>6, <1>7, <1>8 DEF IInv

(* The first node leaves the list and belongs to the thread, under a tag no   *)
(* thread has seen (lock_free_stack.h:81).                                    *)
LEMMA PopCASInv ==
  ASSUME IInv, NEW t \in Threads, PopCAS(t)
  PROVE  IInv'
  <1> DEFINE n == ltop[t].node
             Unlinking == /\ ltop[t] = top
                          /\ Goto(t, "popCAS", "popDelete")
                          /\ top' = [node |-> lnext[t], id |-> top.id + 1]
                          /\ chain' = Tail(chain)
                          /\ own' = [own EXCEPT ![t] = n]
                          /\ got' = [got EXCEPT ![t] = out[t]]
                          /\ UNCHANGED <<count, heap, data, next, ltop, lnext, out, left>>
  <1>1. CASE CASFails(t, "popCAS", "popNode")
    BY <1>1, CASFailsInv DEF PushPcs
  <1>2. CASE Unlinking
    <2>0. /\ TypeOK /\ ChainIntact /\ OwnedNodesPrivate /\ Owners /\ Linked
          /\ PopNode /\ ReadsCurrent
      BY DEF IInv
    <2>1. /\ n = top.node /\ n # NULL /\ lnext[t] = next[n]
          /\ pc[t] = "popCAS" /\ own[t] = NULL
      BY <1>2, <2>0 DEF PopNode, ReadsCurrent, Goto, Owners, PushPcs
    <2>2. /\ chain # <<>> /\ chain \in Seq(Nodes) /\ Len(chain) \in Nat \ {0}
          /\ chain[1] = n /\ n \in heap /\ n \in Nodes
      BY <2>0, <2>1 DEF TypeOK, ChainIntact
    <2>3. /\ chain' \in Seq(Nodes) /\ Len(chain') = Len(chain) - 1
          /\ \A i \in 1 .. Len(chain) - 1 : chain'[i] = chain[i + 1]
      BY <1>2, <2>2, HeadTailProperties
    <2>4. TypeOK'
      BY <1>2, <2>0, <2>2, <2>3 DEF TypeOK, Pcs, PushPcs, PopPcs, Goto
    <2>5. ChainIntact'
      <3>1. top'.node = IF chain' = <<>> THEN NULL ELSE chain'[1]
        <4>1. top'.node = next[chain[1]]
          BY <1>2, <2>1, <2>2
        <4>2. next[chain[1]] = IF Len(chain) = 1 THEN NULL ELSE chain[2]
          <5>1. 1 \in 1 .. Len(chain)
            BY <2>2
          <5>2. next[chain[1]] = IF 1 = Len(chain) THEN NULL ELSE chain[1 + 1]
            BY <5>1, <2>0 DEF ChainIntact
          <5> QED
            BY <5>2, <2>2
        <4>3. chain' = <<>> <=> Len(chain) = 1
          BY <2>2, <2>3
        <4> QED
          BY <4>1, <4>2, <4>3, <2>2, <2>3
      <3>2. ASSUME NEW i \in 1 .. Len(chain')
            PROVE  /\ chain'[i] \in heap
                   /\ next[chain'[i]] = IF i = Len(chain') THEN NULL ELSE chain'[i + 1]
                   /\ \A j \in 1 .. Len(chain') : chain'[i] = chain'[j] => i = j
        <4>1. i + 1 \in 1 .. Len(chain) /\ chain'[i] = chain[i + 1]
          BY <2>2, <2>3
        <4>2. next[chain[i + 1]] = IF i + 1 = Len(chain) THEN NULL ELSE chain[i + 1 + 1]
          BY <4>1, <2>0 DEF ChainIntact
        <4>3. i # Len(chain') => i + 1 \in 1 .. Len(chain) - 1
          BY <2>2, <2>3
        <4>4. i # Len(chain') => chain'[i + 1] = chain[i + 1 + 1]
          BY <4>3, <2>3
        <4>5. chain[i + 1] \in heap
          BY <4>1, <2>0 DEF ChainIntact
        <4>6. ASSUME NEW j \in 1 .. Len(chain'), chain'[i] = chain'[j] PROVE i = j
          <5>1. j + 1 \in 1 .. Len(chain) /\ chain'[j] = chain[j + 1]
            BY <2>2, <2>3
          <5>2. i + 1 = j + 1
            BY <4>1, <4>6, <5>1, <2>0 DEF ChainIntact
          <5> QED
            BY <5>2
        <4> QED
          BY <4>1, <4>2, <4>4, <4>5, <4>6, <2>2, <2>3
      <3> QED
        BY <1>2, <3>1, <3>2 DEF ChainIntact
    <2>6. OwnedNodesPrivate'
      <3>1. \A u \in Threads : own'[u] = IF u = t THEN n ELSE own[u]
        BY <1>2, <2>0 DEF TypeOK
      <3>2. \A i \in 1 .. Len(chain') : chain'[i] # n
        BY <2>0, <2>2, <2>3 DEF ChainIntact
      <3>3. \A u \in Threads : own[u] # NULL =>
              /\ own[u] # n /\ \A i \in 1 .. Len(chain') : chain'[i] # own[u]
        BY <2>0, <2>2, <2>3 DEF OwnedNodesPrivate
      <3> QED
        BY <1>2, <2>0, <2>1, <2>2, <3>1, <3>2, <3>3 DEF OwnedNodesPrivate
    <2>7. Owners'
      BY <1>2, <2>0, <2>1 DEF TypeOK, Owners, PushPcs, Goto
    <2>8. Linked'
      BY <1>2, <2>0 DEF TypeOK, Linked, Goto
    <2>9. PopNode'
      BY <1>2, <2>0 DEF TypeOK, PopNode, Goto
    <2>10. top.id \in Nat /\ top'.id = top.id + 1 /\ ltop' = ltop
      BY <1>2, <2>0 DEF TypeOK
    <2>11. \A u \in Threads : ltop[u].id \in Nat /\ ltop[u].id <= top.id
      BY <2>0 DEF IInv, TypeOK, TagsBelow
    <2>12. TagsBelow'
      BY <2>10, <2>11 DEF TagsBelow
    <2>13. ReadsCurrent'
      <3>1. \A u \in Threads : ltop'[u].id # top'.id
        BY <2>10, <2>11
      <3> QED
        BY <3>1 DEF ReadsCurrent
    <2> QED
      BY <2>4, <2>5, <2>6, <2>7, <2>8, <2>9, <2>12, <2>13 DEF IInv
  <1> QED
    BY <1>1, <1>2 DEF PopCAS

(* The deleted node is in no list and in nobody else's hands                  *)
(* (lock_free_stack.h:83).                                                    *)
LEMMA PopDeleteInv ==
  ASSUME IInv, NEW t \in Threads, PopDelete(t)
  PROVE  IInv'
  <1>1. TypeOK'
    BY DEF IInv, TypeOK, Pcs, PushPcs, PopPcs, PopDelete, Goto, EndLocals,
           NoTop
  <1>2. ChainIntact'
    BY DEF IInv, TypeOK, ChainIntact, OwnedNodesPrivate, Owners,
           PopDelete, Goto, EndLocals, NoTop
  <1>3. OwnedNodesPrivate'
    BY DEF IInv, TypeOK, OwnedNodesPrivate, PopDelete, Goto, EndLocals,
           NoTop
  <1>4. Owners'
    BY DEF IInv, TypeOK, Owners, PushPcs, PopDelete, Goto, EndLocals,
           NoTop
  <1>5. Linked'
    BY DEF IInv, TypeOK, Linked, PopDelete, Goto, EndLocals, NoTop
  <1>6. PopNode'
    BY DEF IInv, TypeOK, PopNode, PopDelete, Goto, EndLocals, NoTop
  <1>7. TagsBelow'
    BY DEF IInv, TypeOK, TagsBelow, PopDelete, Goto, EndLocals, NoTop
  <1>8. ReadsCurrent'
    BY DEF IInv, TypeOK, ReadsCurrent, PopDelete, Goto, EndLocals, NoTop
  <1> QED
    BY <1>1, <1>2, <1>3, <1>4, <1>5, <1>6, <1>7, <1>8 DEF IInv

(* An empty stack has every part of the invariant (lock_free_stack.h:21-26).  *)
LEMMA Initial == Init => IInv
  <1> SUFFICES ASSUME Init PROVE IInv
    OBVIOUS
  <1>1. TypeOK
    BY MaxOpsAssumption, ValuesAssumption DEF Init, TypeOK, Pcs, NoTop
  <1>2. ChainIntact /\ OwnedNodesPrivate
    BY DEF Init, ChainIntact, OwnedNodesPrivate
  <1>3. Owners /\ Linked /\ PopNode
    BY DEF Init, Owners, Linked, PopNode, PushPcs
  <1>4. TagsBelow /\ ReadsCurrent
    BY DEF Init, TagsBelow, ReadsCurrent, NoTop
  <1> QED
    BY <1>1, <1>2, <1>3, <1>4 DEF IInv

(* Every step of every thread keeps it.                                       *)
LEMMA Inductive == IInv /\ [Next]_vars => IInv'
  <1> SUFFICES ASSUME IInv, [Next]_vars PROVE IInv'
    OBVIOUS
  <1>1. ASSUME NEW t \in Threads, Push(t) PROVE IInv'
    BY <1>1, PushNewInv, PushReadNodeInv, PushReadIDInv, PushCheckInv, PushCASInv,
       PushCountInv DEF Push
  <1>2. ASSUME NEW t \in Threads, Pop(t) PROVE IInv'
    BY <1>2, PopGateInv, PopUndoInv, PopReadNodeInv, PopReadIDInv, PopReadNextInv,
       PopReadDataInv, PopCheckInv, PopCASInv, PopDeleteInv DEF Pop
  <1>3. CASE UNCHANGED vars
    BY <1>3 DEF vars, IInv, TypeOK, ChainIntact, OwnedNodesPrivate, Owners, Linked,
                PopNode, TagsBelow, ReadsCurrent
  <1> QED
    BY <1>1, <1>2, <1>3 DEF Next

(* All parts of the invariant hold in every reachable state.                  *)
THEOREM Invariance == Spec => []IInv
  BY Initial, Inductive, PTL DEF Spec

(* Every variable keeps its type, whatever address `new' hands out and        *)
(* whatever a read of a deleted node returns (lock_free_stack.h:33-90).       *)
THEOREM Typing == Spec => []TypeOK
  <1>1. IInv => TypeOK
    BY DEF IInv
  <1> QED
    BY <1>1, Invariance, PTL

(* The linked list is intact in every reachable state, for any number of      *)
(* threads and any reuse of addresses (lock_free_stack.h:42-56,69-88).        *)
THEOREM ChainAlwaysIntact == Spec => []ChainIntact
  <1>1. IInv => ChainIntact
    BY DEF IInv
  <1> QED
    BY <1>1, Invariance, PTL

(* No node is linked or deleted by two threads, or deleted while linked       *)
(* (lock_free_stack.h:35,83).                                                 *)
THEOREM NodesAlwaysPrivate == Spec => []OwnedNodesPrivate
  <1>1. IInv => OwnedNodesPrivate
    BY DEF IInv
  <1> QED
    BY <1>1, Invariance, PTL

(* A Pop whose compare-and-swap can succeed holds the fields of the top node, *)
(* never those of a deleted or reused one (lock_free_stack.h:77-81).          *)
THEOREM TagAlwaysProtects == Spec => []TagProtects
  <1>1. IInv => TagProtects
    <2> SUFFICES ASSUME IInv, NEW t \in Threads, pc[t] \in {"popCheck", "popCAS"},
                        ltop[t] = top
                 PROVE  /\ top.node \in heap
                        /\ lnext[t] = next[top.node]
                        /\ out[t] = data[top.node]
      BY DEF TagProtects
    <2>1. top.node # NULL
      BY DEF IInv, PopNode
    <2>2. top.node \in heap
      BY <2>1 DEF IInv, TypeOK, ChainIntact
    <2> QED
      BY <2>2 DEF IInv, ReadsCurrent
  <1> QED
    BY <1>1, Invariance, PTL
-----------------------------------------------------------------------------
(* What the two compare-and-swaps do to the list when they succeed.           *)
LEMMA Links ==
  ASSUME IInv, NEW t \in Threads, pc[t] = "pushCAS",
         chain' = <<own[t]>> \o chain
  PROVE  /\ own[t] \in Nodes
         /\ chain \in Seq(Nodes)
         /\ Len(chain) \in Nat /\ Len(chain') = Len(chain) + 1
         /\ chain'[1] = own[t]
         /\ \A i \in 2 .. Len(chain) + 1 : chain'[i] = chain[i - 1]
  <1>1. own[t] \in Nodes
    BY NullAssumption DEF IInv, TypeOK, Owners, PushPcs
  <1>2. chain \in Seq(Nodes) /\ <<own[t]>> \in Seq(Nodes) /\ Len(<<own[t]>>) = 1
    BY <1>1 DEF IInv, TypeOK
  <1> QED
    BY <1>1, <1>2, ConcatProperties

(* A Pop that succeeds had a first node and read its value.                   *)
LEMMA Unlinks ==
  ASSUME IInv, NEW t \in Threads, pc[t] = "popCAS", ltop[t] = top,
         chain' = Tail(chain)
  PROVE  /\ chain # <<>> /\ chain \in Seq(Nodes) /\ Len(chain) \in Nat \ {0}
         /\ out[t] = data[chain[1]]
         /\ Len(chain') = Len(chain) - 1
         /\ \A i \in 1 .. Len(chain) - 1 : chain'[i] = chain[i + 1]
  <1>1. top.node # NULL /\ out[t] = data[top.node]
    BY DEF IInv, PopNode, ReadsCurrent
  <1>2. chain # <<>> /\ chain \in Seq(Nodes) /\ Len(chain) \in Nat \ {0}
    BY <1>1 DEF IInv, TypeOK, ChainIntact
  <1>3. out[t] = data[chain[1]]
    BY <1>1, <1>2 DEF IInv, ChainIntact
  <1> QED
    BY <1>2, <1>3, HeadTailProperties
-----------------------------------------------------------------------------
(* The number of threads whose label is in L.                                 *)
InCalls(p, L) == Cardinality({t \in Threads : p[t] \in L})

(* It is a natural number, and zero when no thread is there.                  *)
LEMMA InCallsType ==
  ASSUME NEW p, NEW L
  PROVE  /\ InCalls(p, L) \in Nat
         /\ IsFiniteSet({t \in Threads : p[t] \in L})
         /\ InCalls(p, L) = 0 <=> \A t \in Threads : p[t] \notin L
  <1> DEFINE S == {t \in Threads : p[t] \in L}
  <1>1. IsFiniteSet(S)
    BY ThreadsAssumption, FS_Subset
  <1>2. Cardinality(S) \in Nat
    BY <1>1, FS_CardinalityType
  <1>3. Cardinality(S) = 0 <=> S = {}
    BY <1>1, FS_EmptySet
  <1> QED
    BY <1>1, <1>2, <1>3 DEF InCalls

(* One thread's step changes the number by that thread at most.               *)
LEMMA Moves ==
  ASSUME NEW p \in [Threads -> Pcs], NEW t \in Threads, NEW to \in Pcs, NEW L
  PROVE  /\ (p[t] \in L <=> to \in L)
              => InCalls([p EXCEPT ![t] = to], L) = InCalls(p, L)
         /\ p[t] \notin L /\ to \in L
              => InCalls([p EXCEPT ![t] = to], L) = InCalls(p, L) + 1
         /\ p[t] \in L /\ to \notin L
              => InCalls([p EXCEPT ![t] = to], L) = InCalls(p, L) - 1
  <1> DEFINE S == {u \in Threads : p[u] \in L}
             T == {u \in Threads : [p EXCEPT ![t] = to][u] \in L}
  <1>1. InCalls(p, L) = Cardinality(S)
        /\ InCalls([p EXCEPT ![t] = to], L) = Cardinality(T)
    BY DEF InCalls
  <1>2. IsFiniteSet(S)
    BY ThreadsAssumption, FS_Subset
  <1>3. t \in S <=> p[t] \in L
    OBVIOUS
  <1>4. ASSUME p[t] \in L <=> to \in L PROVE T = S
    BY <1>4
  <1>5. ASSUME p[t] \notin L, to \in L PROVE T = S \cup {t}
    BY <1>5
  <1>6. ASSUME p[t] \in L, to \notin L PROVE T = S \ {t}
    BY <1>6
  <1> HIDE DEF S, T
  <1>7. ASSUME t \notin S PROVE Cardinality(S \cup {t}) = Cardinality(S) + 1
    BY <1>2, <1>7, FS_AddElement
  <1>8. ASSUME t \in S PROVE Cardinality(S \ {t}) = Cardinality(S) - 1
    BY <1>2, <1>8, FS_RemoveElement
  <1> QED
    BY <1>1, <1>3, <1>4, <1>5, <1>6, <1>7, <1>8

(* The counter lags behind the list by the pushes not yet counted and runs    *)
(* ahead of it by the pops that are still to unlink their node or to give     *)
(* their decrement back; those last ones alone can take it below zero.        *)
CountInv ==
  /\ Len(chain) = count + InCalls(pc, {"pushCount"}) + InCalls(pc, {"popUndo"})
                        + InCalls(pc, PopPcs)
  /\ count + InCalls(pc, {"popUndo"}) >= 0

(* Nothing is linked and nobody is inside a call at the start.                *)
LEMMA CountInitial == Init => CountInv
  <1> SUFFICES ASSUME Init PROVE CountInv
    OBVIOUS
  <1>1. /\ InCalls(pc, {"pushCount"}) = 0 /\ InCalls(pc, {"popUndo"}) = 0
        /\ InCalls(pc, PopPcs) = 0
    <2>1. \A t \in Threads : pc[t] \notin {"pushCount"} /\ pc[t] \notin {"popUndo"}
                             /\ pc[t] \notin PopPcs
      BY DEF Init, PopPcs
    <2> QED
      BY <2>1, InCallsType
  <1> QED
    BY <1>1 DEF Init, CountInv

(* What a thread at label x contributes: a call the counter does not match    *)
(* yet, and a decrement that will be given back.                              *)
Lags(x) == IF x \in {"pushCount", "popUndo"} \cup PopPcs THEN 1 ELSE 0
Owes(x) == IF x = "popUndo" THEN 1 ELSE 0

(* A step of one thread keeps the counting invariant when the counter and the *)
(* list move by what the thread's new label accounts for.                     *)
LEMMA CountStep ==
  ASSUME IInv, CountInv, NEW t \in Threads, NEW to \in Pcs,
         pc' = [pc EXCEPT ![t] = to],
         Len(chain') \in Nat, count' \in Int,
         Len(chain') - count' - Lags(to) = Len(chain) - count - Lags(pc[t]),
         count' >= 0 \/ count' + Owes(to) >= count + Owes(pc[t])
  PROVE  CountInv'
  <1> DEFINE Bit(L, x) == IF x \in L THEN 1 ELSE 0
             a == InCalls(pc, {"pushCount"})
             b == InCalls(pc, {"popUndo"})
             c == InCalls(pc, PopPcs)
             aNext == InCalls([pc EXCEPT ![t] = to], {"pushCount"})
             bNext == InCalls([pc EXCEPT ![t] = to], {"popUndo"})
             cNext == InCalls([pc EXCEPT ![t] = to], PopPcs)
             from == Lags(pc[t])
             into == Lags(to)
             owed == Owes(pc[t])
             owes == Owes(to)
             n == Len(chain)
             nNext == Len(chain')
             k == count
             kNext == count'
  <1>1. pc \in [Threads -> Pcs] /\ Len(chain) \in Nat /\ count \in Int
    BY DEF IInv, TypeOK
  <1>2. ASSUME NEW L
        PROVE  /\ InCalls(pc, L) \in Nat
               /\ InCalls([pc EXCEPT ![t] = to], L) \in Nat
               /\ InCalls([pc EXCEPT ![t] = to], L)
                    = InCalls(pc, L) - Bit(L, pc[t]) + Bit(L, to)
    <2>1. /\ InCalls(pc, L) \in Nat
          /\ InCalls([pc EXCEPT ![t] = to], L) \in Nat
      BY InCallsType
    <2>2. /\ (pc[t] \in L <=> to \in L)
               => InCalls([pc EXCEPT ![t] = to], L) = InCalls(pc, L)
          /\ pc[t] \notin L /\ to \in L
               => InCalls([pc EXCEPT ![t] = to], L) = InCalls(pc, L) + 1
          /\ pc[t] \in L /\ to \notin L
               => InCalls([pc EXCEPT ![t] = to], L) = InCalls(pc, L) - 1
      BY <1>1, Moves
    <2> QED
      BY <2>1, <2>2
  <1>3. /\ a \in Nat /\ b \in Nat /\ c \in Nat
        /\ aNext \in Nat /\ bNext \in Nat /\ cNext \in Nat
    BY <1>2
  <1>4. aNext = a - Bit({"pushCount"}, pc[t]) + Bit({"pushCount"}, to)
    BY <1>2
  <1>5. bNext = b - Bit({"popUndo"}, pc[t]) + Bit({"popUndo"}, to)
    BY <1>2
  <1>6. cNext = c - Bit(PopPcs, pc[t]) + Bit(PopPcs, to)
    BY <1>2
  <1>7. n = k + a + b + c /\ k + b >= 0
    BY DEF CountInv
  <1>8. nNext = kNext + aNext + bNext + cNext /\ kNext + bNext >= 0 => CountInv'
    BY DEF CountInv, InCalls, PopPcs
  <1> HIDE DEF a, b, c, aNext, bNext, cNext
  <1>9. aNext + bNext + cNext = a + b + c + into - from
    BY <1>3, <1>4, <1>5, <1>6 DEF Lags, PopPcs
  <1>10. bNext = b + owes - owed
    BY <1>3, <1>5 DEF Owes
  <1>11. from \in Int /\ into \in Int /\ owed \in Int /\ owes \in Int
    BY DEF Lags, Owes
  <1>12. /\ nNext - kNext - into = n - k - from
         /\ kNext >= 0 \/ kNext + owes >= k + owed
    OBVIOUS
  <1>13. nNext \in Int /\ kNext \in Int /\ n \in Int /\ k \in Int
    BY <1>1
  <1> HIDE DEF from, into, owed, owes, n, nNext, k, kNext
  <1>14. nNext = kNext + aNext + bNext + cNext
    BY ONLY <1>3, <1>7, <1>9, <1>11, <1>12, <1>13
  <1>15. kNext + bNext >= 0
    BY ONLY <1>3, <1>7, <1>10, <1>11, <1>12, <1>13
  <1> QED
    BY <1>8, <1>14, <1>15

(* Every step does so (lock_free_stack.h:49-51,63-65,81).                     *)
LEMMA CountInductive == IInv /\ CountInv /\ [Next]_vars => CountInv'
  <1> SUFFICES ASSUME IInv, CountInv, [Next]_vars PROVE CountInv'
    OBVIOUS
  <1>1. Len(chain) \in Nat /\ count \in Int /\ pc \in [Threads -> Pcs]
    BY DEF IInv, TypeOK
  <1>2. ASSUME NEW t \in Threads, NEW to \in Pcs, pc' = [pc EXCEPT ![t] = to],
               UNCHANGED <<count, chain>>, Lags(to) = Lags(pc[t]),
               Owes(to) = Owes(pc[t])
        PROVE  CountInv'
    <2>1. Lags(to) \in Int /\ Owes(to) \in Int
      BY DEF Lags, Owes
    <2>2. Len(chain') = Len(chain) /\ count' = count
      BY <1>2
    <2>3. /\ Len(chain') \in Nat /\ count' \in Int
          /\ Len(chain') - count' - Lags(to) = Len(chain) - count - Lags(pc[t])
          /\ count' + Owes(to) >= count + Owes(pc[t])
      BY <1>1, <1>2, <2>1, <2>2
    <2> QED
      BY <1>2, <2>3, CountStep
  <1>3. ASSUME NEW t \in Threads, NEW v \in Values, PushNew(t, v) PROVE CountInv'
    BY <1>2, <1>3 DEF PushNew, Goto, Pcs, PushPcs, PopPcs, Lags, Owes
  <1>4. ASSUME NEW t \in Threads, PushReadNode(t) PROVE CountInv'
    BY <1>2, <1>4 DEF PushReadNode, ReadTopNode, Goto, Pcs, PushPcs, PopPcs, Lags,
                      Owes, shared
  <1>5. ASSUME NEW t \in Threads, PopReadNode(t) PROVE CountInv'
    BY <1>2, <1>5 DEF PopReadNode, ReadTopNode, Goto, Pcs, PushPcs, PopPcs, Lags,
                      Owes, shared
  <1>6. ASSUME NEW t \in Threads, PushReadID(t) PROVE CountInv'
    BY <1>2, <1>6 DEF PushReadID, Goto, Pcs, PushPcs, PopPcs, Lags, Owes
  <1>7. ASSUME NEW t \in Threads, PushCheck(t) PROVE CountInv'
    <2>1. PICK to \in PushPcs : pc' = [pc EXCEPT ![t] = to] /\ pc[t] \in PushPcs
      BY <1>7 DEF PushCheck, Recheck, Goto, PushPcs
    <2>2. UNCHANGED <<count, chain>>
      BY <1>7 DEF PushCheck, Recheck, shared
    <2> QED
      BY <1>2, <2>1, <2>2 DEF Pcs, PushPcs, PopPcs, Lags, Owes
  <1>8. ASSUME NEW t \in Threads, PopCheck(t) PROVE CountInv'
    <2>1. PICK to \in PopPcs : pc' = [pc EXCEPT ![t] = to] /\ pc[t] \in PopPcs
      BY <1>8 DEF PopCheck, Recheck, Goto, PopPcs
    <2>2. UNCHANGED <<count, chain>>
      BY <1>8 DEF PopCheck, Recheck, shared
    <2> QED
      BY <1>2, <2>1, <2>2 DEF Pcs, PopPcs, Lags, Owes
  <1>9. ASSUME NEW t \in Threads, CASFails(t, "pushCAS", "pushNode")
        PROVE  CountInv'
    BY <1>2, <1>9 DEF CASFails, Goto, Pcs, PushPcs, PopPcs, Lags, Owes, shared
  <1>10. ASSUME NEW t \in Threads, CASFails(t, "popCAS", "popNode")
         PROVE  CountInv'
    BY <1>2, <1>10 DEF CASFails, Goto, Pcs, PushPcs, PopPcs, Lags, Owes, shared
  <1>11. ASSUME NEW t \in Threads, PushCAS(t), ~CASFails(t, "pushCAS", "pushNode")
         PROVE  CountInv'
    <2>1. /\ pc[t] = "pushCAS" /\ pc' = [pc EXCEPT ![t] = "pushCount"]
          /\ chain' = <<own[t]>> \o chain /\ count' = count
      BY <1>11 DEF PushCAS, Goto
    <2>2. Len(chain') = Len(chain) + 1
      BY <2>1, Links
    <2>3. /\ Lags("pushCount") = 1 /\ Lags(pc[t]) = 0
          /\ Owes("pushCount") = 0 /\ Owes(pc[t]) = 0
      BY <2>1 DEF Lags, Owes, PopPcs
    <2>4. "pushCount" \in Pcs
      BY DEF Pcs
    <2>5. /\ Len(chain') \in Nat /\ count' \in Int
          /\ Len(chain') - count' - Lags("pushCount") = Len(chain) - count - Lags(pc[t])
          /\ count' + Owes("pushCount") >= count + Owes(pc[t])
      BY <1>1, <2>1, <2>2, <2>3, <2>4
    <2> QED
      BY <1>11, <2>1, <2>2, <2>3, <2>4, <2>5, CountStep
  <1>12. ASSUME NEW t \in Threads, PushCount(t) PROVE CountInv'
    <2>1. /\ pc[t] = "pushCount" /\ pc' = [pc EXCEPT ![t] = "idle"]
          /\ chain' = chain /\ count' = count + 1
      BY <1>12 DEF PushCount, Goto
    <2>2. /\ Lags("idle") = 0 /\ Lags(pc[t]) = 1
          /\ Owes("idle") = 0 /\ Owes(pc[t]) = 0
      BY <2>1 DEF Lags, Owes, PopPcs
    <2>3. "idle" \in Pcs /\ Len(chain') = Len(chain)
      BY <2>1 DEF Pcs
    <2>4. /\ Len(chain') \in Nat /\ count' \in Int
          /\ Len(chain') - count' - Lags("idle") = Len(chain) - count - Lags(pc[t])
          /\ count' + Owes("idle") >= count + Owes(pc[t])
      BY <1>1, <2>1, <2>2, <2>3
    <2> QED
      BY <1>12, <2>1, <2>2, <2>3, <2>4, CountStep
  <1>13. ASSUME NEW t \in Threads, PopGate(t) PROVE CountInv'
    <2> DEFINE to == IF count - 1 < 0 THEN "popUndo" ELSE "popNode"
    <2>1. /\ pc[t] = "idle" /\ pc' = [pc EXCEPT ![t] = to]
          /\ chain' = chain /\ count' = count - 1
      BY <1>13 DEF PopGate, Goto
    <2>2. /\ Lags(to) = 1 /\ Lags(pc[t]) = 0 /\ Owes(pc[t]) = 0
          /\ Owes(to) = IF count - 1 < 0 THEN 1 ELSE 0
      BY <2>1 DEF Lags, Owes, PopPcs
    <2>3. to \in Pcs /\ Len(chain') = Len(chain)
      BY <2>1 DEF Pcs, PopPcs
    <2> HIDE DEF to
    <2>4. count' >= 0 \/ count' + Owes(to) >= count + Owes(pc[t])
      BY <1>1, <2>1, <2>2
    <2>5. /\ Len(chain') \in Nat /\ count' \in Int
          /\ Len(chain') - count' - Lags(to) = Len(chain) - count - Lags(pc[t])
      BY <1>1, <2>1, <2>2, <2>3, <2>4
    <2> QED
      BY <1>13, <2>1, <2>2, <2>3, <2>4, <2>5, CountStep
  <1>14. ASSUME NEW t \in Threads, PopUndo(t) PROVE CountInv'
    <2>1. /\ pc[t] = "popUndo" /\ pc' = [pc EXCEPT ![t] = "idle"]
          /\ chain' = chain /\ count' = count + 1
      BY <1>14 DEF PopUndo, Goto
    <2>2. /\ Lags("idle") = 0 /\ Lags(pc[t]) = 1
          /\ Owes("idle") = 0 /\ Owes(pc[t]) = 1
      BY <2>1 DEF Lags, Owes, PopPcs
    <2>3. "idle" \in Pcs /\ Len(chain') = Len(chain)
      BY <2>1 DEF Pcs
    <2>4. /\ Len(chain') \in Nat /\ count' \in Int
          /\ Len(chain') - count' - Lags("idle") = Len(chain) - count - Lags(pc[t])
          /\ count' + Owes("idle") >= count + Owes(pc[t])
      BY <1>1, <2>1, <2>2, <2>3
    <2> QED
      BY <1>14, <2>1, <2>2, <2>3, <2>4, CountStep
  <1>15. ASSUME NEW t \in Threads, PopReadID(t) PROVE CountInv'
    <2>1. PICK to \in PopPcs : pc' = [pc EXCEPT ![t] = to] /\ pc[t] \in PopPcs
      BY <1>15 DEF PopReadID, Goto, PopPcs
    <2>2. UNCHANGED <<count, chain>>
      BY <1>15 DEF PopReadID, shared
    <2> QED
      BY <1>2, <2>1, <2>2 DEF Pcs, PopPcs, Lags, Owes
  <1>16. ASSUME NEW t \in Threads, PopReadNext(t) PROVE CountInv'
    BY <1>2, <1>16 DEF PopReadNext, Goto, Pcs, PopPcs, Lags, Owes, shared
  <1>17. ASSUME NEW t \in Threads, PopReadData(t) PROVE CountInv'
    BY <1>2, <1>17 DEF PopReadData, Goto, Pcs, PopPcs, Lags, Owes, shared
  <1>18. ASSUME NEW t \in Threads, PopCAS(t), ~CASFails(t, "popCAS", "popNode")
         PROVE  CountInv'
    <2>1. /\ pc[t] = "popCAS" /\ pc' = [pc EXCEPT ![t] = "popDelete"]
          /\ ltop[t] = top /\ chain' = Tail(chain) /\ count' = count
      BY <1>18 DEF PopCAS, Goto
    <2>2. Len(chain') = Len(chain) - 1 /\ Len(chain) > 0
      BY <2>1, Unlinks
    <2>3. /\ Lags("popDelete") = 0 /\ Lags(pc[t]) = 1
          /\ Owes("popDelete") = 0 /\ Owes(pc[t]) = 0
      BY <2>1 DEF Lags, Owes, PopPcs
    <2>4. "popDelete" \in Pcs
      BY DEF Pcs
    <2>5. /\ Len(chain') \in Nat /\ count' \in Int
          /\ Len(chain') - count' - Lags("popDelete") = Len(chain) - count - Lags(pc[t])
          /\ count' + Owes("popDelete") >= count + Owes(pc[t])
      BY <1>1, <2>1, <2>2, <2>3, <2>4
    <2> QED
      BY <1>18, <2>1, <2>2, <2>3, <2>4, <2>5, CountStep
  <1>19. ASSUME NEW t \in Threads, PopDelete(t) PROVE CountInv'
    BY <1>2, <1>19 DEF PopDelete, Goto, Pcs, PopPcs, Lags, Owes
  <1>20. CASE UNCHANGED vars
    BY <1>20 DEF vars, CountInv, InCalls
  <1>21. ASSUME NEW t \in Threads, Push(t) PROVE CountInv'
    BY <1>3, <1>4, <1>6, <1>7, <1>9, <1>11, <1>12, <1>21 DEF Push
  <1>22. ASSUME NEW t \in Threads, Pop(t) PROVE CountInv'
    BY <1>5, <1>8, <1>10, <1>13, <1>14, <1>15, <1>16, <1>17, <1>18, <1>19, <1>22
       DEF Pop
  <1> QED
    BY <1>20, <1>21, <1>22 DEF Next

(* The counting invariant holds in every reachable state.                     *)
THEOREM Counting == Spec => []CountInv
  BY CountInitial, CountInductive, Invariance, PTL DEF Spec

(* There is always a linked node for every Pop the gate let through, for any  *)
(* number of threads (lock_free_stack.h:63-76).                               *)
THEOREM GateAlwaysSound == Spec => []GateSound
  <1>1. IInv /\ CountInv => GateSound
    <2> SUFFICES ASSUME IInv, CountInv PROVE GateSound
      OBVIOUS
    <2>1. Cardinality(Reserved) = InCalls(pc, PopPcs)
      BY DEF Reserved, InCalls
    <2>2. /\ InCalls(pc, {"pushCount"}) \in Nat /\ InCalls(pc, {"popUndo"}) \in Nat
          /\ InCalls(pc, PopPcs) \in Nat /\ count \in Int
      BY InCallsType DEF IInv, TypeOK
    <2> QED
      BY <2>1, <2>2 DEF CountInv, GateSound
  <1> QED
    BY <1>1, Invariance, Counting, PTL

(* When no call is in progress the counter is the number of linked nodes      *)
(* (lock_free_stack.h:51,63-65).                                              *)
THEOREM CountAlwaysSettles == Spec => []CountSettles
  <1>1. IInv /\ CountInv => CountSettles
    <2> SUFFICES ASSUME IInv, CountInv, \A t \in Threads : pc[t] = "idle"
                 PROVE  count = Len(chain)
      BY DEF CountSettles, GetSize
    <2>1. /\ InCalls(pc, {"pushCount"}) = 0 /\ InCalls(pc, {"popUndo"}) = 0
          /\ InCalls(pc, PopPcs) = 0
      <3>1. \A t \in Threads : pc[t] \notin {"pushCount"} /\ pc[t] \notin {"popUndo"}
                               /\ pc[t] \notin PopPcs
        BY DEF PopPcs
      <3> QED
        BY <3>1, InCallsType
    <2> QED
      BY <2>1 DEF CountInv, IInv, TypeOK
  <1> QED
    BY <1>1, Invariance, Counting, PTL
-----------------------------------------------------------------------------
(* The list as a sequence of values.                                          *)
Items(ch, d) == [i \in 1 .. Len(ch) |-> d[ch[i]]]

(* It is as long as the list, and its elements are the nodes' values.         *)
LEMMA ItemsType ==
  ASSUME NEW ch \in Seq(Nodes), NEW d \in [Nodes -> Values]
  PROVE  /\ Items(ch, d) \in Seq(Values) /\ Len(Items(ch, d)) = Len(ch)
         /\ \A i \in 1 .. Len(ch) : Items(ch, d)[i] = d[ch[i]]
  BY DEF Items

(* For any number of threads and calls, the stack behaves like one whose Push *)
(* and Pop happen at the successful compare-and-swap                          *)
(* (lock_free_stack.h:49,81).                                                 *)
THEOREM StackIsAtomic == Spec => Linearizable
  <1> DEFINE items == [i \in 1 .. Len(chain) |-> data[chain[i]]]
  <1>1. Init => Abstract!Init
    BY DEF Init, Abstract!Init
  <1>2. IInv /\ IInv' /\ [Next]_vars => [Abstract!Next]_(Abstract!vars)
    <2> SUFFICES ASSUME IInv, IInv', [Next]_vars PROVE [Abstract!Next]_(Abstract!vars)
      OBVIOUS
    <2>1. items = Items(chain, data) /\ items' = Items(chain', data')
      BY DEF Items
    <2>2. /\ chain \in Seq(Nodes) /\ chain' \in Seq(Nodes)
          /\ data \in [Nodes -> Values] /\ data' \in [Nodes -> Values]
      BY DEF IInv, TypeOK
    <2>3. /\ items \in Seq(Values) /\ Len(items) = Len(chain)
          /\ \A i \in 1 .. Len(chain) : items[i] = data[chain[i]]
          /\ items' \in Seq(Values) /\ Len(items') = Len(chain')
          /\ \A i \in 1 .. Len(chain') : items'[i] = data'[chain'[i]]
      BY <2>1, <2>2, ItemsType
    <2> HIDE DEF items
    <2>4. ASSUME UNCHANGED <<chain, data, got>> PROVE UNCHANGED <<items, got>>
      BY <2>4 DEF items
    <2>5. ASSUME NEW t \in Threads, NEW v \in Values, PushNew(t, v)
          PROVE  UNCHANGED <<items, got>>
      <3>1. PICK n \in Nodes \ heap : data' = [data EXCEPT ![n] = v]
        BY <2>5 DEF PushNew
      <3>2. chain' = chain /\ got' = got
        BY <2>5 DEF PushNew
      <3>3. \A i \in 1 .. Len(chain) : chain[i] \in heap /\ chain[i] \in Nodes
        BY <2>2 DEF IInv, ChainIntact
      <3>4. \A i \in 1 .. Len(chain) : items'[i] = items[i]
        BY <2>2, <2>3, <3>1, <3>2, <3>3
      <3> QED
        BY <2>3, <3>2, <3>4, SeqEqual
    <2>6. ASSUME NEW t \in Threads, PushCAS(t), ~CASFails(t, "pushCAS", "pushNode")
          PROVE  \E v \in Values : items' = <<v>> \o items /\ got' = got
      <3>1. /\ pc[t] = "pushCAS" /\ chain' = <<own[t]>> \o chain
            /\ data' = data /\ got' = got
        BY <2>6 DEF PushCAS, Goto
      <3>2. /\ own[t] \in Nodes
            /\ Len(chain) \in Nat /\ Len(chain') = Len(chain) + 1
            /\ chain'[1] = own[t]
            /\ \A i \in 2 .. Len(chain) + 1 : chain'[i] = chain[i - 1]
        BY <3>1, Links
      <3> DEFINE v == data[own[t]]
                 s == <<v>> \o items
      <3>3. v \in Values
        BY <2>2, <3>2
      <3>4. /\ s \in Seq(Values) /\ Len(s) = Len(chain) + 1
            /\ \A i \in 1 .. Len(chain) + 1 : s[i] = IF i <= 1 THEN v ELSE items[i - 1]
        <4>1. <<v>> \in Seq(Values) /\ Len(<<v>>) = 1 /\ <<v>>[1] = v
          BY <3>3
        <4>2. /\ s \in Seq(Values) /\ Len(s) = 1 + Len(chain)
              /\ \A i \in 1 .. 1 + Len(chain) :
                   s[i] = IF i <= 1 THEN <<v>>[i] ELSE items[i - 1]
          BY <2>3, <4>1, ConcatProperties
        <4> QED
          BY <3>2, <4>1, <4>2
      <3> HIDE DEF s, v
      <3>5. \A i \in 1 .. Len(chain) + 1 : items'[i] = s[i]
        <4> TAKE i \in 1 .. Len(chain) + 1
        <4>1. CASE i = 1
          BY <2>3, <3>1, <3>2, <3>4, <4>1 DEF v
        <4>2. CASE i # 1
          <5>1. i \in 2 .. Len(chain) + 1 /\ i - 1 \in 1 .. Len(chain)
            BY <3>2, <4>2
          <5>2. chain'[i] = chain[i - 1] /\ i \in 1 .. Len(chain')
            BY <3>2, <5>1
          <5>3. items'[i] = data[chain[i - 1]]
            BY <2>3, <3>1, <5>2
          <5>4. items[i - 1] = data[chain[i - 1]]
            BY <2>3, <5>1
          <5>5. s[i] = items[i - 1]
            BY <3>2, <3>4, <4>2
          <5> QED
            BY <5>3, <5>4, <5>5
        <4> QED
          BY <4>1, <4>2
      <3>6. items' = s
        BY <2>3, <3>2, <3>4, <3>5, SeqEqual
      <3> QED
        BY <3>1, <3>3, <3>6 DEF s
    <2>7. ASSUME NEW t \in Threads, PopCAS(t), ~CASFails(t, "popCAS", "popNode")
          PROVE  /\ items # <<>> /\ items' = Tail(items)
                 /\ got' = [got EXCEPT ![t] = Head(items)]
      <3>1. /\ pc[t] = "popCAS" /\ ltop[t] = top /\ chain' = Tail(chain)
            /\ data' = data /\ got' = [got EXCEPT ![t] = out[t]]
        BY <2>7 DEF PopCAS, Goto
      <3>2. /\ Len(chain) \in Nat \ {0}
            /\ out[t] = data[chain[1]]
            /\ Len(chain') = Len(chain) - 1
            /\ \A i \in 1 .. Len(chain) - 1 : chain'[i] = chain[i + 1]
        BY <3>1, Unlinks
      <3>3. items # <<>> /\ Head(items) = items[1] /\ items[1] = out[t]
        BY <2>3, <3>2
      <3>4. /\ Tail(items) \in Seq(Values) /\ Len(Tail(items)) = Len(chain) - 1
            /\ \A i \in 1 .. Len(chain) - 1 : Tail(items)[i] = items[i + 1]
        BY <2>3, <3>2, <3>3, HeadTailProperties
      <3>5. \A i \in 1 .. Len(chain) - 1 : items'[i] = items[i + 1]
        <4> TAKE i \in 1 .. Len(chain) - 1
        <4>1. i + 1 \in 1 .. Len(chain)
          BY <3>2
        <4> QED
          BY <2>3, <3>1, <3>2, <4>1
      <3>6. items' = Tail(items)
        BY <2>3, <3>2, <3>4, <3>5, SeqEqual
      <3> QED
        BY <3>1, <3>3, <3>6
    <2>8. ASSUME NEW t \in Threads, Push(t), \A v \in Values : ~PushNew(t, v),
                 ~PushCAS(t) \/ CASFails(t, "pushCAS", "pushNode")
          PROVE  UNCHANGED <<chain, data, got>>
      BY <2>8 DEF Push, PushReadNode, ReadTopNode, PushReadID, PushCheck, Recheck,
                  CASFails, PushCount, shared
    <2>9. ASSUME NEW t \in Threads, Pop(t),
                 ~PopCAS(t) \/ CASFails(t, "popCAS", "popNode")
          PROVE  UNCHANGED <<chain, data, got>>
      BY <2>9 DEF Pop, PopGate, PopUndo, PopReadNode, ReadTopNode, PopReadID,
                  PopReadNext, PopReadData, PopCheck, Recheck, CASFails, PopDelete,
                  shared
    <2>10. ASSUME UNCHANGED vars PROVE UNCHANGED <<chain, data, got>>
      BY <2>10 DEF vars
    <2>11. ASSUME NEW v \in Values, items' = <<v>> \o items, got' = got
           PROVE  Abstract!Next
      BY <2>11 DEF Abstract!Next, Abstract!Push, items
    <2>12. ASSUME NEW t \in Threads, items # <<>>, items' = Tail(items),
                  got' = [got EXCEPT ![t] = Head(items)]
           PROVE  Abstract!Next
      BY <2>12 DEF Abstract!Next, Abstract!Pop, items
    <2>13. ASSUME UNCHANGED <<items, got>> PROVE UNCHANGED Abstract!vars
      BY <2>13 DEF Abstract!vars, items
    <2> QED
      BY <2>4, <2>5, <2>6, <2>7, <2>8, <2>9, <2>10, <2>11, <2>12, <2>13 DEF Next
  <1> QED
    BY <1>1, <1>2, Invariance, PTL DEF Spec, Linearizable, Abstract!Spec
============================================================================
