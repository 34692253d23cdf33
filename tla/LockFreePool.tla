---------------------------- MODULE LockFreePool ----------------------------
(***************************************************************************)
(* CLockFreePool of src/cpp-project/2DGame/Lib/LockFreePool.h: a fixed set *)
(* of blocks shared by threads, free ones chained behind a top pointer     *)
(* with a tag.  A step is one access to memory that threads share.         *)
(***************************************************************************)
EXTENDS Naturals, Sequences, FiniteSets, Functions

CONSTANTS PoolThread, Block,
          FirstBlock, NextBlock,   \* the chain SetPoolSize builds
          PlacementNew,            \* m_bPlacementNew
          MaxTag                   \* bound: value of nodeID

ASSUME BlockAssumption ==
  /\ IsFiniteSet(PoolThread) /\ IsFiniteSet(Block) /\ "null" \notin Block /\ FirstBlock \in Block
  /\ NextBlock \in [Block -> Block \cup {"null"}]
  /\ \E q \in [1 .. Cardinality(Block) -> Block] :
       /\ IsInjective(q) /\ q[1] = FirstBlock
       /\ \A i \in DOMAIN q :
            NextBlock[q[i]] = IF i = Cardinality(Block) THEN "null" ELSE q[i + 1]

VARIABLES top,        \* m_pHead: node and nodeID
          chain,      \* pNext of every block
          lfpCount,   \* m_allocCnt
          stepOf,     \* where each thread is
          seen,       \* its local copy of the top, and of top.node->pNext
          arg,        \* the block it is freeing
          holds,      \* blocks it was given
          alive       \* blocks whose object is constructed

lfpVars == <<top, chain, lfpCount, stepOf, seen, arg, holds, alive>>

LfpInit == /\ top = [node |-> FirstBlock, id |-> 1]
           /\ chain = NextBlock
           /\ lfpCount = 0
           /\ stepOf = [t \in PoolThread |-> "idle"]
           /\ seen = [t \in PoolThread |-> [node |-> "null", id |-> 0, next |-> "null"]]
           /\ arg = [t \in PoolThread |-> "null"]
           /\ holds = [t \in PoolThread |-> {}]
           /\ alive = IF PlacementNew THEN {} ELSE Block

Go(t, from, to) == stepOf[t] = from /\ stepOf' = [stepOf EXCEPT ![t] = to]

(* The counter first: more threads than blocks are turned away. *)
AllocGate(t) ==
  /\ lfpCount' = lfpCount + 1
  /\ Go(t, "idle", IF lfpCount + 1 > Cardinality(Block) THEN "allocUndo" ELSE "allocNode")
  /\ UNCHANGED <<top, chain, seen, arg, holds, alive>>

AllocUndo(t) == /\ Go(t, "allocUndo", "idle")
                /\ lfpCount' = lfpCount - 1
                /\ UNCHANGED <<top, chain, seen, arg, holds, alive>>

ReadNode(t, from, to) ==
  /\ Go(t, from, to)
  /\ seen' = [seen EXCEPT ![t].node = top.node]
  /\ UNCHANGED <<top, chain, lfpCount, arg, holds, alive>>

ReadID(t, from, to) ==
  /\ Go(t, from, to)
  /\ seen' = [seen EXCEPT ![t].id = top.id]
  /\ UNCHANGED <<top, chain, lfpCount, arg, holds, alive>>

(* top.node->pNext, of a block that may be in use by now; there must be one.  *)
AllocNext(t) ==
  /\ Go(t, "allocNext", IF seen[t].node = "null" THEN "crashed" ELSE "allocCAS")
  /\ seen' = [seen EXCEPT ![t].next = IF seen[t].node \in Block
                                        THEN chain[seen[t].node] ELSE @]
  /\ UNCHANGED <<top, chain, lfpCount, arg, holds, alive>>

(* Faulty variant: the tag is not compared. *)
ExchangePointerOnly(t, node, ok, again) ==
  IF top.node = seen[t].node
    THEN top' = [node |-> node, id |-> top.id + 1] /\ stepOf' = [stepOf EXCEPT ![t] = ok]
    ELSE UNCHANGED top /\ stepOf' = [stepOf EXCEPT ![t] = again]

(* The exchange of pointer and tag; t's copy is the new value if it fails,    *)
(* and the loop reads it again anyway.                                        *)
Exchange(t, node, ok, again) ==
  IF top = [node |-> seen[t].node, id |-> seen[t].id]
    THEN top' = [node |-> node, id |-> top.id + 1] /\ stepOf' = [stepOf EXCEPT ![t] = ok]
    ELSE UNCHANGED top /\ stepOf' = [stepOf EXCEPT ![t] = again]

AllocCAS(t) ==
  /\ stepOf[t] = "allocCAS"
  /\ Exchange(t, seen[t].next, "allocClear", "allocNode")
  /\ holds' = [holds EXCEPT ![t] = IF top' # top THEN @ \cup {seen[t].node} ELSE @]
  /\ UNCHANGED <<chain, lfpCount, seen, arg, alive>>

(* pNext = nullptr, and the constructor. *)
AllocClear(t) ==
  /\ Go(t, "allocClear", "idle")
  /\ chain' = [chain EXCEPT ![seen[t].node] = "null"]
  /\ alive' = alive \cup {seen[t].node}
  /\ UNCHANGED <<top, lfpCount, seen, arg, holds>>

FreeBegin(t, b) == /\ b \in holds[t]
              /\ Go(t, "idle", "freeNode")
              /\ arg' = [arg EXCEPT ![t] = b]
              /\ UNCHANGED <<top, chain, lfpCount, seen, holds, alive>>

FreeNext(t) == /\ Go(t, "freeNext", "freeCAS")
               /\ chain' = [chain EXCEPT ![arg[t]] = seen[t].node]
               /\ UNCHANGED <<top, lfpCount, seen, arg, holds, alive>>

FreeCAS(t) ==
  /\ stepOf[t] = "freeCAS"
  /\ Exchange(t, arg[t], "freeDestroy", "freeNode")
  /\ holds' = [holds EXCEPT ![t] = IF top' # top THEN @ \ {arg[t]} ELSE @]
  /\ UNCHANGED <<chain, lfpCount, seen, arg, alive>>

(* The destructor runs although the block is on the free list again. *)
FreeDestroy(t) ==
  /\ Go(t, "freeDestroy", "freeCount")
  /\ alive' = IF PlacementNew THEN alive \ {arg[t]} ELSE alive
  /\ UNCHANGED <<top, chain, lfpCount, seen, arg, holds>>

FreeCount(t) == /\ Go(t, "freeCount", "idle")
                /\ lfpCount' = lfpCount - 1
                /\ UNCHANGED <<top, chain, seen, arg, holds, alive>>

LfpNext == \E t \in PoolThread :
  \/ top.id < MaxTag /\ (AllocGate(t) \/ \E b \in Block : FreeBegin(t, b))
  \/ AllocUndo(t) \/ AllocNext(t) \/ AllocCAS(t) \/ AllocClear(t)
  \/ ReadNode(t, "allocNode", "allocID") \/ ReadID(t, "allocID", "allocNext")
  \/ ReadNode(t, "freeNode", "freeID") \/ ReadID(t, "freeID", "freeNext")
  \/ FreeNext(t) \/ FreeCAS(t) \/ FreeDestroy(t) \/ FreeCount(t)

LfpSpec == LfpInit /\ [][LfpNext]_lfpVars
-----------------------------------------------------------------------------
(* No block is given to two threads, a thread the counter let in never finds  *)
(* the chain empty, and between calls the counter is the number of blocks     *)
(* given out (LockFreePool.h:75-174).                                         *)
PoolShared ==
  /\ \A t, u \in PoolThread : t # u => holds[t] \cap holds[u] = {}
  /\ \A t \in PoolThread : stepOf[t] # "crashed"
  /\ (\A t \in PoolThread : stepOf[t] = "idle") =>
       lfpCount = Cardinality(UNION {holds[t] : t \in PoolThread})

(* Not true with PlacementNew: the object of a block a thread was given is    *)
(* constructed until that thread frees it.                                    *)
ObjectsAlive ==
  \A t \in PoolThread : stepOf[t] = "idle" => holds[t] \subseteq alive
=============================================================================
