----------------------------- MODULE ObjectPool -----------------------------
(***************************************************************************)
(* CObjectPool and CObjectPoolMgr of                                       *)
(* src/cpp-project/2DGame/Lib/ObjectPool.h for one type of object: a free  *)
(* list of blocks, some allocated in advance, the others one by one when   *)
(* the list is empty.  Callers may give back any pointer they ever got.    *)
(* The hash words around a block are left out: nothing here overwrites     *)
(* them.                                                                   *)
(***************************************************************************)
EXTENDS Naturals, Sequences, SequencesExt, FiniteSetsExt

CONSTANTS PoolBlock,     \* bound: addresses of blocks
          PoolSizes      \* sizes InitObjectPool is called with

ASSUME PoolAssumption == PoolSizes \subseteq Nat \ {0} /\ IsFiniteSet(PoolBlock)

VARIABLES made,          \* the pool exists in m_objectPool_map
          poolFree,      \* the blocks from m_pHead on
          dealloced,     \* bDealloced
          deleteList,    \* the blocks from m_pDelHead on, allocated one by one
          allocCnt, usedCnt,
          inUse,         \* blocks handed out and not given back
          poolCrashed    \* the deliberate null dereference was reached

poolVars == <<made, poolFree, dealloced, deleteList, allocCnt, usedCnt, inUse, poolCrashed>>

PoolInit == /\ made = FALSE /\ poolFree = <<>> /\ deleteList = <<>>
            /\ dealloced = [b \in PoolBlock |-> FALSE]
            /\ allocCnt = 0 /\ usedCnt = 0
            /\ inUse = {} /\ poolCrashed = FALSE

Given == inUse \cup Range(poolFree)

(* InitObjectPool and SetPoolSize; a pool that exists is left alone.          *)
InitObjectPool(size) ==
  /\ ~made
  /\ \E blocks \in kSubset(size, PoolBlock) :
       /\ poolFree' = SetToSeq(blocks)
       /\ dealloced' = [b \in PoolBlock |-> b \in blocks]
  /\ allocCnt' = size /\ usedCnt' = 0
  /\ made' = TRUE
  /\ UNCHANGED <<deleteList, inUse, poolCrashed>>

(* The first Alloc of a type makes an empty pool. *)
PoolAlloc ==
  /\ made' = TRUE
  /\ \E b \in PoolBlock :
       /\ IF poolFree = <<>>
            THEN /\ b \notin Given
                 /\ deleteList' = <<b>> \o deleteList
                 /\ allocCnt' = allocCnt + 1
                 /\ UNCHANGED poolFree
            ELSE /\ b = Head(poolFree)
                 /\ poolFree' = Tail(poolFree)
                 /\ UNCHANGED <<deleteList, allocCnt>>
       /\ dealloced' = [dealloced EXCEPT ![b] = FALSE]
       /\ inUse' = inUse \cup {b}
  /\ usedCnt' = usedCnt + 1
  /\ UNCHANGED poolCrashed

PutBack(b) ==
  /\ poolFree' = <<b>> \o poolFree
  /\ dealloced' = [dealloced EXCEPT ![b] = TRUE]
  /\ usedCnt' = usedCnt - 1
  /\ inUse' = inUse \ {b}
  /\ UNCHANGED <<made, deleteList, allocCnt, poolCrashed>>

(* Faulty variant: the flag is not looked at. *)
PoolDeAllocUnchecked(b) == b \in Given /\ PutBack(b)

(* A block that is on the free list already ends the program. *)
PoolDeAlloc(b) ==
  /\ b \in Given
  /\ IF dealloced[b]
       THEN /\ poolCrashed' = TRUE
            /\ UNCHANGED <<made, poolFree, dealloced, deleteList, allocCnt, usedCnt, inUse>>
       ELSE PutBack(b)

PoolNext == /\ ~poolCrashed
            /\ \/ \E size \in PoolSizes : InitObjectPool(size)
               \/ PoolAlloc
               \/ \E b \in PoolBlock : PoolDeAlloc(b)

PoolSpec == PoolInit /\ [][PoolNext]_poolVars
-----------------------------------------------------------------------------
(* Whatever pointers callers give back, no block is on the free list twice or *)
(* while it is in use, so none is ever handed to two callers, and the         *)
(* counters say how many blocks there are and how many are in use             *)
(* (ObjectPool.h:70-161).                                                     *)
BlocksAccounted ==
  /\ IsInjective(poolFree)
  /\ Range(poolFree) \cap inUse = {}
  /\ usedCnt = Cardinality(inUse)
  /\ allocCnt = usedCnt + Len(poolFree)
  /\ Range(deleteList) \subseteq Given
=============================================================================
