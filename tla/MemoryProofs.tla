---------------------------- MODULE MemoryProofs ----------------------------
(***************************************************************************)
(* The client's memory: the object pool, the lock-free pool, the pool of   *)
(* chunks and the allocation log keep their promises for any number of     *)
(* threads, blocks, chunks and addresses; and so does the profiler beside  *)
(* them, for any number of threads, tags and ticks.  Each part has its own *)
(* inductive invariant.                                                    *)
(***************************************************************************)
EXTENDS ObjectPool, LockFreePool, TlsPool, MemoryLog, Profiler,
        FiniteSetTheorems, SequenceTheorems, TLAPS

(* One more or one less at the head of a list.                                *)
LEMMA OnTop ==
  ASSUME NEW S, NEW b \in S, NEW q \in Seq(S)
  PROVE  /\ <<b>> \o q \in Seq(S) /\ Len(<<b>> \o q) = Len(q) + 1
         /\ Range(<<b>> \o q) = Range(q) \cup {b}
         /\ IsInjective(q) /\ b \notin Range(q) => IsInjective(<<b>> \o q)
<1> DEFINE p == <<b>> \o q
<1>1. /\ p \in Seq(S) /\ Len(p) = Len(q) + 1 /\ p[1] = b
      /\ \A i \in 1 .. Len(q) : p[i + 1] = q[i]
  OBVIOUS
<1> HIDE DEF p
<1>2. DOMAIN p = 1 .. Len(q) + 1 /\ DOMAIN q = 1 .. Len(q) /\ Len(q) \in Nat
  BY <1>1
<1>3. \A i \in DOMAIN p : i = 1 \/ (i - 1 \in DOMAIN q /\ p[i] = q[i - 1])
  BY <1>1, <1>2
<1>4. Range(p) = Range(q) \cup {b}
  <2>1. \A x \in Range(p) : x \in Range(q) \cup {b}
    BY <1>1, <1>3 DEF Range
  <2>2. b \in Range(p)
    BY <1>1, <1>2 DEF Range
  <2>3. ASSUME NEW i \in DOMAIN q PROVE q[i] \in Range(p)
    <3>1. i + 1 \in DOMAIN p /\ p[i + 1] = q[i]
      BY <1>1, <1>2
    <3> QED BY <3>1 DEF Range
  <2> QED BY <2>1, <2>2, <2>3 DEF Range
<1>5. ASSUME IsInjective(q), b \notin Range(q) PROVE IsInjective(p)
  <2> SUFFICES ASSUME NEW i \in DOMAIN p, NEW j \in DOMAIN p, p[i] = p[j] PROVE i = j
    BY DEF IsInjective
  <2>1. \A k \in DOMAIN q : q[k] # b
    BY <1>5 DEF Range
  <2>2. i \in Int /\ j \in Int
    BY <1>2
  <2> QED BY <1>1, <1>3, <1>5, <2>1, <2>2 DEF IsInjective
<1> QED BY <1>1, <1>4, <1>5 DEF p

LEMMA OffTop ==
  ASSUME NEW S, NEW q \in Seq(S), q # <<>>
  PROVE  /\ Head(q) \in S /\ Tail(q) \in Seq(S) /\ Len(q) = Len(Tail(q)) + 1
         /\ Range(q) = Range(Tail(q)) \cup {Head(q)}
         /\ IsInjective(q) => IsInjective(Tail(q)) /\ Head(q) \notin Range(Tail(q))
<1> DEFINE r == Tail(q)
           b == Head(q)
<1>1. /\ b \in S /\ r \in Seq(S) /\ Len(q) = Len(r) + 1
      /\ b = q[1] /\ \A i \in 1 .. Len(r) : r[i] = q[i + 1]
  BY HeadTailProperties
<1> HIDE DEF r, b
<1>2. DOMAIN q = 1 .. Len(r) + 1 /\ DOMAIN r = 1 .. Len(r) /\ Len(r) \in Nat
  BY <1>1
<1>3. \A i \in DOMAIN r : i + 1 \in DOMAIN q /\ r[i] = q[i + 1] /\ i + 1 # 1
  BY <1>1, <1>2
<1>4. Range(q) = Range(r) \cup {b}
  <2>1. ASSUME NEW i \in DOMAIN q PROVE q[i] \in Range(r) \cup {b}
    <3>1. CASE i = 1
      BY <1>1, <3>1
    <3>2. CASE i # 1
      <4>1. i - 1 \in DOMAIN r /\ r[i - 1] = q[i]
        BY <1>1, <1>2, <3>2
      <4> QED BY <4>1 DEF Range
    <3> QED BY <3>1, <3>2
  <2>2. \A x \in Range(r) : x \in Range(q)
    BY <1>3 DEF Range
  <2>3. b \in Range(q)
    BY <1>1, <1>2 DEF Range
  <2> QED BY <2>1, <2>2, <2>3 DEF Range
<1>5. ASSUME IsInjective(q) PROVE IsInjective(r) /\ b \notin Range(r)
  <2>1. IsInjective(r)
    <3> SUFFICES ASSUME NEW i \in DOMAIN r, NEW j \in DOMAIN r, r[i] = r[j] PROVE i = j
      BY DEF IsInjective
    <3>1. i + 1 = j + 1
      BY <1>3, <1>5 DEF IsInjective
    <3> QED BY <1>2, <3>1
  <2>2. 1 \in DOMAIN q
    BY <1>2
  <2>3. \A i \in DOMAIN r : r[i] # b
    BY <1>1, <1>3, <1>5, <2>2 DEF IsInjective
  <2> QED BY <2>1, <2>3 DEF Range
<1> QED BY <1>1, <1>4, <1>5 DEF r, b

(* The pool of objects (ObjectPool.h).                                        *)
PoolTypeOK ==
  /\ made \in BOOLEAN /\ poolFree \in Seq(PoolBlock) /\ deleteList \in Seq(PoolBlock)
  /\ dealloced \in [PoolBlock -> BOOLEAN]
  /\ allocCnt \in Int /\ usedCnt \in Int
  /\ inUse \subseteq PoolBlock

(* The flag of a block the program was given says whether it is on the list.  *)
FlagsTrue == \A b \in Given : dealloced[b] <=> b \in Range(poolFree)

NothingBefore == ~made => poolFree = <<>> /\ deleteList = <<>> /\ inUse = {}

PoolInv == PoolTypeOK /\ BlocksAccounted /\ FlagsTrue /\ NothingBefore

(* What SetToSeq makes of a set of blocks.                                    *)
LEMMA ListOf ==
  ASSUME NEW S \in SUBSET PoolBlock
  PROVE  /\ SetToSeq(S) \in Seq(PoolBlock) /\ Len(SetToSeq(S)) = Cardinality(S)
         /\ IsInjective(SetToSeq(S)) /\ Range(SetToSeq(S)) = S
<1> DEFINE n == Cardinality(S)
           q == SetToSeq(S)
<1>1. IsFiniteSet(S) /\ n \in Nat /\ ExistsBijection(1 .. n, S)
  BY PoolAssumption, FS_Subset, FS_CardinalityType
<1>2. \E f \in [1 .. n -> S] : IsInjective(f)
  BY <1>1 DEF ExistsBijection, Bijection, Injection
<1>3. q \in [1 .. n -> S] /\ IsInjective(q)
  BY <1>2 DEF SetToSeq
<1> HIDE DEF q
<1>4. Cardinality(1 .. n) = n
  <2>1. 1 \in Int /\ n \in Int
    BY <1>1
  <2>2. Cardinality(1 .. n) = IF 1 > n THEN 0 ELSE n - 1 + 1
    BY <2>1, FS_Interval
  <2> QED BY <1>1, <2>2
<1>5. q \in Surjection(1 .. n, S)
  <2>1. q \in Injection(1 .. n, S)
    BY <1>3 DEF Injection
  <2> QED BY <1>1, <1>4, <2>1, FS_Injection
<1>6. Range(q) = S
  BY <1>3, <1>5 DEF Range, Surjection
<1>7. q \in Seq(PoolBlock) /\ Len(q) = n
  BY <1>1, <1>3
<1> QED BY <1>3, <1>6, <1>7 DEF q

LEMMA InitObjectPoolInv ==
  ASSUME PoolInv, NEW size \in PoolSizes, InitObjectPool(size)
  PROVE  PoolInv'
<1> USE DEF PoolInv
<1>1. PICK S \in SUBSET PoolBlock :
        /\ Cardinality(S) = size /\ poolFree' = SetToSeq(S)
        /\ dealloced' = [b \in PoolBlock |-> b \in S]
  BY DEF InitObjectPool, kSubset
<1>2. /\ allocCnt' = size /\ usedCnt' = 0 /\ made' = TRUE /\ inUse' = {}
      /\ deleteList' = <<>> /\ size \in Nat /\ inUse = {}
  BY PoolAssumption DEF InitObjectPool, NothingBefore
<1> DEFINE q == SetToSeq(S)
<1>3. q \in Seq(PoolBlock) /\ Len(q) = size /\ IsInjective(q) /\ Range(q) = S /\ poolFree' = q
  BY <1>1, ListOf
<1> HIDE DEF q
<1>4. PoolTypeOK'
  BY <1>1, <1>2, <1>3 DEF PoolTypeOK
<1>5. BlocksAccounted'
  <2>1. Range(deleteList') = {} /\ Cardinality({}) = 0
    BY <1>2, FS_EmptySet DEF Range
  <2> QED BY <1>2, <1>3, <2>1 DEF BlocksAccounted
<1>6. FlagsTrue'
  BY <1>1, <1>2, <1>3 DEF FlagsTrue, Given
<1>7. NothingBefore'
  BY <1>2 DEF NothingBefore
<1> QED BY <1>4, <1>5, <1>6, <1>7

LEMMA UseCount ==
  ASSUME PoolTypeOK, NEW b
  PROVE  /\ Cardinality(inUse) \in Nat
         /\ Cardinality(inUse \cup {b}) = IF b \in inUse THEN Cardinality(inUse)
                                                         ELSE Cardinality(inUse) + 1
         /\ Cardinality(inUse \ {b}) = IF b \in inUse THEN Cardinality(inUse) - 1
                                                      ELSE Cardinality(inUse)
<1>1. IsFiniteSet(inUse)
  BY PoolAssumption, FS_Subset DEF PoolTypeOK
<1> QED BY <1>1, FS_CardinalityType, FS_AddElement, FS_RemoveElement

LEMMA PoolAllocInv ==
  ASSUME PoolInv, PoolAlloc
  PROVE  PoolInv'
<1> USE DEF PoolInv
<1>1. PICK b \in PoolBlock :
        /\ \/ /\ poolFree = <<>> /\ b \notin Given
              /\ deleteList' = <<b>> \o deleteList /\ allocCnt' = allocCnt + 1
              /\ poolFree' = poolFree
           \/ /\ poolFree # <<>> /\ b = Head(poolFree) /\ poolFree' = Tail(poolFree)
              /\ deleteList' = deleteList /\ allocCnt' = allocCnt
        /\ dealloced' = [dealloced EXCEPT ![b] = FALSE] /\ inUse' = inUse \cup {b}
        /\ usedCnt' = usedCnt + 1 /\ made' = TRUE
  BY DEF PoolAlloc
<1>2. b \notin inUse
  <2>1. CASE poolFree = <<>>
    BY <1>1, <2>1 DEF Given
  <2>2. CASE poolFree # <<>>
    <3>1. b \in Range(poolFree)
      BY <1>1, <2>2, OffTop DEF PoolTypeOK
    <3> QED BY <3>1 DEF BlocksAccounted
  <2> QED BY <2>1, <2>2
<1>3. /\ poolFree' \in Seq(PoolBlock) /\ IsInjective(poolFree')
      /\ b \notin Range(poolFree') /\ Range(poolFree') \subseteq Range(poolFree)
      /\ Range(poolFree) \subseteq Range(poolFree') \cup {b}
      /\ allocCnt' - Len(poolFree') = allocCnt - Len(poolFree) + 1 /\ allocCnt' \in Int
      /\ deleteList' \in Seq(PoolBlock) /\ Range(deleteList') \subseteq Range(deleteList) \cup {b}
  <2>1. CASE poolFree = <<>>
    <3>1. Range(poolFree) = {} /\ poolFree' = poolFree /\ Len(poolFree) = 0
      BY <1>1, <2>1 DEF Range
    <3>3. deleteList \in Seq(PoolBlock) /\ deleteList' = <<b>> \o deleteList
      BY <1>1, <2>1 DEF PoolTypeOK
    <3>2. deleteList' \in Seq(PoolBlock) /\ Range(deleteList') = Range(deleteList) \cup {b}
      BY <3>3, OnTop
    <3> QED BY <1>1, <2>1, <3>1, <3>2 DEF PoolTypeOK, BlocksAccounted
  <2>2. CASE poolFree # <<>>
    <3> DEFINE r == Tail(poolFree)
    <3>1. /\ r \in Seq(PoolBlock) /\ Len(poolFree) = Len(r) + 1 /\ Len(r) \in Nat
          /\ Range(poolFree) = Range(r) \cup {b}
          /\ IsInjective(r) /\ b \notin Range(r)
      BY <1>1, <2>2, OffTop DEF PoolTypeOK, BlocksAccounted
    <3>2. poolFree' = r
      BY <1>1, <2>2
    <3> HIDE DEF r
    <3> QED BY <1>1, <2>2, <3>1, <3>2 DEF PoolTypeOK
  <2> QED BY <2>1, <2>2
<1>4. PoolTypeOK'
  BY <1>1, <1>3 DEF PoolTypeOK
<1>5. BlocksAccounted'
  <2>1. IsInjective(poolFree') /\ Range(poolFree') \cap inUse' = {}
    BY <1>1, <1>3 DEF BlocksAccounted
  <2> DEFINE U == inUse'
  <2>2. U = inUse \cup {b}
    BY <1>1
  <2> HIDE DEF U
  <2>3. Cardinality(U) = Cardinality(inUse) + 1
    BY <1>2, <2>2, UseCount
  <2>4. usedCnt' = Cardinality(inUse')
    BY <1>1, <2>3 DEF U, BlocksAccounted
  <2>5. Len(poolFree) \in Nat /\ Len(poolFree') \in Nat
    BY <1>3 DEF PoolTypeOK
  <2>6. allocCnt' = usedCnt' + Len(poolFree')
    BY <1>1, <1>3, <2>5 DEF BlocksAccounted, PoolTypeOK
  <2>7. Range(deleteList') \subseteq Given'
    BY <1>1, <1>3 DEF BlocksAccounted, Given
  <2> QED BY <2>1, <2>4, <2>6, <2>7 DEF BlocksAccounted
<1>6. FlagsTrue'
  <2>1. dealloced'[b] = FALSE /\ \A d \in PoolBlock \ {b} : dealloced'[d] = dealloced[d]
    BY <1>1 DEF PoolTypeOK
  <2>2. ASSUME NEW d \in Given', d # b
        PROVE  d \in Given /\ d \in PoolBlock /\ (d \in Range(poolFree') <=> d \in Range(poolFree))
    <3>1. d \in Given /\ (d \in Range(poolFree') <=> d \in Range(poolFree))
      BY <1>1, <1>3, <2>2 DEF Given
    <3>2. Range(poolFree) \subseteq PoolBlock
      BY DEF PoolTypeOK, Range
    <3> QED BY <3>1, <3>2 DEF Given, PoolTypeOK
  <2> QED BY <1>3, <2>1, <2>2 DEF FlagsTrue
<1>7. NothingBefore'
  BY <1>1 DEF NothingBefore
<1> QED BY <1>4, <1>5, <1>6, <1>7

LEMMA PutBackInv ==
  ASSUME PoolInv, NEW b \in PoolBlock, b \in Given, ~dealloced[b], PutBack(b)
  PROVE  PoolInv'
<1> USE DEF PoolInv
<1>1. /\ poolFree' = <<b>> \o poolFree /\ dealloced' = [dealloced EXCEPT ![b] = TRUE]
      /\ usedCnt' = usedCnt - 1 /\ inUse' = inUse \ {b}
      /\ UNCHANGED <<made, deleteList, allocCnt>>
  BY DEF PutBack
<1>2. b \notin Range(poolFree) /\ b \in inUse
  BY DEF FlagsTrue, Given
<1> DEFINE q == poolFree'
<1>3. /\ q \in Seq(PoolBlock) /\ Len(q) = Len(poolFree) + 1 /\ Len(poolFree) \in Nat
      /\ Range(q) = Range(poolFree) \cup {b} /\ IsInjective(q)
  BY <1>1, <1>2, OnTop DEF PoolTypeOK, BlocksAccounted
<1>4. PoolTypeOK'
  BY <1>1, <1>3 DEF PoolTypeOK
<1>5. BlocksAccounted'
  <2>1. IsInjective(poolFree') /\ Range(poolFree') \cap inUse' = {}
    BY <1>1, <1>3 DEF BlocksAccounted
  <2> DEFINE U == inUse'
  <2>2. U = inUse \ {b}
    BY <1>1
  <2> HIDE DEF U
  <2>3. Cardinality(U) = Cardinality(inUse) - 1
    BY <1>2, <2>2, UseCount
  <2>4. usedCnt' = Cardinality(inUse')
    BY <1>1, <2>3 DEF U, BlocksAccounted
  <2>5. allocCnt' = usedCnt' + Len(poolFree')
    BY <1>1, <1>3 DEF BlocksAccounted, PoolTypeOK
  <2>6. Range(deleteList') \subseteq Given'
    BY <1>1, <1>3 DEF BlocksAccounted, Given
  <2> QED BY <2>1, <2>4, <2>5, <2>6 DEF BlocksAccounted
<1>6. FlagsTrue'
  <2>1. dealloced'[b] = TRUE /\ \A d \in PoolBlock \ {b} : dealloced'[d] = dealloced[d]
    BY <1>1 DEF PoolTypeOK
  <2>2. Given \subseteq PoolBlock /\ Given' = Given
    <3>1. Range(poolFree) \subseteq PoolBlock
      BY DEF PoolTypeOK, Range
    <3> QED BY <1>1, <1>2, <1>3, <3>1 DEF Given, PoolTypeOK
  <2> QED BY <1>3, <2>1, <2>2 DEF FlagsTrue
<1>7. NothingBefore'
  BY <1>1, <1>2 DEF NothingBefore
<1> QED BY <1>4, <1>5, <1>6, <1>7

(* Whatever pointers callers give back, the list and the blocks in use stay   *)
(* apart, and the counters are right (ObjectPool.h:70-161).                   *)
THEOREM BlocksAlwaysAccounted == PoolSpec => []BlocksAccounted
<1>1. PoolInit => PoolInv
  <2> SUFFICES ASSUME PoolInit PROVE PoolInv
    OBVIOUS
  <2>1. Range(<<>>) = {} /\ IsInjective(<<>>) /\ Cardinality({}) = 0
    BY FS_EmptySet DEF Range, IsInjective
  <2>2. PoolTypeOK
    <3>1. made = FALSE /\ inUse = {} /\ dealloced = [b \in PoolBlock |-> FALSE]
      BY DEF PoolInit
    <3>2. made \in BOOLEAN /\ inUse \subseteq PoolBlock /\ dealloced \in [PoolBlock -> BOOLEAN]
      BY <3>1
    <3>3. /\ poolFree \in Seq(PoolBlock) /\ deleteList \in Seq(PoolBlock)
          /\ allocCnt \in Int /\ usedCnt \in Int
      BY DEF PoolInit
    <3> QED BY <3>2, <3>3 DEF PoolTypeOK
  <2>4. NothingBefore
    BY DEF PoolInit, NothingBefore
  <2>3. BlocksAccounted /\ FlagsTrue
    BY <2>1 DEF PoolInit, BlocksAccounted, FlagsTrue, Given
  <2> QED BY <2>2, <2>3, <2>4 DEF PoolInv
<1>2. PoolInv /\ [PoolNext]_poolVars => PoolInv'
  <2> SUFFICES ASSUME PoolInv, [PoolNext]_poolVars PROVE PoolInv'
    OBVIOUS
  <2>1. ASSUME UNCHANGED <<made, poolFree, dealloced, deleteList, allocCnt, usedCnt, inUse>>
        PROVE  PoolInv'
    BY <2>1 DEF PoolInv, PoolTypeOK, BlocksAccounted, FlagsTrue, Given, NothingBefore
  <2>2. ASSUME NEW b \in PoolBlock, PoolDeAlloc(b) PROVE PoolInv'
    BY <2>1, <2>2, PutBackInv DEF PoolDeAlloc
  <2> QED BY <2>1, <2>2, InitObjectPoolInv, PoolAllocInv DEF PoolNext, poolVars
<1>3. PoolInv => BlocksAccounted
  BY DEF PoolInv
<1> QED BY <1>1, <1>2, <1>3, PTL DEF PoolSpec
-----------------------------------------------------------------------------
(* The lock-free pool (LockFreePool.h).                                       *)
LetIn == {"allocNode", "allocID", "allocNext", "allocCAS"}
Leaving == {"allocUndo", "freeDestroy", "freeCount"}
Freeing == {"freeNode", "freeID", "freeNext", "freeCAS"}

Held == UNION {holds[t] : t \in PoolThread}
At(steps) == {t \in PoolThread : stepOf[t] \in steps}

LfpTypeOK ==
  /\ top \in [node : Block \cup {"null"}, id : Nat]
  /\ chain \in [Block -> Block \cup {"null"}]
  /\ lfpCount \in Int
  /\ stepOf \in [PoolThread -> {"idle", "allocClear"} \cup LetIn \cup Leaving \cup Freeing]
  /\ seen \in [PoolThread -> [node : Block \cup {"null"}, id : Nat, next : Block \cup {"null"}]]
  /\ arg \in [PoolThread -> Block \cup {"null"}]
  /\ holds \in [PoolThread -> SUBSET Block]

(* The free blocks in the order of the chain.                                 *)
Lists(q, first, next, S) ==
  /\ IsInjective(q) /\ Range(q) = S
  /\ first = IF q = <<>> THEN "null" ELSE q[1]
  /\ \A i \in DOMAIN q : next[q[i]] = IF i = Len(q) THEN "null" ELSE q[i + 1]
Chained == \E q \in Seq(Block) : Lists(q, top.node, chain, Block \ Held)

Owned == \A t \in PoolThread :
  /\ \A u \in PoolThread : t # u => holds[t] \cap holds[u] = {}
  /\ stepOf[t] \in Freeing => arg[t] \in holds[t]
  /\ stepOf[t] = "allocClear" => seen[t].node \in holds[t]
  /\ stepOf[t] \in {"allocID", "allocNext", "allocCAS"} => seen[t].node \in Block

(* What a thread that goes on to an exchange read is still so if the exchange *)
(* is going to succeed.                                                       *)
StillSo == \A t \in PoolThread :
  /\ seen[t].id <= top.id
  /\ stepOf[t] = "allocCAS" /\ top = [node |-> seen[t].node, id |-> seen[t].id] =>
       seen[t].next = chain[seen[t].node]
  /\ stepOf[t] = "freeCAS" => chain[arg[t]] = seen[t].node

(* A thread the counter let in is sure of a block.                            *)
Counted ==
  /\ lfpCount = Cardinality(Held) + Cardinality(At(LetIn)) + Cardinality(At(Leaving))
  /\ Cardinality(Held) + Cardinality(At(LetIn)) <= Cardinality(Block)

LfpInv == LfpTypeOK /\ Chained /\ Owned /\ StillSo /\ Counted

LEMMA ListFirst ==
  ASSUME NEW q \in Seq(Block), NEW first, NEW next, NEW S, Lists(q, first, next, S)
  PROVE  /\ first = "null" => S = {}
         /\ first # "null" => first \in S /\ q # <<>>
<1>1. CASE q = <<>>
  <2>1. Range(q) = {}
    BY <1>1 DEF Range
  <2> QED BY <1>1, <2>1 DEF Lists
<1>2. CASE q # <<>>
  <2>1. 1 \in DOMAIN q /\ q[1] \in Block
    BY <1>2
  <2>2. first = q[1] /\ q[1] \in S
    BY <1>2, <2>1 DEF Lists, Range
  <2> QED BY <1>2, <2>1, <2>2, BlockAssumption
<1> QED BY <1>1, <1>2

LEMMA ListPop ==
  ASSUME NEW q \in Seq(Block), NEW first \in Block, NEW next, NEW S, Lists(q, first, next, S)
  PROVE  \E r \in Seq(Block) : Lists(r, next[first], next, S \ {first})
<1> DEFINE r == Tail(q)
<1>1. q # <<>> /\ first = q[1]
  BY BlockAssumption, ListFirst DEF Lists
<1>2. /\ r \in Seq(Block) /\ Len(q) = Len(r) + 1 /\ Head(q) = q[1]
      /\ Range(q) = Range(r) \cup {Head(q)} /\ IsInjective(r) /\ Head(q) \notin Range(r)
  BY <1>1, OffTop DEF Lists
<1>3. \A i \in 1 .. Len(r) : r[i] = q[i + 1]
  BY <1>1, HeadTailProperties
<1> HIDE DEF r
<1>4. /\ DOMAIN q = 1 .. Len(q) /\ DOMAIN r = 1 .. Len(r) /\ Len(r) \in Nat
      /\ (r = <<>> <=> Len(r) = 0)
  BY <1>2
<1>5. Range(r) = S \ {first}
  BY <1>1, <1>2 DEF Lists
<1>6. next[first] = IF r = <<>> THEN "null" ELSE r[1]
  <2>1. 1 \in DOMAIN q
    BY <1>2, <1>4
  <2>2. next[q[1]] = IF 1 = Len(q) THEN "null" ELSE q[1 + 1]
    BY <2>1 DEF Lists
  <2> QED BY <1>1, <1>2, <1>3, <1>4, <2>2
<1>7. ASSUME NEW i \in DOMAIN r PROVE next[r[i]] = IF i = Len(r) THEN "null" ELSE r[i + 1]
  <2>1. i + 1 \in DOMAIN q /\ r[i] = q[i + 1] /\ i \in 1 .. Len(r)
    BY <1>2, <1>3, <1>4
  <2>2. next[q[i + 1]] = IF i + 1 = Len(q) THEN "null" ELSE q[(i + 1) + 1]
    BY <2>1 DEF Lists
  <2>3. i # Len(r) => r[i + 1] = q[(i + 1) + 1]
    BY <1>3, <1>4, <2>1
  <2> QED BY <1>2, <1>4, <2>1, <2>2, <2>3
<1>8. Lists(r, next[first], next, S \ {first})
  BY <1>2, <1>5, <1>6, <1>7 DEF Lists
<1> QED BY <1>2, <1>8

LEMMA ListPush ==
  ASSUME NEW q \in Seq(Block), NEW first, NEW next, NEW S, Lists(q, first, next, S),
         NEW b \in Block, b \notin S, next[b] = first
  PROVE  \E r \in Seq(Block) : Lists(r, b, next, S \cup {b})
<1> DEFINE r == <<b>> \o q
<1>1. r \in Seq(Block) /\ Len(r) = Len(q) + 1 /\ Range(r) = Range(q) \cup {b} /\ IsInjective(r)
  BY OnTop DEF Lists
<1>2. r[1] = b /\ \A i \in 1 .. Len(q) : r[i + 1] = q[i]
  OBVIOUS
<1> HIDE DEF r
<1>3. /\ DOMAIN q = 1 .. Len(q) /\ DOMAIN r = 1 .. Len(r) /\ Len(q) \in Nat /\ r # <<>>
      /\ (q = <<>> <=> Len(q) = 0)
  BY <1>1
<1>4. ASSUME NEW i \in DOMAIN r PROVE next[r[i]] = IF i = Len(r) THEN "null" ELSE r[i + 1]
  <2>1. CASE i = 1
    <3>1. next[r[1]] = IF q = <<>> THEN "null" ELSE q[1]
      BY <1>2 DEF Lists
    <3>2. q # <<>> => r[1 + 1] = q[1]
      BY <1>2, <1>3
    <3> QED BY <1>1, <1>3, <2>1, <3>1, <3>2
  <2>2. CASE i # 1
    <3> DEFINE j == i - 1
    <3>1. j \in DOMAIN q /\ i = j + 1 /\ j \in 1 .. Len(q)
      BY <1>1, <1>3, <2>2
    <3> HIDE DEF j
    <3>2. next[q[j]] = IF j = Len(q) THEN "null" ELSE q[j + 1]
      BY <3>1 DEF Lists
    <3>3. r[i] = q[j] /\ (j # Len(q) => r[i + 1] = q[j + 1])
      BY <1>2, <1>3, <3>1
    <3> QED BY <1>1, <1>3, <3>1, <3>2, <3>3
  <2> QED BY <2>1, <2>2
<1>5. Lists(r, b, next, S \cup {b})
  BY <1>1, <1>2, <1>3, <1>4 DEF Lists
<1> QED BY <1>1, <1>5

(* A write to a block that is not on the list.                                *)
LEMMA ListWrite ==
  ASSUME NEW q \in Seq(Block), NEW first, NEW next \in [Block -> Block \cup {"null"}], NEW S,
         Lists(q, first, next, S), NEW b \in Block, b \notin S, NEW v
  PROVE  Lists(q, first, [next EXCEPT ![b] = v], S)
<1>1. \A i \in DOMAIN q : q[i] \in Block /\ q[i] # b
  <2>1. \A i \in DOMAIN q : q[i] \in S
    BY DEF Lists, Range
  <2> QED BY <2>1
<1>2. \A i \in DOMAIN q : [next EXCEPT ![b] = v][q[i]] = next[q[i]]
  BY <1>1
<1> QED BY <1>2 DEF Lists

LEMMA Numbers ==
  ASSUME LfpTypeOK
  PROVE  /\ IsFiniteSet(Held) /\ Held \subseteq Block
         /\ \A steps : IsFiniteSet(At(steps)) /\ Cardinality(At(steps)) \in Nat
         /\ Cardinality(Held) \in Nat /\ Cardinality(Block) \in Nat
         /\ Held # Block => Cardinality(Held) < Cardinality(Block)
         /\ Held = Block => Cardinality(Held) = Cardinality(Block)
<1>1. Held \subseteq Block
  BY DEF LfpTypeOK, Held
<1>2. \A steps : At(steps) \subseteq PoolThread
  BY DEF At
<1>3. IsFiniteSet(Held) /\ Cardinality(Held) \in Nat /\ Cardinality(Block) \in Nat
  BY <1>1, BlockAssumption, FS_Subset, FS_CardinalityType
<1>4. /\ Cardinality(Held) <= Cardinality(Block)
      /\ Cardinality(Block) = Cardinality(Held) => Block = Held
  BY <1>1, BlockAssumption, FS_Subset
<1>5. \A steps : IsFiniteSet(At(steps)) /\ Cardinality(At(steps)) \in Nat
  BY <1>2, BlockAssumption, FS_Subset, FS_CardinalityType
<1> QED BY <1>1, <1>3, <1>4, <1>5

LEMMA Moved ==
  ASSUME LfpTypeOK, NEW t \in PoolThread, NEW to, stepOf' = [stepOf EXCEPT ![t] = to], NEW steps
  PROVE  Cardinality(At(steps)') = Cardinality(At(steps)) + (IF to \in steps THEN 1 ELSE 0)
                                     - (IF stepOf[t] \in steps THEN 1 ELSE 0)
<1>1. At(steps)' = IF to \in steps THEN At(steps) \cup {t} ELSE At(steps) \ {t}
  BY DEF At, LfpTypeOK
<1>2. /\ IsFiniteSet(At(steps)) /\ Cardinality(At(steps)) \in Nat
      /\ t \in At(steps) <=> stepOf[t] \in steps
  BY Numbers DEF At
<1>3. /\ Cardinality(At(steps) \cup {t}) =
           IF t \in At(steps) THEN Cardinality(At(steps)) ELSE Cardinality(At(steps)) + 1
      /\ Cardinality(At(steps) \ {t}) =
           IF t \in At(steps) THEN Cardinality(At(steps)) - 1 ELSE Cardinality(At(steps))
  BY <1>2, FS_AddElement, FS_RemoveElement
<1> QED BY <1>1, <1>2, <1>3

LEMMA MovedBoth ==
  ASSUME LfpTypeOK, NEW t \in PoolThread, NEW to, stepOf' = [stepOf EXCEPT ![t] = to]
  PROVE  /\ Cardinality(At(LetIn)') = Cardinality(At(LetIn)) + (IF to \in LetIn THEN 1 ELSE 0)
                                        - (IF stepOf[t] \in LetIn THEN 1 ELSE 0)
         /\ Cardinality(At(Leaving)') = Cardinality(At(Leaving)) + (IF to \in Leaving THEN 1 ELSE 0)
                                          - (IF stepOf[t] \in Leaving THEN 1 ELSE 0)
         /\ Cardinality(At(LetIn)) \in Nat /\ Cardinality(At(Leaving)) \in Nat
<1>1. Cardinality(At(LetIn)) \in Nat /\ Cardinality(At(Leaving)) \in Nat
  BY Numbers
<1>2. Cardinality(At(LetIn)') = Cardinality(At(LetIn)) + (IF to \in LetIn THEN 1 ELSE 0)
                                  - (IF stepOf[t] \in LetIn THEN 1 ELSE 0)
  BY Moved
<1>3. Cardinality(At(Leaving)') = Cardinality(At(Leaving)) + (IF to \in Leaving THEN 1 ELSE 0)
                                    - (IF stepOf[t] \in Leaving THEN 1 ELSE 0)
  BY Moved
<1> QED BY <1>1, <1>2, <1>3

(* A step that leaves the chain, the counter and the blocks held alone and    *)
(* stays among the threads let in, those leaving or the others.               *)
LEMMA Quiet ==
  ASSUME LfpInv, NEW t \in PoolThread, NEW to, stepOf' = [stepOf EXCEPT ![t] = to],
         to \in LetIn <=> stepOf[t] \in LetIn, to \in Leaving <=> stepOf[t] \in Leaving,
         UNCHANGED <<top, chain, lfpCount, holds>>
  PROVE  Chained' /\ Counted'
<1>1. Held' = Held
  BY DEF Held
<1>2. Chained'
  BY <1>1 DEF LfpInv, Chained
<1>3. /\ Cardinality(At(LetIn)') = Cardinality(At(LetIn))
      /\ Cardinality(At(Leaving)') = Cardinality(At(Leaving))
  <2>1. /\ Cardinality(At(LetIn)') = Cardinality(At(LetIn)) + (IF to \in LetIn THEN 1 ELSE 0)
                                              - (IF stepOf[t] \in LetIn THEN 1 ELSE 0)
        /\ Cardinality(At(Leaving)') = Cardinality(At(Leaving)) + (IF to \in Leaving THEN 1 ELSE 0)
                                                - (IF stepOf[t] \in Leaving THEN 1 ELSE 0)
        /\ Cardinality(At(LetIn)) \in Nat /\ Cardinality(At(Leaving)) \in Nat
    BY MovedBoth DEF LfpInv
  <2> QED BY <2>1
<1>4. Counted'
  BY <1>1, <1>3 DEF LfpInv, Counted
<1> QED BY <1>2, <1>4

(* A thread comes in or goes out.                                             *)
LEMMA GateInv ==
  ASSUME LfpInv, NEW t \in PoolThread, AllocGate(t) \/ AllocUndo(t) \/ FreeCount(t)
  PROVE  LfpInv'
<1> USE DEF LfpInv
<1>1. PICK to \in {"idle", "allocNode", "allocUndo"} :
        /\ stepOf' = [stepOf EXCEPT ![t] = to]
        /\ \/ /\ stepOf[t] = "idle" /\ lfpCount' = lfpCount + 1
              /\ to = IF lfpCount + 1 > Cardinality(Block) THEN "allocUndo" ELSE "allocNode"
           \/ stepOf[t] \in {"allocUndo", "freeCount"} /\ lfpCount' = lfpCount - 1 /\ to = "idle"
  BY DEF AllocGate, AllocUndo, FreeCount, Go
<1>2. UNCHANGED <<top, chain, seen, arg, holds>> /\ Held' = Held
  BY DEF AllocGate, AllocUndo, FreeCount, Held
<1>3. /\ stepOf'[t] = to
      /\ \A u \in PoolThread : u # t => stepOf'[u] = stepOf[u]
  BY <1>1 DEF LfpTypeOK
<1>4. LfpTypeOK'
  <2>1. lfpCount' \in Int
    BY <1>1 DEF LfpTypeOK
  <2>2. stepOf' \in [PoolThread -> {"idle", "allocClear"} \cup LetIn \cup Leaving \cup Freeing]
    BY <1>1 DEF LfpTypeOK, LetIn, Leaving
  <2> QED BY <1>2, <2>1, <2>2 DEF LfpTypeOK
<1>5. Chained'
  BY <1>2 DEF Chained
<1>6. Owned'
  BY <1>1, <1>2, <1>3 DEF Owned, Freeing
<1>7. StillSo'
  BY <1>1, <1>2, <1>3 DEF StillSo
<1>8. Counted'
  <2>1. /\ Cardinality(At(LetIn)') = Cardinality(At(LetIn)) + (IF to \in LetIn THEN 1 ELSE 0)
                                       - (IF stepOf[t] \in LetIn THEN 1 ELSE 0)
        /\ Cardinality(At(Leaving)') = Cardinality(At(Leaving)) + (IF to \in Leaving THEN 1 ELSE 0)
                                       - (IF stepOf[t] \in Leaving THEN 1 ELSE 0)
    BY <1>1, Moved
  <2>2. /\ Cardinality(Held) \in Nat /\ Cardinality(Block) \in Nat
        /\ Cardinality(At(LetIn)) \in Nat /\ Cardinality(At(Leaving)) \in Nat
    BY Numbers
  <2>3. /\ lfpCount' = Cardinality(Held) + Cardinality(At(LetIn)') + Cardinality(At(Leaving)')
        /\ Cardinality(Held) + Cardinality(At(LetIn)') <= Cardinality(Block)
    BY <1>1, <2>1, <2>2 DEF Counted, LetIn, Leaving
  <2> QED BY <1>2, <2>3 DEF Counted
<1> QED BY <1>4, <1>5, <1>6, <1>7, <1>8

(* The top is there for a thread let in.                                      *)
LEMMA TopThere ==
  ASSUME LfpInv
  PROVE  /\ (\E t \in PoolThread : stepOf[t] \in LetIn) => top.node \in Block
         /\ top.node \in Block => top.node \notin Held
<1> USE DEF LfpInv
<1>1. PICK q \in Seq(Block) : Lists(q, top.node, chain, Block \ Held)
  BY DEF Chained
<1>2. top.node \in Block \cup {"null"}
  BY DEF LfpTypeOK
<1>3. ASSUME NEW t \in PoolThread, stepOf[t] \in LetIn PROVE Held # Block
  <2>1. t \in At(LetIn)
    BY <1>3 DEF At
  <2>2. Cardinality(At(LetIn)) # 0
    BY <2>1, Numbers, FS_EmptySet
  <2> QED BY <2>2, Numbers DEF Counted
<1>4. Held \subseteq Block
  BY Numbers
<1>5. top.node # "null" => top.node \in Block \ Held
  BY <1>1, ListFirst
<1>6. top.node = "null" => Block \ Held = {}
  BY <1>1, ListFirst
<1> QED BY <1>2, <1>3, <1>4, <1>5, <1>6, BlockAssumption

LEMMA ReadInv ==
  ASSUME LfpInv, NEW t \in PoolThread,
         \/ ReadNode(t, "allocNode", "allocID") \/ ReadID(t, "allocID", "allocNext")
         \/ ReadNode(t, "freeNode", "freeID") \/ ReadID(t, "freeID", "freeNext")
  PROVE  LfpInv'
<1> USE DEF LfpInv
<1>1. UNCHANGED <<top, chain, lfpCount, arg, holds, alive>>
  BY DEF ReadNode, ReadID
<1>2. PICK to \in {"allocID", "allocNext", "freeID", "freeNext"} :
        /\ stepOf' = [stepOf EXCEPT ![t] = to]
        /\ \/ /\ stepOf[t] = "allocNode" /\ to = "allocID"
              /\ seen' = [seen EXCEPT ![t].node = top.node]
           \/ /\ stepOf[t] = "freeNode" /\ to = "freeID"
              /\ seen' = [seen EXCEPT ![t].node = top.node]
           \/ /\ stepOf[t] = "allocID" /\ to = "allocNext"
              /\ seen' = [seen EXCEPT ![t].id = top.id]
           \/ /\ stepOf[t] = "freeID" /\ to = "freeNext"
              /\ seen' = [seen EXCEPT ![t].id = top.id]
  BY DEF ReadNode, ReadID, Go
<1>3. /\ stepOf'[t] = to
      /\ \A u \in PoolThread : u # t => stepOf'[u] = stepOf[u] /\ seen'[u] = seen[u]
  BY <1>2 DEF LfpTypeOK
<1>4. LfpTypeOK'
  <2>1. stepOf' \in [PoolThread -> {"idle", "allocClear"} \cup LetIn \cup Leaving \cup Freeing]
    BY <1>2 DEF LfpTypeOK, LetIn, Freeing
  <2>2. seen' \in [PoolThread -> [node : Block \cup {"null"}, id : Nat, next : Block \cup {"null"}]]
    BY <1>2 DEF LfpTypeOK
  <2> QED BY <1>1, <2>1, <2>2 DEF LfpTypeOK
<1>5. Chained' /\ Counted'
  BY <1>1, <1>2, Quiet DEF LetIn, Leaving
<1>6. Owned'
  <2>1. stepOf[t] = "allocNode" => top.node \in Block
    BY TopThere DEF LetIn
  <2>2. stepOf'[t] \in {"allocID", "allocNext", "allocCAS"} => seen'[t].node \in Block
    BY <1>2, <1>3, <2>1 DEF LfpTypeOK, Owned
  <2> QED BY <1>1, <1>2, <1>3, <2>2 DEF Owned, Freeing
<1>7. StillSo'
  <2>1. seen'[t].id <= top.id
    BY <1>2 DEF LfpTypeOK, StillSo
  <2> QED BY <1>1, <1>2, <1>3, <2>1 DEF StillSo
<1> QED BY <1>4, <1>5, <1>6, <1>7

LEMMA AllocNextInv ==
  ASSUME LfpInv, NEW t \in PoolThread, AllocNext(t)
  PROVE  LfpInv'
<1> USE DEF LfpInv
<1>1. UNCHANGED <<top, chain, lfpCount, arg, holds, alive>>
  BY DEF AllocNext
<1>2. /\ stepOf[t] = "allocNext" /\ stepOf' = [stepOf EXCEPT ![t] = "allocCAS"]
      /\ seen[t].node \in Block
      /\ seen' = [seen EXCEPT ![t].next = chain[seen[t].node]]
  BY BlockAssumption DEF AllocNext, Go, Owned
<1>3. /\ stepOf'[t] = "allocCAS" /\ seen'[t].node = seen[t].node /\ seen'[t].id = seen[t].id
      /\ seen'[t].next = chain[seen[t].node]
      /\ \A u \in PoolThread : u # t => stepOf'[u] = stepOf[u] /\ seen'[u] = seen[u]
  BY <1>2 DEF LfpTypeOK
<1>4. LfpTypeOK'
  <2>1. stepOf' \in [PoolThread -> {"idle", "allocClear"} \cup LetIn \cup Leaving \cup Freeing]
    BY <1>2 DEF LfpTypeOK, LetIn
  <2>2. seen' \in [PoolThread -> [node : Block \cup {"null"}, id : Nat, next : Block \cup {"null"}]]
    BY <1>2 DEF LfpTypeOK
  <2> QED BY <1>1, <2>1, <2>2 DEF LfpTypeOK
<1>5. Chained' /\ Counted'
  BY <1>1, <1>2, Quiet DEF LetIn, Leaving
<1>6. Owned'
  BY <1>1, <1>2, <1>3 DEF Owned, Freeing
<1>7. StillSo'
  BY <1>1, <1>2, <1>3 DEF StillSo
<1> QED BY <1>4, <1>5, <1>6, <1>7

(* Another thread goes on to exchange what it read, and the tag fails it.     *)
LEMMA TagFails ==
  ASSUME LfpInv, top'.id = top.id + 1, NEW u \in PoolThread
  PROVE  /\ seen[u].id <= top'.id
         /\ top' # [node |-> seen[u].node, id |-> seen[u].id]
<1>1. seen[u].id \in Nat /\ top.id \in Nat /\ seen[u].id <= top.id
  BY DEF LfpInv, LfpTypeOK, StillSo
<1> QED BY <1>1

LEMMA AllocCASInv ==
  ASSUME LfpInv, NEW t \in PoolThread, AllocCAS(t)
  PROVE  LfpInv'
<1> USE DEF LfpInv
<1> DEFINE b == seen[t].node
<1>1. stepOf[t] = "allocCAS" /\ UNCHANGED <<chain, lfpCount, seen, arg, alive>> /\ b \in Block
  BY DEF AllocCAS, Owned
<1>2. CASE top = [node |-> b, id |-> seen[t].id]
  <2>1. /\ top' = [node |-> seen[t].next, id |-> top.id + 1]
        /\ stepOf' = [stepOf EXCEPT ![t] = "allocClear"]
    BY <1>2 DEF AllocCAS, Exchange
  <2>2. top'.id = top.id + 1 /\ top' # top
    BY <2>1 DEF LfpTypeOK
  <2>3. holds' = [holds EXCEPT ![t] = holds[t] \cup {b}]
    BY <2>2 DEF AllocCAS
  <2>4. b = top.node /\ top'.node = chain[b] /\ seen[t].next = chain[b]
    BY <1>1, <1>2, <2>1 DEF StillSo
  <2>5. b \notin Held
    BY <1>1, <2>4, TopThere
  <2>6. /\ stepOf'[t] = "allocClear" /\ holds'[t] = holds[t] \cup {b}
        /\ \A u \in PoolThread : u # t => stepOf'[u] = stepOf[u] /\ holds'[u] = holds[u]
    BY <2>1, <2>3 DEF LfpTypeOK
  <2>7. Held' = Held \cup {b}
    BY <2>6 DEF Held
  <2>8. LfpTypeOK'
    <3>1. /\ stepOf' \in [PoolThread -> {"idle", "allocClear"} \cup LetIn \cup Leaving \cup Freeing]
          /\ holds' \in [PoolThread -> SUBSET Block]
      BY <1>1, <2>1, <2>3 DEF LfpTypeOK
    <3>2. top' \in [node : Block \cup {"null"}, id : Nat]
      BY <2>1 DEF LfpTypeOK
    <3> QED BY <1>1, <3>1, <3>2 DEF LfpTypeOK
  <2>9. Chained'
    <3>1. PICK q \in Seq(Block) : Lists(q, top.node, chain, Block \ Held)
      BY DEF Chained
    <3>2. \E r \in Seq(Block) : Lists(r, chain[b], chain, (Block \ Held) \ {b})
      BY <1>1, <2>4, <3>1, ListPop
    <3>3. Block \ Held' = (Block \ Held) \ {b}
      BY <2>7
    <3> QED BY <1>1, <2>4, <3>2, <3>3 DEF Chained
  <2>10. Owned'
    <3>1. \A u \in PoolThread : b \notin holds[u]
      BY <2>5 DEF Held
    <3> QED BY <1>1, <2>6, <3>1 DEF Owned, Freeing
  <2>11. StillSo'
    BY <1>1, <2>2, <2>6, TagFails DEF StillSo
  <2>12. Counted'
    <3>1. /\ Cardinality(At(LetIn)') = Cardinality(At(LetIn)) - 1
          /\ Cardinality(At(Leaving)') = Cardinality(At(Leaving))
      <4>1. /\ Cardinality(At(LetIn)') = Cardinality(At(LetIn)) + (IF "allocClear" \in LetIn THEN 1 ELSE 0)
                                                  - (IF stepOf[t] \in LetIn THEN 1 ELSE 0)
            /\ Cardinality(At(Leaving)') = Cardinality(At(Leaving)) + (IF "allocClear" \in Leaving THEN 1 ELSE 0)
                                                    - (IF stepOf[t] \in Leaving THEN 1 ELSE 0)
            /\ Cardinality(At(LetIn)) \in Nat /\ Cardinality(At(Leaving)) \in Nat
        BY <1>1, <2>1, MovedBoth DEF LfpInv
      <4>2. /\ "allocClear" \notin LetIn /\ stepOf[t] \in LetIn
            /\ "allocClear" \notin Leaving /\ stepOf[t] \notin Leaving
        BY <1>1 DEF LetIn, Leaving
      <4> QED BY <4>1, <4>2
    <3> DEFINE H == Held'
    <3>2. H = Held \cup {b}
      BY <2>7
    <3> HIDE DEF H
    <3>3. Cardinality(H) = Cardinality(Held) + 1
      BY <2>5, <3>2, Numbers, FS_AddElement
    <3>4. Cardinality(At(LetIn)) \in Nat /\ Cardinality(At(Leaving)) \in Nat /\ Cardinality(Held) \in Nat
      BY Numbers
    <3>5. /\ lfpCount = Cardinality(H) + Cardinality(At(LetIn)') + Cardinality(At(Leaving)')
          /\ Cardinality(H) + Cardinality(At(LetIn)') <= Cardinality(Block)
      BY <3>1, <3>3, <3>4 DEF Counted
    <3> QED BY <1>1, <3>5 DEF Counted, H
  <2> QED BY <2>8, <2>9, <2>10, <2>11, <2>12
<1>3. CASE top # [node |-> b, id |-> seen[t].id]
  <2>1. top' = top /\ stepOf' = [stepOf EXCEPT ![t] = "allocNode"]
    BY <1>3 DEF AllocCAS, Exchange
  <2>2. holds' = [holds EXCEPT ![t] = holds[t]]
    BY <2>1 DEF AllocCAS
  <2>3. holds' = holds
    BY <2>2 DEF LfpTypeOK
  <2>4. stepOf'[t] = "allocNode" /\ \A u \in PoolThread : u # t => stepOf'[u] = stepOf[u]
    BY <2>1 DEF LfpTypeOK
  <2>5. LfpTypeOK'
    BY <1>1, <2>1, <2>3 DEF LfpTypeOK, LetIn
  <2>6. Chained' /\ Counted'
    BY <1>1, <2>1, <2>3, Quiet DEF LetIn, Leaving
  <2>7. Owned'
    BY <1>1, <2>3, <2>4 DEF Owned, Freeing
  <2>8. StillSo'
    BY <1>1, <2>1, <2>4 DEF StillSo
  <2> QED BY <2>5, <2>6, <2>7, <2>8
<1> QED BY <1>2, <1>3

(* A thread writes pNext of a block it holds.                                 *)
LEMMA WriteHeld ==
  ASSUME LfpInv, NEW t \in PoolThread, NEW b \in holds[t], NEW v \in Block \cup {"null"},
         chain' = [chain EXCEPT ![b] = v], UNCHANGED <<top, holds>>
  PROVE  /\ Chained' /\ b \in Block /\ chain' \in [Block -> Block \cup {"null"}] /\ chain'[b] = v
         /\ top.node # b
         /\ \A u \in PoolThread, d \in Block :
              (u # t /\ d \in holds[u]) \/ d = top.node => chain'[d] = chain[d]
<1> USE DEF LfpInv
<1>1. b \in Block /\ b \in Held /\ Held' = Held
  BY DEF LfpTypeOK, Held
<1>2. chain' \in [Block -> Block \cup {"null"}] /\ chain'[b] = v
      /\ \A d \in Block \ {b} : chain'[d] = chain[d]
  BY <1>1 DEF LfpTypeOK
<1>3. Chained'
  <2>1. PICK q \in Seq(Block) : Lists(q, top.node, chain, Block \ Held)
    BY DEF Chained
  <2>2. Lists(q, top.node, [chain EXCEPT ![b] = v], Block \ Held)
    BY <1>1, <2>1, ListWrite DEF LfpTypeOK
  <2> QED BY <1>1, <2>2 DEF Chained
<1>4. top.node # b
  BY <1>1, TopThere
<1>5. \A u \in PoolThread : u # t => b \notin holds[u]
  BY DEF Owned
<1> QED BY <1>1, <1>2, <1>3, <1>4, <1>5

LEMMA AllocClearInv ==
  ASSUME LfpInv, NEW t \in PoolThread, AllocClear(t)
  PROVE  LfpInv'
<1> USE DEF LfpInv
<1> DEFINE b == seen[t].node
<1>1. /\ stepOf[t] = "allocClear" /\ stepOf' = [stepOf EXCEPT ![t] = "idle"]
      /\ chain' = [chain EXCEPT ![b] = "null"]
      /\ UNCHANGED <<top, lfpCount, seen, arg, holds>> /\ b \in holds[t]
  BY DEF AllocClear, Go, Owned
<1>2. /\ Chained' /\ chain' \in [Block -> Block \cup {"null"}]
      /\ \A u \in PoolThread, d \in Block :
           (u # t /\ d \in holds[u]) \/ d = top.node => chain'[d] = chain[d]
  BY <1>1, WriteHeld
<1>3. stepOf'[t] = "idle" /\ \A u \in PoolThread : u # t => stepOf'[u] = stepOf[u]
  BY <1>1 DEF LfpTypeOK
<1>4. LfpTypeOK'
  BY <1>1, <1>2 DEF LfpTypeOK
<1>5. Owned'
  BY <1>1, <1>3 DEF Owned, Freeing
<1>6. StillSo'
  <2> SUFFICES ASSUME NEW u \in PoolThread
      PROVE  /\ stepOf'[u] = "allocCAS" /\ top = [node |-> seen[u].node, id |-> seen[u].id] =>
                  seen[u].next = chain'[seen[u].node]
             /\ stepOf'[u] = "freeCAS" => chain'[arg[u]] = seen[u].node
    BY <1>1 DEF StillSo
  <2>1. ASSUME stepOf'[u] = "allocCAS", top = [node |-> seen[u].node, id |-> seen[u].id]
        PROVE  seen[u].next = chain'[seen[u].node]
    BY <1>2, <1>3, <2>1 DEF StillSo, Owned
  <2>2. ASSUME stepOf'[u] = "freeCAS" PROVE chain'[arg[u]] = seen[u].node
    <3>1. u # t /\ stepOf[u] = "freeCAS" /\ arg[u] \in holds[u] /\ arg[u] \in Block
      BY <1>3, <2>2 DEF Owned, Freeing, LfpTypeOK
    <3> QED BY <1>2, <3>1 DEF StillSo
  <2> QED BY <2>1, <2>2
<1>7. Counted'
  <2>1. Held' = Held
    BY <1>1 DEF Held
  <2>2. /\ Cardinality(At(LetIn)') = Cardinality(At(LetIn))
        /\ Cardinality(At(Leaving)') = Cardinality(At(Leaving))
    <3>1. /\ Cardinality(At(LetIn)') = Cardinality(At(LetIn)) + (IF "idle" \in LetIn THEN 1 ELSE 0)
                                                - (IF stepOf[t] \in LetIn THEN 1 ELSE 0)
          /\ Cardinality(At(Leaving)') = Cardinality(At(Leaving)) + (IF "idle" \in Leaving THEN 1 ELSE 0)
                                                  - (IF stepOf[t] \in Leaving THEN 1 ELSE 0)
          /\ Cardinality(At(LetIn)) \in Nat /\ Cardinality(At(Leaving)) \in Nat
      BY <1>1, MovedBoth DEF LfpInv
    <3>2. /\ "idle" \notin LetIn /\ stepOf[t] \notin LetIn
          /\ "idle" \notin Leaving /\ stepOf[t] \notin Leaving
      BY <1>1 DEF LetIn, Leaving
    <3> QED BY <3>1, <3>2
  <2> QED BY <1>1, <2>1, <2>2 DEF Counted
<1> QED BY <1>2, <1>4, <1>5, <1>6, <1>7

LEMMA FreeBeginInv ==
  ASSUME LfpInv, NEW t \in PoolThread, NEW b \in Block, FreeBegin(t, b)
  PROVE  LfpInv'
<1> USE DEF LfpInv
<1>1. /\ stepOf[t] = "idle" /\ stepOf' = [stepOf EXCEPT ![t] = "freeNode"]
      /\ arg' = [arg EXCEPT ![t] = b] /\ b \in holds[t]
      /\ UNCHANGED <<top, chain, lfpCount, seen, holds, alive>>
  BY DEF FreeBegin, Go
<1>2. /\ stepOf'[t] = "freeNode" /\ arg'[t] = b
      /\ \A u \in PoolThread : u # t => stepOf'[u] = stepOf[u] /\ arg'[u] = arg[u]
  BY <1>1 DEF LfpTypeOK
<1>3. LfpTypeOK'
  BY <1>1 DEF LfpTypeOK, Freeing
<1>4. Chained' /\ Counted'
  BY <1>1, Quiet DEF LetIn, Leaving
<1>5. Owned'
  BY <1>1, <1>2 DEF Owned, Freeing
<1>6. StillSo'
  BY <1>1, <1>2 DEF StillSo
<1> QED BY <1>3, <1>4, <1>5, <1>6

LEMMA FreeNextInv ==
  ASSUME LfpInv, NEW t \in PoolThread, FreeNext(t)
  PROVE  LfpInv'
<1> USE DEF LfpInv
<1> DEFINE b == arg[t]
           v == seen[t].node
<1>1. /\ stepOf[t] = "freeNext" /\ stepOf' = [stepOf EXCEPT ![t] = "freeCAS"]
      /\ chain' = [chain EXCEPT ![b] = v]
      /\ UNCHANGED <<top, lfpCount, seen, arg, holds, alive>> /\ b \in holds[t]
      /\ v \in Block \cup {"null"}
  BY DEF FreeNext, Go, Owned, Freeing, LfpTypeOK
<1>2. /\ Chained' /\ chain' \in [Block -> Block \cup {"null"}] /\ chain'[b] = v
      /\ \A u \in PoolThread, d \in Block :
           (u # t /\ d \in holds[u]) \/ d = top.node => chain'[d] = chain[d]
  BY <1>1, WriteHeld
<1>3. stepOf'[t] = "freeCAS" /\ \A u \in PoolThread : u # t => stepOf'[u] = stepOf[u]
  BY <1>1 DEF LfpTypeOK
<1>4. LfpTypeOK'
  BY <1>1, <1>2 DEF LfpTypeOK, Freeing
<1>5. Owned'
  BY <1>1, <1>3 DEF Owned, Freeing
<1>6. StillSo'
  <2> SUFFICES ASSUME NEW u \in PoolThread
      PROVE  /\ stepOf'[u] = "allocCAS" /\ top = [node |-> seen[u].node, id |-> seen[u].id] =>
                  seen[u].next = chain'[seen[u].node]
             /\ stepOf'[u] = "freeCAS" => chain'[arg[u]] = seen[u].node
    BY <1>1 DEF StillSo
  <2>1. ASSUME stepOf'[u] = "allocCAS", top = [node |-> seen[u].node, id |-> seen[u].id]
        PROVE  seen[u].next = chain'[seen[u].node]
    BY <1>2, <1>3, <2>1 DEF StillSo, Owned
  <2>2. ASSUME stepOf'[u] = "freeCAS", u # t PROVE chain'[arg[u]] = seen[u].node
    <3>1. stepOf[u] = "freeCAS" /\ arg[u] \in holds[u] /\ arg[u] \in Block
      BY <1>3, <2>2 DEF Owned, Freeing, LfpTypeOK
    <3> QED BY <1>2, <2>2, <3>1 DEF StillSo
  <2> QED BY <1>2, <2>1, <2>2
<1>7. Counted'
  <2>1. Held' = Held
    BY <1>1 DEF Held
  <2>2. /\ Cardinality(At(LetIn)') = Cardinality(At(LetIn))
        /\ Cardinality(At(Leaving)') = Cardinality(At(Leaving))
    <3>1. /\ Cardinality(At(LetIn)') = Cardinality(At(LetIn)) + (IF "freeCAS" \in LetIn THEN 1 ELSE 0)
                                                - (IF stepOf[t] \in LetIn THEN 1 ELSE 0)
          /\ Cardinality(At(Leaving)') = Cardinality(At(Leaving)) + (IF "freeCAS" \in Leaving THEN 1 ELSE 0)
                                                  - (IF stepOf[t] \in Leaving THEN 1 ELSE 0)
          /\ Cardinality(At(LetIn)) \in Nat /\ Cardinality(At(Leaving)) \in Nat
      BY <1>1, MovedBoth DEF LfpInv
    <3>2. /\ "freeCAS" \notin LetIn /\ stepOf[t] \notin LetIn
          /\ "freeCAS" \notin Leaving /\ stepOf[t] \notin Leaving
      BY <1>1 DEF LetIn, Leaving
    <3> QED BY <3>1, <3>2
  <2> QED BY <1>1, <2>1, <2>2 DEF Counted
<1> QED BY <1>2, <1>4, <1>5, <1>6, <1>7

LEMMA FreeCASInv ==
  ASSUME LfpInv, NEW t \in PoolThread, FreeCAS(t)
  PROVE  LfpInv'
<1> USE DEF LfpInv
<1> DEFINE b == arg[t]
<1>1. /\ stepOf[t] = "freeCAS" /\ UNCHANGED <<chain, lfpCount, seen, arg, alive>>
      /\ b \in holds[t] /\ b \in Block /\ b \in Held /\ chain[b] = seen[t].node
  BY DEF FreeCAS, Owned, Freeing, LfpTypeOK, StillSo, Held
<1>2. CASE top = [node |-> seen[t].node, id |-> seen[t].id]
  <2>1. /\ top' = [node |-> b, id |-> top.id + 1]
        /\ stepOf' = [stepOf EXCEPT ![t] = "freeDestroy"]
    BY <1>2 DEF FreeCAS, Exchange
  <2>2. top'.id = top.id + 1 /\ top' # top /\ top'.node = b
    BY <2>1 DEF LfpTypeOK
  <2>3. holds' = [holds EXCEPT ![t] = holds[t] \ {b}]
    BY <2>2 DEF FreeCAS
  <2>4. /\ stepOf'[t] = "freeDestroy" /\ holds'[t] = holds[t] \ {b}
        /\ \A u \in PoolThread : u # t => stepOf'[u] = stepOf[u] /\ holds'[u] = holds[u]
    BY <2>1, <2>3 DEF LfpTypeOK
  <2>5. Held' = Held \ {b}
    <3>1. \A u \in PoolThread : u # t => b \notin holds[u]
      BY <1>1 DEF Owned
    <3> QED BY <2>4, <3>1 DEF Held
  <2>6. LfpTypeOK'
    <3>1. /\ stepOf' \in [PoolThread -> {"idle", "allocClear"} \cup LetIn \cup Leaving \cup Freeing]
          /\ holds' \in [PoolThread -> SUBSET Block]
      BY <2>1, <2>3 DEF LfpTypeOK, Leaving
    <3>2. top' \in [node : Block \cup {"null"}, id : Nat]
      BY <1>1, <2>1 DEF LfpTypeOK
    <3> QED BY <1>1, <3>1, <3>2 DEF LfpTypeOK
  <2>7. Chained'
    <3>1. PICK q \in Seq(Block) : Lists(q, top.node, chain, Block \ Held)
      BY DEF Chained
    <3>2. chain[b] = top.node
      BY <1>1, <1>2
    <3>3. \E r \in Seq(Block) : Lists(r, b, chain, (Block \ Held) \cup {b})
      BY <1>1, <3>1, <3>2, ListPush
    <3>4. Block \ Held' = (Block \ Held) \cup {b}
      BY <1>1, <2>5
    <3> QED BY <1>1, <2>2, <3>3, <3>4 DEF Chained
  <2>8. Owned'
    BY <1>1, <2>4 DEF Owned, Freeing
  <2>9. StillSo'
    BY <1>1, <2>2, <2>4, TagFails DEF StillSo
  <2>10. Counted'
    <3>1. /\ Cardinality(At(LetIn)') = Cardinality(At(LetIn))
          /\ Cardinality(At(Leaving)') = Cardinality(At(Leaving)) + 1
      <4>1. /\ Cardinality(At(LetIn)') = Cardinality(At(LetIn)) + (IF "freeDestroy" \in LetIn THEN 1 ELSE 0)
                                                  - (IF stepOf[t] \in LetIn THEN 1 ELSE 0)
            /\ Cardinality(At(Leaving)') = Cardinality(At(Leaving)) + (IF "freeDestroy" \in Leaving THEN 1 ELSE 0)
                                                    - (IF stepOf[t] \in Leaving THEN 1 ELSE 0)
            /\ Cardinality(At(LetIn)) \in Nat /\ Cardinality(At(Leaving)) \in Nat
        BY <1>1, <2>1, MovedBoth DEF LfpInv
      <4>2. /\ "freeDestroy" \notin LetIn /\ stepOf[t] \notin LetIn
            /\ "freeDestroy" \in Leaving /\ stepOf[t] \notin Leaving
        BY <1>1 DEF LetIn, Leaving
      <4> QED BY <4>1, <4>2
    <3> DEFINE H == Held'
    <3>2. H = Held \ {b}
      BY <2>5
    <3> HIDE DEF H
    <3>3. Cardinality(H) = Cardinality(Held) - 1
      BY <1>1, <3>2, Numbers, FS_RemoveElement
    <3>4. /\ Cardinality(At(LetIn)) \in Nat /\ Cardinality(At(Leaving)) \in Nat
          /\ Cardinality(Held) \in Nat /\ Cardinality(Block) \in Nat
      BY Numbers
    <3>5. /\ lfpCount = Cardinality(H) + Cardinality(At(LetIn)') + Cardinality(At(Leaving)')
          /\ Cardinality(H) + Cardinality(At(LetIn)') <= Cardinality(Block)
      BY <3>1, <3>3, <3>4 DEF Counted
    <3> QED BY <1>1, <3>5 DEF Counted, H
  <2> QED BY <2>6, <2>7, <2>8, <2>9, <2>10
<1>3. CASE top # [node |-> seen[t].node, id |-> seen[t].id]
  <2>1. top' = top /\ stepOf' = [stepOf EXCEPT ![t] = "freeNode"]
    BY <1>3 DEF FreeCAS, Exchange
  <2>2. holds' = [holds EXCEPT ![t] = holds[t]]
    BY <2>1 DEF FreeCAS
  <2>3. holds' = holds
    BY <2>2 DEF LfpTypeOK
  <2>4. stepOf'[t] = "freeNode" /\ \A u \in PoolThread : u # t => stepOf'[u] = stepOf[u]
    BY <2>1 DEF LfpTypeOK
  <2>5. LfpTypeOK'
    BY <1>1, <2>1, <2>3 DEF LfpTypeOK, Freeing
  <2>6. Chained' /\ Counted'
    BY <1>1, <2>1, <2>3, Quiet DEF LetIn, Leaving
  <2>7. Owned'
    BY <1>1, <2>3, <2>4 DEF Owned, Freeing
  <2>8. StillSo'
    BY <1>1, <2>1, <2>4 DEF StillSo
  <2> QED BY <2>5, <2>6, <2>7, <2>8
<1> QED BY <1>2, <1>3

LEMMA FreeDestroyInv ==
  ASSUME LfpInv, NEW t \in PoolThread, FreeDestroy(t)
  PROVE  LfpInv'
<1> USE DEF LfpInv
<1>1. /\ stepOf[t] = "freeDestroy" /\ stepOf' = [stepOf EXCEPT ![t] = "freeCount"]
      /\ UNCHANGED <<top, chain, lfpCount, seen, arg, holds>>
  BY DEF FreeDestroy, Go
<1>2. stepOf'[t] = "freeCount" /\ \A u \in PoolThread : u # t => stepOf'[u] = stepOf[u]
  BY <1>1 DEF LfpTypeOK
<1>3. LfpTypeOK'
  BY <1>1 DEF LfpTypeOK, Leaving
<1>4. Chained' /\ Counted'
  BY <1>1, Quiet DEF LetIn, Leaving
<1>5. Owned'
  BY <1>1, <1>2 DEF Owned, Freeing
<1>6. StillSo'
  BY <1>1, <1>2 DEF StillSo
<1> QED BY <1>3, <1>4, <1>5, <1>6

(* No block is given to two threads, no thread the counter let in finds the   *)
(* chain empty, and between calls the counter is right (LockFreePool.h:75-174). *)
THEOREM PoolAlwaysShared == LfpSpec => []PoolShared
<1>1. LfpInit => LfpInv
  <2> SUFFICES ASSUME LfpInit PROVE LfpInv
    OBVIOUS
  <2>1. Held = {} /\ At(LetIn) = {} /\ At(Leaving) = {}
    BY DEF LfpInit, Held, At, LetIn, Leaving
  <2>2. LfpTypeOK
    <3>1. top \in [node : Block \cup {"null"}, id : Nat]
      BY BlockAssumption DEF LfpInit
    <3>2. seen \in [PoolThread -> [node : Block \cup {"null"}, id : Nat, next : Block \cup {"null"}]]
      BY DEF LfpInit
    <3> QED BY <3>1, <3>2, BlockAssumption DEF LfpInit, LfpTypeOK
  <2>3. Chained
    <3> DEFINE n == Cardinality(Block)
    <3>1. n \in Nat
      BY BlockAssumption, FS_CardinalityType
    <3>2. PICK q \in [1 .. n -> Block] :
            /\ IsInjective(q) /\ q[1] = FirstBlock
            /\ \A i \in DOMAIN q : NextBlock[q[i]] = IF i = n THEN "null" ELSE q[i + 1]
      BY BlockAssumption
    <3>3. Cardinality(1 .. n) = n /\ n # 0
      <4>1. 1 \in Int /\ n \in Int
        BY <3>1
      <4>2. Cardinality(1 .. n) = IF 1 > n THEN 0 ELSE n - 1 + 1
        BY <4>1, FS_Interval
      <4>3. n # 0
        BY BlockAssumption, FS_EmptySet
      <4> QED BY <3>1, <4>2, <4>3
    <3>4. q \in Surjection(1 .. n, Block)
      <4>1. q \in Injection(1 .. n, Block)
        BY <3>2 DEF Injection
      <4> QED BY <3>3, <4>1, BlockAssumption, FS_Injection
    <3>5. Range(q) = Block
      BY <3>2, <3>4 DEF Range, Surjection
    <3> HIDE DEF n
    <3>6. q \in Seq(Block) /\ Len(q) = n /\ q # <<>>
      BY <3>1, <3>2, <3>3
    <3>7. Lists(q, top.node, chain, Block \ Held)
      BY <2>1, <3>2, <3>5, <3>6 DEF Lists, LfpInit
    <3> QED BY <3>6, <3>7 DEF Chained
  <2>4. Owned
    BY DEF LfpInit, Owned, Freeing
  <2>5. StillSo
    BY DEF LfpInit, StillSo
  <2>6. Counted
    <3>1. Cardinality(Block) \in Nat
      BY BlockAssumption, FS_CardinalityType
    <3> QED BY <2>1, <3>1, FS_EmptySet DEF LfpInit, Counted
  <2> QED BY <2>2, <2>3, <2>4, <2>5, <2>6 DEF LfpInv
<1>2. LfpInv /\ [LfpNext]_lfpVars => LfpInv'
  <2> SUFFICES ASSUME LfpInv, [LfpNext]_lfpVars PROVE LfpInv'
    OBVIOUS
  <2>1. CASE UNCHANGED lfpVars
    <3>1. /\ UNCHANGED <<top, chain, lfpCount, stepOf, seen, arg, holds>>
          /\ Held' = Held /\ At(LetIn)' = At(LetIn) /\ At(Leaving)' = At(Leaving)
      BY <2>1 DEF lfpVars, Held, At
    <3>2. LfpTypeOK' /\ Chained'
      BY <3>1 DEF LfpInv, LfpTypeOK, Chained
    <3>3. Owned' /\ StillSo' /\ Counted'
      BY <3>1 DEF LfpInv, Owned, StillSo, Counted
    <3> QED BY <3>2, <3>3 DEF LfpInv
  <2> QED BY <2>1, GateInv, ReadInv, AllocNextInv, AllocCASInv, AllocClearInv, FreeBeginInv,
             FreeNextInv, FreeCASInv, FreeDestroyInv DEF LfpNext
<1>3. LfpInv => PoolShared
  <2> SUFFICES ASSUME LfpInv PROVE PoolShared
    OBVIOUS
  <2>1. \A t \in PoolThread : stepOf[t] # "crashed"
    BY DEF LfpInv, LfpTypeOK, LetIn, Leaving, Freeing
  <2>2. ASSUME \A t \in PoolThread : stepOf[t] = "idle" PROVE lfpCount = Cardinality(Held)
    <3>1. At(LetIn) = {} /\ At(Leaving) = {}
      BY <2>2 DEF At, LetIn, Leaving
    <3> QED BY <3>1, Numbers, FS_EmptySet DEF LfpInv, Counted
  <2> QED BY <2>1, <2>2 DEF LfpInv, Owned, PoolShared, Held
<1> QED BY <1>1, <1>2, <1>3, PTL DEF LfpSpec
-----------------------------------------------------------------------------
(* The pool of chunks (LockFreeTlsPoolA.h).                                   *)
Blocks == Chunk \X (0 .. ChunkSize - 1)

TlsTypeOK ==
  /\ chunkPool \subseteq Chunk
  /\ tls \in [TlsThread -> Chunk \cup {"none"}]
  /\ left \in [Chunk -> 0 .. ChunkSize] /\ owed \in [Chunk -> Int]
  /\ tlsStep \in [TlsThread -> {"idle", "take", "next", "return"}]
  /\ taken \in [TlsThread -> Blocks \cup {<<>>}]
  /\ lent \subseteq Blocks /\ lost \subseteq Blocks

(* A chunk a thread takes blocks from is its own, and not used up unless the  *)
(* thread is about to replace it.                                             *)
Holder == \A t \in TlsThread :
  /\ tls[t] # "none" => tls[t] \notin chunkPool
  /\ tlsStep[t] \in {"take", "next"} => tls[t] # "none"
  /\ tls[t] # "none" /\ tlsStep[t] # "next" => left[tls[t]] >= 1
  /\ tlsStep[t] = "next" => left[tls[t]] = 0 /\ taken[t] = <<tls[t], 0>>
  /\ \A u \in TlsThread : tls[t] # "none" /\ tls[t] = tls[u] => t = u

(* Blocks are taken from the end of a chunk.                                  *)
TakenFromEnd ==
  /\ \A b \in lent \cup lost : b[1] \notin chunkPool /\ b[2] >= left[b[1]]
  /\ lent \cap lost = {}
  /\ \A t \in TlsThread : tlsStep[t] = "next" => taken[t] \notin lent \cup lost

(* A chunk on its way back is complete, and one thread takes it there.        *)
Returning == \A t \in TlsThread : tlsStep[t] = "return" =>
  /\ taken[t] \in Blocks /\ taken[t][1] \notin chunkPool /\ owed[taken[t][1]] = 0
  /\ \A u \in TlsThread : tlsStep[u] = "return" /\ taken[u][1] = taken[t][1] => u = t

Balanced(c) == owed[c] = left[c] + Cardinality(Of(lent, c)) + Cardinality(Of(lost, c))
                          + Cardinality(Of(Pending, c))
Balance == \A c \in Chunk \ chunkPool : Balanced(c)

TlsInv == TlsTypeOK /\ Holder /\ TakenFromEnd /\ Returning /\ Balance

LEMMA OfFinite ==
  ASSUME NEW S \in SUBSET Blocks, NEW c
  PROVE  IsFiniteSet(Of(S, c)) /\ Cardinality(Of(S, c)) \in Nat
<1>1. Of(S, c) \subseteq {c} \X (0 .. ChunkSize - 1)
  BY DEF Of, Blocks
<1>2. IsFiniteSet({c} \X (0 .. ChunkSize - 1))
  <2>1. IsFiniteSet({c})
    BY FS_Singleton
  <2>2. 0 \in Int /\ ChunkSize - 1 \in Int
    BY ChunkAssumption
  <2>3. IsFiniteSet(0 .. ChunkSize - 1)
    BY <2>2, FS_Interval
  <2> QED BY <2>1, <2>3, FS_Product
<1> QED BY <1>1, <1>2, FS_Subset, FS_CardinalityType

(* One block more.                                                            *)
LEMMA OfMore ==
  ASSUME NEW S \in SUBSET Blocks, NEW b \in Blocks, b \notin S, NEW c
  PROVE  Cardinality(Of(S \cup {b}, c)) = Cardinality(Of(S, c)) + (IF b[1] = c THEN 1 ELSE 0)
<1>1. CASE b[1] = c
  <2>1. Of(S \cup {b}, c) = Of(S, c) \cup {b} /\ b \notin Of(S, c)
    BY <1>1 DEF Of
  <2> QED BY <1>1, <2>1, OfFinite, FS_AddElement
<1>2. CASE b[1] # c
  <2>1. Of(S \cup {b}, c) = Of(S, c)
    BY <1>2 DEF Of
  <2> QED BY <1>2, <2>1, OfFinite
<1> QED BY <1>1, <1>2

(* Nothing is out of a chunk that is owed nothing.                            *)
LEMMA NothingOut ==
  ASSUME TlsInv, NEW c \in Chunk \ chunkPool
  PROVE  /\ Balanced(c) /\ Pending \subseteq Blocks
         /\ left[c] \in Nat /\ Cardinality(Of(lent, c)) \in Nat
         /\ Cardinality(Of(lost, c)) \in Nat /\ Cardinality(Of(Pending, c)) \in Nat
         /\ owed[c] \in Nat
         /\ owed[c] = 0 => /\ left[c] = 0 /\ Of(lent, c) = {} /\ Of(lost, c) = {}
                           /\ Of(Pending, c) = {}
<1>1. Pending \subseteq Blocks
  <2> SUFFICES ASSUME NEW u \in TlsThread, tlsStep[u] = "next" PROVE taken[u] \in Blocks
    BY DEF Pending
  <2>1. tls[u] \in Chunk /\ taken[u] = <<tls[u], 0>>
    BY DEF TlsInv, TlsTypeOK, Holder
  <2>2. 0 \in 0 .. ChunkSize - 1
    BY ChunkAssumption
  <2> QED BY <2>1, <2>2 DEF Blocks
<1>2. Balanced(c) /\ lent \subseteq Blocks /\ lost \subseteq Blocks
  BY DEF TlsInv, TlsTypeOK, Balance
<1>3. left[c] \in Nat
  BY ChunkAssumption DEF TlsInv, TlsTypeOK
<1>4. /\ Cardinality(Of(lent, c)) \in Nat /\ Cardinality(Of(lost, c)) \in Nat
      /\ Cardinality(Of(Pending, c)) \in Nat
  BY <1>1, <1>2, OfFinite
<1>5. /\ Cardinality(Of(lent, c)) = 0 => Of(lent, c) = {}
      /\ Cardinality(Of(lost, c)) = 0 => Of(lost, c) = {}
      /\ Cardinality(Of(Pending, c)) = 0 => Of(Pending, c) = {}
  BY <1>1, <1>2, OfFinite, FS_EmptySet
<1> QED BY <1>1, <1>2, <1>3, <1>4, <1>5 DEF Balanced

LEMMA FirstChunkInv ==
  ASSUME TlsInv, NEW t \in TlsThread, FirstChunk(t)
  PROVE  TlsInv'
<1> USE ChunkAssumption DEF TlsInv
<1>1. PICK c \in chunkPool :
        /\ chunkPool' = chunkPool \ {c} /\ tls' = [tls EXCEPT ![t] = c]
        /\ left' = [left EXCEPT ![c] = ChunkSize] /\ owed' = [owed EXCEPT ![c] = ChunkSize]
  BY DEF FirstChunk, TakeChunk
<1>2. /\ tls[t] = "none" /\ tlsStep[t] = "idle" /\ tlsStep' = [tlsStep EXCEPT ![t] = "take"]
      /\ UNCHANGED <<taken, lent, lost>> /\ c \in Chunk
  BY <1>1 DEF FirstChunk, Move, TlsTypeOK
<1>3. TlsTypeOK'
  BY <1>1, <1>2 DEF TlsTypeOK
<1>4. Holder'
  BY <1>1, <1>2 DEF TlsTypeOK, Holder
<1>5. TakenFromEnd'
  <2>1. \A b \in lent \cup lost : b[1] # c /\ b[1] \in Chunk
    BY <1>1 DEF TakenFromEnd, TlsTypeOK, Blocks
  <2> QED BY <1>1, <1>2, <2>1 DEF TlsTypeOK, TakenFromEnd
<1>6. Returning'
  <2>1. \A b \in Blocks : b[1] \in Chunk
    BY DEF Blocks
  <2> QED BY <1>1, <1>2, <2>1 DEF TlsTypeOK, Returning
<1>7. Balance'
  <2>1. Pending' = Pending
    BY <1>2 DEF Pending, TlsTypeOK
  <2>2. ASSUME NEW d \in Chunk \ chunkPool' PROVE Balanced(d)'
    <3>1. CASE d = c
      <4>1. Of(lent, c) = {} /\ Of(lost, c) = {}
        BY <1>1 DEF TakenFromEnd, Of
      <4>2. Of(Pending, c) = {}
        BY <1>1, <1>2 DEF Pending, Holder, Of
      <4> QED BY <1>1, <1>2, <2>1, <3>1, <4>1, <4>2, FS_EmptySet DEF Balanced, TlsTypeOK
    <3>2. CASE d # c
      <4>1. Balanced(d) /\ left'[d] = left[d] /\ owed'[d] = owed[d]
        BY <1>1, <3>2 DEF Balance, TlsTypeOK
      <4> QED BY <1>2, <2>1, <4>1 DEF Balanced
    <3> QED BY <3>1, <3>2
  <2> QED BY <2>2 DEF Balance
<1> QED BY <1>3, <1>4, <1>5, <1>6, <1>7

LEMMA TakeBlockInv ==
  ASSUME TlsInv, NEW t \in TlsThread, TakeBlock(t)
  PROVE  TlsInv'
<1> USE ChunkAssumption DEF TlsInv
<1> DEFINE c == tls[t]
           n == left[c] - 1
           b == <<c, n>>
<1>1. /\ c \in Chunk /\ c \notin chunkPool /\ tlsStep[t] \in {"idle", "take"}
      /\ left[c] \in 1 .. ChunkSize /\ n \in 0 .. ChunkSize - 1 /\ b \in Blocks
      /\ \A u \in TlsThread : tls[u] = c => u = t
  BY DEF TakeBlock, TlsTypeOK, Holder, Blocks
<1>2. /\ left' = [left EXCEPT ![c] = n] /\ UNCHANGED <<chunkPool, tls, owed, lost>>
      /\ n = 0 => /\ tlsStep' = [tlsStep EXCEPT ![t] = "next"]
                  /\ taken' = [taken EXCEPT ![t] = b] /\ lent' = lent
      /\ n # 0 => /\ tlsStep' = [tlsStep EXCEPT ![t] = "idle"]
                  /\ lent' = lent \cup {b} /\ taken' = taken
  BY DEF TakeBlock
<1>3. b \notin lent \cup lost /\ b \notin Pending
  BY <1>1 DEF TakenFromEnd, Pending, Holder
<1> HIDE DEF n, b
<1>b. b[1] = c /\ b[2] = n /\ (n = 0 => b = <<c, 0>>)
  BY DEF b
<1>n. n \in Int /\ left[c] = n + 1
  BY <1>1 DEF n
<1>4. TlsTypeOK'
  <2>1. n \in 0 .. ChunkSize
    BY <1>1
  <2>2. left' \in [Chunk -> 0 .. ChunkSize]
    BY <1>2, <2>1 DEF TlsTypeOK
  <2>3. /\ tlsStep' \in [TlsThread -> {"idle", "take", "next", "return"}]
        /\ taken' \in [TlsThread -> Blocks \cup {<<>>}] /\ lent' \subseteq Blocks
    BY <1>1, <1>2 DEF TlsTypeOK
  <2> QED BY <1>2, <2>2, <2>3 DEF TlsTypeOK
<1>5. Holder'
  <2>1. CASE n = 0
    BY <1>1, <1>2, <1>b, <2>1 DEF TlsTypeOK, Holder
  <2>2. CASE n # 0
    BY <1>1, <1>2, <2>2 DEF TlsTypeOK, Holder
  <2> QED BY <2>1, <2>2
<1>6. TakenFromEnd'
  <2>1. \A d \in lent \cup lost : d[1] \in Chunk /\ d[2] >= left'[d[1]] /\ d[1] \notin chunkPool
    BY <1>1, <1>2, <1>n DEF TlsTypeOK, TakenFromEnd, Blocks
  <2>2. left'[c] = n
    BY <1>1, <1>2 DEF TlsTypeOK
  <2>3. CASE n = 0
    BY <1>1, <1>2, <1>3, <2>1, <2>2, <2>3 DEF TlsTypeOK, TakenFromEnd
  <2>4. CASE n # 0
    <3>1. ASSUME NEW u \in TlsThread, tlsStep'[u] = "next" PROVE taken'[u] \notin lent' \cup lost'
      <4>1. u # t /\ tlsStep[u] = "next"
        BY <1>2, <2>4, <3>1 DEF TlsTypeOK
      <4> QED BY <1>2, <1>3, <2>4, <4>1 DEF TakenFromEnd, Pending
    <3> QED BY <1>1, <1>2, <1>3, <1>b, <1>n, <2>1, <2>2, <2>4, <3>1 DEF TakenFromEnd
  <2> QED BY <2>3, <2>4
<1>7. Returning'
  <2>1. \A u \in TlsThread : tlsStep'[u] = "return" => u # t /\ tlsStep[u] = "return" /\ taken'[u] = taken[u]
    BY <1>2 DEF TlsTypeOK
  <2> QED BY <1>2, <2>1 DEF Returning
<1>8. Balance'
  <2> SUFFICES ASSUME NEW d \in Chunk \ chunkPool PROVE Balanced(d)'
    BY <1>2 DEF Balance
  <2>1. /\ Balanced(d) /\ Pending \subseteq Blocks /\ left[d] \in Nat
        /\ Cardinality(Of(lent, d)) \in Nat /\ Cardinality(Of(lost, d)) \in Nat
        /\ Cardinality(Of(Pending, d)) \in Nat
    BY NothingOut
  <2>2. left'[d] = IF d = c THEN left[d] - 1 ELSE left[d]
    BY <1>2, <1>n DEF TlsTypeOK
  <2>3. CASE n = 0
    <3>1. Pending' = Pending \cup {b}
      <4>1. tlsStep'[t] = "next" /\ taken'[t] = b
        BY <1>2, <2>3 DEF TlsTypeOK
      <4>2. \A u \in TlsThread : u # t => tlsStep'[u] = tlsStep[u] /\ taken'[u] = taken[u]
        BY <1>2, <2>3 DEF TlsTypeOK
      <4> QED BY <1>1, <4>1, <4>2 DEF Pending
    <3> DEFINE P == Pending'
    <3>2. P = Pending \cup {b}
      BY <3>1
    <3> HIDE DEF P
    <3>3. Cardinality(Of(P, d)) = Cardinality(Of(Pending, d)) + (IF c = d THEN 1 ELSE 0)
      BY <1>1, <1>3, <1>b, <2>1, <3>2, OfMore
    <3>4. lent' = lent /\ lost' = lost /\ owed' = owed
      BY <1>2, <2>3
    <3> QED BY <2>1, <2>2, <3>3, <3>4 DEF Balanced, P
  <2>4. CASE n # 0
    <3>1. Pending' = Pending
      BY <1>1, <1>2, <2>4 DEF TlsTypeOK, Pending
    <3> DEFINE P == lent'
    <3>2. P = lent \cup {b} /\ lent \subseteq Blocks
      BY <1>2, <2>4 DEF TlsTypeOK
    <3> HIDE DEF P
    <3>3. Cardinality(Of(P, d)) = Cardinality(Of(lent, d)) + (IF c = d THEN 1 ELSE 0)
      BY <1>1, <1>3, <1>b, <3>2, OfMore
    <3>4. lost' = lost /\ owed' = owed
      BY <1>2
    <3> QED BY <2>1, <2>2, <3>1, <3>3, <3>4 DEF Balanced, P
  <2> QED BY <2>3, <2>4
<1> QED BY <1>4, <1>5, <1>6, <1>7, <1>8

LEMMA NextChunkInv ==
  ASSUME TlsInv, NEW t \in TlsThread, NextChunk(t)
  PROVE  TlsInv'
<1> USE ChunkAssumption DEF TlsInv
<1> DEFINE b == taken[t]
<1>1. /\ tlsStep[t] = "next" /\ tlsStep' = [tlsStep EXCEPT ![t] = "idle"]
      /\ taken' = [taken EXCEPT ![t] = <<>>]
      /\ tls[t] \in Chunk /\ tls[t] \notin chunkPool /\ left[tls[t]] = 0
      /\ b = <<tls[t], 0>> /\ b \in Blocks /\ b \notin lent \cup lost /\ b \in Pending
      /\ \A u \in TlsThread : tls[u] = tls[t] => u = t
  <2>1. /\ tlsStep[t] = "next" /\ tlsStep' = [tlsStep EXCEPT ![t] = "idle"]
        /\ taken' = [taken EXCEPT ![t] = <<>>]
    BY DEF NextChunk, Move
  <2>2. /\ tls[t] \in Chunk /\ tls[t] \notin chunkPool /\ left[tls[t]] = 0
        /\ b = <<tls[t], 0>> /\ \A u \in TlsThread : tls[u] = tls[t] => u = t
    BY <2>1 DEF TlsTypeOK, Holder
  <2>3. 0 \in 0 .. ChunkSize - 1
    OBVIOUS
  <2>4. b \in Blocks
    BY <2>2, <2>3 DEF Blocks
  <2>5. b \notin lent \cup lost /\ b \in Pending
    BY <2>1 DEF TakenFromEnd, Pending
  <2> QED BY <2>1, <2>2, <2>4, <2>5
<1>b. b[1] = tls[t] /\ b[2] = 0
  BY <1>1
<1>2. /\ Pending' = Pending \ {b}
      /\ \A u \in TlsThread : tlsStep'[u] = "next" =>
           u # t /\ tlsStep[u] = "next" /\ taken'[u] = taken[u] /\ taken[u] # b
  <2>1. \A u \in TlsThread : u # t /\ tlsStep[u] = "next" => taken[u] # b
    BY <1>1 DEF Holder
  <2>2. \A u \in TlsThread : u # t => tlsStep'[u] = tlsStep[u] /\ taken'[u] = taken[u]
    BY <1>1 DEF TlsTypeOK
  <2>3. tlsStep'[t] = "idle"
    BY <1>1 DEF TlsTypeOK
  <2> QED BY <1>1, <2>1, <2>2, <2>3 DEF Pending
<1> HIDE DEF b
<1>3. ASSUME NEW d \in Chunk \ chunkPool
      PROVE  /\ Balanced(d) /\ left[d] \in Nat /\ Cardinality(Of(Pending', d)) \in Nat
             /\ Cardinality(Of(lent, d)) \in Nat /\ Cardinality(Of(lost, d)) \in Nat
             /\ Cardinality(Of(Pending, d)) = Cardinality(Of(Pending', d))
                                                + (IF b[1] = d THEN 1 ELSE 0)
             /\ Cardinality(Of(lent \cup {b}, d)) = Cardinality(Of(lent, d))
                                                      + (IF b[1] = d THEN 1 ELSE 0)
             /\ Cardinality(Of(lost \cup {b}, d)) = Cardinality(Of(lost, d))
                                                      + (IF b[1] = d THEN 1 ELSE 0)
  <2>1. /\ Balanced(d) /\ Pending \subseteq Blocks /\ left[d] \in Nat
        /\ Cardinality(Of(lent, d)) \in Nat /\ Cardinality(Of(lost, d)) \in Nat
    BY NothingOut
  <2>2. Pending = Pending' \cup {b} /\ b \notin Pending' /\ Pending' \subseteq Blocks
    BY <1>1, <1>2, <2>1
  <2>3. Cardinality(Of(Pending, d)) = Cardinality(Of(Pending', d)) + (IF b[1] = d THEN 1 ELSE 0)
    <3> DEFINE P == Pending'
    <3>1. Pending = P \cup {b} /\ b \notin P /\ P \subseteq Blocks
      BY <2>2
    <3> HIDE DEF P
    <3>2. Cardinality(Of(P \cup {b}, d)) = Cardinality(Of(P, d)) + (IF b[1] = d THEN 1 ELSE 0)
      BY <1>1, <3>1, OfMore
    <3> QED BY <3>1, <3>2 DEF P
  <2>4. Cardinality(Of(Pending', d)) \in Nat
    BY <2>2, OfFinite
  <2>5. lent \subseteq Blocks /\ lost \subseteq Blocks
    BY DEF TlsTypeOK
  <2> QED BY <1>1, <2>1, <2>3, <2>4, <2>5, OfMore
<1>4. CASE TakeChunk(t) /\ lent' = lent \cup {b} /\ UNCHANGED lost
  <2>1. PICK c \in chunkPool :
          /\ chunkPool' = chunkPool \ {c} /\ tls' = [tls EXCEPT ![t] = c]
          /\ left' = [left EXCEPT ![c] = ChunkSize] /\ owed' = [owed EXCEPT ![c] = ChunkSize]
    BY <1>4 DEF TakeChunk
  <2>2. c \in Chunk /\ c # tls[t]
    BY <1>1, <2>1 DEF TlsTypeOK
  <2>3. TlsTypeOK'
    <3>1. ChunkSize \in 0 .. ChunkSize /\ ChunkSize \in Int
      OBVIOUS
    <3>2. left' \in [Chunk -> 0 .. ChunkSize] /\ owed' \in [Chunk -> Int]
      BY <2>1, <3>1 DEF TlsTypeOK
    <3>3. /\ chunkPool' \subseteq Chunk /\ tls' \in [TlsThread -> Chunk \cup {"none"}]
          /\ tlsStep' \in [TlsThread -> {"idle", "take", "next", "return"}]
          /\ taken' \in [TlsThread -> Blocks \cup {<<>>}]
      BY <1>1, <2>1, <2>2 DEF TlsTypeOK
    <3>4. lent' \subseteq Blocks /\ lost' \subseteq Blocks
      BY <1>1, <1>4 DEF TlsTypeOK
    <3> QED BY <3>2, <3>3, <3>4 DEF TlsTypeOK
  <2>4. Holder'
    BY <1>1, <1>2, <2>1, <2>2 DEF TlsTypeOK, Holder
  <2>5. TakenFromEnd'
    <3>1. \A d \in lent' \cup lost' : d[1] # c /\ d[1] \in Chunk /\ d[1] \notin chunkPool /\ d[2] >= left[d[1]]
      BY <1>1, <1>b, <1>4, <2>1, <2>2 DEF TakenFromEnd, TlsTypeOK, Blocks
    <3>2. \A d \in lent' \cup lost' : d[1] \notin chunkPool' /\ d[2] >= left'[d[1]]
      BY <2>1, <3>1 DEF TlsTypeOK
    <3>3. lent' \cap lost' = {}
      BY <1>1, <1>4 DEF TakenFromEnd
    <3>4. \A u \in TlsThread : tlsStep'[u] = "next" => taken'[u] \notin lent' \cup lost'
      BY <1>2, <1>4 DEF TakenFromEnd
    <3> QED BY <3>2, <3>3, <3>4 DEF TakenFromEnd
  <2>6. Returning'
    <3>1. \A d \in Blocks : d[1] \in Chunk
      BY DEF Blocks
    <3>2. \A u \in TlsThread : tlsStep'[u] = "return" => tlsStep[u] = "return" /\ taken'[u] = taken[u]
      BY <1>1 DEF TlsTypeOK
    <3> QED BY <2>1, <2>2, <3>1, <3>2 DEF TlsTypeOK, Returning
  <2>7. Balance'
    <3>2. ASSUME NEW d \in Chunk \ chunkPool' PROVE Balanced(d)'
      <4>1. CASE d = c
        <5>1. Of(lent', c) = {} /\ Of(lost', c) = {}
          BY <1>4, <1>b, <2>1, <2>2 DEF TakenFromEnd, Of
        <5>2. Of(Pending', c) = {}
          BY <1>2, <2>1, <2>2 DEF Pending, Holder, Of
        <5> QED BY <2>1, <2>2, <4>1, <5>1, <5>2, FS_EmptySet DEF Balanced, TlsTypeOK
      <4>2. CASE d # c
        <5>1. d \in Chunk \ chunkPool /\ left'[d] = left[d] /\ owed'[d] = owed[d]
          BY <2>1, <4>2 DEF TlsTypeOK
        <5>2. /\ Balanced(d) /\ left[d] \in Nat /\ Cardinality(Of(Pending', d)) \in Nat
              /\ Cardinality(Of(lent, d)) \in Nat /\ Cardinality(Of(lost, d)) \in Nat
              /\ Cardinality(Of(Pending, d)) = Cardinality(Of(Pending', d))
                                                 + (IF b[1] = d THEN 1 ELSE 0)
              /\ Cardinality(Of(lent', d)) = Cardinality(Of(lent, d))
                                               + (IF b[1] = d THEN 1 ELSE 0)
          BY <1>3, <1>4, <5>1
        <5>3. Cardinality(Of(lost', d)) = Cardinality(Of(lost, d))
          BY <1>4
        <5> QED BY <5>1, <5>2, <5>3 DEF Balanced
      <4> QED BY <4>1, <4>2
    <3> QED BY <3>2 DEF Balance
  <2> QED BY <2>3, <2>4, <2>5, <2>6, <2>7
<1>5. CASE /\ tls' = [tls EXCEPT ![t] = "none"] /\ lost' = lost \cup {b}
           /\ UNCHANGED <<chunkPool, left, owed, lent>>
  <2>3. TlsTypeOK'
    BY <1>1, <1>5 DEF TlsTypeOK
  <2>4. Holder'
    BY <1>1, <1>2, <1>5 DEF TlsTypeOK, Holder
  <2>5. TakenFromEnd'
    <3>1. \A u \in TlsThread : tlsStep'[u] = "next" => taken'[u] \notin lent' \cup lost'
      BY <1>2, <1>5 DEF TakenFromEnd
    <3> QED BY <1>1, <1>b, <1>5, <3>1 DEF TakenFromEnd
  <2>6. Returning'
    <3>2. \A u \in TlsThread : tlsStep'[u] = "return" => tlsStep[u] = "return" /\ taken'[u] = taken[u]
      BY <1>1 DEF TlsTypeOK
    <3> QED BY <1>5, <3>2 DEF Returning
  <2>7. Balance'
    BY <1>3, <1>5 DEF Balance, Balanced
  <2> QED BY <2>3, <2>4, <2>5, <2>6, <2>7
<1> QED BY <1>4, <1>5 DEF NextChunk, b

LEMMA GiveBackInv ==
  ASSUME TlsInv, NEW t \in TlsThread, NEW b \in lent, GiveBack(t, b)
  PROVE  TlsInv'
<1> USE ChunkAssumption DEF TlsInv
<1>1. /\ b \in Blocks /\ b[1] \in Chunk /\ b[1] \notin chunkPool
      /\ lent' = lent \ {b} /\ owed' = [owed EXCEPT ![b[1]] = @ - 1]
      /\ tlsStep[t] = "idle" /\ UNCHANGED <<chunkPool, tls, left, lost>>
      /\ owed[b[1]] = 1 => tlsStep' = [tlsStep EXCEPT ![t] = "return"]
                           /\ taken' = [taken EXCEPT ![t] = b]
      /\ owed[b[1]] # 1 => tlsStep' = [tlsStep EXCEPT ![t] = "idle"]
                           /\ taken' = [taken EXCEPT ![t] = <<>>]
  BY DEF GiveBack, Move, TlsTypeOK, TakenFromEnd, Blocks
<1>2. owed[b[1]] # 0
  <2>1. b \in Of(lent, b[1])
    BY DEF Of
  <2> QED BY <1>1, <2>1, NothingOut
<1>3. \A u \in TlsThread : u # t => tlsStep'[u] = tlsStep[u] /\ taken'[u] = taken[u]
  BY <1>1 DEF TlsTypeOK
<1>4. tlsStep'[t] \in {"idle", "return"}
  BY <1>1 DEF TlsTypeOK
<1>5. TlsTypeOK'
  <2>1. owed[b[1]] - 1 \in Int
    BY <1>1 DEF TlsTypeOK
  <2>2. owed' \in [Chunk -> Int]
    BY <1>1, <2>1 DEF TlsTypeOK
  <2>3. /\ tlsStep' \in [TlsThread -> {"idle", "take", "next", "return"}]
        /\ taken' \in [TlsThread -> Blocks \cup {<<>>}] /\ lent' \subseteq Blocks
    BY <1>1 DEF TlsTypeOK
  <2> QED BY <1>1, <2>2, <2>3 DEF TlsTypeOK
<1>6. Holder'
  BY <1>1, <1>3, <1>4 DEF Holder
<1>7. TakenFromEnd'
  BY <1>1, <1>3, <1>4 DEF TakenFromEnd
<1>8. Returning'
  <2>1. ASSUME NEW u \in TlsThread, u # t, tlsStep'[u] = "return"
        PROVE  /\ taken'[u] = taken[u] /\ taken[u] \in Blocks /\ taken[u][1] \notin chunkPool
               /\ taken[u][1] # b[1] /\ owed'[taken[u][1]] = 0 /\ tlsStep[u] = "return"
    <3>1. tlsStep[u] = "return" /\ taken[u] \in Blocks /\ owed[taken[u][1]] = 0
          /\ taken[u][1] \notin chunkPool /\ taken'[u] = taken[u]
      BY <1>3, <2>1 DEF Returning
    <3>2. taken[u][1] \in Chunk
      BY <3>1 DEF Blocks
    <3> QED BY <1>1, <1>2, <3>1, <3>2 DEF TlsTypeOK
  <2>2. ASSUME tlsStep'[t] = "return" PROVE taken'[t] = b /\ owed'[b[1]] = 0
    BY <1>1, <2>2 DEF TlsTypeOK
  <2> QED BY <1>1, <2>1, <2>2 DEF Returning
<1>9. Balance'
  <2> SUFFICES ASSUME NEW d \in Chunk \ chunkPool PROVE Balanced(d)'
    BY <1>1 DEF Balance
  <2>1. Balanced(d) /\ Cardinality(Of(lent', d)) \in Nat /\ left[d] \in Nat
        /\ Cardinality(Of(lost, d)) \in Nat /\ Cardinality(Of(Pending, d)) \in Nat
    <3>1. lent' \subseteq Blocks
      BY <1>1 DEF TlsTypeOK
    <3> QED BY <3>1, NothingOut, OfFinite
  <2>2. Cardinality(Of(lent, d)) = Cardinality(Of(lent', d)) + (IF b[1] = d THEN 1 ELSE 0)
    <3> DEFINE P == lent'
    <3>1. lent = P \cup {b} /\ b \notin P /\ P \subseteq Blocks
      BY <1>1 DEF TlsTypeOK
    <3> HIDE DEF P
    <3>2. Cardinality(Of(P \cup {b}, d)) = Cardinality(Of(P, d)) + (IF b[1] = d THEN 1 ELSE 0)
      BY <1>1, <3>1, OfMore
    <3> QED BY <3>1, <3>2 DEF P
  <2>3. Pending' = Pending
    BY <1>1, <1>3, <1>4 DEF Pending
  <2>4. owed'[d] = IF b[1] = d THEN owed[d] - 1 ELSE owed[d]
    BY <1>1 DEF TlsTypeOK
  <2>5. owed[d] \in Int /\ left' = left /\ lost' = lost
    BY <1>1 DEF TlsTypeOK
  <2> QED BY <2>1, <2>2, <2>3, <2>4, <2>5 DEF Balanced
<1> QED BY <1>5, <1>6, <1>7, <1>8, <1>9

LEMMA ReturnChunkInv ==
  ASSUME TlsInv, NEW t \in TlsThread, ReturnChunk(t)
  PROVE  TlsInv'
<1> USE ChunkAssumption DEF TlsInv
<1> DEFINE c == taken[t][1]
<1>1. /\ tlsStep[t] = "return" /\ tlsStep' = [tlsStep EXCEPT ![t] = "idle"]
      /\ taken' = [taken EXCEPT ![t] = <<>>] /\ chunkPool' = chunkPool \cup {c}
      /\ UNCHANGED <<tls, left, owed, lent, lost>>
      /\ c \in Chunk /\ c \notin chunkPool /\ owed[c] = 0
  BY DEF ReturnChunk, Move, Returning, Blocks
<1>2. \A u \in TlsThread : tlsStep'[u] # "idle" =>
        u # t /\ tlsStep'[u] = tlsStep[u] /\ taken'[u] = taken[u]
  BY <1>1 DEF TlsTypeOK
<1>3. left[c] = 0 /\ Of(lent, c) = {} /\ Of(lost, c) = {} /\ Of(Pending, c) = {}
  BY <1>1, NothingOut
<1>4. \A u \in TlsThread : tls[u] # c
  <2> SUFFICES ASSUME NEW u \in TlsThread, tls[u] = c PROVE FALSE
    OBVIOUS
  <2>1. c # "none"
    BY <1>1
  <2>2. tlsStep[u] = "next" /\ taken[u] = <<c, 0>>
    BY <1>3, <2>1 DEF Holder
  <2>3. taken[u] \in Of(Pending, c)
    BY <2>2 DEF Pending, Of
  <2> QED BY <1>3, <2>3
<1>5. TlsTypeOK'
  BY <1>1 DEF TlsTypeOK
<1>6. Holder'
  <2>1. \A u \in TlsThread : tlsStep'[u] = tlsStep[u] \/ (u = t /\ tlsStep'[u] = "idle")
    BY <1>1 DEF TlsTypeOK
  <2> HIDE DEF c
  <2> QED BY <1>1, <1>2, <1>4, <2>1 DEF Holder
<1>7. TakenFromEnd'
  <2>1. \A b \in lent \cup lost : b[1] # c
    BY <1>3 DEF Of
  <2> QED BY <1>1, <1>2, <2>1 DEF TakenFromEnd
<1>8. Returning'
  BY <1>1, <1>2 DEF Returning
<1>9. Balance'
  <2>1. Pending' = Pending
    BY <1>1, <1>2 DEF Pending, TlsTypeOK
  <2> QED BY <1>1, <2>1 DEF Balance, Balanced
<1> QED BY <1>5, <1>6, <1>7, <1>8, <1>9

(* A chunk is back in the pool only when nobody has one of its blocks or will *)
(* take one, and otherwise waits for exactly those that are out               *)
(* (LockFreeTlsPoolA.h:110-180).                                              *)
THEOREM ChunksAlwaysAccounted == TlsSpec => []ChunksAccounted
<1>1. TlsInit => TlsInv
  <2> SUFFICES ASSUME TlsInit PROVE TlsInv
    OBVIOUS
  <2>1. TlsTypeOK
    BY ChunkAssumption DEF TlsInit, TlsTypeOK
  <2> QED BY <2>1 DEF TlsInit, TlsInv, Holder, TakenFromEnd, Returning, Balance
<1>2. TlsInv /\ [TlsNext]_tlsVars => TlsInv'
  <2> SUFFICES ASSUME TlsInv, [TlsNext]_tlsVars PROVE TlsInv'
    OBVIOUS
  <2>1. CASE UNCHANGED tlsVars
    BY <2>1 DEF tlsVars, TlsInv, TlsTypeOK, Holder, TakenFromEnd, Returning, Balance, Balanced,
                Pending
  <2> QED BY <2>1, FirstChunkInv, TakeBlockInv, NextChunkInv, GiveBackInv, ReturnChunkInv
          DEF TlsNext
<1>3. TlsInv => ChunksAccounted
  <2> SUFFICES ASSUME TlsInv, NEW c \in Chunk
      PROVE  /\ c \in chunkPool => /\ Of(lent \cup lost \cup Pending, c) = {}
                                   /\ \A t \in TlsThread : tls[t] # c
             /\ c \notin chunkPool => Balanced(c)
             /\ \A t, u \in TlsThread : tls[t] = c /\ tls[u] = c => t = u
    BY DEF ChunksAccounted, Balanced
  <2>1. c # "none"
    BY ChunkAssumption
  <2>2. ASSUME c \in chunkPool PROVE Of(lent \cup lost \cup Pending, c) = {}
    BY <2>1, <2>2 DEF TlsInv, TakenFromEnd, Holder, Pending, Of
  <2> QED BY <2>1, <2>2 DEF TlsInv, Holder, Balance
<1> QED BY <1>1, <1>2, <1>3, PTL DEF TlsSpec

-----------------------------------------------------------------------------
(* The log of allocations (MemoryAllocMgr.cpp).                               *)
MemTypeOK == /\ DOMAIN table \subseteq Slots
             /\ heap \subseteq Address /\ unlogged \subseteq heap
             /\ \A p \in stored : p.address \in Address

(* The entries of the table and the logged allocations, one to one.           *)
OneEntry ==
  /\ \A i \in DOMAIN table : table[i].address \in heap \ unlogged
  /\ \A i, j \in DOMAIN table : table[i].address = table[j].address => i = j
  /\ \A a \in heap \ unlogged : \E i \in DOMAIN table : table[i].address = a

MemInv == MemTypeOK /\ OneEntry /\ ~wrongFree

(* A set of naturals has a least member.                                      *)
LEMMA Least ==
  ASSUME NEW S \in SUBSET Nat, S # {}
  PROVE  \E i \in S : \A j \in S : i <= j
<1>1. PICK i \in S : \A j \in S : ~(<<j, i>> \in OpToRel(<, Nat))
  BY NatLessThanWellFounded, WFMin
<1> SUFFICES ASSUME NEW j \in S PROVE i <= j
  OBVIOUS
<1>2. <<j, i>> \in Nat \X Nat
  OBVIOUS
<1>3. ~(j < i)
  BY <1>1, <1>2 DEF OpToRel
<1> QED BY <1>3

LEMMA LeastIn ==
  ASSUME NEW S \in SUBSET Nat, S # {}
  PROVE  FirstIn(S) \in S
BY Least DEF FirstIn

LEMMA NewInv ==
  ASSUME MemInv, NEW a \in Address, NEW array, NEW cookie, New(a, array, cookie)
  PROVE  MemInv'
<1> USE DEF MemInv
<1>1. a \notin heap /\ heap' = heap \cup {a} /\ wrongFree' = wrongFree
  BY DEF New
<1>2. CASE Unused = {}
  BY <1>1, <1>2 DEF New, MemTypeOK, OneEntry
<1>3. CASE Unused # {}
  <2> DEFINE k == FirstIn(Unused)
             e == [address |-> a, array |-> array]
  <2>1. k \in Slots /\ k \notin DOMAIN table
    <3>1. Unused \in SUBSET Nat
      BY MaxAllocAssumption DEF Unused, Slots
    <3>2. k \in Unused
      BY <1>3, <3>1, LeastIn
    <3> QED BY <3>2 DEF Unused
  <2> HIDE DEF k
  <2>2. table' = [i \in DOMAIN table \cup {k} |-> IF i \in DOMAIN table THEN table[i] ELSE e]
    BY <1>3 DEF New, k
  <2>3. /\ unlogged' = unlogged
        /\ stored' = stored \cup {[address |-> a, array |-> array, cookie |-> cookie]}
    BY <1>3 DEF New
  <2>4. e.address = a
    OBVIOUS
  <2> HIDE DEF e
  <2>5. /\ DOMAIN table' = DOMAIN table \cup {k} /\ table'[k].address = a
        /\ \A i \in DOMAIN table : i # k /\ table'[i] = table[i]
    BY <2>1, <2>2, <2>4
  <2>6. MemTypeOK'
    BY <1>1, <2>1, <2>3, <2>5 DEF MemTypeOK, Slots
  <2>7. OneEntry'
    BY <1>1, <2>3, <2>5 DEF OneEntry, MemTypeOK
  <2> QED BY <1>1, <2>6, <2>7
<1> QED BY <1>2, <1>3

LEMMA DeleteInv ==
  ASSUME MemInv, NEW p \in stored, NEW array, Delete(p, array)
  PROVE  MemInv'
<1> USE DEF MemInv
<1> DEFINE a == p.address
           k == FirstIn(Entries(a))
<1>1. UNCHANGED <<stored, unlogged>>
  BY DEF Delete
<1>2. CASE UNCHANGED <<table, heap, wrongFree>>
  BY <1>1, <1>2 DEF MemTypeOK, OneEntry
<1>3. CASE Entries(a) # {} /\ Freed(a)
  <2>1. k \in DOMAIN table /\ table[k].address = a
    <3>1. Entries(a) \in SUBSET Nat
      BY MaxAllocAssumption DEF Entries, MemTypeOK, Slots
    <3>2. k \in Entries(a)
      BY <1>3, <3>1, LeastIn
    <3> QED BY <3>2 DEF Entries
  <2>2. a \in heap \ unlogged
    BY <2>1 DEF OneEntry
  <2>3. /\ heap' = heap \ {a} /\ ~wrongFree'
        /\ table' = [i \in DOMAIN table \ {k} |-> table[i]]
    <3>1. heap' = heap \ {a} /\ table' = Restrict(table, DOMAIN table \ {k})
      BY <1>3 DEF Freed
    <3>2. wrongFree' = (wrongFree \/ a \notin heap)
      BY <1>3 DEF Freed
    <3>3. ~wrongFree'
      BY <2>2, <3>2
    <3> QED BY <3>1, <3>3 DEF Restrict
  <2> HIDE DEF k, a
  <2>4. /\ DOMAIN table' = DOMAIN table \ {k}
        /\ \A i \in DOMAIN table' : table'[i] = table[i] /\ table[i].address # a
    BY <2>1, <2>3 DEF OneEntry
  <2>5. MemTypeOK'
    BY <1>1, <2>2, <2>3, <2>4 DEF MemTypeOK, Slots
  <2>6. OneEntry'
    BY <1>1, <2>1, <2>2, <2>3, <2>4 DEF OneEntry
  <2> QED BY <2>3, <2>5, <2>6
<1> QED BY <1>2, <1>3 DEF Delete

(* free gets only addresses malloc returned, and the table has exactly one    *)
(* entry for each logged allocation that is still there                       *)
(* (MemoryAllocMgr.cpp:77-162, 260-290).                                      *)
THEOREM LogAlwaysTrue == MemSpec => []LogTrue
<1>1. MemInit => MemInv
  BY DEF MemInit, MemInv, MemTypeOK, OneEntry
<1>2. MemInv /\ [MemNext]_memVars => MemInv'
  <2> SUFFICES ASSUME MemInv, [MemNext]_memVars PROVE MemInv'
    OBVIOUS
  <2>1. CASE UNCHANGED memVars
    BY <2>1 DEF memVars, MemInv, MemTypeOK, OneEntry
  <2>2. CASE \E a \in Address : \E cookie \in BOOLEAN : New(a, TRUE, cookie)
    BY <2>2, NewInv
  <2>3. CASE \E a \in Address : New(a, FALSE, FALSE)
    BY <2>3, NewInv
  <2>4. CASE \E p \in stored, array \in BOOLEAN : Delete(p, array)
    BY <2>4, DeleteInv
  <2> QED BY <2>1, <2>2, <2>3, <2>4 DEF MemNext
<1>3. MemInv => LogTrue
  <2> SUFFICES ASSUME MemInv, NEW a \in Address
      PROVE  Cardinality(Entries(a)) = IF a \in heap \ unlogged THEN 1 ELSE 0
    BY DEF LogTrue, MemInv
  <2>1. CASE a \in heap \ unlogged
    <3>1. PICK i \in DOMAIN table : table[i].address = a
      BY <2>1 DEF MemInv, OneEntry
    <3>2. Entries(a) = {i}
      BY <3>1 DEF MemInv, OneEntry, Entries
    <3> QED BY <2>1, <3>2, FS_Singleton
  <2>2. CASE a \notin heap \ unlogged
    <3>1. Entries(a) = {}
      BY <2>2 DEF MemInv, OneEntry, Entries
    <3> QED BY <2>2, <3>1, FS_EmptySet
  <2> QED BY <2>1, <2>2
<1> QED BY <1>1, <1>2, <1>3, PTL DEF MemSpec
-----------------------------------------------------------------------------
(* The profiler.  A record and what it is a record of.                        *)
Info == [started : BOOLEAN, isReset : BOOLEAN, total : Nat, min : Nat \X Nat,
         max : Nat \X Nat, calls : Nat]

Sums(f, s) == /\ f \in [0 .. Len(s) -> Nat] /\ f[0] = 0
              /\ \A i \in 1 .. Len(s) : f[i] = f[i - 1] + s[i]

Kept(r, s) == /\ r.calls = Len(s) /\ \E f : Sums(f, s) /\ r.total = f[Len(s)]
              /\ Extremes(r.max, s, 1)
              /\ ~Contains(s, 0) => Extremes(r.min, s, -1)

(* Unless the program has ended, the sections that run are those that are     *)
(* open and were not reset.                                                   *)
Runs(o, r) ==
  /\ \A i, j \in DOMAIN o : o[i] = o[j] => i = j
  /\ \A i \in DOMAIN o : o[i] \in DOMAIN r
  /\ \A g \in DOMAIN r :
       /\ r[g].started => \E i \in DOMAIN o : o[i] = g
       /\ \A i \in DOMAIN o : o[i] = g => r[g].started = ~r[g].isReset

Running == \A t \in ProfThread : Runs(open[t], record[t])

Truthful == \A t \in ProfThread :
  /\ \A g \in Known(t) : Kept(record[t][g], times[t][g])
  /\ \A g \in Tag \ Known(t) : times[t][g] = <<>>

ProfTypeOK ==
  /\ DOMAIN record = ProfThread
  /\ \A t \in ProfThread : record[t] \in [Known(t) -> Info] /\ Known(t) \subseteq Tag
  /\ open \in [ProfThread -> Seq(Tag)]
  /\ times \in [ProfThread -> [Tag -> Seq(Nat)]]
  /\ profCrashed \in BOOLEAN

ProfInv == /\ ProfTypeOK /\ Truthful
           /\ profCrashed \/ Running
           /\ profCrashed => OutOfRoom

(* Sums of a sequence are those its total is defined by.                      *)
LEMMA TotalIs ==
  ASSUME NEW s \in Seq(Nat), NEW f, Sums(f, s)
  PROVE  Total(s) = f[Len(s)]
<1> DEFINE n == Len(s)
           Solves(h) == h = [i \in 0 .. n |-> IF i = 0 THEN 0 ELSE h[i - 1] + s[i]]
<1>1. n \in Nat
  BY LenProperties
<1>2. f \in [0 .. n -> Nat] /\ f[0] = 0 /\ \A i \in 1 .. n : f[i] = f[i - 1] + s[i]
  BY DEF Sums
<1> HIDE DEF n
<1>3. Solves(f)
  <2> DEFINE g == [i \in 0 .. n |-> IF i = 0 THEN 0 ELSE f[i - 1] + s[i]]
  <2>1. ASSUME NEW i \in 0 .. n PROVE f[i] = g[i]
    <3>1. CASE i = 0
      BY <1>1, <1>2, <3>1
    <3>2. CASE i # 0
      <4>1. i \in 1 .. n
        BY <1>1, <3>2
      <4> QED BY <1>2, <3>2, <4>1
    <3> QED BY <3>1, <3>2
  <2> QED BY <1>2, <2>1
<1> DEFINE u == CHOOSE h : Solves(h)
<1>4. Solves(u)
  <2> HIDE DEF Solves
  <2> QED BY <1>3
<1>5. Total(s) = u[n]
  BY DEF Total, n
<1> HIDE DEF u
<1>6. u[0] = 0 /\ \A i \in 1 .. n : u[i] = u[i - 1] + s[i]
  <2>1. u = [i \in 0 .. n |-> IF i = 0 THEN 0 ELSE u[i - 1] + s[i]]
    BY <1>4
  <2>2. 0 \in 0 .. n /\ \A i \in 1 .. n : i \in 0 .. n /\ i # 0
    BY <1>1
  <2> QED BY <2>1, <2>2
<1> DEFINE Wrong == {i \in 0 .. n : u[i] # f[i]}
<1>7. Wrong = {}
  <2> SUFFICES ASSUME Wrong # {} PROVE FALSE
    OBVIOUS
  <2>1. PICK i \in Wrong : \A j \in Wrong : i <= j
    <3>1. Wrong \in SUBSET Nat
      BY <1>1
    <3> HIDE DEF Wrong
    <3> QED BY <3>1, Least
  <2>2. i \in 1 .. n
    BY <1>1, <1>2, <1>6
  <2>3. i - 1 \in 0 .. n /\ ~(i <= i - 1)
    BY <1>1, <2>2
  <2>4. u[i - 1] = f[i - 1]
    BY <2>1, <2>3
  <2> QED BY <1>2, <1>6, <2>2, <2>4
<1> QED BY <1>1, <1>5, <1>7 DEF n

(* One more time is measured. *)
LEMMA OneMore ==
  ASSUME NEW s \in Seq(Nat), NEW e \in Nat
  PROVE  /\ Append(s, e) \in Seq(Nat) /\ Len(Append(s, e)) = Len(s) + 1 /\ Len(s) \in Nat
         /\ \A i \in 1 .. Len(s) : Append(s, e)[i] = s[i] /\ s[i] \in Nat
         /\ Append(s, e)[Len(s) + 1] = e
         /\ s = <<>> <=> Len(s) = 0
BY AppendProperties, LenProperties, EmptySeq

LEMMA Appended ==
  ASSUME NEW s \in Seq(Nat), NEW e \in Nat
  PROVE  /\ Len(s) \in Nat /\ Len(Append(s, e)) = Len(s) + 1 /\ Append(s, e)[Len(s) + 1] = e
         /\ DOMAIN Append(s, e) = 1 .. Len(s) + 1 /\ Append(s, e) # <<>>
         /\ \A i \in 1 .. Len(s) : Append(s, e)[i] = s[i] /\ s[i] \in Nat
         /\ DOMAIN s = 1 .. Len(s) /\ (s = <<>> <=> Len(s) = 0)
<1>1. Append(s, e) \in Seq(Nat) /\ Append(s, e) # <<>>
  BY AppendProperties
<1>2. DOMAIN Append(s, e) = 1 .. Len(Append(s, e)) /\ DOMAIN s = 1 .. Len(s)
  BY <1>1, LenProperties
<1> QED BY OneMore, <1>1, <1>2

LEMMA SumsGrow ==
  ASSUME NEW s \in Seq(Nat), NEW e \in Nat, NEW f, Sums(f, s)
  PROVE  \E h : Sums(h, Append(s, e)) /\ h[Len(s) + 1] = f[Len(s)] + e
<1> DEFINE p == Append(s, e)
           n == Len(s)
           h == [i \in 0 .. n + 1 |-> IF i = n + 1 THEN f[n] + e ELSE f[i]]
<1>1. /\ n \in Nat /\ Len(p) = n + 1 /\ p[n + 1] = e /\ \A i \in 1 .. n : p[i] = s[i]
  BY OneMore
<1>2. f \in [0 .. n -> Nat] /\ f[0] = 0 /\ \A i \in 1 .. n : f[i] = f[i - 1] + s[i]
  BY DEF Sums
<1> HIDE DEF n, p
<1>3. h \in [0 .. n + 1 -> Nat] /\ h[0] = 0 /\ h[n + 1] = f[n] + e /\ h[n] = f[n]
  BY <1>1, <1>2
<1>4. ASSUME NEW i \in 1 .. n + 1 PROVE h[i] = h[i - 1] + p[i]
  <2>1. CASE i = n + 1
    BY <1>1, <1>3, <2>1
  <2>2. CASE i # n + 1
    <3>1. i \in 1 .. n /\ i - 1 \in 0 .. n /\ i - 1 # n + 1
      BY <1>1, <2>2
    <3>2. h[i] = f[i] /\ h[i - 1] = f[i - 1]
      BY <1>1, <2>2, <3>1
    <3> QED BY <1>1, <1>2, <3>1, <3>2
  <2> QED BY <2>1, <2>2
<1> HIDE DEF h
<1>5. Sums(h, p)
  BY <1>1, <1>3, <1>4 DEF Sums
<1> QED BY <1>3, <1>5 DEF n, p

(* What two extremes become with one more time e.                             *)
LEMMA Grown ==
  ASSUME NEW s \in Seq(Nat), NEW e \in Nat, NEW m \in Nat \X Nat, NEW d \in {1, -1},
         NEW w \in Nat \X Nat, Extremes(m, s, d),
         s = <<>> => w = <<e, 0>>,
         s # <<>> /\ ~(d * e <= d * m[1]) => w = <<e, m[1]>>,
         s # <<>> /\ d * e <= d * m[1] /\ (Len(s) = 1 \/ ~(d * e <= d * m[2])) => w = <<m[1], e>>,
         s # <<>> /\ d * e <= d * m[1] /\ Len(s) # 1 /\ d * e <= d * m[2] => w = m
  PROVE  Extremes(w, Append(s, e), d)
<1> DEFINE p == Append(s, e)
           n == Len(s)
           Leq(a, b) == d * a <= d * b
<1>1. /\ n \in Nat /\ Len(p) = n + 1 /\ p[n + 1] = e /\ DOMAIN p = 1 .. n + 1 /\ p # <<>>
      /\ \A i \in 1 .. n : p[i] = s[i] /\ s[i] \in Nat
      /\ DOMAIN s = 1 .. n /\ (s = <<>> <=> n = 0)
  BY Appended
<1>2. /\ \A a \in Nat : Leq(a, a)
      /\ \A a, b \in Nat : Leq(a, b) \/ Leq(b, a)
      /\ \A a, b, c \in Nat : Leq(a, b) /\ Leq(b, c) => Leq(a, c)
  <2>1. CASE d = 1
    BY <2>1
  <2>2. CASE d = -1
    BY <2>2
  <2> QED BY <2>1, <2>2
<1>3. /\ s = <<>> => w = <<e, 0>>
      /\ s # <<>> /\ ~Leq(e, m[1]) => w = <<e, m[1]>>
      /\ s # <<>> /\ Leq(e, m[1]) /\ (n = 1 \/ ~Leq(e, m[2])) => w = <<m[1], e>>
      /\ s # <<>> /\ Leq(e, m[1]) /\ n # 1 /\ Leq(e, m[2]) => w = m
  OBVIOUS
<1>4. ASSUME s # <<>>
      PROVE  \E i \in 1 .. n :
               /\ m[1] = s[i] /\ \A j \in 1 .. n : Leq(s[j], s[i])
               /\ IF n = 1 THEN m[2] = 0
                  ELSE \E k \in 1 .. n : k # i /\ m[2] = s[k]
                         /\ \A j \in 1 .. n : j # i => Leq(s[j], s[k])
  <2>1. PICK i \in 1 .. n :
           /\ m[1] = s[i] /\ \A j \in 1 .. n : d * s[j] <= d * s[i]
           /\ IF n = 1 THEN m[2] = 0
              ELSE \E k \in (1 .. n) \ {i} : m[2] = s[k] /\ \A j \in (1 .. n) \ {i} : d * s[j] <= d * s[k]
    BY <1>1, <1>4 DEF Extremes
  <2> QED BY <2>1
<1> SUFFICES \E i \in 1 .. n + 1 :
               /\ w[1] = p[i] /\ \A j \in 1 .. n + 1 : Leq(p[j], p[i])
               /\ IF n + 1 = 1 THEN w[2] = 0
                  ELSE \E k \in 1 .. n + 1 : k # i /\ w[2] = p[k]
                         /\ \A j \in 1 .. n + 1 : j # i => Leq(p[j], p[k])
  <2>1. Extremes(w, p, d) <=>
          \E i \in 1 .. n + 1 :
            /\ w[1] = p[i] /\ \A j \in 1 .. n + 1 : d * p[j] <= d * p[i]
            /\ IF n + 1 = 1 THEN w[2] = 0
               ELSE \E k \in (1 .. n + 1) \ {i} :
                      w[2] = p[k] /\ \A j \in (1 .. n + 1) \ {i} : d * p[j] <= d * p[k]
    <3> HIDE DEF p
    <3> QED BY <1>1 DEF Extremes
  <2> QED BY <2>1
<1> HIDE DEF p, n, Leq
<1>5. CASE n = 0
  <2>1. w = <<e, 0>> /\ p[1] = e /\ \A j \in 1 .. n + 1 : j = 1
    BY <1>1, <1>3, <1>5
  <2> QED BY <1>2, <1>5, <2>1
<1>6. CASE n # 0
  <2>0. s # <<>> /\ n + 1 # 1 /\ n + 1 \in 1 .. n + 1
    BY <1>1, <1>6
  <2>1. PICK i \in 1 .. n :
               /\ m[1] = s[i] /\ \A j \in 1 .. n : Leq(s[j], s[i])
               /\ IF n = 1 THEN m[2] = 0
                  ELSE \E k \in 1 .. n : k # i /\ m[2] = s[k]
                         /\ \A j \in 1 .. n : j # i => Leq(s[j], s[k])
    BY <1>4, <2>0
  <2>2. /\ i \in 1 .. n + 1 /\ i # n + 1 /\ p[i] = s[i] /\ s[i] \in Nat
        /\ \A j \in 1 .. n + 1 : j = n + 1 \/ (j \in 1 .. n /\ p[j] = s[j] /\ s[j] \in Nat)
    BY <1>1
  <2>3. CASE ~Leq(e, m[1])
    <3>1. w = <<e, m[1]>> /\ w[1] = p[n + 1] /\ w[2] = p[i]
      BY <1>1, <1>3, <2>0, <2>1, <2>2, <2>3
    <3>2. \A j \in 1 .. n : Leq(s[j], e)
      BY <1>1, <1>2, <2>1, <2>2, <2>3
    <3>3. \A j \in 1 .. n + 1 : Leq(p[j], p[n + 1])
      BY <1>1, <1>2, <2>2, <3>2
    <3>4. \A j \in 1 .. n + 1 : j # n + 1 => Leq(p[j], p[i])
      BY <2>1, <2>2
    <3> QED BY <2>0, <2>2, <3>1, <3>3, <3>4
  <2>4. CASE Leq(e, m[1])
    <3>1. \A j \in 1 .. n + 1 : Leq(p[j], p[i])
      BY <1>1, <2>1, <2>2, <2>4
    <3>2. CASE n = 1
      <4>1. w = <<m[1], e>> /\ w[1] = p[i] /\ w[2] = p[n + 1]
        BY <1>1, <1>3, <2>0, <2>1, <2>2, <2>4, <3>2
      <4>2. \A j \in 1 .. n + 1 : j # i => j = n + 1
        BY <3>2, <2>2
      <4>3. \A j \in 1 .. n + 1 : j # i => Leq(p[j], p[n + 1])
        BY <1>1, <1>2, <4>2
      <4> QED BY <2>0, <2>2, <3>1, <4>1, <4>3
    <3>3. CASE n # 1
      <4>1. PICK k \in 1 .. n : k # i /\ m[2] = s[k] /\ \A j \in 1 .. n : j # i => Leq(s[j], s[k])
        BY <2>1, <3>3
      <4>2. k \in 1 .. n + 1 /\ k # n + 1 /\ p[k] = s[k] /\ s[k] \in Nat
        BY <1>1
      <4>3. CASE ~Leq(e, m[2])
        <5>1. w = <<m[1], e>> /\ w[1] = p[i] /\ w[2] = p[n + 1]
          BY <1>1, <1>3, <2>0, <2>1, <2>2, <2>4, <4>3
        <5>2. \A j \in 1 .. n : j # i => Leq(s[j], e)
          BY <1>1, <1>2, <4>1, <4>2, <4>3
        <5>3. \A j \in 1 .. n + 1 : j # i => Leq(p[j], p[n + 1])
          BY <1>1, <1>2, <2>2, <5>2
        <5> QED BY <2>0, <2>2, <3>1, <5>1, <5>3
      <4>4. CASE Leq(e, m[2])
        <5>1. w = m /\ w[1] = p[i] /\ w[2] = p[k]
          BY <1>3, <2>0, <2>1, <2>2, <2>4, <3>3, <4>1, <4>2, <4>4
        <5>2. \A j \in 1 .. n + 1 : j # i => Leq(p[j], p[k])
          BY <1>1, <2>2, <4>1, <4>2, <4>4
        <5> QED BY <2>0, <2>2, <3>1, <4>1, <4>2, <5>1, <5>2
      <4> QED BY <4>3, <4>4
    <3> QED BY <3>2, <3>3
  <2> QED BY <2>3, <2>4
<1> QED BY <1>5, <1>6

LEMMA LargerKeeps ==
  ASSUME NEW s \in Seq(Nat), NEW e \in Nat, NEW m \in Nat \X Nat, Extremes(m, s, 1)
  PROVE  Larger(m, e) \in Nat \X Nat /\ Extremes(Larger(m, e), Append(s, e), 1)
<1> DEFINE w == Larger(m, e)
<1>1. m = <<m[1], m[2]>> /\ m[1] \in Nat /\ m[2] \in Nat
  OBVIOUS
<1>2. w \in Nat \X Nat
  BY <1>1 DEF Larger
<1>3. s = <<>> => m = <<0, 0>>
  BY DEF Extremes
<1>4. s # <<>> /\ Len(s) = 1 => m[2] = 0
  BY DEF Extremes
<1>5. s = <<>> => w = <<e, 0>>
  BY <1>1, <1>3 DEF Larger
<1>6. ~(1 * e <= 1 * m[1]) => w = <<e, m[1]>>
  BY <1>1 DEF Larger
<1>7. s # <<>> /\ 1 * e <= 1 * m[1] /\ (Len(s) = 1 \/ ~(1 * e <= 1 * m[2])) => w = <<m[1], e>>
  BY <1>1, <1>4 DEF Larger
<1>8. 1 * e <= 1 * m[1] /\ Len(s) # 1 /\ 1 * e <= 1 * m[2] => w = m
  BY <1>1 DEF Larger
<1> HIDE DEF w
<1>9. Extremes(w, Append(s, e), 1)
  BY <1>2, <1>5, <1>6, <1>7, <1>8, Grown
<1> QED BY <1>2, <1>9 DEF w

LEMMA SmallerKeeps ==
  ASSUME NEW s \in Seq(Nat), NEW e \in Nat \ {0}, NEW m \in Nat \X Nat, Extremes(m, s, -1),
         \A i \in DOMAIN s : s[i] # 0
  PROVE  Extremes(Smaller(m, e), Append(s, e), -1)
<1> DEFINE w == Smaller(m, e)
<1>1. m = <<m[1], m[2]>> /\ m[1] \in Nat /\ m[2] \in Nat /\ e \in Nat /\ e # 0
  OBVIOUS
<1>2. w \in Nat \X Nat
  BY <1>1 DEF Smaller
<1>3. s = <<>> => m = <<0, 0>>
  BY DEF Extremes
<1>4. s # <<>> => m[1] # 0 /\ IF Len(s) = 1 THEN m[2] = 0 ELSE m[2] # 0
  BY DEF Extremes
<1>5. s = <<>> => w = <<e, 0>>
  BY <1>1, <1>3 DEF Smaller
<1>6. s # <<>> /\ ~(-1 * e <= -1 * m[1]) => w = <<e, m[1]>>
  BY <1>1 DEF Smaller
<1>7. s # <<>> /\ -1 * e <= -1 * m[1] /\ (Len(s) = 1 \/ ~(-1 * e <= -1 * m[2])) => w = <<m[1], e>>
  BY <1>1, <1>4 DEF Smaller
<1>8. s # <<>> /\ -1 * e <= -1 * m[1] /\ Len(s) # 1 /\ -1 * e <= -1 * m[2] => w = m
  BY <1>1, <1>4 DEF Smaller
<1> HIDE DEF w
<1>9. Extremes(w, Append(s, e), -1)
  BY <1>1, <1>2, <1>5, <1>6, <1>7, <1>8, Grown
<1> QED BY <1>9 DEF w

(* A measured section is added to what is kept.                               *)
LEMMA MeasuredKeeps ==
  ASSUME NEW r \in Info, NEW s \in Seq(Nat), NEW e \in Nat, Kept(r, s)
  PROVE  /\ Measured(r, e) \in Info /\ Kept(Measured(r, e), Append(s, e))
         /\ Measured(r, e).started = FALSE
<1> DEFINE q == Measured(r, e)
           p == Append(s, e)
<1>1. /\ r.total \in Nat /\ r.calls \in Nat /\ r.min \in Nat \X Nat /\ r.max \in Nat \X Nat
      /\ r.isReset \in BOOLEAN
  BY DEF Info
<1>2. Larger(r.max, e) \in Nat \X Nat /\ Extremes(Larger(r.max, e), p, 1)
  BY <1>1, LargerKeeps DEF Kept
<1>3. Smaller(r.min, e) \in Nat \X Nat
  <2>1. r.min[1] \in Nat /\ r.min[2] \in Nat
    BY <1>1
  <2> QED BY <1>1, <2>1 DEF Smaller
<1>4. /\ q \in Info /\ q.started = FALSE /\ q.isReset = r.isReset /\ q.total = r.total + e
      /\ q.calls = r.calls + 1 /\ q.max = Larger(r.max, e) /\ q.min = Smaller(r.min, e)
  <2>1. q = [r EXCEPT !.started = FALSE, !.total = r.total + e, !.calls = r.calls + 1,
                      !.max = Larger(r.max, e), !.min = Smaller(r.min, e)]
    BY DEF Measured
  <2>2. r.total + e \in Nat /\ r.calls + 1 \in Nat
    BY <1>1
  <2>3. PICK a \in Nat, b \in Nat : a = r.total + e /\ b = r.calls + 1
    BY <2>2
  <2>4. PICK c \in Nat \X Nat, d \in Nat \X Nat : c = Larger(r.max, e) /\ d = Smaller(r.min, e)
    BY <1>2, <1>3
  <2>5. q = [r EXCEPT !.started = FALSE, !.total = a, !.calls = b, !.max = c, !.min = d]
    BY <2>1, <2>3, <2>4, Zenon
  <2> HIDE DEF q
  <2>6. /\ q \in Info /\ q.started = FALSE /\ q.isReset = r.isReset /\ q.total = a
        /\ q.calls = b /\ q.max = c /\ q.min = d
    BY <2>5 DEF Info
  <2> QED BY <2>3, <2>4, <2>6
<1>6. q.calls = Len(p) /\ Len(p) = Len(s) + 1
  BY <1>4, OneMore DEF Kept
<1>7. \E f : Sums(f, p) /\ q.total = f[Len(p)]
  <2>1. PICK f : Sums(f, s) /\ r.total = f[Len(s)]
    BY DEF Kept
  <2>2. PICK h : Sums(h, p) /\ h[Len(s) + 1] = f[Len(s)] + e
    BY <2>1, SumsGrow
  <2> QED BY <1>4, <1>6, <2>1, <2>2
<1>8. ASSUME ~Contains(p, 0) PROVE Extremes(q.min, p, -1)
  <2>1. \A i \in 1 .. Len(s) + 1 : p[i] # 0
    <3> HIDE DEF p
    <3> QED BY <1>6, <1>8 DEF Contains
  <2>2. e # 0 /\ \A i \in 1 .. Len(s) : s[i] # 0
    BY <2>1, Appended
  <2>3. ~Contains(s, 0) /\ \A i \in DOMAIN s : s[i] # 0
    BY <2>2, Appended DEF Contains
  <2>4. Extremes(r.min, s, -1)
    BY <2>3 DEF Kept
  <2> QED BY <1>1, <1>4, <2>2, <2>3, <2>4, SmallerKeeps
<1> HIDE DEF q, p
<1>9. Kept(q, p)
  BY <1>2, <1>4, <1>6, <1>7, <1>8 DEF Kept
<1> QED BY <1>4, <1>9 DEF q, p

(* Nothing measured, nothing kept.                                            *)
LEMMA NothingKept ==
  ASSUME NEW r, r.calls = 0, r.total = 0, r.min = <<0, 0>>, r.max = <<0, 0>>
  PROVE  Kept(r, <<>>)
<1> DEFINE f == [i \in 0 .. 0 |-> 0]
<1>1. Sums(f, <<>>) /\ f[Len(<<>>)] = 0
  BY DEF Sums
<1> HIDE DEF f
<1>2. \E h : Sums(h, <<>>) /\ r.total = h[Len(<<>>)]
  BY <1>1
<1> QED BY <1>2 DEF Kept, Extremes

(* What an entry that is put in changes.                                      *)
LEMMA PutIs ==
  ASSUME ProfTypeOK, NEW t \in ProfThread, NEW g \in Tag, NEW r \in Info, Put(t, g, r)
  PROVE  /\ DOMAIN record' = ProfThread
         /\ Known(t)' = Known(t) \cup {g} /\ record'[t] \in [Known(t)' -> Info]
         /\ record'[t][g] = r /\ \A h \in Known(t) : h # g => record'[t][h] = record[t][h]
         /\ \A u \in ProfThread : u # t => record'[u] = record[u]
<1>1. DOMAIN record = ProfThread /\ record[t] \in [Known(t) -> Info]
  BY DEF ProfTypeOK
<1> DEFINE q == [h \in Known(t) \cup {g} |-> IF h = g THEN r ELSE record[t][h]]
<1>2. record' = [record EXCEPT ![t] = q]
  BY <1>1 DEF Put, Known
<1>3. /\ q \in [Known(t) \cup {g} -> Info] /\ DOMAIN q = Known(t) \cup {g} /\ q[g] = r
      /\ \A h \in Known(t) : h # g => q[h] = record[t][h]
  BY <1>1
<1> HIDE DEF q
<1>4. record'[t] = q /\ DOMAIN record' = ProfThread /\ \A u \in ProfThread : u # t => record'[u] = record[u]
  BY <1>1, <1>2
<1> QED BY <1>3, <1>4 DEF Known

(* Entries that change by one, and the times with them.                       *)
LEMMA PutTyped ==
  ASSUME ProfTypeOK, NEW t \in ProfThread, NEW g \in Tag, NEW r \in Info, Put(t, g, r),
         open' \in [ProfThread -> Seq(Tag)], times' \in [ProfThread -> [Tag -> Seq(Nat)]],
         profCrashed' \in BOOLEAN
  PROVE  ProfTypeOK'
<1>1. /\ DOMAIN record' = ProfThread /\ Known(t)' = Known(t) \cup {g}
      /\ record'[t] \in [Known(t)' -> Info]
      /\ \A u \in ProfThread : u # t => record'[u] = record[u]
  BY PutIs
<1>2. ASSUME NEW u \in ProfThread PROVE record'[u] \in [Known(u)' -> Info] /\ Known(u)' \subseteq Tag
  <2>1. CASE u = t
    BY <1>1, <2>1 DEF ProfTypeOK
  <2>2. CASE u # t
    <3>1. record'[u] = record[u] /\ Known(u)' = Known(u)
      BY <1>1, <2>2 DEF Known
    <3> QED BY <3>1 DEF ProfTypeOK
  <2> QED BY <2>1, <2>2
<1> QED BY <1>1, <1>2 DEF ProfTypeOK

LEMMA BeginKeeps ==
  ASSUME ProfileAssumption, ProfInv, ~profCrashed, NEW t \in ProfThread, NEW g \in Tag,
         ~Contains(open[t], g), Begin(t, g)
  PROVE  ProfInv'
<1>1. /\ ProfTypeOK /\ Truthful /\ Running
      /\ DOMAIN record = ProfThread /\ open \in [ProfThread -> Seq(Tag)]
      /\ times \in [ProfThread -> [Tag -> Seq(Nat)]]
      /\ record[t] \in [Known(t) -> Info] /\ Known(t) \subseteq Tag
  BY DEF ProfInv, ProfTypeOK
<1> DEFINE r == IF g \in Known(t) THEN record[t][g] ELSE FreshRecord
           n == [r EXCEPT !.started = TRUE, !.isReset = FALSE]
           full == NoEntry(t, g)
<1>2. /\ open' = [open EXCEPT ![t] = Append(@, g)] /\ times' = times
      /\ IF r.started \/ full THEN profCrashed' = TRUE /\ record' = record
         ELSE Put(t, g, n) /\ profCrashed' = profCrashed
  BY DEF Begin
<1>3. /\ DOMAIN open[t] = 1 .. Len(open[t]) /\ Len(open[t]) \in Nat /\ open[t] \in Seq(Tag)
      /\ \A i \in DOMAIN open[t] : open[t][i] # g
  BY <1>1, LenProperties DEF Contains
<1>4. r \in Info /\ ~r.started
  <2>1. CASE g \in Known(t)
    BY <1>1, <1>3, <2>1 DEF Running, Runs, Known, Info
  <2>2. CASE g \notin Known(t)
    BY <2>2 DEF FreshRecord, Info
  <2> QED BY <2>1, <2>2
<1>5. /\ open' \in [ProfThread -> Seq(Tag)]
      /\ open'[t] = Append(open[t], g) /\ \A u \in ProfThread : u # t => open'[u] = open[u]
      /\ times' \in [ProfThread -> [Tag -> Seq(Nat)]]
  BY <1>1, <1>2
<1>6. CASE full
  <2>1. profCrashed' = TRUE /\ record' = record
    BY <1>2, <1>6
  <2>2. ProfTypeOK' /\ Truthful'
    BY <1>1, <1>2, <1>5, <2>1 DEF ProfTypeOK, Truthful, Known
  <2>3. OutOfRoom'
    <3>1. open'[t] # <<>> /\ Last(open'[t]) = g
      <4> DEFINE a == Append(open[t], g)
      <4>1. a # <<>> /\ Len(a) = Len(open[t]) + 1 /\ a[Len(open[t]) + 1] = g
        BY <1>3, AppendProperties
      <4>2. open'[t] = a
        BY <1>5
      <4> HIDE DEF a
      <4> QED BY <4>1, <4>2 DEF Last
    <3>2. \A u \in ProfThread : Known(u)' = Known(u)
      BY <2>1 DEF Known
    <3>3. Registered' = Registered
      BY <3>2 DEF Registered
    <3>4. NoEntry(t, g)'
      BY <1>6, <3>2, <3>3 DEF NoEntry
    <3> QED BY <3>1, <3>4 DEF OutOfRoom, NoEntry
  <2> QED BY <2>1, <2>2, <2>3 DEF ProfInv
<1>7. CASE ~full
  <2>1. Put(t, g, n) /\ profCrashed' = FALSE
    BY <1>2, <1>4, <1>7
  <2>2. /\ n \in Info /\ n.started = TRUE /\ n.isReset = FALSE /\ n.total = r.total
        /\ n.calls = r.calls /\ n.min = r.min /\ n.max = r.max
    <3> HIDE DEF r
    <3> QED BY <1>4 DEF Info
  <2> HIDE DEF n, r, full
  <2>3. ProfTypeOK'
    BY <1>1, <1>5, <2>1, <2>2, PutTyped
  <2>4. /\ Known(t)' = Known(t) \cup {g} /\ record'[t][g] = n
        /\ \A h \in Known(t) : h # g => record'[t][h] = record[t][h]
        /\ \A u \in ProfThread : u # t => record'[u] = record[u] /\ Known(u)' = Known(u)
    BY <1>1, <2>1, <2>2, PutIs DEF Known
  <2>5. Kept(n, times[t][g])
    <3>1. CASE g \in Known(t)
      BY <1>1, <2>2, <3>1 DEF r, Truthful, Kept
    <3>2. CASE g \notin Known(t)
      <4>1. times[t][g] = <<>> /\ n.calls = 0 /\ n.total = 0 /\ n.min = <<0, 0>> /\ n.max = <<0, 0>>
        BY <1>1, <2>2, <3>2 DEF r, Truthful, FreshRecord
      <4> QED BY <4>1, NothingKept
    <3> QED BY <3>1, <3>2
  <2>6. Truthful'
    <3> SUFFICES ASSUME NEW u \in ProfThread, NEW h \in Tag
                 PROVE  /\ h \in Known(u)' => Kept(record'[u][h], times[u][h])
                        /\ h \notin Known(u)' => times[u][h] = <<>>
      BY <1>2, <2>3 DEF Truthful, ProfTypeOK
    <3>1. CASE u # t
      BY <1>1, <2>4, <3>1 DEF Truthful
    <3>2. CASE u = t
      BY <1>1, <2>4, <2>5, <3>2 DEF Truthful
    <3> QED BY <3>1, <3>2
  <2>7. Runs(open'[t], record'[t])
    <3> DEFINE o == open[t]
               p == open'[t]
               old == record[t]
               new == record'[t]
               k == Len(open[t]) + 1
    <3>1. Runs(o, old)
      BY <1>1 DEF Running
    <3>2. /\ DOMAIN p = 1 .. k /\ p[k] = g /\ DOMAIN o = 1 .. k - 1 /\ k \in Nat \ {0}
          /\ \A i \in 1 .. k - 1 : p[i] = o[i] /\ o[i] # g
      <4>1. p \in Seq(Tag) /\ Len(p) = k /\ p[k] = g /\ \A i \in 1 .. Len(o) : p[i] = o[i]
        BY <1>3, <1>5, AppendProperties
      <4> QED BY <1>3, <4>1, LenProperties
    <3>3. /\ DOMAIN new = DOMAIN old \cup {g} /\ new[g] = n
          /\ \A h \in DOMAIN old : h # g => new[h] = old[h]
      BY <2>4 DEF Known
    <3> HIDE DEF o, p, old, new, k
    <3>4. \A i \in DOMAIN p : i = k \/ (i \in DOMAIN o /\ p[i] = o[i] /\ o[i] # g)
      BY <3>2
    <3>5. k \in DOMAIN p /\ \A i \in DOMAIN o : i \in DOMAIN p /\ p[i] = o[i]
      BY <3>2
    <3>6. \A i, j \in DOMAIN p : p[i] = p[j] => i = j
      BY <3>1, <3>2, <3>4 DEF Runs
    <3>7. \A i \in DOMAIN p : p[i] \in DOMAIN new
      BY <3>1, <3>2, <3>3, <3>4 DEF Runs
    <3>8. ASSUME NEW h \in DOMAIN new, new[h].started PROVE \E i \in DOMAIN p : p[i] = h
      <4>1. CASE h = g
        BY <3>2, <3>5, <4>1
      <4>2. CASE h # g
        <5>1. PICK i \in DOMAIN o : o[i] = h
          BY <3>1, <3>3, <3>8, <4>2 DEF Runs
        <5> QED BY <3>5, <5>1
      <4> QED BY <4>1, <4>2
    <3>9. ASSUME NEW h \in DOMAIN new, NEW i \in DOMAIN p, p[i] = h
          PROVE  new[h].started = ~new[h].isReset
      <4>1. CASE h = g
        BY <2>2, <3>3, <4>1
      <4>2. CASE h # g
        <5>1. i \in DOMAIN o /\ o[i] = h /\ h \in DOMAIN old /\ new[h] = old[h]
          BY <3>2, <3>3, <3>4, <3>9, <4>2
        <5> QED BY <3>1, <5>1 DEF Runs
      <4> QED BY <4>1, <4>2
    <3>10. Runs(p, new)
      BY <3>6, <3>7, <3>8, <3>9 DEF Runs
    <3> QED BY <3>10 DEF p, new
  <2>8. Running'
    BY <1>1, <1>5, <2>4, <2>7 DEF Running
  <2> QED BY <2>1, <2>3, <2>6, <2>8 DEF ProfInv
<1> QED BY <1>6, <1>7

LEMMA EndKeeps ==
  ASSUME ProfInv, ~profCrashed, NEW t \in ProfThread, NEW g \in Tag, NEW e \in Nat, End(t, g, e)
  PROVE  ProfInv'
<1>1. /\ ProfTypeOK /\ Truthful /\ Running
      /\ open \in [ProfThread -> Seq(Tag)] /\ times \in [ProfThread -> [Tag -> Seq(Nat)]]
      /\ record[t] \in [Known(t) -> Info] /\ Known(t) \subseteq Tag
  BY DEF ProfInv, ProfTypeOK
<1> DEFINE r == record[t][g]
           reset == [r EXCEPT !.isReset = FALSE]
<1>2. /\ open[t] # <<>> /\ g = Last(open[t]) /\ open' = [open EXCEPT ![t] = Front(@)]
      /\ IF r.isReset THEN Put(t, g, reset) /\ times' = times /\ profCrashed' = profCrashed
         ELSE IF r.started
         THEN /\ Put(t, g, Measured(r, e)) /\ profCrashed' = profCrashed
              /\ times' = [times EXCEPT ![t][g] = Append(@, e)]
         ELSE profCrashed' = TRUE
  BY DEF End
<1>3. /\ open[t] \in Seq(Tag) /\ Len(open[t]) \in Nat \ {0} /\ DOMAIN open[t] = 1 .. Len(open[t])
      /\ open[t][Len(open[t])] = g
  <2>1. open[t] \in Seq(Tag)
    BY <1>1
  <2>2. Len(open[t]) \in Nat /\ DOMAIN open[t] = 1 .. Len(open[t]) /\ Len(open[t]) # 0
    BY <1>2, <2>1, LenProperties, EmptySeq
  <2> QED BY <1>2, <2>1, <2>2 DEF Last
<1>4. /\ Front(open[t]) \in Seq(Tag) /\ DOMAIN Front(open[t]) = 1 .. Len(open[t]) - 1
      /\ \A i \in 1 .. Len(open[t]) - 1 : Front(open[t])[i] = open[t][i]
  <2>1. /\ Front(open[t]) = SubSeq(open[t], 1, Len(open[t]) - 1)
        /\ Len(open[t]) - 1 \in Nat
    BY <1>3 DEF Front
  <2>2. \A i \in 1 .. Len(open[t]) - 1 : open[t][i] \in Tag
    BY <1>3, ElementOfSeq
  <2> QED BY <1>3, <2>1, <2>2, SubSeqProperties
<1>5. /\ open' \in [ProfThread -> Seq(Tag)] /\ open'[t] = Front(open[t])
      /\ \A u \in ProfThread : u # t => open'[u] = open[u]
  <2> HIDE DEF r
  <2> QED BY <1>1, <1>2, <1>4
<1>6. g \in Known(t) /\ r \in Info /\ r.started = ~r.isReset /\ Kept(r, times[t][g])
  <2>1. g \in Known(t)
    BY <1>1, <1>3 DEF Running, Runs, Known
  <2> QED BY <1>1, <1>3, <2>1 DEF Running, Runs, Known, Truthful
<1>7. PICK n \in Info :
        /\ Put(t, g, n) /\ ~n.started /\ profCrashed' = FALSE /\ Kept(n, times'[t][g])
        /\ times' \in [ProfThread -> [Tag -> Seq(Nat)]]
        /\ \A u \in ProfThread : \A h \in Tag : u # t \/ h # g => times'[u][h] = times[u][h]
  <2>1. CASE r.isReset
    <3>1. /\ reset \in Info /\ reset.started = FALSE /\ reset.calls = r.calls /\ reset.total = r.total
          /\ reset.min = r.min /\ reset.max = r.max
      <4> HIDE DEF r
      <4> QED BY <1>6, <2>1 DEF Info
    <3> HIDE DEF reset, r
    <3>2. Kept(reset, times[t][g])
      BY <1>6, <3>1 DEF Kept
    <3>3. Put(t, g, reset) /\ times' = times /\ profCrashed' = FALSE
      BY <1>1, <1>2, <2>1 DEF ProfTypeOK
    <3> QED BY <1>1, <3>1, <3>2, <3>3
  <2>2. CASE ~r.isReset
    <3> DEFINE n == Measured(r, e)
    <3>1. times[t][g] \in Seq(Nat) /\ Append(times[t][g], e) \in Seq(Nat)
      BY <1>1, OneMore
    <3>2. n \in Info /\ Kept(n, Append(times[t][g], e)) /\ n.started = FALSE
      <4> HIDE DEF r
      <4> QED BY <1>6, <3>1, MeasuredKeeps
    <3> HIDE DEF n, r, reset
    <3>3. /\ times' = [times EXCEPT ![t][g] = Append(times[t][g], e)] /\ Put(t, g, n)
          /\ profCrashed' = FALSE
      BY <1>1, <1>2, <1>6, <2>2 DEF n, ProfTypeOK
    <3>4. /\ times' \in [ProfThread -> [Tag -> Seq(Nat)]] /\ times'[t][g] = Append(times[t][g], e)
          /\ \A u \in ProfThread : \A h \in Tag : u # t \/ h # g => times'[u][h] = times[u][h]
      <4>1. PICK x \in Seq(Nat) : x = Append(times[t][g], e)
        BY <3>1
      <4> QED BY <1>1, <3>3, <4>1
    <3> QED BY <3>2, <3>3, <3>4
  <2> QED BY <2>1, <2>2
<1> HIDE DEF r, reset
<1>8. ProfTypeOK'
  <2>1. Put(t, g, n) /\ profCrashed' \in BOOLEAN /\ times' \in [ProfThread -> [Tag -> Seq(Nat)]]
    BY <1>7
  <2> QED BY <1>1, <1>5, <2>1, PutTyped
<1>9. /\ Known(t)' = Known(t) /\ record'[t][g] = n
      /\ \A h \in Known(t) : h # g => record'[t][h] = record[t][h]
      /\ \A u \in ProfThread : u # t => record'[u] = record[u] /\ Known(u)' = Known(u)
  <2>1. Put(t, g, n)
    BY <1>7
  <2>2. /\ Known(t)' = Known(t) \cup {g} /\ record'[t][g] = n
        /\ \A h \in Known(t) : h # g => record'[t][h] = record[t][h]
        /\ \A u \in ProfThread : u # t => record'[u] = record[u]
    BY <1>1, <2>1, PutIs
  <2> QED BY <1>6, <2>2 DEF Known
<1>10. Truthful'
  <2> SUFFICES ASSUME NEW u \in ProfThread, NEW h \in Tag
               PROVE  /\ h \in Known(u)' => Kept(record'[u][h], times'[u][h])
                      /\ h \notin Known(u)' => times'[u][h] = <<>>
    BY <1>8 DEF Truthful, ProfTypeOK
  <2>1. CASE u # t
    BY <1>1, <1>7, <1>9, <2>1 DEF Truthful
  <2>2. CASE u = t
    <3>1. CASE h = g
      BY <1>6, <1>7, <1>9, <2>2, <3>1
    <3>2. CASE h # g
      <4>1. times'[t][h] = times[t][h]
        BY <1>7, <3>2
      <4>2. h \in Known(t) => Kept(record[t][h], times[t][h])
        BY <1>1 DEF Truthful
      <4>3. h \notin Known(t) => times[t][h] = <<>>
        BY <1>1 DEF Truthful
      <4> QED BY <1>9, <2>2, <3>2, <4>1, <4>2, <4>3
    <3> QED BY <3>1, <3>2
  <2> QED BY <2>1, <2>2
<1>11. Runs(open'[t], record'[t])
  <2> DEFINE o == open[t]
             p == open'[t]
             old == record[t]
             new == record'[t]
             k == Len(open[t])
  <2>1. Runs(o, old)
    BY <1>1 DEF Running
  <2>2. /\ DOMAIN o = 1 .. k /\ o[k] = g /\ DOMAIN p = 1 .. k - 1 /\ k \in Nat \ {0}
        /\ \A i \in 1 .. k - 1 : p[i] = o[i]
    BY <1>3, <1>4, <1>5
  <2>3. /\ DOMAIN new = DOMAIN old /\ new[g] = n
        /\ \A h \in DOMAIN old : h # g => new[h] = old[h]
    BY <1>9 DEF Known
  <2> HIDE DEF o, p, old, new, k
  <2>4. \A i \in DOMAIN p : i \in DOMAIN o /\ i # k /\ p[i] = o[i]
    BY <2>2
  <2>5. \A i \in DOMAIN o : i = k \/ (i \in DOMAIN p /\ p[i] = o[i])
    BY <2>2
  <2>6. k \in DOMAIN o
    BY <2>2
  <2>7. \A i \in DOMAIN p : p[i] # g
    BY <2>1, <2>2, <2>4, <2>6 DEF Runs
  <2>8. \A i, j \in DOMAIN p : p[i] = p[j] => i = j
    BY <2>1, <2>4 DEF Runs
  <2>9. \A i \in DOMAIN p : p[i] \in DOMAIN new
    BY <2>1, <2>3, <2>4 DEF Runs
  <2>10. ASSUME NEW h \in DOMAIN new, new[h].started PROVE \E i \in DOMAIN p : p[i] = h
    <3>1. h # g /\ h \in DOMAIN old /\ old[h].started
      BY <1>7, <2>3, <2>10
    <3>2. PICK i \in DOMAIN o : o[i] = h
      BY <2>1, <3>1 DEF Runs
    <3> QED BY <2>2, <2>5, <3>1, <3>2
  <2>11. ASSUME NEW h \in DOMAIN new, NEW i \in DOMAIN p, p[i] = h
         PROVE  new[h].started = ~new[h].isReset
    <3>1. i \in DOMAIN o /\ o[i] = h /\ h # g /\ h \in DOMAIN old /\ new[h] = old[h]
      BY <2>3, <2>4, <2>7, <2>11
    <3> QED BY <2>1, <3>1 DEF Runs
  <2>12. Runs(p, new)
    BY <2>8, <2>9, <2>10, <2>11 DEF Runs
  <2> QED BY <2>12 DEF p, new
<1>12. Running'
  BY <1>1, <1>5, <1>9, <1>11 DEF Running
<1> QED BY <1>7, <1>8, <1>10, <1>12 DEF ProfInv

LEMMA ResetThreadKeeps ==
  ASSUME ProfInv, ~profCrashed, NEW t \in ProfThread, ResetThread(t)
  PROVE  ProfInv'
<1>1. /\ ProfTypeOK /\ Truthful /\ Running /\ DOMAIN record = ProfThread
      /\ times \in [ProfThread -> [Tag -> Seq(Nat)]]
  BY DEF ProfInv, ProfTypeOK
<1> DEFINE fresh == [FreshRecord EXCEPT !.isReset = TRUE]
           new == [g \in Known(t) |-> fresh]
<1>2. /\ record' = [record EXCEPT ![t] = new] /\ open' = open /\ profCrashed' = profCrashed
      /\ times' = [times EXCEPT ![t] = [g \in Tag |-> <<>>]]
  BY DEF ResetThread, Known
<1>3. /\ fresh \in Info /\ ~fresh.started /\ fresh.isReset /\ fresh.calls = 0 /\ fresh.total = 0
      /\ fresh.min = <<0, 0>> /\ fresh.max = <<0, 0>>
  BY DEF FreshRecord, Info
<1> HIDE DEF fresh
<1>4. DOMAIN new = Known(t) /\ new \in [Known(t) -> Info] /\ \A g \in Known(t) : new[g] = fresh
  BY <1>3
<1> HIDE DEF new
<1>5. /\ DOMAIN record' = ProfThread /\ record'[t] = new /\ Known(t)' = Known(t)
      /\ \A u \in ProfThread : u # t => record'[u] = record[u] /\ Known(u)' = Known(u)
  BY <1>1, <1>2, <1>4 DEF Known
<1>6. /\ times' \in [ProfThread -> [Tag -> Seq(Nat)]] /\ \A g \in Tag : times'[t][g] = <<>>
      /\ \A u \in ProfThread : u # t => times'[u] = times[u]
  <2>1. PICK z \in [Tag -> Seq(Nat)] : z = [g \in Tag |-> <<>>]
    <3>1. <<>> \in Seq(Nat)
      BY EmptySeq
    <3> QED BY <3>1
  <2>2. \A g \in Tag : z[g] = <<>>
    BY <2>1
  <2>3. times' = [times EXCEPT ![t] = z]
    BY <1>2, <2>1
  <2> QED BY <1>1, <2>2, <2>3
<1>7. ProfTypeOK'
  <2>1. ASSUME NEW u \in ProfThread PROVE record'[u] \in [Known(u)' -> Info] /\ Known(u)' \subseteq Tag
    BY <1>1, <1>4, <1>5 DEF ProfTypeOK
  <2> QED BY <1>1, <1>2, <1>5, <1>6, <2>1 DEF ProfTypeOK
<1>8. Truthful'
  <2> SUFFICES ASSUME NEW u \in ProfThread, NEW h \in Tag
               PROVE  /\ h \in Known(u)' => Kept(record'[u][h], times'[u][h])
                      /\ h \notin Known(u)' => times'[u][h] = <<>>
    BY <1>7 DEF Truthful, ProfTypeOK
  <2>1. CASE u # t
    BY <1>1, <1>5, <1>6, <2>1 DEF Truthful
  <2>2. CASE u = t
    <3>1. Kept(fresh, <<>>)
      BY <1>3, NothingKept
    <3> QED BY <1>4, <1>5, <1>6, <2>2, <3>1
  <2> QED BY <2>1, <2>2
<1>9. Running'
  <2>1. Runs(open[t], new)
    <3> DEFINE o == open[t]
               old == record[t]
    <3>1. Runs(o, old)
      BY <1>1 DEF Running
    <3>2. DOMAIN new = DOMAIN old /\ \A h \in DOMAIN new : ~new[h].started /\ new[h].isReset
      BY <1>3, <1>4 DEF Known
    <3>3. \A h \in DOMAIN new : new[h].started = ~new[h].isReset
      BY <1>3, <1>4 DEF Info
    <3> HIDE DEF o, old
    <3>4. Runs(o, new)
      BY <3>1, <3>2, <3>3 DEF Runs
    <3> QED BY <3>4 DEF o
  <2> QED BY <1>1, <1>2, <1>5, <2>1 DEF Running
<1> QED BY <1>2, <1>7, <1>8, <1>9 DEF ProfInv

LEMMA ProfNextKeeps ==
  ASSUME ProfileAssumption, ProfInv, [ProfNext]_profVars
  PROVE  ProfInv'
<1>1. CASE UNCHANGED profVars
  BY <1>1 DEF profVars, ProfInv, ProfTypeOK, Truthful, Running, OutOfRoom, NoEntry, Registered,
              Known
<1>2. CASE ProfNext
  <2>1. CASE ResetAll
    BY <1>2, <2>1 DEF ProfNext, ResetAll, ProfInv, ProfTypeOK, Truthful, Running, Known
  <2>2. ASSUME NEW t \in ProfThread, ResetThread(t) PROVE ProfInv'
    BY <1>2, <2>2, ResetThreadKeeps DEF ProfNext
  <2>3. ASSUME NEW t \in ProfThread, NEW g \in Tag, ~Contains(open[t], g), Begin(t, g) PROVE ProfInv'
    BY <1>2, <2>3, BeginKeeps DEF ProfNext
  <2>4. ASSUME NEW t \in ProfThread, NEW g \in Tag, NEW e \in Ellapse, End(t, g, e) PROVE ProfInv'
    <3>1. e \in Nat
      BY DEF ProfileAssumption
    <3> QED BY <1>2, <2>4, <3>1, EndKeeps DEF ProfNext
  <2> QED BY <1>2, <2>1, <2>2, <2>3, <2>4 DEF ProfNext
<1> QED BY <1>1, <1>2

LEMMA ProfStarts ==
  ProfInit => ProfInv
<1> SUFFICES ASSUME ProfInit PROVE ProfInv
  OBVIOUS
<1> USE DEF ProfInit
<1>1. ProfTypeOK
  <2>1. <<>> \in Seq(Tag) /\ <<>> \in Seq(Nat)
    BY EmptySeq
  <2>2. open \in [ProfThread -> Seq(Tag)] /\ times \in [ProfThread -> [Tag -> Seq(Nat)]]
    BY <2>1
  <2>3. \A t \in ProfThread : DOMAIN record[t] = {} /\ record[t] \in [{} -> Info]
    OBVIOUS
  <2> QED BY <2>2, <2>3 DEF ProfTypeOK, Known
<1>2. \A t \in ProfThread : Known(t) = {} /\ \A g \in Tag : times[t][g] = <<>>
  BY DEF Known
<1>3. Truthful /\ Running
  BY <1>2 DEF Truthful, Running, Runs, Known
<1> QED BY <1>1, <1>3 DEF ProfInv

LEMMA ProfInvTells ==
  ProfInv => ProfilesTrue
<1> SUFFICES ASSUME ProfInv, NEW t \in ProfThread, NEW g \in Known(t)
             PROVE  /\ record[t][g].calls = Len(times[t][g])
                    /\ record[t][g].total = Total(times[t][g])
                    /\ Extremes(record[t][g].max, times[t][g], 1)
                    /\ ~Contains(times[t][g], 0) => Extremes(record[t][g].min, times[t][g], -1)
  BY DEF ProfInv, ProfilesTrue
<1>1. times[t][g] \in Seq(Nat) /\ Kept(record[t][g], times[t][g])
  BY DEF ProfInv, ProfTypeOK, Truthful
<1>2. PICK f : Sums(f, times[t][g]) /\ record[t][g].total = f[Len(times[t][g])]
  BY <1>1 DEF Kept
<1>3. Total(times[t][g]) = f[Len(times[t][g])]
  BY <1>1, <1>2, TotalIs
<1> QED BY <1>1, <1>2, <1>3 DEF Kept

(* Whatever is reset while sections run, the profile of every thread tells    *)
(* how many sections of each tag were measured since, their sum and their     *)
(* extremes; and a program is ended only by the Begin of a thread or a tag    *)
(* there is no entry for (Profiler.cpp:85-193, 268-284, 301-327).             *)
THEOREM ProfilesAlwaysTrue == ProfSpec => []ProfilesTrue
<1>1. ProfInit => ProfInv
  BY ProfStarts
<1>2. ProfInv /\ [ProfNext]_profVars => ProfInv'
  BY ProfileAssumption, ProfNextKeeps
<1>3. ProfInv => ProfilesTrue
  BY ProfInvTells
<1> QED BY <1>1, <1>2, <1>3, PTL DEF ProfSpec
=============================================================================
