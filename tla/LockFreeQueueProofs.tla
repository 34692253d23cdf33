------------------------- MODULE LockFreeQueueProofs -------------------------
(***************************************************************************)
(* What LockFreeQueue.tla promises for any threads, addresses and values,  *)
(* however many calls are made: no linked node is ever deleted, whatever    *)
(* the allocator does; and, while no address comes back to an Enqueue that  *)
(* still holds it, a linked node for every Dequeue let in and an atomic     *)
(* queue.                                                                   *)
(*                                                                          *)
(* The invariant is about the shape of the heap.  A link that an Enqueue    *)
(* stores in a node that came back leads from a younger node to an older    *)
(* one, so no node ever leads back to itself, and what hangs off a node not *)
(* yet linked stays apart from the queue until that node is linked.         *)
(***************************************************************************)
EXTENDS LockFreeQueue, FiniteSetTheorems, SequenceTheorems, WellFoundedInduction, TLAPS

(* The program counters of a call that has a node of its own not yet linked,  *)
(* of one that holds the tail it read, and so on.                             *)
Unlinked == {"enqInit", "enqID", "enqNode", "enqNext", "enqCheck", "enqLink", "enqHelp"}
TailRead == {"enqNext", "enqCheck", "enqLink"}
Linking == {"enqSwing", "enqCount"}
Gated == {"deqHeadID", "deqHeadNode", "deqHeadNext", "deqTailID", "deqTailNode",
          "deqTailNext", "deqCheck", "deqHelp", "deqHead", "deqVal", "deqCAS"}
Pcs == {"idle", "deqUndo", "deqDelete"} \cup Unlinked \cup Linking \cup Gated

At(pcs) == {t \in Threads : pc[t] \in pcs}

Cell == [node : Nodes \cup {NULL}, id : Nat]

TypeOK ==
  /\ reuse \in BOOLEAN /\ count \in Int
  /\ head \in [node : Nodes, id : Nat] /\ tail \in [node : Nodes, id : Nat]
  /\ heap \in SUBSET Nodes
  /\ val \in [Nodes -> Values] /\ next \in [Nodes -> Nodes \cup {NULL}]
  /\ pc \in [Threads -> Pcs]
  /\ own \in [Threads -> Nodes \cup {NULL}]
  /\ ht \in [Threads -> Cell] /\ tt \in [Threads -> Cell]
  /\ hn \in [Threads -> Nodes \cup {NULL}] /\ tn \in [Threads -> Nodes \cup {NULL}]
  /\ out \in [Threads -> Values \cup {NoValue}] /\ got \in [Threads -> Values \cup {NoValue}]

(* q leads from first along nx to the end.                                    *)
Path(q, first, nx) ==
  /\ q # <<>> /\ IsInjective(q) /\ q[1] = first
  /\ \A i \in DOMAIN q : nx[q[i]] = IF i = Len(q) THEN NULL ELSE q[i + 1]

(* A local copy of a pair that still is the pair was read whole.              *)
Reads == \A t \in Threads :
  /\ tt[t].id <= tail.id /\ ht[t].id <= head.id
  /\ pc[t] \in Unlinked \cup {"enqSwing"} => own[t] \in Nodes
  /\ pc[t] \in {"deqTailNext", "deqCheck"} /\ tt[t].id = tail.id => tt[t] = tail
  /\ pc[t] \in {"enqHelp", "deqHelp"} => tn[t] # NULL
  /\ pc[t] \in {"enqCheck", "deqCheck", "enqHelp", "deqHelp"} /\ tt[t] = tail /\ tn[t] # NULL =>
       tn[t] = next[tail.node]
  /\ pc[t] = "enqSwing" /\ tt[t] = tail => next[tail.node] = own[t]
  /\ pc[t] \in {"deqVal", "deqCAS"} => hn[t] # NULL

(* What a Dequeue knows if the head has not moved: what follows it, and that  *)
(* the tail is not the dummy node that is about to go.                        *)
Heads == \A t \in Threads : ht[t] = head /\ hn[t] # NULL =>
  /\ pc[t] \in {"deqTailID", "deqTailNode", "deqTailNext", "deqCheck", "deqHead", "deqVal",
                "deqCAS"} => hn[t] = next[head.node]
  /\ pc[t] = "deqCheck" /\ tt[t] = tail /\ tn[t] = NULL => tail.node # head.node
  /\ pc[t] \in {"deqHead", "deqVal", "deqCAS"} => tail.node # head.node
  /\ pc[t] = "deqCAS" => out[t] = val[hn[t]]

(* q is the queue, P[t] the nodes behind the node of an Enqueue that is not   *)
(* linked yet, and R says which nodes were allocated before which: only when  *)
(* an address came back can a node be linked behind one that is not linked.   *)
Main(q) == Path(q, head.node, next) /\ Range(q) \subseteq heap /\ tail.node \in Range(q)

Ages(R) == /\ \A x, y, z \in Nodes : <<x, y>> \in R /\ <<y, z>> \in R => <<x, z>> \in R
           /\ \A x \in Nodes : <<x, x>> \notin R

Behind(t, q, P, R) ==
  /\ Path(P[t], own[t], next) /\ Range(P[t]) \subseteq heap \ Range(q)
  /\ \A y \in Range(P[t]) : y = own[t] \/ <<y, own[t]>> \in R
  /\ \A u \in At(Unlinked) : u # t => Range(P[t]) \cap Range(P[u]) = {}
  /\ \A u \in At(TailRead) : tt[u].node \in Range(P[t]) => <<own[u], tt[u].node>> \in R
  /\ ~reuse => P[t] = <<own[t]>> /\ \A u \in At(TailRead) : tt[u].node # own[t]
Private(q, P, R) == \A t \in At(Unlinked) : Behind(t, q, P, R)

Going(t, q, P) ==
  /\ own[t] \in heap \ Range(q)
  /\ \A u \in At(Unlinked) : own[t] \notin Range(P[u])
  /\ \A u \in At({"deqDelete"}) : own[u] = own[t] => u = t
Doomed(q, P) == \A t \in At({"deqDelete"}) : Going(t, q, P)

Stale(q) == \A t \in At(TailRead) :
  tt[t].node \in Nodes /\ (~reuse => tt[t].node \in Range(q) \/ next[tt[t].node] # NULL)

Shape(q, P, R) == Main(q) /\ Ages(R) /\ Private(q, P, R) /\ Doomed(q, P) /\ Stale(q)

Shaped == \E q \in Seq(Nodes), P \in [Threads -> Seq(Nodes)], R \in SUBSET (Nodes \X Nodes) :
            Shape(q, P, R)

(* While no address comes back, the counter is the nodes behind the dummy     *)
(* less those not counted yet and those given to a Dequeue.                   *)
Counted == ~reuse =>
  /\ Len(Chain) - 1 = count + Cardinality(At(Linking)) + Cardinality(At(Gated))
                        + Cardinality(At({"deqUndo"}))
  /\ count + Cardinality(At({"deqUndo"})) >= 0

IInv == TypeOK /\ Reads /\ Heads /\ Shaped /\ Counted
------------------------------------------------------------------------------
(* Sequences of nodes. *)

LEMMA Least ==
  ASSUME NEW S \in SUBSET Nat, S # {}
  PROVE  \E i \in S : \A j \in S : i <= j
<1>1. PICK i \in S : \A j \in S : ~(<<j, i>> \in OpToRel(<, Nat))
  BY NatLessThanWellFounded, WFMin
<1> SUFFICES ASSUME NEW j \in S PROVE i <= j
  OBVIOUS
<1>2. <<j, i>> \in Nat \X Nat
  OBVIOUS
<1>3. ~(j < i)
  BY <1>1, <1>2 DEF OpToRel
<1> QED BY <1>3


(* Sequences that lead along next to its end.                                 *)
LEMMA PathRange ==
  ASSUME NEW q \in Seq(Nodes), NEW first, NEW nx, Path(q, first, nx)
  PROVE  /\ DOMAIN q = 1 .. Len(q) /\ Len(q) \in Nat \ {0}
         /\ first \in Range(q) /\ Range(q) \subseteq Nodes
         /\ \A n \in Range(q) : /\ nx[n] # NULL => nx[n] \in Range(q)
                                /\ nx[n] # first
         /\ nx[q[Len(q)]] = NULL
         /\ \A n \in Range(q) : nx[n] = NULL => n = q[Len(q)]
<1>1. DOMAIN q = 1 .. Len(q) /\ Len(q) \in Nat \ {0}
  BY DEF Path
<1>2. first \in Range(q) /\ Range(q) \subseteq Nodes
  BY <1>1 DEF Path, Range
<1>3. ASSUME NEW n \in Range(q)
      PROVE  /\ nx[n] # NULL => nx[n] \in Range(q)
             /\ nx[n] # first
             /\ nx[n] = NULL => n = q[Len(q)]
  <2>1. PICK i \in DOMAIN q : n = q[i]
    BY DEF Range
  <2>2. nx[n] = IF i = Len(q) THEN NULL ELSE q[i + 1]
    BY <2>1 DEF Path
  <2>3. CASE i = Len(q)
    <3>1. first \in Nodes
      BY <1>2
    <3> QED BY <2>1, <2>2, <2>3, <3>1, NullAssumption
  <2>4. CASE i # Len(q)
    <3>1. i + 1 \in DOMAIN q /\ i + 1 # 1 /\ 1 \in DOMAIN q
      BY <1>1, <2>4
    <3>2. q[i + 1] \in Range(q) /\ q[i + 1] \in Nodes
      BY <3>1 DEF Range
    <3>3. q[i + 1] # q[1]
      BY <3>1 DEF Path, IsInjective
    <3> QED BY <2>2, <2>4, <3>2, <3>3, NullAssumption DEF Path
  <2> QED BY <2>3, <2>4
<1>4. nx[q[Len(q)]] = NULL
  BY <1>1 DEF Path
<1> QED BY <1>1, <1>2, <1>3, <1>4

LEMMA PathPop ==
  ASSUME NEW q \in Seq(Nodes), NEW first, NEW nx, Path(q, first, nx), nx[first] # NULL
  PROVE  /\ Tail(q) \in Seq(Nodes) /\ Path(Tail(q), nx[first], nx)
         /\ Range(Tail(q)) = Range(q) \ {first} /\ Len(Tail(q)) = Len(q) - 1
         /\ nx[first] = q[2] /\ Len(q) >= 2
<1> DEFINE r == Tail(q)
<1>1. DOMAIN q = 1 .. Len(q) /\ Len(q) \in Nat \ {0} /\ 1 \in DOMAIN q
  BY DEF Path
<1>2. Len(q) # 1 /\ nx[first] = q[2]
  <2>1. nx[q[1]] = IF 1 = Len(q) THEN NULL ELSE q[1 + 1]
    BY <1>1 DEF Path
  <2> QED BY <2>1 DEF Path
<1>3. r \in Seq(Nodes) /\ Len(r) = Len(q) - 1 /\ \A i \in 1 .. Len(r) : r[i] = q[i + 1]
  BY HeadTailProperties DEF Path
<1> HIDE DEF r
<1>4. DOMAIN r = 1 .. Len(r) /\ Len(r) \in Nat /\ r # <<>> /\ Len(q) >= 2
  BY <1>1, <1>2, <1>3
<1>5. r[1] = q[2]
  BY <1>1, <1>2, <1>3
<1>6. \A i \in DOMAIN r : i + 1 \in DOMAIN q /\ r[i] = q[i + 1] /\ i + 1 # 1 /\ i \in Int
  BY <1>1, <1>3, <1>4
<1>7. IsInjective(r)
  <2> SUFFICES ASSUME NEW i \in DOMAIN r, NEW j \in DOMAIN r, r[i] = r[j] PROVE i = j
    BY DEF IsInjective
  <2>1. i + 1 = j + 1
    BY <1>6 DEF Path, IsInjective
  <2> QED BY <1>6, <2>1
<1>8. ASSUME NEW i \in DOMAIN r PROVE nx[r[i]] = IF i = Len(r) THEN NULL ELSE r[i + 1]
  <2>1. nx[q[i + 1]] = IF i + 1 = Len(q) THEN NULL ELSE q[(i + 1) + 1]
    BY <1>6 DEF Path
  <2>2. i # Len(r) => r[i + 1] = q[(i + 1) + 1]
    BY <1>3, <1>4
  <2> QED BY <1>1, <1>3, <1>6, <2>1, <2>2
<1>9. Range(r) = Range(q) \ {first}
  <2>1. \A i \in DOMAIN r : r[i] \in Range(q) /\ r[i] # first
    BY <1>1, <1>6 DEF Path, IsInjective, Range
  <2>2. ASSUME NEW i \in DOMAIN q, q[i] # first PROVE q[i] \in Range(r)
    <3>1. i # 1
      BY <2>2 DEF Path
    <3>2. i - 1 \in DOMAIN r /\ r[i - 1] = q[i]
      BY <1>1, <1>3, <1>4, <3>1
    <3> QED BY <3>2 DEF Range
  <2> QED BY <2>1, <2>2 DEF Range
<1>10. Path(r, nx[first], nx)
  BY <1>2, <1>4, <1>5, <1>7, <1>8 DEF Path
<1> QED BY <1>2, <1>3, <1>4, <1>9, <1>10 DEF r

LEMMA PathWrite ==
  ASSUME NEW q \in Seq(Nodes), NEW first, NEW nx \in [Nodes -> Nodes \cup {NULL}],
         Path(q, first, nx), NEW x, x \notin Range(q), NEW v
  PROVE  Path(q, first, [nx EXCEPT ![x] = v])
<1>1. \A i \in DOMAIN q : q[i] \in Nodes /\ q[i] # x
  BY DEF Range
<1>2. \A i \in DOMAIN q : [nx EXCEPT ![x] = v][q[i]] = nx[q[i]]
  BY <1>1
<1> QED BY <1>2 DEF Path

LEMMA PathOne ==
  ASSUME NEW n \in Nodes, NEW nx, nx[n] = NULL
  PROVE  <<n>> \in Seq(Nodes) /\ Path(<<n>>, n, nx) /\ Range(<<n>>) = {n}
<1> DEFINE q == <<n>>
<1>1. q \in Seq(Nodes) /\ q[1] = n /\ Len(q) = 1 /\ DOMAIN q = {1} /\ q # <<>>
  OBVIOUS
<1> HIDE DEF q
<1> QED BY <1>1 DEF Path, IsInjective, Range, q

LEMMA PathJoin ==
  ASSUME NEW q \in Seq(Nodes), NEW first, NEW nx \in [Nodes -> Nodes \cup {NULL}],
         Path(q, first, nx),
         NEW p \in Seq(Nodes), NEW more, Path(p, more, nx), Range(p) \cap Range(q) = {},
         NEW x \in Range(q), nx[x] = NULL
  PROVE  /\ q \o p \in Seq(Nodes) /\ Path(q \o p, first, [nx EXCEPT ![x] = more])
         /\ Range(q \o p) = Range(q) \cup Range(p) /\ Len(q \o p) = Len(q) + Len(p)
<1> DEFINE r == q \o p
           nn == [nx EXCEPT ![x] = more]
           m == Len(q)
           k == Len(p)
<1>1. /\ r \in Seq(Nodes) /\ Len(r) = m + k
      /\ \A i \in 1 .. m + k : r[i] = IF i <= m THEN q[i] ELSE p[i - m]
  BY ConcatProperties
<1>2. /\ DOMAIN q = 1 .. m /\ m \in Nat \ {0} /\ q[m] = x /\ x \in Nodes /\ Range(q) \subseteq Nodes
      /\ DOMAIN p = 1 .. k /\ k \in Nat \ {0} /\ Range(p) \subseteq Nodes /\ more \in Nodes
  BY PathRange
<1>3. /\ nn[x] = more /\ \A n \in Nodes : n # x => nn[n] = nx[n]
  BY <1>2
<1> HIDE DEF r, nn, m, k
<1>4. DOMAIN r = 1 .. m + k /\ r # <<>>
  <2>1. m + k \in Nat /\ m + k # 0
    BY <1>2
  <2>2. DOMAIN r = 1 .. Len(r) /\ (r = <<>> => Len(r) = 0)
    BY <1>1
  <2> QED BY <1>1, <2>1, <2>2
<1>5. /\ \A i \in 1 .. m : r[i] = q[i] /\ q[i] \in Range(q)
      /\ \A i \in (m + 1) .. (m + k) : r[i] = p[i - m] /\ i - m \in DOMAIN p /\ p[i - m] \in Range(p)
  <2>1. ASSUME NEW i \in 1 .. m PROVE r[i] = q[i] /\ q[i] \in Range(q)
    <3>1. i \in 1 .. m + k /\ i <= m
      BY <1>2
    <3>2. i \in DOMAIN q
      BY <1>2
    <3> QED BY <1>1, <3>1, <3>2 DEF Range
  <2>2. ASSUME NEW i \in (m + 1) .. (m + k)
        PROVE  r[i] = p[i - m] /\ i - m \in DOMAIN p /\ p[i - m] \in Range(p)
    <3>1. i \in 1 .. m + k /\ ~(i <= m)
      BY <1>2
    <3>2. i - m \in DOMAIN p
      BY <1>2
    <3> QED BY <1>1, <3>1, <3>2 DEF Range
  <2> QED BY <2>1, <2>2
<1>6. Range(r) = Range(q) \cup Range(p)
  <2>1. \A i \in DOMAIN r : r[i] \in Range(q) \cup Range(p)
    BY <1>2, <1>4, <1>5
  <2>2. \A i \in DOMAIN q : q[i] \in Range(r)
    BY <1>2, <1>4, <1>5 DEF Range
  <2>3. ASSUME NEW i \in DOMAIN p PROVE p[i] \in Range(r)
    <3>1. i + m \in (m + 1) .. (m + k) /\ i + m \in DOMAIN r /\ (i + m) - m = i
      BY <1>2, <1>4
    <3>2. r[i + m] = p[i]
      BY <1>5, <3>1
    <3> QED BY <3>1, <3>2 DEF Range
  <2> QED BY <2>1, <2>2, <2>3 DEF Range
<1>7. IsInjective(r)
  <2> SUFFICES ASSUME NEW i \in 1 .. m + k, NEW j \in 1 .. m + k, r[i] = r[j] PROVE i = j
    BY <1>4 DEF IsInjective
  <2>1. CASE i <= m /\ j <= m
    <3>1. i \in 1 .. m /\ j \in 1 .. m
      BY <2>1
    <3>2. q[i] = q[j]
      BY <1>5, <3>1
    <3> QED BY <1>2, <3>1, <3>2 DEF Path, IsInjective
  <2>2. CASE i > m /\ j > m
    <3>1. i \in (m + 1) .. (m + k) /\ j \in (m + 1) .. (m + k)
      BY <1>2, <2>2
    <3>2. p[i - m] = p[j - m] /\ i - m \in DOMAIN p /\ j - m \in DOMAIN p
      BY <1>5, <3>1
    <3>3. i - m = j - m
      BY <3>2 DEF Path, IsInjective
    <3> QED BY <1>2, <3>3
  <2>3. CASE i <= m /\ j > m
    <3>1. i \in 1 .. m /\ j \in (m + 1) .. (m + k)
      BY <1>2, <2>3
    <3> QED BY <1>5, <3>1
  <2>4. CASE i > m /\ j <= m
    <3>1. j \in 1 .. m /\ i \in (m + 1) .. (m + k)
      BY <1>2, <2>4
    <3> QED BY <1>5, <3>1
  <2> QED BY <1>2, <2>1, <2>2, <2>3, <2>4
<1>8. ASSUME NEW i \in 1 .. m + k
      PROVE  nn[r[i]] = IF i = m + k THEN NULL ELSE r[i + 1]
  <2>1. CASE i < m
    <3>1. i \in 1 .. m /\ i + 1 \in 1 .. m /\ i # m /\ m \in 1 .. m /\ i # m + k
      BY <1>2, <2>1
    <3>2. nx[q[i]] = q[i + 1] /\ q[i] # x
      BY <1>2, <3>1 DEF Path, IsInjective, m
    <3>3. r[i] = q[i] /\ r[i + 1] = q[i + 1] /\ q[i] \in Nodes
      BY <1>2, <1>5, <3>1
    <3> QED BY <1>3, <3>1, <3>2, <3>3
  <2>2. CASE i = m
    <3>1. i \in 1 .. m /\ m + 1 \in (m + 1) .. (m + k) /\ (m + 1) - m = 1 /\ i # m + k
      BY <1>2, <2>2
    <3>2. r[i] = x /\ r[m + 1] = p[(m + 1) - m]
      BY <1>2, <1>5, <2>2, <3>1
    <3>3. r[m + 1] = more
      BY <3>1, <3>2 DEF Path
    <3> QED BY <1>3, <2>2, <3>1, <3>2, <3>3
  <2>3. CASE i > m
    <3> DEFINE j == i - m
    <3>1. i \in (m + 1) .. (m + k) /\ j \in DOMAIN p /\ i = m + j
      BY <1>2, <2>3
    <3>2. r[i] = p[j] /\ p[j] \in Range(p) /\ p[j] \in Nodes
      BY <1>2, <1>5, <3>1
    <3>3. p[j] # x
      BY <3>2
    <3> HIDE DEF j
    <3>4. nx[p[j]] = IF j = k THEN NULL ELSE p[j + 1]
      BY <3>1 DEF Path, k
    <3>5. j # k => r[i + 1] = p[j + 1]
      <4> SUFFICES ASSUME j # k PROVE r[i + 1] = p[j + 1]
        OBVIOUS
      <4>1. j \in 1 .. k /\ j \in Int
        BY <1>2, <3>1
      <4>2. i + 1 \in (m + 1) .. (m + k) /\ (i + 1) - m = j + 1
        BY <1>2, <3>1, <4>1
      <4> QED BY <1>5, <4>2
    <3>6. i = m + k <=> j = k
      BY <1>2, <3>1
    <3> QED BY <1>3, <3>2, <3>3, <3>4, <3>5, <3>6
  <2> QED BY <1>2, <2>1, <2>2, <2>3
<1>9. r[1] = first
  <2>1. 1 \in 1 .. m
    BY <1>2
  <2> QED BY <1>5, <2>1 DEF Path
<1>10. Path(r, first, nn)
  BY <1>1, <1>4, <1>7, <1>8, <1>9 DEF Path
<1> QED BY <1>1, <1>6, <1>10 DEF r, nn, m, k

(* The chain is the sequence that leads from the dummy node to the end.       *)
LEMMA ChainIs ==
  ASSUME NEW q \in Seq(Nodes), NEW first, NEW nx, Path(q, first, nx)
  PROVE  Linked(first, nx) = q
<1> DEFINE N == Cardinality(Nodes)
           m == Len(q)
           F(f) == [i \in 1 .. N |-> IF i = 1 THEN first
                                     ELSE IF f[i - 1] = NULL THEN NULL ELSE nx[f[i - 1]]]
           g == [i \in 1 .. N |-> IF i <= m THEN q[i] ELSE NULL]
           at == CHOOSE f : f = F(f)
<1>1. DOMAIN q = 1 .. m /\ m \in Nat \ {0} /\ Range(q) \subseteq Nodes
  BY PathRange
<1>2. N \in Nat /\ m <= N
  <2>1. N \in Nat
    BY NodesAssumption, FS_CardinalityType
  <2>2. q \in Injection(1 .. m, Nodes)
    BY <1>1 DEF Injection, Path, IsInjective
  <2>3. Cardinality(1 .. m) <= N
    BY <2>2, NodesAssumption, FS_Injection
  <2>4. Cardinality(1 .. m) = m
    <3>1. 1 \in Int /\ m \in Int
      BY <1>1
    <3>2. Cardinality(1 .. m) = IF 1 > m THEN 0 ELSE m - 1 + 1
      BY <3>1, FS_Interval
    <3> QED BY <1>1, <3>2
  <2> QED BY <2>1, <2>3, <2>4
<1> HIDE DEF N
<1>3. ASSUME NEW i \in 1 .. N
      PROVE  g[i] = IF i = 1 THEN first ELSE IF g[i - 1] = NULL THEN NULL ELSE nx[g[i - 1]]
  <2>1. CASE i = 1
    BY <1>1, <2>1 DEF Path
  <2>2. CASE i # 1
    <3>1. i - 1 \in 1 .. N /\ (i - 1 <= m => i - 1 \in DOMAIN q) /\ (i <= m => i \in DOMAIN q)
      BY <1>1, <1>2, <2>2
    <3>2. i - 1 <= m => q[i - 1] # NULL /\ nx[q[i - 1]] = IF i - 1 = m THEN NULL ELSE q[i]
      BY <1>1, <3>1, NullAssumption DEF Path, Range
    <3> QED BY <1>1, <2>2, <3>1, <3>2
  <2> QED BY <2>1, <2>2
<1>4. g = F(g)
  BY <1>3
<1>5. at = F(at)
  BY <1>4
<1>6. Linked(first, nx) = [i \in 1 .. Cardinality({j \in DOMAIN at : at[j] # NULL}) |-> at[i]]
  BY DEF Linked, N
<1> HIDE DEF at, F
<1>7. at = g
  <2> DEFINE Wrong == {i \in 1 .. N : at[i] # g[i]}
  <2>1. DOMAIN at = 1 .. N /\ DOMAIN g = 1 .. N /\ at = [i \in 1 .. N |-> at[i]]
    BY <1>5 DEF F
  <2>2. ASSUME Wrong # {} PROVE FALSE
    <3>1. PICK i \in Wrong : \A j \in Wrong : i <= j
      <4>1. Wrong \in SUBSET Nat
        BY <1>2
      <4> HIDE DEF Wrong
      <4> QED BY <2>2, <4>1, Least
    <3>2. i # 1
      BY <1>4, <1>5 DEF F
    <3>3. i \in 1 .. N /\ i - 1 \in 1 .. N /\ i - 1 \notin Wrong
      BY <1>2, <3>1, <3>2
    <3>4. at[i - 1] = g[i - 1]
      BY <3>3
    <3> HIDE DEF g
    <3>5. at[i] = g[i]
      BY <1>4, <1>5, <3>2, <3>3, <3>4 DEF F
    <3> QED BY <3>1, <3>5
  <2> QED BY <2>1, <2>2
<1>8. {j \in DOMAIN at : at[j] # NULL} = 1 .. m
  <2>1. \A j \in 1 .. m : q[j] # NULL
    BY <1>1, NullAssumption DEF Range
  <2> QED BY <1>1, <1>2, <1>7, <2>1
<1>9. Cardinality(1 .. m) = m
  <2>1. 1 \in Int /\ m \in Int
    BY <1>1
  <2>2. Cardinality(1 .. m) = IF 1 > m THEN 0 ELSE m - 1 + 1
    BY <2>1, FS_Interval
  <2> QED BY <1>1, <2>2
<1>10. Linked(first, nx) = [i \in 1 .. m |-> at[i]]
  BY <1>6, <1>8, <1>9
<1>11. [i \in 1 .. m |-> at[i]] = [i \in 1 .. m |-> q[i]]
  BY <1>1, <1>2, <1>7
<1>12. q = [i \in 1 .. m |-> q[i]]
  BY <1>1
<1> QED BY <1>10, <1>11, <1>12
------------------------------------------------------------------------------
(* What a step does to the locals. *)


(* What the shape says of the nodes a step reads or writes.                   *)
LEMMA Known ==
  ASSUME TypeOK, Shaped
  PROVE  /\ head.node \in heap /\ tail.node \in heap
         /\ next[head.node] # NULL => next[head.node] \in heap
         /\ next[tail.node] # head.node
         /\ \A t \in At(Unlinked) :
              own[t] \in heap /\ own[t] \notin {head.node, tail.node, next[head.node]}
<1>1. PICK q \in Seq(Nodes), P \in [Threads -> Seq(Nodes)], R \in SUBSET (Nodes \X Nodes) :
        Shape(q, P, R)
  BY DEF Shaped
<1>2. Path(q, head.node, next) /\ Range(q) \subseteq heap /\ tail.node \in Range(q)
  BY <1>1 DEF Shape, Main
<1>3. /\ head.node \in Range(q) /\ next[tail.node] # head.node
      /\ next[head.node] # NULL => next[head.node] \in Range(q)
  BY <1>2, PathRange
<1>4. ASSUME NEW t \in At(Unlinked)
      PROVE  own[t] \in heap /\ own[t] \notin {head.node, tail.node, next[head.node]}
  <2>1. P[t] \in Seq(Nodes) /\ Path(P[t], own[t], next) /\ Range(P[t]) \subseteq heap \ Range(q)
    BY <1>1, <1>4 DEF Shape, Private, Behind, At
  <2>2. own[t] \in Range(P[t])
    BY <2>1, PathRange
  <2>3. own[t] \in Nodes
    BY <2>1, <2>2 DEF TypeOK
  <2> QED BY <1>2, <1>3, <2>1, <2>2, <2>3, NullAssumption
<1> QED BY <1>2, <1>3, <1>4

(* Every step keeps the types.                                                *)
LEMMA TypingStep ==
  ASSUME TypeOK, Reads, [Next]_vars
  PROVE  TypeOK'
<1> SUFFICES ASSUME NEW t \in Threads, Enqueue(t) \/ Dequeue(t)
             PROVE  TypeOK'
  BY DEF Next, TypeOK, vars, shared, local
<1> USE NullAssumption DEF TypeOK, Pcs, Unlinked, Linking, Gated, Cell, NoCell, shared, local
<1>1. ASSUME NEW v \in Values, EnqNew(t, v) PROVE TypeOK'
  BY <1>1 DEF Reads, EnqNew, Goto, Call
<1>2. ASSUME EnqInit(t) PROVE TypeOK'
  BY <1>2 DEF Reads, EnqInit, Goto
<1>3. ASSUME EnqID(t) PROVE TypeOK'
  BY <1>3 DEF Reads, EnqID, ReadTailID, Goto
<1>4. ASSUME EnqNode(t) PROVE TypeOK'
  BY <1>4 DEF Reads, EnqNode, ReadTailNode, Goto
<1>5. ASSUME EnqNext(t) PROVE TypeOK'
  BY <1>5 DEF Reads, EnqNext, ReadTailNext, ReadNode, Goto
<1>6. ASSUME EnqCheck(t) PROVE TypeOK'
  BY <1>6 DEF Reads, EnqCheck, Goto
<1>7. ASSUME EnqLink(t) PROVE TypeOK'
  BY <1>7 DEF Reads, EnqLink, ReadNode
<1>8. ASSUME EnqSwing(t) PROVE TypeOK'
  BY <1>8 DEF Reads, EnqSwing, CASTail, Goto
<1>9. ASSUME EnqHelp(t) PROVE TypeOK'
  BY <1>9 DEF Reads, EnqHelp, Help, CASTail, Goto
<1>10. ASSUME EnqCount(t) PROVE TypeOK'
  BY <1>10 DEF Reads, EnqCount, Return, Goto
<1>11. ASSUME DeqGate(t) PROVE TypeOK'
  BY <1>11 DEF Reads, DeqGate, Goto, Call
<1>12. ASSUME DeqUndo(t) PROVE TypeOK'
  BY <1>12 DEF Reads, DeqUndo, Goto
<1>13. ASSUME DeqHeadID(t) PROVE TypeOK'
  BY <1>13 DEF Reads, DeqHeadID, Goto
<1>14. ASSUME DeqHeadNode(t) PROVE TypeOK'
  BY <1>14 DEF Reads, DeqHeadNode, Goto
<1>15. ASSUME DeqHeadNext(t) PROVE TypeOK'
  BY <1>15 DEF Reads, DeqHeadNext, Goto, ReadNode
<1>16. ASSUME DeqTailID(t) PROVE TypeOK'
  BY <1>16 DEF Reads, DeqTailID, ReadTailID, Goto
<1>17. ASSUME DeqTailNode(t) PROVE TypeOK'
  BY <1>17 DEF Reads, DeqTailNode, ReadTailNode, Goto
<1>18. ASSUME DeqTailNext(t) PROVE TypeOK'
  BY <1>18 DEF Reads, DeqTailNext, ReadTailNext, ReadNode, Goto
<1>19. ASSUME DeqCheck(t) PROVE TypeOK'
  BY <1>19 DEF Reads, DeqCheck, Goto
<1>20. ASSUME DeqHelp(t) PROVE TypeOK'
  BY <1>20 DEF Reads, DeqHelp, Help, CASTail, Goto
<1>21. ASSUME DeqHead(t) PROVE TypeOK'
  BY <1>21 DEF Reads, DeqHead, Goto
<1>22. ASSUME DeqVal(t) PROVE TypeOK'
  BY <1>22 DEF Reads, DeqVal, Goto, ReadNode
<1>23. ASSUME DeqCAS(t) PROVE TypeOK'
  <2>1. CASE ht[t] = head
    <3>1. hn[t] \in Nodes /\ ht[t].node \in Nodes /\ head.id + 1 \in Nat
      BY <1>23, <2>1 DEF Reads, DeqCAS, Goto
    <3>2. head' \in [node : Nodes, id : Nat]
      BY <1>23, <2>1, <3>1 DEF DeqCAS
    <3>3. own' \in [Threads -> Nodes \cup {NULL}]
      BY <1>23, <2>1, <3>1 DEF DeqCAS
    <3>4. pc' \in [Threads -> Pcs]
      BY <1>23, <2>1 DEF DeqCAS, Goto
    <3> QED BY <1>23, <2>1, <3>2, <3>3, <3>4 DEF DeqCAS
  <2>2. CASE ht[t] # head
    BY <1>23, <2>2 DEF DeqCAS, Goto
  <2> QED BY <2>1, <2>2
<1>24. ASSUME DeqDelete(t) PROVE TypeOK'
  BY <1>24 DEF Reads, DeqDelete, Goto, Return
<1> QED
  BY <1>1, <1>2, <1>3, <1>4, <1>5, <1>6, <1>7, <1>8, <1>9, <1>10, <1>11, <1>12, <1>13,
     <1>14, <1>15, <1>16, <1>17, <1>18, <1>19, <1>20, <1>21, <1>22, <1>23, <1>24 DEF
     Enqueue, Dequeue

(* A copy that still is the pair was read whole, whatever step is taken.            *)
LEMMA ReadsStep ==
  ASSUME TypeOK, Reads, Heads, Shaped, [Next]_vars
  PROVE  Reads'
<1>0. /\ TypeOK'
      /\ head.node \in heap /\ tail.node \in heap
      /\ next[head.node] # NULL => next[head.node] \in heap
      /\ next[tail.node] # head.node
      /\ \A u \in At(Unlinked) :
           own[u] \in heap /\ own[u] \notin {head.node, tail.node, next[head.node]}
  BY Known, TypingStep
<1> SUFFICES ASSUME NEW t \in Threads, Enqueue(t) \/ Dequeue(t)
             PROVE  Reads'
  BY DEF Next, Reads, vars, shared, local
<1> USE NullAssumption DEF At, TypeOK, Pcs, Unlinked, Linking, Gated, Cell, NoCell, shared, local
<1>1. ASSUME NEW v \in Values, EnqNew(t, v) PROVE Reads'
  BY <1>0, <1>1 DEF Reads, EnqNew, Goto, Call
<1>2. ASSUME EnqInit(t) PROVE Reads'
  BY <1>0, <1>2 DEF Reads, EnqInit, Goto
<1>3. ASSUME EnqID(t) PROVE Reads'
  BY <1>0, <1>3 DEF Reads, EnqID, ReadTailID, Goto
<1>4. ASSUME EnqNode(t) PROVE Reads'
  BY <1>0, <1>4 DEF Reads, EnqNode, ReadTailNode, Goto
<1>5. ASSUME EnqNext(t) PROVE Reads'
  BY <1>0, <1>5 DEF Reads, EnqNext, ReadTailNext, ReadNode, Goto
<1>6. ASSUME EnqCheck(t) PROVE Reads'
  BY <1>0, <1>6 DEF Reads, EnqCheck, Goto
<1>7. ASSUME EnqLink(t) PROVE Reads'
  BY <1>0, <1>7 DEF Reads, EnqLink, ReadNode
<1>8. ASSUME EnqSwing(t) PROVE Reads'
  BY <1>0, <1>8 DEF Reads, EnqSwing, CASTail, Goto
<1>9. ASSUME EnqHelp(t) PROVE Reads'
  BY <1>0, <1>9 DEF Reads, EnqHelp, Help, CASTail, Goto
<1>10. ASSUME EnqCount(t) PROVE Reads'
  BY <1>0, <1>10 DEF Reads, EnqCount, Return, Goto
<1>11. ASSUME DeqGate(t) PROVE Reads'
  BY <1>0, <1>11 DEF Reads, DeqGate, Goto, Call
<1>12. ASSUME DeqUndo(t) PROVE Reads'
  BY <1>0, <1>12 DEF Reads, DeqUndo, Goto
<1>13. ASSUME DeqHeadID(t) PROVE Reads'
  BY <1>0, <1>13 DEF Reads, DeqHeadID, Goto
<1>14. ASSUME DeqHeadNode(t) PROVE Reads'
  BY <1>0, <1>14 DEF Reads, DeqHeadNode, Goto
<1>15. ASSUME DeqHeadNext(t) PROVE Reads'
  BY <1>0, <1>15 DEF Reads, DeqHeadNext, Goto, ReadNode
<1>16. ASSUME DeqTailID(t) PROVE Reads'
  BY <1>0, <1>16 DEF Reads, DeqTailID, ReadTailID, Goto
<1>17. ASSUME DeqTailNode(t) PROVE Reads'
  BY <1>0, <1>17 DEF Reads, DeqTailNode, ReadTailNode, Goto
<1>18. ASSUME DeqTailNext(t) PROVE Reads'
  BY <1>0, <1>18 DEF Reads, DeqTailNext, ReadTailNext, ReadNode, Goto
<1>19. ASSUME DeqCheck(t) PROVE Reads'
  BY <1>0, <1>19 DEF Reads, DeqCheck, Goto
<1>20. ASSUME DeqHelp(t) PROVE Reads'
  BY <1>0, <1>20 DEF Reads, DeqHelp, Help, CASTail, Goto
<1>21. ASSUME DeqHead(t) PROVE Reads'
  BY <1>0, <1>21 DEF Reads, DeqHead, Goto
<1>22. ASSUME DeqVal(t) PROVE Reads'
  BY <1>0, <1>22 DEF Reads, DeqVal, Goto, ReadNode
<1>23. ASSUME DeqCAS(t) PROVE Reads'
  BY <1>0, <1>23 DEF Reads, DeqCAS, Goto
<1>24. ASSUME DeqDelete(t) PROVE Reads'
  BY <1>0, <1>24 DEF Reads, DeqDelete, Goto, Return
<1> QED
  BY <1>1, <1>2, <1>3, <1>4, <1>5, <1>6, <1>7, <1>8, <1>9, <1>10, <1>11, <1>12, <1>13,
     <1>14, <1>15, <1>16, <1>17, <1>18, <1>19, <1>20, <1>21, <1>22, <1>23, <1>24 DEF
     Enqueue, Dequeue

(* What a Dequeue knows of the head stays true until the head moves.                *)
LEMMA HeadsStep ==
  ASSUME TypeOK, Reads, Heads, Shaped, [Next]_vars
  PROVE  Heads'
<1>0. /\ TypeOK'
      /\ head.node \in heap /\ tail.node \in heap
      /\ next[head.node] # NULL => next[head.node] \in heap
      /\ next[tail.node] # head.node
      /\ \A u \in At(Unlinked) :
           own[u] \in heap /\ own[u] \notin {head.node, tail.node, next[head.node]}
  BY Known, TypingStep
<1> SUFFICES ASSUME NEW t \in Threads, Enqueue(t) \/ Dequeue(t)
             PROVE  Heads'
  BY DEF Next, Heads, vars, shared, local
<1> USE NullAssumption DEF At, TypeOK, Pcs, Unlinked, Linking, Gated, Cell, NoCell, shared, local
<1>1. ASSUME NEW v \in Values, EnqNew(t, v) PROVE Heads'
  BY <1>0, <1>1 DEF Reads, Heads, EnqNew, Goto, Call
<1>2. ASSUME EnqInit(t) PROVE Heads'
  BY <1>0, <1>2 DEF Reads, Heads, EnqInit, Goto
<1>3. ASSUME EnqID(t) PROVE Heads'
  BY <1>0, <1>3 DEF Reads, Heads, EnqID, ReadTailID, Goto
<1>4. ASSUME EnqNode(t) PROVE Heads'
  BY <1>0, <1>4 DEF Reads, Heads, EnqNode, ReadTailNode, Goto
<1>5. ASSUME EnqNext(t) PROVE Heads'
  BY <1>0, <1>5 DEF Reads, Heads, EnqNext, ReadTailNext, ReadNode, Goto
<1>6. ASSUME EnqCheck(t) PROVE Heads'
  BY <1>0, <1>6 DEF Reads, Heads, EnqCheck, Goto
<1>7. ASSUME EnqLink(t) PROVE Heads'
  BY <1>0, <1>7 DEF Reads, Heads, EnqLink, ReadNode
<1>8. ASSUME EnqSwing(t) PROVE Heads'
  BY <1>0, <1>8 DEF Reads, Heads, EnqSwing, CASTail, Goto
<1>9. ASSUME EnqHelp(t) PROVE Heads'
  BY <1>0, <1>9 DEF Reads, Heads, EnqHelp, Help, CASTail, Goto
<1>10. ASSUME EnqCount(t) PROVE Heads'
  BY <1>0, <1>10 DEF Reads, Heads, EnqCount, Return, Goto
<1>11. ASSUME DeqGate(t) PROVE Heads'
  BY <1>0, <1>11 DEF Reads, Heads, DeqGate, Goto, Call
<1>12. ASSUME DeqUndo(t) PROVE Heads'
  BY <1>0, <1>12 DEF Reads, Heads, DeqUndo, Goto
<1>13. ASSUME DeqHeadID(t) PROVE Heads'
  BY <1>0, <1>13 DEF Reads, Heads, DeqHeadID, Goto
<1>14. ASSUME DeqHeadNode(t) PROVE Heads'
  BY <1>0, <1>14 DEF Reads, Heads, DeqHeadNode, Goto
<1>15. ASSUME DeqHeadNext(t) PROVE Heads'
  BY <1>0, <1>15 DEF Reads, Heads, DeqHeadNext, Goto, ReadNode
<1>16. ASSUME DeqTailID(t) PROVE Heads'
  BY <1>0, <1>16 DEF Reads, Heads, DeqTailID, ReadTailID, Goto
<1>17. ASSUME DeqTailNode(t) PROVE Heads'
  BY <1>0, <1>17 DEF Reads, Heads, DeqTailNode, ReadTailNode, Goto
<1>18. ASSUME DeqTailNext(t) PROVE Heads'
  BY <1>0, <1>18 DEF Reads, Heads, DeqTailNext, ReadTailNext, ReadNode, Goto
<1>19. ASSUME DeqCheck(t) PROVE Heads'
  BY <1>0, <1>19 DEF Reads, Heads, DeqCheck, Goto
<1>20. ASSUME DeqHelp(t) PROVE Heads'
  BY <1>0, <1>20 DEF Reads, Heads, DeqHelp, Help, CASTail, Goto
<1>21. ASSUME DeqHead(t) PROVE Heads'
  BY <1>0, <1>21 DEF Reads, Heads, DeqHead, Goto
<1>22. ASSUME DeqVal(t) PROVE Heads'
  BY <1>0, <1>22 DEF Reads, Heads, DeqVal, Goto, ReadNode
<1>23. ASSUME DeqCAS(t) PROVE Heads'
  BY <1>0, <1>23 DEF Reads, Heads, DeqCAS, Goto
<1>24. ASSUME DeqDelete(t) PROVE Heads'
  BY <1>0, <1>24 DEF Reads, Heads, DeqDelete, Goto, Return
<1> QED
  BY <1>1, <1>2, <1>3, <1>4, <1>5, <1>6, <1>7, <1>8, <1>9, <1>10, <1>11, <1>12, <1>13,
     <1>14, <1>15, <1>16, <1>17, <1>18, <1>19, <1>20, <1>21, <1>22, <1>23, <1>24 DEF
     Enqueue, Dequeue

------------------------------------------------------------------------------
(* What a step does to the shape. *)

(* A step of t that neither allocates, links, unlinks nor deletes a node.      *)
Quiet(t, q) ==
  /\ reuse' = reuse /\ heap' = heap /\ next' = next /\ head' = head
  /\ tail'.node \in Range(q)
  /\ \A u \in Threads \ {t} : pc'[u] = pc[u] /\ own'[u] = own[u] /\ tt'[u] = tt[u]
  /\ pc[t] \in Unlinked <=> pc'[t] \in Unlinked
  /\ pc[t] \in Unlinked => own'[t] = own[t]
  /\ pc'[t] # "deqDelete"
  /\ pc'[t] \in TailRead =>
       tt'[t].node = tail.node \/ (pc[t] \in TailRead /\ tt'[t] = tt[t])

LEMMA ShapeKept ==
  ASSUME NEW q \in Seq(Nodes), NEW P \in [Threads -> Seq(Nodes)], NEW R \in SUBSET (Nodes \X Nodes),
         Shape(q, P, R), TypeOK, TypeOK',
         NEW t \in Threads, Quiet(t, q)
  PROVE  Shape(q, P, R)'
<1> USE DEF Quiet
<1>1. Main(q)'
  BY DEF Shape, Main
<1>2. /\ \A u \in Threads : u \in At(Unlinked)' <=> u \in At(Unlinked)
      /\ \A u \in At(Unlinked) : own'[u] = own[u]
      /\ \A u \in At({"deqDelete"})' : u \in At({"deqDelete"}) /\ own'[u] = own[u]
      /\ \A u \in At(TailRead)' :
           /\ own'[u] = own[u] /\ u \in At(Unlinked)
           /\ (u \in At(TailRead) /\ tt'[u] = tt[u]) \/ tt'[u].node = tail.node
  BY DEF At, Unlinked, TailRead
<1>3. tail.node \in Range(q) /\ tail.node \in Nodes
  BY DEF Shape, Main, TypeOK
<1>4. Ages(R)
  BY DEF Shape
<1>5. Private(q, P, R)'
  <2> SUFFICES ASSUME NEW w \in At(Unlinked)'
      PROVE  Behind(w, q, P, R)'
    BY DEF Private
  <2>1. w \in At(Unlinked) /\ own'[w] = own[w]
    BY <1>2 DEF At
  <2>2. /\ Path(P[w], own[w], next) /\ Range(P[w]) \subseteq heap \ Range(q)
        /\ \A y \in Range(P[w]) : y = own[w] \/ <<y, own[w]>> \in R
        /\ \A u \in At(Unlinked) : u # w => Range(P[w]) \cap Range(P[u]) = {}
        /\ \A u \in At(TailRead) : tt[u].node \in Range(P[w]) => <<own[u], tt[u].node>> \in R
        /\ ~reuse => P[w] = <<own[w]>> /\ \A u \in At(TailRead) : tt[u].node # own[w]
    BY <2>1 DEF Shape, Private, Behind
  <2>3. own[w] \in Range(P[w])
    BY <2>1, <2>2, PathRange DEF At
  <2>4. \A u \in At(TailRead)' : tt'[u].node \in Range(P[w]) => <<own'[u], tt'[u].node>> \in R
    BY <1>2, <1>3, <2>2
  <2>5. ~reuse' => P[w] = <<own'[w]>> /\ \A u \in At(TailRead)' : tt'[u].node # own'[w]
    BY <1>2, <1>3, <2>1, <2>2, <2>3
  <2>6. \A u \in At(Unlinked)' : u # w => Range(P[w]) \cap Range(P[u]) = {}
    BY <1>2, <2>2 DEF At
  <2> QED BY <2>1, <2>2, <2>4, <2>5, <2>6 DEF Behind
<1>6. Doomed(q, P)'
  <2> SUFFICES ASSUME NEW w \in At({"deqDelete"})'
               PROVE  Going(w, q, P)'
    BY DEF Doomed
  <2>1. w \in At({"deqDelete"}) /\ own'[w] = own[w]
    BY <1>2
  <2>2. /\ own[w] \in heap \ Range(q)
        /\ \A u \in At(Unlinked) : own[w] \notin Range(P[u])
        /\ \A u \in At({"deqDelete"}) : own[u] = own[w] => u = w
    BY <2>1 DEF Shape, Doomed, Going
  <2>3. \A u \in At(Unlinked)' : u \in At(Unlinked)
    BY <1>2 DEF At
  <2> QED BY <1>2, <2>1, <2>2, <2>3 DEF Going
<1>7. Stale(q)'
  <2> SUFFICES ASSUME NEW w \in At(TailRead)'
      PROVE  tt'[w].node \in Nodes /\ (~reuse' => tt'[w].node \in Range(q) \/ next'[tt'[w].node] # NULL)
    BY DEF Stale
  <2> QED BY <1>2, <1>3 DEF Shape, Stale
<1> QED BY <1>1, <1>4, <1>5, <1>6, <1>7 DEF Shape

LEMMA QuietSteps ==
  ASSUME TypeOK, Reads, NEW q \in Seq(Nodes), Main(q), NEW t \in Threads,
         \/ EnqID(t) \/ EnqNode(t) \/ EnqNext(t) \/ EnqCheck(t)
         \/ EnqLink(t) /\ pc'[t] # "enqSwing"
         \/ EnqSwing(t) \/ EnqHelp(t) \/ EnqCount(t)
         \/ DeqGate(t) \/ DeqUndo(t) \/ DeqHeadID(t) \/ DeqHeadNode(t) \/ DeqHeadNext(t)
         \/ DeqTailID(t) \/ DeqTailNode(t) \/ DeqTailNext(t) \/ DeqCheck(t) \/ DeqHelp(t)
         \/ DeqHead(t) \/ DeqVal(t)
         \/ DeqCAS(t) /\ ht[t] # head
  PROVE  Quiet(t, q)
<1>0. tail.node \in Range(q) /\ (next[tail.node] # NULL => next[tail.node] \in Range(q))
  BY PathRange DEF Main
<1> USE DEF Quiet, TypeOK, Unlinked, TailRead, shared, local
<1>1. ASSUME EnqID(t) PROVE Quiet(t, q)
  BY <1>0, <1>1 DEF Reads, EnqID, ReadTailID, Goto
<1>2. ASSUME EnqNode(t) PROVE Quiet(t, q)
  BY <1>0, <1>2 DEF Reads, EnqNode, ReadTailNode, Goto
<1>3. ASSUME EnqNext(t) PROVE Quiet(t, q)
  BY <1>0, <1>3 DEF Reads, EnqNext, ReadTailNext, ReadNode, Goto
<1>4. ASSUME EnqCheck(t) PROVE Quiet(t, q)
  BY <1>0, <1>4 DEF Reads, EnqCheck, Goto
<1>5. ASSUME EnqLink(t), pc'[t] # "enqSwing" PROVE Quiet(t, q)
  BY <1>0, <1>5 DEF Reads, EnqLink, ReadNode
<1>6. ASSUME EnqSwing(t) PROVE Quiet(t, q)
  <2>1. tt[t] = tail => own[t] \in Range(q)
    BY <1>0, <1>6, NullAssumption DEF Reads, EnqSwing, Goto
  <2>2. tail'.node \in Range(q)
    BY <1>0, <1>6, <2>1 DEF EnqSwing, CASTail
  <2> QED BY <1>6, <2>2 DEF EnqSwing, Goto
<1>7. ASSUME EnqHelp(t) PROVE Quiet(t, q)
  BY <1>0, <1>7 DEF Reads, EnqHelp, Help, CASTail, Goto
<1>8. ASSUME EnqCount(t) PROVE Quiet(t, q)
  BY <1>0, <1>8 DEF Reads, EnqCount, Return, Goto
<1>9. ASSUME DeqGate(t) PROVE Quiet(t, q)
  BY <1>0, <1>9 DEF Reads, DeqGate, Goto, Call
<1>10. ASSUME DeqUndo(t) PROVE Quiet(t, q)
  BY <1>0, <1>10 DEF Reads, DeqUndo, Goto
<1>11. ASSUME DeqHeadID(t) PROVE Quiet(t, q)
  BY <1>0, <1>11 DEF Reads, DeqHeadID, Goto
<1>12. ASSUME DeqHeadNode(t) PROVE Quiet(t, q)
  BY <1>0, <1>12 DEF Reads, DeqHeadNode, Goto
<1>13. ASSUME DeqHeadNext(t) PROVE Quiet(t, q)
  BY <1>0, <1>13 DEF Reads, DeqHeadNext, Goto, ReadNode
<1>14. ASSUME DeqTailID(t) PROVE Quiet(t, q)
  BY <1>0, <1>14 DEF Reads, DeqTailID, ReadTailID, Goto
<1>15. ASSUME DeqTailNode(t) PROVE Quiet(t, q)
  BY <1>0, <1>15 DEF Reads, DeqTailNode, ReadTailNode, Goto
<1>16. ASSUME DeqTailNext(t) PROVE Quiet(t, q)
  BY <1>0, <1>16 DEF Reads, DeqTailNext, ReadTailNext, ReadNode, Goto
<1>17. ASSUME DeqCheck(t) PROVE Quiet(t, q)
  BY <1>0, <1>17 DEF Reads, DeqCheck, Goto
<1>18. ASSUME DeqHelp(t) PROVE Quiet(t, q)
  BY <1>0, <1>18 DEF Reads, DeqHelp, Help, CASTail, Goto
<1>19. ASSUME DeqHead(t) PROVE Quiet(t, q)
  BY <1>0, <1>19 DEF Reads, DeqHead, Goto
<1>20. ASSUME DeqVal(t) PROVE Quiet(t, q)
  BY <1>0, <1>20 DEF Reads, DeqVal, Goto, ReadNode
<1>21. ASSUME DeqCAS(t), ht[t] # head PROVE Quiet(t, q)
  BY <1>0, <1>21 DEF Reads, DeqCAS, Goto
<1> QED
  BY <1>1, <1>2, <1>3, <1>4, <1>5, <1>6, <1>7, <1>8, <1>9, <1>10, <1>11, <1>12, <1>13,
     <1>14, <1>15, <1>16, <1>17, <1>18, <1>19, <1>20, <1>21

(* A new node leads nowhere, and every other node is older.                   *)
LEMMA NewShape ==
  ASSUME NEW q \in Seq(Nodes), NEW P \in [Threads -> Seq(Nodes)], NEW R \in SUBSET (Nodes \X Nodes),
         Shape(q, P, R), TypeOK, NEW t \in Threads, NEW v \in Values, EnqNew(t, v)
  PROVE  \E P2 \in [Threads -> Seq(Nodes)], R2 \in SUBSET (Nodes \X Nodes) : Shape(q, P2, R2)'
<1>1. PICK n \in Nodes \ heap :
        /\ reuse \/ n \notin HeldTails
        /\ heap' = heap \cup {n}
        /\ next' = [next EXCEPT ![n] = NULL]
        /\ own' = [own EXCEPT ![t] = n]
  BY DEF EnqNew
<1>2. /\ reuse' = reuse /\ head' = head /\ tail' = tail /\ tt' = tt
      /\ pc[t] = "idle" /\ pc' = [pc EXCEPT ![t] = "enqInit"]
  BY DEF EnqNew, Goto
<1>3. /\ own'[t] = n /\ \A u \in Threads \ {t} : own'[u] = own[u] /\ pc'[u] = pc[u]
      /\ pc'[t] = "enqInit" /\ n \in Nodes /\ next \in [Nodes -> Nodes \cup {NULL}]
      /\ next'[n] = NULL /\ \A x \in Nodes : x # n => next'[x] = next[x]
  BY <1>1, <1>2 DEF TypeOK
<1> DEFINE P2 == [P EXCEPT ![t] = <<n>>]
           R2 == {e \in R : e[1] # n /\ e[2] # n} \cup (Nodes \ {n}) \X {n}
<1>4. /\ P2 \in [Threads -> Seq(Nodes)] /\ P2[t] = <<n>>
      /\ \A u \in Threads : u # t => P2[u] = P[u]
  BY <1>1
<1>5. /\ R2 \in SUBSET (Nodes \X Nodes)
      /\ \A x, y \in Nodes : <<x, y>> \in R2 <=> IF y = n THEN x # n
                                                 ELSE x # n /\ <<x, y>> \in R
  BY <1>1
<1> HIDE DEF P2, R2
<1>6. /\ \A u \in Threads : u \in At(Unlinked)' <=> u = t \/ u \in At(Unlinked)
      /\ t \notin At(Unlinked)
      /\ \A u \in At(TailRead)' : u \in At(TailRead) /\ u \in At(Unlinked) /\ u # t
      /\ \A u \in At({"deqDelete"})' : u \in At({"deqDelete"}) /\ u # t
  BY <1>2, <1>3 DEF At, Unlinked, TailRead
<1>7. Path(q, head.node, next) /\ Range(q) \subseteq heap /\ tail.node \in Range(q)
  BY DEF Shape, Main
<1>8. Path(<<n>>, n, next') /\ Range(<<n>>) = {n}
  BY <1>3, PathOne
<1>9. ~reuse => \A u \in At(TailRead) : tt[u].node # n
  <2>1. \A u \in At(TailRead) : tt[u].node \in HeldTails
    BY DEF At, TailRead, HeldTails
  <2> QED BY <1>1, <2>1
<1>10. Main(q)'
  <2>1. n \notin Range(q)
    BY <1>1, <1>7
  <2>2. Path(q, head.node, [next EXCEPT ![n] = NULL])
    BY <1>3, <1>7, <2>1, PathWrite
  <2> QED BY <1>1, <1>2, <1>7, <2>2 DEF Main
<1>11. Ages(R2)
  BY <1>5 DEF Shape, Ages
<1>12. ASSUME NEW w \in At(Unlinked)
       PROVE  /\ Path(P[w], own[w], next') /\ Range(P[w]) \subseteq heap \ Range(q)
              /\ own[w] \in heap /\ own[w] \in Nodes /\ Range(P[w]) \subseteq Nodes
              /\ n \notin Range(P[w])
  <2>1. P[w] \in Seq(Nodes) /\ Path(P[w], own[w], next) /\ Range(P[w]) \subseteq heap \ Range(q)
    BY DEF Shape, Private, Behind, At
  <2>2. own[w] \in Range(P[w])
    BY <2>1, PathRange
  <2>3. Path(P[w], own[w], [next EXCEPT ![n] = NULL])
    BY <1>1, <1>3, <2>1, PathWrite
  <2> QED BY <1>1, <2>1, <2>2, <2>3 DEF TypeOK
<1>13. Private(q, P2, R2)'
  <2>1. ASSUME NEW w \in At(Unlinked)
        PROVE  Behind(w, q, P2, R2)'
    <3>1. w # t /\ w \in Threads /\ P2[w] = P[w] /\ own'[w] = own[w]
      BY <1>3, <1>4, <1>6 DEF At
    <3>2. /\ \A y \in Range(P[w]) : y = own[w] \/ <<y, own[w]>> \in R
          /\ \A u \in At(Unlinked) : u # w => Range(P[w]) \cap Range(P[u]) = {}
          /\ \A u \in At(TailRead) : tt[u].node \in Range(P[w]) => <<own[u], tt[u].node>> \in R
          /\ ~reuse => P[w] = <<own[w]>> /\ \A u \in At(TailRead) : tt[u].node # own[w]
      BY DEF Shape, Private, Behind
    <3>3. \A y \in Range(P[w]) : y = own[w] \/ <<y, own[w]>> \in R2
      BY <1>1, <1>5, <1>12, <3>2
    <3>4. ASSUME NEW u \in At(Unlinked)', u # w PROVE Range(P[w]) \cap Range(P2[u]) = {}
      <4>1. CASE u = t
        BY <1>4, <1>8, <1>12, <4>1
      <4>2. CASE u # t
        BY <1>4, <1>6, <3>2, <3>4, <4>2 DEF At
      <4> QED BY <4>1, <4>2
    <3>5. ASSUME NEW u \in At(TailRead)', tt'[u].node \in Range(P[w])
          PROVE  <<own'[u], tt'[u].node>> \in R2
      <4>1. u \in At(TailRead) /\ own'[u] = own[u] /\ u \in At(Unlinked) /\ tt'[u] = tt[u]
        BY <1>2, <1>3, <1>6 DEF At
      <4>2. <<own[u], tt[u].node>> \in R
        BY <3>2, <3>5, <4>1
      <4>3. own[u] # n /\ own[u] \in Nodes /\ tt[u].node \in Nodes /\ tt[u].node # n
        BY <1>1, <1>12, <3>5, <4>1
      <4> QED BY <1>5, <4>1, <4>2, <4>3
    <3>6. ~reuse' => P[w] = <<own[w]>> /\ \A u \in At(TailRead)' : tt'[u].node # own[w]
      BY <1>2, <1>6, <3>2
    <3>7. Range(P[w]) \subseteq heap' \ Range(q)
      BY <1>1, <1>12
    <3> QED BY <1>12, <3>1, <3>3, <3>4, <3>5, <3>6, <3>7 DEF Behind
  <2>2. Behind(t, q, P2, R2)'
    <3>1. P2[t] = <<n>> /\ Range(P2[t]) = {n} /\ own'[t] = n /\ Path(P2[t], own'[t], next')
      BY <1>3, <1>4, <1>8
    <3>2. Range(P2[t]) \subseteq heap' \ Range(q)
      BY <1>1, <1>7, <3>1
    <3>3. \A u \in At(Unlinked)' : u # t => Range(P2[t]) \cap Range(P2[u]) = {}
      BY <1>4, <1>6, <1>12, <3>1 DEF At
    <3>4. ASSUME NEW u \in At(TailRead)', tt'[u].node = n
          PROVE  <<own'[u], n>> \in R2
      <4>1. own'[u] = own[u] /\ own[u] \in heap /\ own[u] \in Nodes
        BY <1>3, <1>6, <1>12 DEF At
      <4> QED BY <1>1, <1>5, <4>1
    <3>5. ~reuse' => \A u \in At(TailRead)' : tt'[u].node # n
      BY <1>2, <1>6, <1>9
    <3> QED BY <3>1, <3>2, <3>3, <3>4, <3>5 DEF Behind
  <2> QED BY <1>6, <2>1, <2>2 DEF Private, At
<1>14. Doomed(q, P2)'
  <2> SUFFICES ASSUME NEW w \in At({"deqDelete"})'
               PROVE  Going(w, q, P2)'
    BY DEF Doomed
  <2>1. /\ w \in At({"deqDelete"}) /\ own'[w] = own[w]
        /\ \A u \in At({"deqDelete"})' : u \in At({"deqDelete"}) /\ own'[u] = own[u]
    BY <1>3, <1>6 DEF At
  <2>2. /\ own[w] \in heap \ Range(q)
        /\ \A u \in At(Unlinked) : own[w] \notin Range(P[u])
        /\ \A u \in At({"deqDelete"}) : own[u] = own[w] => u = w
    BY <2>1 DEF Shape, Doomed, Going
  <2>3. ASSUME NEW u \in At(Unlinked)' PROVE own[w] \notin Range(P2[u])
    <3>1. CASE u = t
      BY <1>1, <1>4, <1>8, <2>2, <3>1
    <3>2. CASE u # t
      BY <1>4, <1>6, <2>2, <3>2 DEF At
    <3> QED BY <3>1, <3>2
  <2> QED BY <1>1, <2>1, <2>2, <2>3 DEF Going
<1>15. Stale(q)'
  <2> SUFFICES ASSUME NEW w \in At(TailRead)'
      PROVE  tt'[w].node \in Nodes /\ (~reuse' => tt'[w].node \in Range(q) \/ next'[tt'[w].node] # NULL)
    BY DEF Stale
  <2>1. w \in At(TailRead) /\ tt'[w] = tt[w]
    BY <1>2, <1>6
  <2>2. tt[w].node \in Nodes /\ (~reuse => tt[w].node \in Range(q) \/ next[tt[w].node] # NULL)
    BY <2>1 DEF Shape, Stale
  <2> QED BY <1>2, <1>3, <1>9, <2>1, <2>2
<1>16. Shape(q, P2, R2)'
  BY <1>10, <1>11, <1>13, <1>14, <1>15 DEF Shape
<1> QED BY <1>4, <1>5, <1>16

(* Clearing pNext of a node that is not linked cuts what is behind it.        *)
LEMMA InitShape ==
  ASSUME NEW q \in Seq(Nodes), NEW P \in [Threads -> Seq(Nodes)], NEW R \in SUBSET (Nodes \X Nodes),
         Shape(q, P, R), TypeOK, NEW t \in Threads, EnqInit(t)
  PROVE  \E P2 \in [Threads -> Seq(Nodes)] : Shape(q, P2, R)'
<1>0. PICK o : o = own[t]
  OBVIOUS
<1> DEFINE P2 == [P EXCEPT ![t] = <<o>>]
<1>1. /\ reuse' = reuse /\ head' = head /\ tail' = tail /\ heap' = heap /\ tt' = tt /\ own' = own
      /\ next' = [next EXCEPT ![o] = NULL]
      /\ pc[t] = "enqInit" /\ pc' = [pc EXCEPT ![t] = "enqID"]
  BY <1>0 DEF EnqInit, Goto, shared, local
<1>2. /\ \A u \in Threads : u \in At(Unlinked)' <=> u \in At(Unlinked)
      /\ t \in At(Unlinked) /\ t \notin At(TailRead)
      /\ \A u \in At(TailRead)' : u \in At(TailRead) /\ u \in At(Unlinked) /\ u # t
      /\ \A u \in At({"deqDelete"})' : u \in At({"deqDelete"})
  BY <1>1 DEF At, Unlinked, TailRead, TypeOK
<1>3. Path(q, head.node, next) /\ Range(q) \subseteq heap /\ tail.node \in Range(q)
  BY DEF Shape, Main
<1>4. ASSUME NEW w \in At(Unlinked)
      PROVE  /\ P[w] \in Seq(Nodes) /\ Path(P[w], own[w], next) /\ Range(P[w]) \subseteq heap \ Range(q)
             /\ own[w] \in Range(P[w])
  <2>1. P[w] \in Seq(Nodes) /\ Path(P[w], own[w], next) /\ Range(P[w]) \subseteq heap \ Range(q)
    BY DEF Shape, Private, Behind, At
  <2> QED BY <2>1, PathRange
<1>5. o \in heap \ Range(q) /\ o \in Nodes /\ o \in Range(P[t])
  BY <1>0, <1>2, <1>4 DEF TypeOK
<1>6. next \in [Nodes -> Nodes \cup {NULL}] /\ next'[o] = NULL /\ \A x \in Nodes : x # o => next'[x] = next[x]
  BY <1>1, <1>5 DEF TypeOK
<1>7. /\ P2 \in [Threads -> Seq(Nodes)] /\ P2[t] = <<o>>
      /\ \A u \in Threads : u # t => P2[u] = P[u]
  BY <1>5
<1> HIDE DEF P2
<1>8. Path(<<o>>, o, next') /\ Range(<<o>>) = {o}
  BY <1>5, <1>6, PathOne
<1>9. Main(q)'
  <2>1. Path(q, head.node, [next EXCEPT ![o] = NULL])
    BY <1>3, <1>5, <1>6, PathWrite
  <2> QED BY <1>1, <1>3, <2>1 DEF Main
<1>10. Private(q, P2, R)'
  <2>1. ASSUME NEW w \in At(Unlinked), w # t PROVE Behind(w, q, P2, R)'
    <3>1. P2[w] = P[w] /\ own'[w] = own[w]
      BY <1>1, <1>7, <2>1 DEF At
    <3>2. Behind(w, q, P, R)
      BY DEF Shape, Private
    <3>3. o \notin Range(P[w])
      BY <1>2, <1>5, <2>1, <3>2 DEF Behind
    <3>4. Path(P[w], own[w], next')
      BY <1>1, <1>4, <1>6, <3>3, PathWrite
    <3>5. \A u \in At(Unlinked)' : u # w => Range(P[w]) \cap Range(P2[u]) = {}
      <4> SUFFICES ASSUME NEW u \in At(Unlinked)', u # w PROVE Range(P[w]) \cap Range(P2[u]) = {}
        OBVIOUS
      <4>1. CASE u = t
        BY <1>7, <1>8, <3>3, <4>1
      <4>2. CASE u # t
        BY <1>2, <1>7, <3>2, <4>2 DEF At, Behind
      <4> QED BY <4>1, <4>2
    <3> QED BY <1>1, <1>2, <3>1, <3>2, <3>4, <3>5 DEF Behind
  <2>2. Behind(t, q, P2, R)'
    <3>1. Behind(t, q, P, R)
      BY <1>2 DEF Shape, Private
    <3>2. P2[t] = <<o>> /\ Range(P2[t]) = {o} /\ own'[t] = o /\ Path(P2[t], own'[t], next')
      BY <1>0, <1>1, <1>7, <1>8
    <3>3. \A u \in At(Unlinked)' : u # t => Range(P2[t]) \cap Range(P2[u]) = {}
      BY <1>2, <1>5, <1>7, <3>1, <3>2 DEF At, Behind
    <3>4. \A u \in At(TailRead)' : tt'[u].node = o => <<own'[u], o>> \in R
      BY <1>0, <1>1, <1>2, <1>5, <3>1 DEF Behind
    <3>5. ~reuse' => \A u \in At(TailRead)' : tt'[u].node # o
      BY <1>0, <1>1, <1>2, <3>1 DEF Behind
    <3> QED BY <1>1, <1>5, <3>2, <3>3, <3>4, <3>5 DEF Behind
  <2> QED BY <1>2, <2>1, <2>2 DEF Private, At
<1>11. Doomed(q, P2)'
  <2> SUFFICES ASSUME NEW w \in At({"deqDelete"})' PROVE Going(w, q, P2)'
    BY DEF Doomed
  <2>1. Going(w, q, P)
    BY <1>2 DEF Shape, Doomed
  <2>2. \A u \in At(Unlinked) : own[w] \notin Range(P2[u])
    BY <1>2, <1>5, <1>7, <1>8, <2>1 DEF At, Going
  <2> QED BY <1>1, <1>2, <2>1, <2>2 DEF Going, At
<1>12. Stale(q)'
  <2> SUFFICES ASSUME NEW w \in At(TailRead)'
      PROVE  tt'[w].node \in Nodes /\ (~reuse' => tt'[w].node \in Range(q) \/ next'[tt'[w].node] # NULL)
    BY DEF Stale
  <2>1. tt[w].node \in Nodes /\ (~reuse => tt[w].node \in Range(q) \/ next[tt[w].node] # NULL)
    BY <1>2 DEF Shape, Stale
  <2>2. ~reuse => tt[w].node # o
    BY <1>0, <1>2 DEF Shape, Private, Behind
  <2> QED BY <1>1, <1>6, <2>1, <2>2
<1>13. Shape(q, P2, R)'
  BY <1>9, <1>10, <1>11, <1>12 DEF Shape, Ages
<1> QED BY <1>7, <1>13

(* The dummy node leaves the chain, and one thread holds it.                   *)
LEMMA TakeShape ==
  ASSUME NEW q \in Seq(Nodes), NEW P \in [Threads -> Seq(Nodes)], NEW R \in SUBSET (Nodes \X Nodes),
         Shape(q, P, R), TypeOK, Reads, Heads, NEW t \in Threads, DeqCAS(t), ht[t] = head
  PROVE  /\ Tail(q) \in Seq(Nodes) /\ Shape(Tail(q), P, R)'
         /\ Len(Tail(q)) = Len(q) - 1 /\ Len(q) >= 2 /\ hn[t] = q[2]
<1>1. /\ reuse' = reuse /\ tail' = tail /\ heap' = heap /\ next' = next /\ tt' = tt
      /\ head' = [node |-> hn[t], id |-> head.id + 1] /\ own' = [own EXCEPT ![t] = head.node]
      /\ pc[t] = "deqCAS" /\ pc' = [pc EXCEPT ![t] = "deqDelete"]
  BY DEF DeqCAS, Goto
<1>2. hn[t] # NULL /\ hn[t] = next[head.node] /\ tail.node # head.node
  BY <1>1 DEF Reads, Heads
<1>3. Path(q, head.node, next) /\ Range(q) \subseteq heap /\ tail.node \in Range(q)
  BY DEF Shape, Main
<1> DEFINE r == Tail(q)
<1>4. /\ r \in Seq(Nodes) /\ Path(r, hn[t], next) /\ Range(r) = Range(q) \ {head.node}
      /\ Len(r) = Len(q) - 1 /\ Len(q) >= 2 /\ hn[t] = q[2]
  BY <1>2, <1>3, PathPop
<1> HIDE DEF r
<1>5. head.node \in Range(q)
  BY <1>3, PathRange
<1>6. head'.node = hn[t]
  BY <1>1
<1>7. /\ \A u \in Threads : u \in At(Unlinked)' <=> u \in At(Unlinked)
      /\ \A u \in At(Unlinked) : own'[u] = own[u]
      /\ \A u \in At(TailRead)' : u \in At(TailRead) /\ own'[u] = own[u]
      /\ \A u \in At({"deqDelete"})' : u # t => u \in At({"deqDelete"}) /\ own'[u] = own[u]
      /\ own'[t] = head.node
  BY <1>1 DEF At, Unlinked, TailRead, TypeOK
<1>8. Main(r)'
  BY <1>1, <1>2, <1>3, <1>4, <1>6 DEF Main
<1>9. Private(r, P, R)'
  <2> SUFFICES ASSUME NEW w \in At(Unlinked)' PROVE Behind(w, r, P, R)'
    BY DEF Private
  <2>1. w \in At(Unlinked)
    BY <1>7 DEF At
  <2>2. Behind(w, q, P, R) /\ own'[w] = own[w]
    BY <1>7, <2>1 DEF Shape, Private
  <2>3. \A u \in At(Unlinked)' : u # w => Range(P[w]) \cap Range(P[u]) = {}
    BY <1>7, <2>2 DEF Behind, At
  <2> QED BY <1>1, <1>4, <1>7, <2>2, <2>3 DEF Behind
<1>10. Doomed(r, P)'
  <2>0. \A u \in At({"deqDelete"}) : Going(u, q, P)
    BY DEF Shape, Doomed
  <2>1. ASSUME NEW w \in At({"deqDelete"})', w # t PROVE Going(w, r, P)'
    <3>1. w \in At({"deqDelete"}) /\ own'[w] = own[w]
      BY <1>7, <2>1
    <3>2. Going(w, q, P)
      BY <2>0, <3>1
    <3>3. \A u \in At({"deqDelete"})' : own'[u] = own'[w] => u = w
      BY <1>5, <1>7, <3>1, <3>2 DEF Going
    <3> QED BY <1>1, <1>4, <1>7, <3>1, <3>2, <3>3 DEF Going, At
  <2>2. Going(t, r, P)'
    <3>1. own'[t] \in heap' \ Range(r)
      BY <1>1, <1>3, <1>4, <1>5, <1>7
    <3>2. \A u \in At(Unlinked)' : own'[t] \notin Range(P[u])
      BY <1>5, <1>7 DEF Shape, Private, Behind, At
    <3>3. \A u \in At({"deqDelete"})' : own'[u] = own'[t] => u = t
      BY <1>5, <1>7, <2>0 DEF Going
    <3> QED BY <3>1, <3>2, <3>3 DEF Going
  <2> QED BY <2>1, <2>2 DEF Doomed
<1>11. Stale(r)'
  <2> SUFFICES ASSUME NEW w \in At(TailRead)'
      PROVE  tt'[w].node \in Nodes /\ (~reuse' => tt'[w].node \in Range(r) \/ next'[tt'[w].node] # NULL)
    BY DEF Stale
  <2>1. tt[w].node \in Nodes /\ (~reuse => tt[w].node \in Range(q) \/ next[tt[w].node] # NULL)
    BY <1>7 DEF Shape, Stale
  <2> QED BY <1>1, <1>2, <1>4, <2>1
<1>12. Shape(r, P, R)'
  BY <1>8, <1>9, <1>10, <1>11 DEF Shape, Ages
<1> QED BY <1>4, <1>12 DEF r

(* The node that is deleted is no other's.                                    *)
LEMMA DeleteShape ==
  ASSUME NEW q \in Seq(Nodes), NEW P \in [Threads -> Seq(Nodes)], NEW R \in SUBSET (Nodes \X Nodes),
         Shape(q, P, R), TypeOK, NEW t \in Threads, DeqDelete(t)
  PROVE  Shape(q, P, R)'
<1>1. /\ reuse' = reuse /\ head' = head /\ tail' = tail /\ heap' = heap \ {own[t]} /\ next' = next
      /\ pc[t] = "deqDelete" /\ pc' = [pc EXCEPT ![t] = "idle"]
      /\ \A u \in Threads \ {t} : own'[u] = own[u] /\ tt'[u] = tt[u]
  BY DEF DeqDelete, Goto, Return, TypeOK
<1>2. /\ \A u \in Threads : u \in At(Unlinked)' <=> u \in At(Unlinked)
      /\ \A u \in At(Unlinked) : own'[u] = own[u]
      /\ \A u \in At(TailRead)' : u \in At(TailRead) /\ own'[u] = own[u] /\ tt'[u] = tt[u]
      /\ \A u \in At({"deqDelete"})' : u \in At({"deqDelete"}) /\ u # t /\ own'[u] = own[u]
      /\ t \in At({"deqDelete"})
  BY <1>1 DEF At, Unlinked, TailRead, TypeOK
<1>3. Going(t, q, P)
  BY <1>2 DEF Shape, Doomed
<1>4. Main(q)'
  BY <1>1, <1>3 DEF Shape, Main, Going
<1>5. Private(q, P, R)'
  <2> SUFFICES ASSUME NEW w \in At(Unlinked)' PROVE Behind(w, q, P, R)'
    BY DEF Private
  <2>1. w \in At(Unlinked)
    BY <1>2 DEF At
  <2>2. Behind(w, q, P, R) /\ own'[w] = own[w]
    BY <1>2, <2>1 DEF Shape, Private
  <2>3. \A u \in At(Unlinked)' : u # w => Range(P[w]) \cap Range(P[u]) = {}
    BY <1>2, <2>2 DEF Behind, At
  <2>4. own[t] \notin Range(P[w])
    BY <1>3, <2>1 DEF Going
  <2> QED BY <1>1, <1>2, <2>2, <2>3, <2>4 DEF Behind
<1>6. Doomed(q, P)'
  <2> SUFFICES ASSUME NEW w \in At({"deqDelete"})' PROVE Going(w, q, P)'
    BY DEF Doomed
  <2>1. Going(w, q, P) /\ own'[w] = own[w]
    BY <1>2 DEF Shape, Doomed
  <2>2. own[w] # own[t]
    BY <1>2, <1>3 DEF Going
  <2> QED BY <1>1, <1>2, <2>1, <2>2 DEF Going, At
<1>7. Stale(q)'
  BY <1>1, <1>2 DEF Shape, Stale
<1> QED BY <1>4, <1>5, <1>6, <1>7 DEF Shape, Ages

(* A node is linked behind the last one of the queue, or, when the address of  *)
(* the tail that was read has come back, behind a node of another Enqueue or   *)
(* one that nothing reaches.                                                   *)
LEMMA LinkShape ==
  ASSUME NEW q \in Seq(Nodes), NEW P \in [Threads -> Seq(Nodes)], NEW R \in SUBSET (Nodes \X Nodes),
         Shape(q, P, R), TypeOK, NEW t \in Threads, EnqLink(t), pc'[t] = "enqSwing"
  PROVE  \E q2 \in Seq(Nodes), P2 \in [Threads -> Seq(Nodes)] :
           /\ Shape(q2, P2, R)'
           /\ ~reuse => q2 = q \o <<own[t]>> /\ own[t] \notin Range(q)
<1>0. PICK o, x : o = own[t] /\ x = tt[t].node
  OBVIOUS
<1> DEFINE p == P[t]
<1>1. /\ reuse' = reuse /\ head' = head /\ tail' = tail /\ heap' = heap /\ tt' = tt /\ own' = own
      /\ next' = [next EXCEPT ![x] = o]
      /\ pc[t] = "enqLink" /\ pc' = [pc EXCEPT ![t] = "enqSwing"]
      /\ x \in heap \/ ~reuse => next[x] = NULL
  BY <1>0 DEF EnqLink, ReadNode, TypeOK, shared, local
<1>2. /\ \A u \in Threads : u \in At(Unlinked)' <=> u \in At(Unlinked) /\ u # t
      /\ t \in At(Unlinked) /\ t \in At(TailRead)
      /\ \A u \in At(TailRead)' : u \in At(TailRead) /\ u \in At(Unlinked) /\ u # t
      /\ \A u \in At({"deqDelete"})' : u \in At({"deqDelete"}) /\ u # t
  BY <1>1 DEF At, Unlinked, TailRead, TypeOK
<1>3. Path(q, head.node, next) /\ Range(q) \subseteq heap /\ tail.node \in Range(q)
  BY DEF Shape, Main
<1>4. ASSUME NEW w \in At(Unlinked)
      PROVE  /\ P[w] \in Seq(Nodes) /\ Path(P[w], own[w], next) /\ Range(P[w]) \subseteq heap \ Range(q)
             /\ own[w] \in Range(P[w]) /\ Behind(w, q, P, R) /\ own[w] \in Nodes
  <2>1. P[w] \in Seq(Nodes) /\ Path(P[w], own[w], next) /\ Range(P[w]) \subseteq heap \ Range(q)
    BY DEF Shape, Private, Behind, At
  <2>2. Behind(w, q, P, R)
    BY DEF Shape, Private
  <2>3. own[w] \in Range(P[w]) /\ Range(P[w]) \subseteq Nodes
    BY <2>1, PathRange
  <2> QED BY <2>1, <2>2, <2>3
<1>5. /\ p \in Seq(Nodes) /\ Path(p, o, next) /\ Range(p) \subseteq heap \ Range(q)
      /\ o \in Range(p) /\ o \in Nodes
  BY <1>0, <1>2, <1>4
<1>6. x \in Nodes /\ (~reuse => x \in Range(q) \/ next[x] # NULL)
  BY <1>0, <1>2 DEF Shape, Stale
<1>7. next \in [Nodes -> Nodes \cup {NULL}] /\ next'[x] = o /\ \A y \in Nodes : y # x => next'[y] = next[y]
  BY <1>1, <1>6 DEF TypeOK
<1>8. ASSUME NEW w \in At(Unlinked), w # t, x \notin Range(P[w])
      PROVE  Path(P[w], own'[w], next')
  BY <1>1, <1>4, <1>7, <1>8, PathWrite
<1>9. \A w \in At({"deqDelete"}) : Going(w, q, P)
  BY DEF Shape, Doomed
<1>10. CASE x \in Range(q)
  <2> DEFINE r == q \o p
  <2>1. next[x] = NULL
    BY <1>1, <1>3, <1>10
  <2>2. /\ r \in Seq(Nodes) /\ Path(r, head.node, [next EXCEPT ![x] = o])
        /\ Range(r) = Range(q) \cup Range(p)
    <3>1. Range(p) \cap Range(q) = {}
      BY <1>5
    <3> HIDE DEF p
    <3> QED BY <1>3, <1>5, <1>7, <1>10, <2>1, <3>1, PathJoin
  <2>3. ~reuse => r = q \o <<o>> /\ o \notin Range(q)
    BY <1>0, <1>2, <1>4, <1>5 DEF Behind
  <2> HIDE DEF r
  <2>4. Main(r)'
    BY <1>1, <1>3, <1>5, <2>2 DEF Main
  <2>5. Private(r, P, R)'
    <3> SUFFICES ASSUME NEW w \in At(Unlinked)' PROVE Behind(w, r, P, R)'
      BY DEF Private
    <3>1. w \in At(Unlinked) /\ w # t
      BY <1>2 DEF At
    <3>2. Behind(w, q, P, R) /\ own'[w] = own[w]
      BY <1>1, <1>4, <3>1
    <3>3. x \notin Range(P[w])
      BY <1>4, <1>10, <3>1
    <3>4. \A u \in At(Unlinked)' : u # w => Range(P[w]) \cap Range(P[u]) = {}
      BY <1>2, <3>2 DEF Behind, At
    <3>5. Range(P[w]) \cap Range(p) = {}
      BY <1>2, <3>1, <3>2 DEF Behind
    <3>6. Range(P[w]) \subseteq heap' \ Range(r)
      BY <1>1, <1>4, <2>2, <3>1, <3>5
    <3> QED BY <1>1, <1>2, <1>8, <3>1, <3>2, <3>3, <3>4, <3>6 DEF Behind
  <2>6. Doomed(r, P)'
    <3> SUFFICES ASSUME NEW w \in At({"deqDelete"})' PROVE Going(w, r, P)'
      BY DEF Doomed
    <3>1. Going(w, q, P) /\ own'[w] = own[w]
      BY <1>1, <1>2, <1>9
    <3> QED BY <1>1, <1>2, <2>2, <3>1 DEF Going, At
  <2>7. Stale(r)'
    <3> SUFFICES ASSUME NEW w \in At(TailRead)'
        PROVE  tt'[w].node \in Nodes /\ (~reuse' => tt'[w].node \in Range(r) \/ next'[tt'[w].node] # NULL)
      BY DEF Stale
    <3>1. tt[w].node \in Nodes /\ (~reuse => tt[w].node \in Range(q) \/ next[tt[w].node] # NULL)
      BY <1>2 DEF Shape, Stale
    <3> QED BY <1>1, <1>7, <1>10, <2>2, <3>1
  <2>8. Shape(r, P, R)'
    BY <2>4, <2>5, <2>6, <2>7 DEF Shape, Ages
  <2> QED BY <1>0, <2>2, <2>3, <2>8
<1>11. CASE x \notin Range(q)
  <2>1. reuse
    BY <1>1, <1>6, <1>11
  <2>2. Main(q)'
    <3>1. Path(q, head.node, [next EXCEPT ![x] = o])
      BY <1>3, <1>7, <1>11, PathWrite
    <3> QED BY <1>1, <1>3, <3>1 DEF Main
  <2>3. Stale(q)'
    BY <1>1, <1>2, <2>1 DEF Shape, Stale
  <2>4. CASE \E u \in At(Unlinked) : x \in Range(P[u])
    <3>1. PICK u \in At(Unlinked) : x \in Range(P[u])
      BY <2>4
    <3>2. <<o, x>> \in R /\ next[x] = NULL
      BY <1>0, <1>1, <1>2, <1>4, <3>1 DEF Behind
    <3>3. PICK ou, pu : ou = own[u] /\ pu = P[u]
      OBVIOUS
    <3>4. ou \in Nodes /\ (x = ou \/ <<x, ou>> \in R)
      BY <1>4, <3>1, <3>3 DEF Behind
    <3>5. u # t
      BY <1>0, <1>5, <1>6, <3>2, <3>3, <3>4 DEF Shape, Ages
    <3> DEFINE r == pu \o p
               P2 == [P EXCEPT ![u] = r]
    <3>6. /\ r \in Seq(Nodes) /\ Path(r, ou, [next EXCEPT ![x] = o])
          /\ Range(r) = Range(P[u]) \cup Range(p)
      <4>1. pu \in Seq(Nodes) /\ Path(pu, ou, next) /\ x \in Range(pu)
        BY <1>4, <3>1, <3>3
      <4>2. Range(p) \cap Range(pu) = {}
        BY <1>2, <1>4, <3>3, <3>5 DEF Behind
      <4>3. r \in Seq(Nodes) /\ Path(r, ou, [next EXCEPT ![x] = o]) /\ Range(r) = Range(pu) \cup Range(p)
        <5> HIDE DEF p
        <5>1. r \in Seq(Nodes)
          BY <1>5, <4>1
        <5>2. Path(r, ou, [next EXCEPT ![x] = o])
          BY <1>5, <1>7, <3>2, <4>1, <4>2, PathJoin
        <5>3. Range(r) = Range(pu) \cup Range(p)
          BY <1>5, <1>7, <3>2, <4>1, <4>2, PathJoin
        <5> QED BY <5>1, <5>2, <5>3
      <4> QED BY <3>3, <4>3
    <3> HIDE DEF r
    <3>7. /\ P2 \in [Threads -> Seq(Nodes)] /\ P2[u] = r
          /\ \A w \in Threads : w # u => P2[w] = P[w]
      BY <3>6 DEF At
    <3> HIDE DEF P2
    <3>8. ASSUME NEW y \in Range(r) PROVE y = ou \/ <<y, ou>> \in R
      <4>1. CASE y \in Range(P[u])
        BY <1>4, <3>3, <4>1 DEF Behind
      <4>2. CASE y \in Range(p)
        <5>1. y \in Nodes /\ (y = o \/ <<y, o>> \in R)
          <6>1. Range(p) \subseteq Nodes
            BY <1>5, PathRange
          <6> QED BY <1>0, <1>2, <1>4, <4>2, <6>1 DEF Behind
        <5>2. <<y, x>> \in R
          BY <1>5, <1>6, <3>2, <5>1 DEF Shape, Ages
        <5> QED BY <1>6, <3>4, <5>1, <5>2 DEF Shape, Ages
      <4> QED BY <3>6, <4>1, <4>2
    <3>9. Private(q, P2, R)'
      <4>1. ASSUME NEW w \in At(Unlinked), w # t, w # u PROVE Behind(w, q, P2, R)'
        <5>1. P2[w] = P[w] /\ own'[w] = own[w] /\ Behind(w, q, P, R)
          BY <1>1, <1>4, <3>7, <4>1 DEF At
        <5>2. Range(P[w]) \cap Range(P[u]) = {} /\ Range(P[w]) \cap Range(p) = {}
          BY <1>2, <4>1, <5>1 DEF Behind
        <5>3. Path(P[w], own'[w], next')
          BY <1>8, <3>1, <4>1, <5>2
        <5>4. \A v \in At(Unlinked)' : v # w => Range(P[w]) \cap Range(P2[v]) = {}
          <6> SUFFICES ASSUME NEW v \in At(Unlinked)', v # w PROVE Range(P[w]) \cap Range(P2[v]) = {}
            OBVIOUS
          <6>1. CASE v = u
            BY <3>6, <3>7, <5>2, <6>1
          <6>2. CASE v # u
            BY <1>2, <3>7, <5>1, <6>2 DEF At, Behind
          <6> QED BY <6>1, <6>2
        <5> QED BY <1>1, <1>2, <2>1, <5>1, <5>3, <5>4 DEF Behind
      <4>2. Behind(u, q, P2, R)'
        <5>1. Behind(u, q, P, R) /\ Behind(t, q, P, R) /\ own'[u] = ou /\ P2[u] = r
          BY <1>1, <1>2, <1>4, <3>3, <3>7
        <5>2. Path(r, own'[u], next')
          BY <1>1, <3>6, <5>1
        <5>3. Range(r) \subseteq heap' \ Range(q)
          BY <1>1, <3>6, <5>1 DEF Behind
        <5>4. \A v \in At(Unlinked)' : v # u => Range(r) \cap Range(P2[v]) = {}
          BY <1>2, <3>6, <3>7, <5>1 DEF At, Behind
        <5>5. ASSUME NEW v \in At(TailRead)', tt'[v].node \in Range(r)
              PROVE  <<own'[v], tt'[v].node>> \in R
          BY <1>1, <1>2, <3>6, <5>1, <5>5 DEF Behind
        <5> QED BY <1>1, <2>1, <3>8, <5>1, <5>2, <5>3, <5>4, <5>5 DEF Behind
      <4> QED BY <1>2, <4>1, <4>2 DEF Private, At
    <3>10. Doomed(q, P2)'
      <4> SUFFICES ASSUME NEW w \in At({"deqDelete"})' PROVE Going(w, q, P2)'
        BY DEF Doomed
      <4>1. Going(w, q, P) /\ own'[w] = own[w]
        BY <1>1, <1>2, <1>9
      <4>2. \A v \in At(Unlinked) : own[w] \notin Range(P2[v])
        BY <1>2, <3>1, <3>6, <3>7, <4>1 DEF Going, At
      <4> QED BY <1>1, <1>2, <4>1, <4>2 DEF Going, At
    <3>11. Shape(q, P2, R)'
      BY <2>2, <2>3, <3>9, <3>10 DEF Shape, Ages
    <3> QED BY <2>1, <3>7, <3>11
  <2>5. CASE \A u \in At(Unlinked) : x \notin Range(P[u])
    <3>1. Private(q, P, R)'
      <4> SUFFICES ASSUME NEW w \in At(Unlinked)' PROVE Behind(w, q, P, R)'
        BY DEF Private
      <4>1. w \in At(Unlinked) /\ w # t
        BY <1>2 DEF At
      <4>2. Behind(w, q, P, R) /\ own'[w] = own[w]
        BY <1>1, <1>4, <4>1
      <4>3. \A u \in At(Unlinked)' : u # w => Range(P[w]) \cap Range(P[u]) = {}
        BY <1>2, <4>2 DEF Behind, At
      <4> QED BY <1>1, <1>2, <1>8, <2>5, <4>1, <4>2, <4>3 DEF Behind
    <3>2. Doomed(q, P)'
      <4> SUFFICES ASSUME NEW w \in At({"deqDelete"})' PROVE Going(w, q, P)'
        BY DEF Doomed
      <4>1. Going(w, q, P) /\ own'[w] = own[w]
        BY <1>1, <1>2, <1>9
      <4> QED BY <1>1, <1>2, <4>1 DEF Going, At
    <3>3. Shape(q, P, R)'
      BY <2>2, <2>3, <3>1, <3>2 DEF Shape, Ages
    <3> QED BY <2>1, <3>3
  <2> QED BY <2>4, <2>5
<1> QED BY <1>10, <1>11

(* A node joins the queue, and the dummy node leaves it.                      *)
Links(t) == EnqLink(t) /\ pc'[t] = "enqSwing"
Takes(t) == DeqCAS(t) /\ ht[t] = head

LEMMA ChainOf ==
  ASSUME NEW q \in Seq(Nodes), Main(q)
  PROVE  Chain = q
BY ChainIs DEF Main, Chain

LEMMA ChainNext ==
  ASSUME NEW q \in Seq(Nodes), Main(q)'
  PROVE  Chain' = q
BY ChainIs DEF Main, Chain

(* What every step does to the shape and to the chain.                        *)
LEMMA ShapeStep ==
  ASSUME TypeOK, Reads, Heads, Shaped, NEW t \in Threads, Enqueue(t) \/ Dequeue(t)
  PROVE  /\ Shaped' /\ Chain \in Seq(Nodes) /\ Len(Chain) \in Nat \ {0} /\ Chain' \in Seq(Nodes)
         /\ Links(t) /\ ~reuse => Chain' = Chain \o <<own[t]>> /\ own[t] \notin Range(Chain)
         /\ Takes(t) => Chain' = Tail(Chain) /\ Len(Chain) >= 2 /\ hn[t] = Chain[2]
         /\ ~Links(t) /\ ~Takes(t) => Chain' = Chain
<1>1. PICK q \in Seq(Nodes), P \in [Threads -> Seq(Nodes)], R \in SUBSET (Nodes \X Nodes) :
        Shape(q, P, R)
  BY DEF Shaped
<1>2. Main(q) /\ Chain = q /\ Len(q) \in Nat \ {0}
  BY <1>1, ChainOf, PathRange DEF Shape, Main
<1>3. TypeOK'
  BY TypingStep DEF Next
<1>4. CASE Links(t)
  <2>1. PICK q2 \in Seq(Nodes), P2 \in [Threads -> Seq(Nodes)] :
          /\ Shape(q2, P2, R)'
          /\ ~reuse => q2 = q \o <<own[t]>> /\ own[t] \notin Range(q)
    BY <1>1, <1>4, LinkShape DEF Links
  <2>2. Shaped'
    BY <2>1 DEF Shaped
  <2>3. Chain' = q2
    BY <2>1, ChainNext DEF Shape
  <2>4. ~Takes(t)
    BY <1>4 DEF Links, EnqLink, Takes, DeqCAS, Goto
  <2> QED BY <1>2, <1>4, <2>1, <2>2, <2>3, <2>4
<1>5. CASE Takes(t)
  <2>1. /\ Tail(q) \in Seq(Nodes) /\ Shape(Tail(q), P, R)'
        /\ Len(q) >= 2 /\ hn[t] = q[2]
    BY <1>1, <1>5, TakeShape DEF Takes
  <2>2. Shaped'
    BY <2>1 DEF Shaped
  <2>3. Chain' = Tail(q)
    BY <2>1, ChainNext DEF Shape
  <2>4. ~Links(t)
    BY <1>5 DEF Links, EnqLink, Takes, DeqCAS, Goto
  <2> QED BY <1>2, <1>5, <2>1, <2>2, <2>3, <2>4
<1>6. CASE ~Links(t) /\ ~Takes(t)
  <2>1. \E P2 \in [Threads -> Seq(Nodes)], R2 \in SUBSET (Nodes \X Nodes) : Shape(q, P2, R2)'
    <3>1. ASSUME NEW v \in Values, EnqNew(t, v)
          PROVE  \E P2 \in [Threads -> Seq(Nodes)], R2 \in SUBSET (Nodes \X Nodes) : Shape(q, P2, R2)'
      BY <1>1, <3>1, NewShape
    <3>2. CASE EnqInit(t)
      BY <1>1, <3>2, InitShape
    <3>3. CASE DeqDelete(t)
      BY <1>1, <3>3, DeleteShape
    <3>4. ASSUME \A v \in Values : ~EnqNew(t, v), ~EnqInit(t), ~DeqDelete(t)
          PROVE  Shape(q, P, R)'
      <4>1. Quiet(t, q)
        <5>1. EnqLink(t) => pc'[t] # "enqSwing"
          BY <1>6 DEF Links
        <5>2. DeqCAS(t) => ht[t] # head
          BY <1>6 DEF Takes
        <5> QED BY <1>2, <3>4, <5>1, <5>2, QuietSteps DEF Enqueue, Dequeue
      <4> QED BY <1>1, <1>3, <4>1, ShapeKept
    <3> QED BY <3>1, <3>2, <3>3, <3>4
  <2>2. PICK P2 \in [Threads -> Seq(Nodes)], R2 \in SUBSET (Nodes \X Nodes) : Shape(q, P2, R2)'
    BY <2>1
  <2>3. Shaped'
    BY <2>2 DEF Shaped
  <2>4. Chain' = q
    BY <2>2, ChainNext DEF Shape
  <2> QED BY <1>2, <1>6, <2>3, <2>4
<1> QED BY <1>4, <1>5, <1>6

(* How many calls are at some of the program counters, when one call moves.   *)
LEMMA AtFinite ==
  ASSUME NEW pcs
  PROVE  IsFiniteSet(At(pcs)) /\ Cardinality(At(pcs)) \in Nat
<1>1. At(pcs) \subseteq Threads
  BY DEF At
<1>2. IsFiniteSet(At(pcs))
  BY <1>1, NodesAssumption, FS_Subset
<1> QED BY <1>2, FS_CardinalityType

LEMMA Moved ==
  ASSUME TypeOK, NEW t \in Threads, NEW to, pc' = [pc EXCEPT ![t] = to], NEW pcs
  PROVE  Cardinality(At(pcs)') = Cardinality(At(pcs)) + (IF to \in pcs THEN 1 ELSE 0)
                                   - (IF pc[t] \in pcs THEN 1 ELSE 0)
<1>1. At(pcs)' = IF to \in pcs THEN At(pcs) \cup {t} ELSE At(pcs) \ {t}
  BY DEF At, TypeOK
<1>2. /\ IsFiniteSet(At(pcs)) /\ Cardinality(At(pcs)) \in Nat
      /\ t \in At(pcs) <=> pc[t] \in pcs
  BY AtFinite DEF At
<1>3. /\ Cardinality(At(pcs) \cup {t}) =
           IF t \in At(pcs) THEN Cardinality(At(pcs)) ELSE Cardinality(At(pcs)) + 1
      /\ Cardinality(At(pcs) \ {t}) =
           IF t \in At(pcs) THEN Cardinality(At(pcs)) - 1 ELSE Cardinality(At(pcs))
  BY <1>2, FS_AddElement, FS_RemoveElement
<1> QED BY <1>1, <1>2, <1>3

LEMMA CountedStep ==
  ASSUME TypeOK, Counted, NEW t \in Threads, Enqueue(t) \/ Dequeue(t),
         Chain \in Seq(Nodes),
         Links(t) /\ ~reuse => Chain' = Chain \o <<own[t]>>,
         Takes(t) => Chain' = Tail(Chain) /\ Len(Chain) >= 2,
         ~Links(t) /\ ~Takes(t) => Chain' = Chain
  PROVE  Counted'
<1>1. PICK to : pc' = [pc EXCEPT ![t] = to]
  BY DEF Enqueue, Dequeue, EnqNew, EnqInit, EnqID, EnqNode, EnqNext, EnqCheck, EnqLink, EnqSwing,
         EnqHelp, EnqCount, DeqGate, DeqUndo, DeqHeadID, DeqHeadNode, DeqHeadNext, DeqTailID,
         DeqTailNode, DeqTailNext, DeqCheck, DeqHelp, DeqHead, DeqVal, DeqCAS, DeqDelete,
         ReadTailID, ReadTailNode, ReadTailNext, Help, Goto
<1> DEFINE from == pc[t]
           l == Cardinality(At(Linking))
           g == Cardinality(At(Gated))
           u == Cardinality(At({"deqUndo"}))
           ll == Cardinality(At(Linking)')
           gg == Cardinality(At(Gated)')
           uu == Cardinality(At({"deqUndo"})')
           c == Len(Chain)
           cc == Len(Chain')
<1>2. /\ ll = l + (IF to \in Linking THEN 1 ELSE 0) - (IF from \in Linking THEN 1 ELSE 0)
      /\ gg = g + (IF to \in Gated THEN 1 ELSE 0) - (IF from \in Gated THEN 1 ELSE 0)
      /\ uu = u + (IF to \in {"deqUndo"} THEN 1 ELSE 0) - (IF from \in {"deqUndo"} THEN 1 ELSE 0)
  <2>1. ll = l + (IF to \in Linking THEN 1 ELSE 0) - (IF from \in Linking THEN 1 ELSE 0)
    BY <1>1, Moved
  <2>2. gg = g + (IF to \in Gated THEN 1 ELSE 0) - (IF from \in Gated THEN 1 ELSE 0)
    BY <1>1, Moved
  <2>3. uu = u + (IF to \in {"deqUndo"} THEN 1 ELSE 0) - (IF from \in {"deqUndo"} THEN 1 ELSE 0)
    BY <1>1, Moved
  <2> QED BY <2>1, <2>2, <2>3
<1>3. l \in Nat /\ g \in Nat /\ u \in Nat /\ c \in Nat /\ count \in Int
  BY AtFinite DEF TypeOK
<1>4. ~reuse => c - 1 = count + l + g + u /\ count + u >= 0
  BY DEF Counted
<1>5. /\ reuse' = reuse
      /\ ~reuse' /\ cc - 1 = count' + ll + gg + uu /\ count' + uu >= 0 => Counted'
      /\ reuse' => Counted'
  <2>1. reuse' = reuse
    BY DEF Enqueue, Dequeue, EnqNew, EnqInit, EnqID, EnqNode, EnqNext, EnqCheck, EnqLink, EnqSwing,
         EnqHelp, EnqCount, DeqGate, DeqUndo, DeqHeadID, DeqHeadNode, DeqHeadNext, DeqTailID,
         DeqTailNode, DeqTailNext, DeqCheck, DeqHelp, DeqHead, DeqVal, DeqCAS, DeqDelete,
         ReadTailID, ReadTailNode, ReadTailNext, Help, shared
  <2> QED BY <2>1 DEF Counted
<1> SUFFICES ASSUME ~reuse
             PROVE  cc - 1 = count' + ll + gg + uu /\ count' + uu >= 0
  BY <1>5
<1>6. from = pc[t] /\ to = pc'[t]
  BY <1>1 DEF TypeOK
<1> HIDE DEF from, l, g, u, ll, gg, uu, c, cc
<1>7. CASE Links(t)
  <2>1. from = "enqLink" /\ to = "enqSwing" /\ count' = count
    BY <1>6, <1>7 DEF Links, EnqLink
  <2>2. ll = l + 1 /\ gg = g /\ uu = u
    BY <1>2, <1>3, <2>1 DEF Linking, Gated
  <2>3. cc = c + 1
    BY <1>7 DEF c, cc
  <2> QED BY <1>3, <1>4, <2>1, <2>2, <2>3
<1>8. CASE Takes(t)
  <2>1. from = "deqCAS" /\ to = "deqDelete" /\ count' = count
    BY <1>6, <1>8, <1>1 DEF Takes, DeqCAS, Goto, TypeOK
  <2>2. ll = l /\ gg = g - 1 /\ uu = u
    BY <1>2, <1>3, <2>1 DEF Linking, Gated
  <2>3. cc = c - 1
    BY <1>8, HeadTailProperties DEF c, cc
  <2> QED BY <1>3, <1>4, <2>1, <2>2, <2>3
<1>9. CASE ~Links(t) /\ ~Takes(t)
  <2>0. cc = c
    BY <1>9 DEF c, cc
  <2>1. CASE EnqCount(t)
    <3>1. from = "enqCount" /\ to = "idle" /\ count' = count + 1
      BY <1>6, <1>1, <2>1 DEF EnqCount, Goto, TypeOK
    <3>2. ll = l - 1 /\ gg = g /\ uu = u
      BY <1>2, <1>3, <3>1 DEF Linking, Gated
    <3> QED BY <1>3, <1>4, <2>0, <3>1, <3>2
  <2>2. CASE DeqGate(t)
    <3>1. /\ from = "idle" /\ count' = count - 1
          /\ to = IF count - 1 < 0 THEN "deqUndo" ELSE "deqHeadID"
      BY <1>6, <1>1, <2>2 DEF DeqGate, Goto, TypeOK
    <3>2. CASE count - 1 < 0
      <4>1. to = "deqUndo"
        BY <3>1, <3>2
      <4>2. ll = l /\ gg = g /\ uu = u + 1
        BY <1>2, <1>3, <3>1, <4>1 DEF Linking, Gated
      <4>3. count' = count - 1
        BY <3>1
      <4> QED BY <1>3, <1>4, <2>0, <4>2, <4>3
    <3>3. CASE ~(count - 1 < 0)
      <4>1. to = "deqHeadID"
        BY <3>1, <3>3
      <4>2. ll = l /\ gg = g + 1 /\ uu = u
        BY <1>2, <1>3, <3>1, <4>1 DEF Linking, Gated
      <4>3. count' = count - 1
        BY <3>1
      <4> QED BY <1>3, <1>4, <2>0, <3>3, <4>2, <4>3
    <3> QED BY <3>2, <3>3
  <2>3. CASE DeqUndo(t)
    <3>1. from = "deqUndo" /\ to = "idle" /\ count' = count + 1
      BY <1>6, <1>1, <2>3 DEF DeqUndo, Goto, TypeOK
    <3>2. ll = l /\ gg = g /\ uu = u - 1
      BY <1>2, <1>3, <3>1 DEF Linking, Gated
    <3> QED BY <1>3, <1>4, <2>0, <3>1, <3>2
  <2>4. ASSUME ~EnqCount(t), ~DeqGate(t), ~DeqUndo(t)
        PROVE  cc - 1 = count' + ll + gg + uu /\ count' + uu >= 0
    <3>1. /\ count' = count
          /\ from \in Linking <=> to \in Linking
          /\ from \in Gated <=> to \in Gated
          /\ from \in {"deqUndo"} <=> to \in {"deqUndo"}
      BY <1>1, <1>6, <1>9, <2>4
         DEF Links, Takes, Linking, Gated, TypeOK, Pcs, Enqueue, Dequeue, EnqNew, EnqInit, EnqID,
             EnqNode, EnqNext, EnqCheck, EnqLink, EnqSwing, EnqHelp, DeqHeadID,
             DeqHeadNode, DeqHeadNext, DeqTailID, DeqTailNode, DeqTailNext, DeqCheck, DeqHelp,
             DeqHead, DeqVal, DeqCAS, DeqDelete, ReadTailID, ReadTailNode, ReadTailNext, Help,
             Goto, shared
    <3>2. ll = l /\ gg = g /\ uu = u
      BY <1>2, <1>3, <3>1
    <3> QED BY <1>3, <1>4, <2>0, <3>1, <3>2
  <2> QED BY <2>1, <2>2, <2>3, <2>4
<1> QED BY <1>7, <1>8, <1>9

------------------------------------------------------------------------------
(* The invariant and the theorems. *)

LEMMA InitIInv == Init => IInv
<1> SUFFICES ASSUME Init PROVE IInv
  OBVIOUS
<1>1. PICK n \in Nodes : heap = {n} /\ head = [node |-> n, id |-> 1] /\ tail = head
  BY DEF Init
<1>2. TypeOK
  <2>1. (CHOOSE v \in Values : TRUE) \in Values
    BY NodesAssumption
  <2> QED BY <1>1, <2>1 DEF Init, TypeOK, Pcs, Cell, NoCell
<1>3. Reads /\ Heads
  BY <1>1 DEF Init, Reads, Heads, Unlinked, NoCell
<1>4. \A pcs : "idle" \notin pcs => At(pcs) = {}
  BY DEF Init, At
<1> DEFINE P == [t \in Threads |-> <<>>]
<1>5. <<n>> \in Seq(Nodes) /\ Path(<<n>>, n, next) /\ Range(<<n>>) = {n}
  BY PathOne DEF Init
<1>6. Main(<<n>>)
  BY <1>1, <1>5 DEF Main
<1>7. At(Unlinked) = {} /\ At(TailRead) = {} /\ At({"deqDelete"}) = {}
  BY <1>4 DEF Unlinked, TailRead
<1>8. Shape(<<n>>, P, {})
  BY <1>6, <1>7 DEF Shape, Ages, Private, Doomed, Stale
<1>9. Shaped
  <2>1. P \in [Threads -> Seq(Nodes)] /\ {} \in SUBSET (Nodes \X Nodes)
    OBVIOUS
  <2> QED BY <1>5, <1>8, <2>1 DEF Shaped
<1>10. Counted
  <2>1. At(Linking) = {} /\ At(Gated) = {} /\ At({"deqUndo"}) = {}
    BY <1>4 DEF Linking, Gated
  <2>2. Cardinality({}) = 0
    BY FS_EmptySet
  <2>3. Len(Chain) = 1
    <3>1. Chain = <<n>>
      BY <1>5, <1>6, ChainOf
    <3> QED BY <3>1
  <2>4. count = 0
    BY DEF Init
  <2> QED BY <2>1, <2>2, <2>3, <2>4 DEF Counted
<1> QED BY <1>2, <1>3, <1>9, <1>10 DEF IInv

LEMMA NextIInv == IInv /\ [Next]_vars => IInv'
<1> SUFFICES ASSUME IInv, [Next]_vars PROVE IInv'
  OBVIOUS
<1>1. TypeOK' /\ Reads' /\ Heads'
  BY TypingStep, ReadsStep, HeadsStep DEF IInv
<1>2. CASE UNCHANGED vars
  <2>1. Shaped'
    BY <1>2 DEF IInv, Shaped, Shape, Main, Private, Behind, Doomed, Going, Stale, At, vars, shared, local
  <2>2. Chain' = Chain /\ At(Linking)' = At(Linking) /\ At(Gated)' = At(Gated)
        /\ At({"deqUndo"})' = At({"deqUndo"}) /\ count' = count /\ reuse' = reuse
    BY <1>2 DEF Chain, At, vars, shared
  <2>3. Counted'
    BY <2>2 DEF IInv, Counted
  <2> QED BY <1>1, <2>1, <2>3 DEF IInv
<1>3. ASSUME NEW t \in Threads, Enqueue(t) \/ Dequeue(t) PROVE IInv'
  <2>1. /\ Shaped' /\ Chain \in Seq(Nodes)
        /\ Links(t) /\ ~reuse => Chain' = Chain \o <<own[t]>>
        /\ Takes(t) => Chain' = Tail(Chain) /\ Len(Chain) >= 2
        /\ ~Links(t) /\ ~Takes(t) => Chain' = Chain
    BY <1>3, ShapeStep DEF IInv
  <2>2. Counted'
    BY <1>3, <2>1, CountedStep DEF IInv
  <2> QED BY <1>1, <2>1, <2>2 DEF IInv
<1> QED BY <1>2, <1>3 DEF Next

LEMMA Invariant == Spec => []IInv
BY InitIInv, NextIInv, PTL DEF Spec

LEMMA SafeFromInv == IInv => NodesSafe
<1> SUFFICES ASSUME IInv PROVE NodesSafe
  OBVIOUS
<1>1. PICK q \in Seq(Nodes), P \in [Threads -> Seq(Nodes)], R \in SUBSET (Nodes \X Nodes) :
        Shape(q, P, R)
  BY DEF IInv, Shaped
<1>2. /\ Chain = q /\ Path(q, head.node, next) /\ Range(q) \subseteq heap /\ tail.node \in Range(q)
  BY <1>1, ChainOf DEF Shape, Main
<1>3. DOMAIN q = 1 .. Len(q) /\ Len(q) \in Nat \ {0}
  BY <1>2, PathRange
<1>4. {Chain[i] : i \in 1 .. Len(Chain)} = Range(q)
  BY <1>2, <1>3 DEF Range
<1>5. Cardinality(Range(q)) = Len(q)
  <2>1. q \in Bijection(1 .. Len(q), Range(q))
    BY <1>2, <1>3 DEF Bijection, Injection, Surjection, Path, IsInjective, Range
  <2>2. ExistsBijection(1 .. Len(q), Range(q))
    BY <2>1 DEF ExistsBijection
  <2> QED BY <1>3, <2>2, FS_CountingElements
<1>6. \A t \in At({"deqDelete"}) :
        own[t] \in heap \ Range(q) /\ \A u \in At({"deqDelete"}) : own[u] = own[t] => u = t
  BY <1>1 DEF Shape, Doomed, Going
<1> QED BY <1>2, <1>4, <1>5, <1>6 DEF NodesSafe, At

LEMMA GateFromInv == IInv => GateSound
<1> SUFFICES ASSUME IInv, ~reuse PROVE Len(Chain) - 1 >= Cardinality(Reserved)
  BY DEF GateSound
<1>1. Reserved = At(Gated)
  BY DEF Reserved, At, Gated
<1>2. Len(Chain) - 1 = count + Cardinality(At(Linking)) + Cardinality(At(Gated))
                         + Cardinality(At({"deqUndo"}))
      /\ count + Cardinality(At({"deqUndo"})) >= 0 /\ count \in Int
  BY DEF IInv, Counted, TypeOK
<1>3. /\ Cardinality(At(Linking)) \in Nat /\ Cardinality(At(Gated)) \in Nat
      /\ Cardinality(At({"deqUndo"})) \in Nat
  BY AtFinite
<1> QED BY <1>1, <1>2, <1>3

(* Whatever the allocator does, no lagging tail and no stale head leads to a  *)
(* deleted node that is still linked (lock_free_queue.h:98-116).              *)
THEOREM NodesAlwaysSafe == Spec => []NodesSafe
BY Invariant, SafeFromInv, PTL

(* While no address comes back there is a linked node for every Dequeue the   *)
(* counter let through (lock_free_queue.h:64,81-119).                         *)
THEOREM GateAlwaysSound == Spec => []GateSound
BY Invariant, GateFromInv, PTL

------------------------------------------------------------------------------
(* The queue is atomic. *)

(* The values behind the dummy node.                                          *)
Items(c, vl) == [i \in 1 .. Len(c) - 1 |-> vl[c[i + 1]]]

LEMMA ItemsAre ==
  ASSUME NEW c \in Seq(Nodes), Len(c) >= 1, NEW vl \in [Nodes -> Values]
  PROVE  /\ Items(c, vl) \in Seq(Values) /\ Len(Items(c, vl)) = Len(c) - 1
         /\ \A i \in 1 .. Len(c) - 1 : Items(c, vl)[i] = vl[c[i + 1]]
<1>1. Len(c) - 1 \in Nat
  OBVIOUS
<1>2. \A i \in 1 .. Len(c) - 1 : vl[c[i + 1]] \in Values
  OBVIOUS
<1> QED BY <1>1, <1>2 DEF Items

LEMMA ItemsSame ==
  ASSUME NEW c \in Seq(Nodes), NEW vl, NEW wl, \A n \in Range(c) : wl[n] = vl[n]
  PROVE  Items(c, wl) = Items(c, vl)
<1>1. \A i \in 1 .. Len(c) - 1 : c[i + 1] \in Range(c)
  BY DEF Range
<1> QED BY <1>1 DEF Items

LEMMA ItemsLink ==
  ASSUME NEW c \in Seq(Nodes), Len(c) >= 1, NEW n \in Nodes, NEW vl \in [Nodes -> Values]
  PROVE  Items(c \o <<n>>, vl) = Append(Items(c, vl), vl[n])
<1> DEFINE d == c \o <<n>>
           m == Len(c) - 1
           f == Items(c, vl)
           g == Append(f, vl[n])
<1>1. /\ d \in Seq(Nodes) /\ Len(d) = Len(c) + 1
      /\ \A i \in 1 .. Len(c) : d[i] = c[i]
      /\ d[Len(c) + 1] = n
  OBVIOUS
<1>2. f \in Seq(Values) /\ Len(f) = m /\ \A i \in 1 .. m : f[i] = vl[c[i + 1]]
  BY ItemsAre
<1>3. vl[n] \in Values /\ m \in Nat /\ Len(c) = m + 1
  OBVIOUS
<1> HIDE DEF f
<1>4. g = [i \in 1 .. m + 1 |-> IF i = m + 1 THEN vl[n] ELSE f[i]]
  BY <1>2, <1>3
<1> HIDE DEF d, m, g
<1>5. Items(d, vl) = [i \in 1 .. m + 1 |-> vl[d[i + 1]]]
  BY <1>1, <1>3 DEF Items
<1>6. ASSUME NEW i \in 1 .. m + 1
      PROVE  vl[d[i + 1]] = IF i = m + 1 THEN vl[n] ELSE f[i]
  <2>1. CASE i = m + 1
    BY <1>1, <1>3, <2>1
  <2>2. CASE i # m + 1
    <3>1. i \in 1 .. m /\ i + 1 \in 1 .. Len(c)
      BY <1>3, <2>2
    <3> QED BY <1>1, <1>2, <2>2, <3>1
  <2> QED BY <2>1, <2>2
<1>7. Items(d, vl) = g
  BY <1>4, <1>5, <1>6
<1> QED BY <1>7 DEF d, g, f

LEMMA ItemsTake ==
  ASSUME NEW c \in Seq(Nodes), Len(c) >= 2, NEW vl \in [Nodes -> Values]
  PROVE  /\ Items(c, vl) # <<>> /\ Head(Items(c, vl)) = vl[c[2]]
         /\ Items(Tail(c), vl) = Tail(Items(c, vl))
<1> DEFINE d == Tail(c)
           m == Len(c) - 1
           f == Items(c, vl)
<1>1. /\ d \in Seq(Nodes) /\ Len(d) = m /\ m \in Nat /\ m >= 1
      /\ \A i \in 1 .. m : d[i] = c[i + 1]
  <2>1. c # <<>>
    OBVIOUS
  <2> QED BY <2>1, HeadTailProperties
<1>2. f \in Seq(Values) /\ Len(f) = m /\ \A i \in 1 .. m : f[i] = vl[c[i + 1]]
  BY ItemsAre
<1> HIDE DEF d, m, f
<1>3. f # <<>> /\ Head(f) = f[1] /\ Tail(f) = [i \in 1 .. m - 1 |-> f[i + 1]]
  <2>1. f # <<>>
    BY <1>1, <1>2
  <2>2. Head(f) = f[1]
    BY <1>2, <2>1
  <2> DEFINE tl == Tail(f)
  <2>3. tl \in Seq(Values) /\ Len(tl) = m - 1 /\ \A i \in 1 .. m - 1 : tl[i] = f[i + 1]
    BY <1>2, <2>1, HeadTailProperties
  <2> HIDE DEF tl
  <2>4. tl = [i \in 1 .. m - 1 |-> f[i + 1]]
    <3>1. tl = [i \in 1 .. m - 1 |-> tl[i]]
      BY <2>3
    <3>2. [i \in 1 .. m - 1 |-> tl[i]] = [i \in 1 .. m - 1 |-> f[i + 1]]
      BY <2>3
    <3> QED BY <3>1, <3>2
  <2> QED BY <2>1, <2>2, <2>4 DEF tl
<1>4. Head(f) = vl[c[2]]
  <2>1. 1 \in 1 .. m /\ 1 + 1 = 2
    BY <1>1
  <2> QED BY <1>2, <1>3, <2>1
<1>5. \A i \in 1 .. m - 1 : vl[d[i + 1]] = f[i + 1]
  <2> SUFFICES ASSUME NEW i \in 1 .. m - 1 PROVE vl[d[i + 1]] = f[i + 1]
    OBVIOUS
  <2>1. i + 1 \in 1 .. m
    BY <1>1
  <2> QED BY <1>1, <1>2, <2>1
<1>6. Items(d, vl) = Tail(f)
  BY <1>1, <1>3, <1>5 DEF Items
<1> QED BY <1>3, <1>4, <1>6 DEF d, f

(* A step is an atomic operation or changes nothing the abstract queue has.    *)
LEMMA AtomicStep ==
  ASSUME IInv, IInv', NEW t \in Threads, Enqueue(t) \/ Dequeue(t), ~reuse
  PROVE  \/ Chain' # <<>> /\ Items(Chain', val') = Append(Items(Chain, val), val[own[t]])
            /\ val[own[t]] \in Values /\ got' = got
         \/ /\ Items(Chain, val) # <<>> /\ Items(Chain', val') = Tail(Items(Chain, val))
            /\ got' = [got EXCEPT ![t] = Head(Items(Chain, val))]
         \/ Items(Chain', val') = Items(Chain, val) /\ got' = got
<1>1. /\ Chain \in Seq(Nodes) /\ Len(Chain) \in Nat \ {0} /\ Chain' \in Seq(Nodes)
      /\ Links(t) /\ ~reuse => Chain' = Chain \o <<own[t]>> /\ own[t] \notin Range(Chain)
      /\ Takes(t) => Chain' = Tail(Chain) /\ Len(Chain) >= 2 /\ hn[t] = Chain[2]
      /\ ~Links(t) /\ ~Takes(t) => Chain' = Chain
  BY ShapeStep DEF IInv
<1>2. val \in [Nodes -> Values] /\ Range(Chain) \subseteq heap
  <2>1. PICK q \in Seq(Nodes), P \in [Threads -> Seq(Nodes)], R \in SUBSET (Nodes \X Nodes) :
          Shape(q, P, R)
    BY DEF IInv, Shaped
  <2>2. Chain = q
    BY <2>1, ChainOf DEF Shape
  <2> QED BY <2>1, <2>2 DEF Shape, Main, IInv, TypeOK
<1>3. CASE Links(t)
  <2>1. val' = val /\ got' = got /\ own[t] \in Nodes
    BY <1>3 DEF Links, EnqLink, IInv, Reads, Unlinked
  <2>2. Items(Chain \o <<own[t]>>, val) = Append(Items(Chain, val), val[own[t]])
    BY <1>1, <1>2, <2>1, ItemsLink
  <2>3. val[own[t]] \in Values /\ Chain \o <<own[t]>> # <<>>
    BY <1>1, <1>2, <2>1
  <2> QED BY <1>1, <1>3, <2>1, <2>2, <2>3
<1>4. CASE Takes(t)
  <2>1. val' = val /\ got' = [got EXCEPT ![t] = out[t]] /\ pc[t] = "deqCAS" /\ ht[t] = head
    BY <1>4 DEF Takes, DeqCAS, Goto
  <2>2. out[t] = val[hn[t]]
    BY <2>1 DEF IInv, Reads, Heads
  <2>3. /\ Items(Chain, val) # <<>> /\ Head(Items(Chain, val)) = val[Chain[2]]
        /\ Items(Tail(Chain), val) = Tail(Items(Chain, val))
    BY <1>1, <1>2, <1>4, ItemsTake
  <2> QED BY <1>1, <1>4, <2>1, <2>2, <2>3
<1>5. CASE ~Links(t) /\ ~Takes(t)
  <2>1. got' = got /\ \A n \in heap : val'[n] = val[n]
    <3>1. ASSUME NEW v \in Values, EnqNew(t, v) PROVE got' = got /\ \A n \in heap : val'[n] = val[n]
      BY <1>2, <3>1 DEF EnqNew
    <3>2. ASSUME \A v \in Values : ~EnqNew(t, v) PROVE got' = got /\ val' = val
      BY <1>5, <3>2
         DEF Links, Takes, Enqueue, Dequeue, EnqInit, EnqID,
             EnqNode, EnqNext, EnqCheck, EnqLink, EnqSwing, EnqHelp, EnqCount, DeqGate, DeqUndo,
             DeqHeadID, DeqHeadNode, DeqHeadNext, DeqTailID, DeqTailNode, DeqTailNext, DeqCheck,
             DeqHelp, DeqHead, DeqVal, DeqCAS, DeqDelete, ReadTailID, ReadTailNode, ReadTailNext,
             Help, shared
    <3> QED BY <3>1, <3>2
  <2>2. Items(Chain, val') = Items(Chain, val)
    BY <1>1, <1>2, <2>1, ItemsSame
  <2> QED BY <1>1, <1>5, <2>1, <2>2
<1> QED BY <1>3, <1>4, <1>5

(* While no address comes back the queue is an atomic queue: Enqueue takes    *)
(* effect when its node is linked, Dequeue when its compare-and-swap moves    *)
(* the head, and hands out the oldest value (lock_free_queue.h:57-72,112-113).*)
THEOREM QueueIsAtomic == Spec => Linearizable
<1> DEFINE items == IF reuse THEN <<>> ELSE [i \in 1 .. Len(Chain) - 1 |-> val[Chain[i + 1]]]
           taken == IF reuse THEN [t \in Threads |-> NoValue] ELSE got
<1>1. Init => Abstract!Init
  <2> SUFFICES ASSUME Init PROVE items = <<>> /\ taken = [t \in Threads |-> NoValue]
    BY DEF Abstract!Init
  <2>1. PICK n \in Nodes : head = [node |-> n, id |-> 1] /\ tail = head /\ heap = {n}
    BY DEF Init
  <2>2. <<n>> \in Seq(Nodes) /\ Path(<<n>>, n, next) /\ Range(<<n>>) = {n}
    BY PathOne DEF Init
  <2>3. Chain = <<n>>
    BY <2>1, <2>2, ChainOf DEF Main
  <2>4. Len(Chain) = 1
    BY <2>3
  <2>5. [i \in 1 .. Len(Chain) - 1 |-> val[Chain[i + 1]]] = <<>>
    BY <2>4
  <2> QED BY <2>5 DEF Init
<1>2. IInv /\ IInv' /\ [Next]_vars => [Abstract!Next]_(Abstract!vars)
  <2> SUFFICES ASSUME IInv, IInv', [Next]_vars PROVE [Abstract!Next]_(Abstract!vars)
    OBVIOUS
  <2>1. ASSUME UNCHANGED <<items, taken>> PROVE UNCHANGED Abstract!vars
    BY <2>1 DEF Abstract!vars
  <2>2. CASE UNCHANGED vars
    BY <2>1, <2>2 DEF vars, shared, Chain
  <2>3. ASSUME NEW t \in Threads, Enqueue(t) \/ Dequeue(t)
        PROVE  [Abstract!Next]_(Abstract!vars)
    <3>1. reuse' = reuse
      BY <2>3
         DEF Enqueue, Dequeue, EnqNew, EnqInit, EnqID, EnqNode, EnqNext, EnqCheck, EnqLink,
             EnqSwing, EnqHelp, EnqCount, DeqGate, DeqUndo, DeqHeadID, DeqHeadNode, DeqHeadNext,
             DeqTailID, DeqTailNode, DeqTailNext, DeqCheck, DeqHelp, DeqHead, DeqVal, DeqCAS,
             DeqDelete, ReadTailID, ReadTailNode, ReadTailNext, Help, shared
    <3>2. CASE reuse
      BY <2>1, <3>1, <3>2
    <3>3. CASE ~reuse
      <4>1. items = Items(Chain, val) /\ items' = Items(Chain', val') /\ taken = got /\ taken' = got'
        BY <3>1, <3>3 DEF Items
      <4> HIDE DEF items, taken
      <4>2. ASSUME val[own[t]] \in Values, items' = Append(items, val[own[t]]), taken' = taken
            PROVE  Abstract!Next
        BY <4>2 DEF Abstract!Next, Abstract!Enqueue, items, taken
      <4>3. ASSUME items # <<>>, items' = Tail(items), taken' = [taken EXCEPT ![t] = Head(items)]
            PROVE  Abstract!Next
        BY <4>3 DEF Abstract!Next, Abstract!Dequeue, items, taken
      <4> QED BY <2>1, <2>3, <3>3, <4>1, <4>2, <4>3, AtomicStep
    <3> QED BY <3>2, <3>3
  <2> QED BY <2>2, <2>3 DEF Next
<1> QED BY <1>1, <1>2, Invariant, PTL DEF Spec, Linearizable, Abstract!Spec
==============================================================================
