--------------------------- MODULE GameWorldProofs ---------------------------
(***************************************************************************)
(* Proofs about the clients of the game that see one another, for any      *)
(* number of clients and for all animations, speeds and key presses: the   *)
(* pointer a client keeps to its own character, the attacks of that        *)
(* character, the copies the others show of it, and the order in which     *)
(* characters are drawn.                                                   *)
(*                                                                         *)
(* WorldInv says what a client knows of its own character, CopyInv what    *)
(* the others know of it or are about to be told; each is preserved by     *)
(* every step, one lemma to an action (...Keeps, ...Step).                 *)
(***************************************************************************)
EXTENDS GameWorld, FiniteSetTheorems, SequenceTheorems, WellFoundedInduction, TLAPS

(* A set of naturals has a least member.                                      *)
LEMMA Least ==
  ASSUME NEW S \in SUBSET Nat, S # {}
  PROVE  \E i \in S : \A j \in S : i <= j
<1>1. PICK i \in S : \A j \in S : ~(<<j, i>> \in OpToRel(<, Nat))
  BY NatLessThanWellFounded, WFMin
<1> SUFFICES ASSUME NEW j \in S PROVE i <= j
  OBVIOUS
<1>2. <<j, i>> \in Nat \X Nat
  OBVIOUS
<1>3. ~(j < i)
  BY <1>1, <1>2 DEF OpToRel
<1> QED BY <1>3
-----------------------------------------------------------------------------
(* The order in which the positions 1 .. n are.                               *)
Perm(p, n) == /\ p \in [1 .. n -> 1 .. n]
              /\ \A i, j \in 1 .. n : p[i] = p[j] => i = j
              /\ \A v \in 1 .. n : \E i \in 1 .. n : p[i] = v

LEMMA SwapPerm ==
  ASSUME NEW n \in Nat, NEW p, Perm(p, n), NEW i \in 1 .. n, NEW j \in 1 .. n
  PROVE  Perm(Sort!Swap(p, i, j), n)
<1> DEFINE q == [p EXCEPT ![i] = p[j], ![j] = p[i]]
<1>1. /\ p \in [1 .. n -> 1 .. n] /\ \A a, b \in 1 .. n : p[a] = p[b] => a = b
      /\ \A v \in 1 .. n : \E a \in 1 .. n : p[a] = v
  BY DEF Perm
<1>2. /\ q \in [1 .. n -> 1 .. n] /\ q[j] = p[i] /\ q[i] = p[j]
      /\ \A a \in 1 .. n : a # i /\ a # j => q[a] = p[a]
  BY <1>1
<1> HIDE DEF q
<1>3. ASSUME NEW a \in 1 .. n, NEW b \in 1 .. n, q[a] = q[b] PROVE a = b
  <2> DEFINE From(c) == IF c = i THEN j ELSE IF c = j THEN i ELSE c
  <2>1. \A c \in 1 .. n : From(c) \in 1 .. n /\ q[c] = p[From(c)]
    BY <1>2
  <2>2. From(a) = From(b)
    <3> HIDE DEF From
    <3> QED BY <1>1, <1>3, <2>1
  <2> QED BY <2>2
<1>4. \A v \in 1 .. n : \E a \in 1 .. n : q[a] = v
  <2> SUFFICES ASSUME NEW v \in 1 .. n PROVE \E a \in 1 .. n : q[a] = v
    OBVIOUS
  <2>1. PICK a \in 1 .. n : p[a] = v
    BY <1>1
  <2> QED BY <1>2, <2>1
<1>5. Perm(q, n)
  BY <1>2, <1>3, <1>4 DEF Perm
<1> QED BY <1>5 DEF q, Sort!Swap

(* Where the two scans of a round stop.                                       *)
LeftStop(s, pivot, left, right, l) ==
  /\ l \in left .. right
  /\ l = right \/ ~YsortingFunc(s[pivot], s[l])
  /\ \A j \in left .. l - 1 : YsortingFunc(s[pivot], s[j])
RightStop(s, pivot, left, right, r) ==
  /\ r \in left - 1 .. right
  /\ r = left - 1 \/ ~YsortingFunc(s[r], s[pivot])
  /\ \A j \in r + 1 .. right : YsortingFunc(s[j], s[pivot])

LEMMA ScanLeftStops ==
  ASSUME NEW s, NEW pivot, NEW left \in Nat, NEW right \in Nat, left <= right
  PROVE  LeftStop(s, pivot, left, right, Sort!ScanLeft(s, pivot, left, right))
<1> DEFINE Stop == {i \in left .. right : i = right \/ ~YsortingFunc(s[pivot], s[i])}
<1>1. PICK i \in Stop : \A j \in Stop : i <= j
  <2>1. Stop \in SUBSET Nat /\ right \in Stop
    OBVIOUS
  <2> HIDE DEF Stop
  <2> QED BY <2>1, Least
<1>2. \A j \in left .. i - 1 : YsortingFunc(s[pivot], s[j])
  BY <1>1
<1> QED BY <1>1, <1>2 DEF Sort!ScanLeft, LeftStop

LEMMA ScanLeftIn ==
  ASSUME NEW s, NEW pivot, NEW left \in Nat, NEW right \in Nat, left <= right
  PROVE  Sort!ScanLeft(s, pivot, left, right) \in left .. right
BY ScanLeftStops DEF LeftStop

LEMMA ScanRightStops ==
  ASSUME NEW s, NEW pivot, NEW left \in Nat \ {0}, NEW right \in Nat, left <= right
  PROVE  RightStop(s, pivot, left, right, Sort!ScanRight(s, pivot, left, right))
<1> DEFINE Stop == {i \in left - 1 .. right : i = left - 1 \/ ~YsortingFunc(s[i], s[pivot])}
           Down == {right - i : i \in Stop}
<1>1. PICK i \in Stop : \A j \in Stop : j <= i
  <2>1. Down \in SUBSET Nat /\ right - (left - 1) \in Down
    OBVIOUS
  <2>2. PICK d \in Down : \A e \in Down : d <= e
    <3> HIDE DEF Down
    <3> QED BY <2>1, Least
  <2>3. PICK i \in Stop : d = right - i
    OBVIOUS
  <2>4. \A j \in Stop : right - j \in Down
    OBVIOUS
  <2>5. ASSUME NEW j \in Stop PROVE j <= i
    <3>1. i \in Int /\ j \in Int /\ right \in Int
      OBVIOUS
    <3>2. right - i <= right - j
      <4> HIDE DEF Stop, Down
      <4> QED BY <2>2, <2>3, <2>4
    <3> HIDE DEF Stop, Down
    <3> QED BY <3>1, <3>2
  <2> QED BY <2>5
<1>2. \A j \in i + 1 .. right : YsortingFunc(s[j], s[pivot])
  BY <1>1
<1> QED BY <1>1, <1>2 DEF Sort!ScanRight, RightStop

LEMMA ScanRightIn ==
  ASSUME NEW s, NEW pivot, NEW left \in Nat \ {0}, NEW right \in Nat, left <= right
  PROVE  Sort!ScanRight(s, pivot, left, right) \in left - 1 .. right
BY ScanRightStops DEF RightStop

(* A call has its scans between its nodes.                                    *)
Scans(n, g) == /\ g \in Sort!Calls(n) /\ g.first < g.left /\ g.left <= g.right /\ g.right < g.last

Sorting(n, st) ==
  /\ st = [order |-> st.order, calls |-> st.calls]
  /\ Perm(st.order, n) /\ st.calls \in Seq({g \in Sort!Calls(n) : Scans(n, g)})

LEMMA CallScans ==
  ASSUME NEW n \in Nat, NEW a \in 1 .. n + 1, NEW b \in 1 .. n + 1
  PROVE  Sort!Call(a, b) \in Seq({g \in Sort!Calls(n) : Scans(n, g)})
<1>1. CASE b - a <= 1
  BY <1>1 DEF Sort!Call
<1>2. CASE ~(b - a <= 1)
  <2> DEFINE g == [first |-> a, last |-> b, left |-> a + 1, right |-> b - 1]
  <2>1. Scans(n, g)
    BY <1>2 DEF Scans, Sort!Calls
  <2>2. Sort!Call(a, b) = <<g>>
    BY <1>2 DEF Sort!Call
  <2>3. g \in Sort!Calls(n)
    BY <2>1 DEF Scans
  <2> HIDE DEF g
  <2> QED BY <2>1, <2>2, <2>3
<1> QED BY <1>1, <1>2

LEMMA RoundSorts ==
  ASSUME NEW n \in Nat, NEW s, NEW st, Sorting(n, st)
  PROVE  Sorting(n, Sort!Round(s, st))
<1> DEFINE G == {g \in Sort!Calls(n) : Scans(n, g)}
           p == st.order
           t == [i \in DOMAIN p |-> s[p[i]]]
           g == Head(st.calls)
           l == Sort!ScanLeft(t, g.first, g.left, g.right)
           r == Sort!ScanRight(t, g.first, l, g.right)
<1>1. Perm(p, n) /\ st.calls \in Seq(G)
  BY DEF Sorting
<1>2. CASE st.calls = <<>>
  BY <1>2 DEF Sort!Round
<1>3. CASE st.calls # <<>>
  <2>1. g \in G /\ Tail(st.calls) \in Seq(G)
    BY <1>1, <1>3, HeadTailProperties
  <2>2. /\ g.first \in 1 .. n /\ g.last \in 2 .. n + 1 /\ g.left \in 2 .. n /\ g.right \in 1 .. n
        /\ g = [first |-> g.first, last |-> g.last, left |-> g.left, right |-> g.right]
        /\ g.first < g.left /\ g.left <= g.right /\ g.right < g.last
    BY <2>1 DEF Scans, Sort!Calls
  <2> HIDE DEF t, g
  <2>3. l \in g.left .. g.right
    BY <2>2, ScanLeftIn
  <2> HIDE DEF l
  <2>4. r \in l - 1 .. g.right
    BY <2>2, <2>3, ScanRightIn
  <2> HIDE DEF r
  <2>5. CASE r <= l
    <3>1. Sort!Round(s, st) = [order |-> Sort!Swap(p, r, g.first),
            calls |-> Sort!Call(g.first, l) \o Sort!Call(l, g.last) \o Tail(st.calls)]
      BY <1>3, <2>5 DEF Sort!Round, t, g, l, r
    <3>2. Perm(Sort!Swap(p, r, g.first), n)
      BY <1>1, <2>2, <2>3, <2>4, SwapPerm
    <3>3. Sort!Call(g.first, l) \in Seq(G) /\ Sort!Call(l, g.last) \in Seq(G)
      BY <2>2, <2>3, CallScans
    <3>4. Sort!Call(g.first, l) \o Sort!Call(l, g.last) \o Tail(st.calls) \in Seq(G)
      <4> HIDE DEF G
      <4> QED BY <2>1, <3>3, ConcatProperties
    <3> HIDE DEF G, p
    <3> QED BY <3>1, <3>2, <3>4 DEF Sorting, G
  <2>6. CASE ~(r <= l)
    <3> DEFINE h == [g EXCEPT !.left = l, !.right = r]
    <3>1. Sort!Round(s, st) = [order |-> Sort!Swap(p, l, r), calls |-> <<h>> \o Tail(st.calls)]
      BY <1>3, <2>6 DEF Sort!Round, t, g, l, r
    <3>2. Perm(Sort!Swap(p, l, r), n)
      BY <1>1, <2>2, <2>3, <2>4, SwapPerm
    <3>3. h \in G
      <4>1. l \in 2 .. n /\ r \in 1 .. n /\ g.first < l /\ l <= r /\ r < g.last
        BY <2>2, <2>3, <2>4, <2>6
      <4>2. g \in Sort!Calls(n)
        BY <2>1
      <4>3. h \in Sort!Calls(n) /\ h.first = g.first /\ h.last = g.last /\ h.left = l /\ h.right = r
        BY <4>1, <4>2 DEF Sort!Calls
      <4> HIDE DEF h
      <4> QED BY <4>1, <4>3 DEF Scans
    <3>4. <<h>> \o Tail(st.calls) \in Seq(G)
      <4> HIDE DEF G, h
      <4> QED BY <2>1, <3>3, ConcatProperties
    <3> HIDE DEF G, p, h
    <3> QED BY <3>1, <3>2, <3>4 DEF Sorting, G
  <2> QED BY <2>5, <2>6
<1> QED BY <1>2, <1>3

(* The rounds of a sort.                                                      *)
FirstRound(n) == [order |-> [i \in 1 .. n |-> i], calls |-> Sort!Call(1, n + 1)]
SortRun(s, n, u) ==
  /\ u[0] = FirstRound(n) /\ \A k \in 1 .. n * n : u[k] = Sort!Round(s, u[k - 1])
  /\ \A k \in 0 .. n * n : Sorting(n, u[k])
  /\ YSort(s) = [i \in 1 .. n |-> s[u[n * n].order[i]]]

LEMMA SortRuns ==
  ASSUME NEW s, Len(s) \in Nat
  PROVE  \E u : SortRun(s, Len(s), u)
<1> DEFINE n == Len(s)
           N == n * n
           State == [order : Seq(1 .. n), calls : Seq(Sort!Calls(n))]
           next == [st \in State |-> Sort!Round(s, st)]
           start == FirstRound(n)
           Solves(f) == f = [k \in 0 .. N |-> IF k = 0 THEN start ELSE next[f[k - 1]]]
<1>1. N \in Nat /\ n \in Nat
  OBVIOUS
<1>2. Sorting(n, start)
  <2>1. Perm([i \in 1 .. n |-> i], n)
    BY DEF Perm
  <2>2. Sort!Call(1, n + 1) \in Seq({g \in Sort!Calls(n) : Scans(n, g)})
    <3>1. 1 \in 1 .. n + 1 /\ n + 1 \in 1 .. n + 1
      BY <1>1
    <3> HIDE DEF n
    <3> QED BY <1>1, <3>1, CallScans
  <2> QED BY <2>1, <2>2 DEF Sorting, FirstRound
<1>3. ASSUME NEW st, Sorting(n, st) PROVE st \in State
  <2>1. st.order \in Seq(1 .. n) /\ st.calls \in Seq(Sort!Calls(n))
    BY <1>3 DEF Sorting, Perm
  <2> QED BY <1>3, <2>1 DEF Sorting
<1>4. ASSUME NEW st, Sorting(n, st) PROVE Sorting(n, next[st])
  BY <1>3, <1>4, RoundSorts
<1> HIDE DEF n, N, State, next, start
<1> DEFINE Upto(k, f) == f = [j \in 0 .. k |-> IF j = 0 THEN start ELSE next[f[j - 1]]]
           Wrong == {k \in 0 .. N : ~\E f : Upto(k, f)}
<1>5. Wrong = {}
  <2> SUFFICES ASSUME Wrong # {} PROVE FALSE
    OBVIOUS
  <2>1. PICK k \in Wrong : \A j \in Wrong : k <= j
    <3>1. Wrong \in SUBSET Nat
      OBVIOUS
    <3> HIDE DEF Wrong
    <3> QED BY <3>1, Least
  <2>2. CASE k = 0
    <3> DEFINE f == [j \in 0 .. 0 |-> start]
    <3>1. Upto(0, f)
      OBVIOUS
    <3> QED BY <2>1, <2>2, <3>1
  <2>3. CASE k # 0
    <3>1. k - 1 \in 0 .. N /\ ~(k <= k - 1) /\ k \in 1 .. N
      BY <1>1, <2>3
    <3>2. PICK f : Upto(k - 1, f)
      BY <2>1, <3>1
    <3> DEFINE h == [j \in 0 .. k |-> IF j = k THEN next[f[k - 1]] ELSE f[j]]
    <3>3. /\ \A j \in 0 .. k - 1 : f[j] = IF j = 0 THEN start ELSE next[f[j - 1]]
      BY <3>2
    <3>4. ASSUME NEW j \in 0 .. k PROVE h[j] = IF j = 0 THEN start ELSE next[h[j - 1]]
      <4>1. CASE j = k
        <5>1. h[j] = next[f[k - 1]] /\ h[j - 1] = f[k - 1] /\ j # 0
          BY <3>1, <4>1
        <5> QED BY <4>1, <5>1
      <4>2. CASE j # k
        <5>1. j \in 0 .. k - 1
          BY <3>1, <4>2
        <5>2. h[j] = f[j] /\ (j # 0 => h[j - 1] = f[j - 1])
          BY <3>1, <4>2, <5>1
        <5> QED BY <3>3, <5>1, <5>2
      <4> QED BY <4>1, <4>2
    <3>5. Upto(k, h)
      <4> DEFINE e == [j \in 0 .. k |-> IF j = 0 THEN start ELSE next[h[j - 1]]]
      <4>1. \A j \in 0 .. k : h[j] = e[j]
        BY <3>4
      <4>2. h = e
        BY <4>1
      <4> QED BY <4>2
    <3> QED BY <2>1, <3>5
  <2> QED BY <2>2, <2>3
<1>6. \E f : Solves(f)
  <2>1. N \in 0 .. N
    BY <1>1
  <2> QED BY <1>5, <2>1
<1> DEFINE u == CHOOSE f : Solves(f)
<1>7. Solves(u)
  <2> HIDE DEF Solves
  <2> QED BY <1>6
<1>8. YSort(s) = [i \in 1 .. n |-> s[u[N].order[i]]]
  BY DEF YSort, Sort!QuickSort, n, N, State, next, start, FirstRound
<1> HIDE DEF u
<1>9. u[0] = start /\ \A k \in 1 .. N : u[k] = next[u[k - 1]]
  <2>1. u = [k \in 0 .. N |-> IF k = 0 THEN start ELSE next[u[k - 1]]]
    BY <1>7
  <2>2. 0 \in 0 .. N /\ \A k \in 1 .. N : k \in 0 .. N /\ k # 0
    BY <1>1
  <2> QED BY <2>1, <2>2
<1> DEFINE Bad == {k \in 0 .. N : ~Sorting(n, u[k])}
<1>10. Bad = {}
  <2> SUFFICES ASSUME Bad # {} PROVE FALSE
    OBVIOUS
  <2>1. PICK k \in Bad : \A j \in Bad : k <= j
    <3>1. Bad \in SUBSET Nat
      OBVIOUS
    <3> HIDE DEF Bad
    <3> QED BY <3>1, Least
  <2>2. k \in 1 .. N
    BY <1>1, <1>2, <1>9, <2>1
  <2>3. k - 1 \in 0 .. N /\ ~(k <= k - 1)
    BY <1>1, <2>2
  <2>4. Sorting(n, u[k - 1])
    BY <2>1, <2>3
  <2> QED BY <1>4, <1>9, <2>1, <2>2, <2>4
<1>11. \A k \in 1 .. N : u[k] = Sort!Round(s, u[k - 1])
  <2> SUFFICES ASSUME NEW k \in 1 .. N PROVE u[k] = Sort!Round(s, u[k - 1])
    OBVIOUS
  <2>1. k - 1 \in 0 .. N
    BY <1>1
  <2>2. Sorting(n, u[k - 1])
    BY <1>10, <2>1
  <2> QED BY <1>3, <1>9, <2>2 DEF next
<1>12. SortRun(s, n, u)
  BY <1>8, <1>9, <1>10, <1>11 DEF SortRun, N, start
<1> QED BY <1>12 DEF n

(* Sorting only moves the objects of the list.                                *)
LEMMA SortMoves ==
  ASSUME NEW s, Len(s) \in Nat
  PROVE  \E p : Perm(p, Len(s)) /\ YSort(s) = [i \in 1 .. Len(s) |-> s[p[i]]]
<1>1. PICK u : SortRun(s, Len(s), u)
  BY SortRuns
<1>2. Len(s) * Len(s) \in 0 .. Len(s) * Len(s)
  OBVIOUS
<1> QED BY <1>1, <1>2 DEF SortRun, Sorting

LEMMA ScansIn ==
  ASSUME NEW n \in Nat, NEW g, Scans(n, g)
  PROVE  /\ g.first \in 1 .. n /\ g.last \in 2 .. n + 1 /\ g.left \in 2 .. n /\ g.right \in 1 .. n
         /\ g.first < g.left /\ g.left <= g.right /\ g.right < g.last /\ g.first < g.last
BY DEF Scans, Sort!Calls

(* Of the calls of a sort: they are about nodes further and further to the    *)
(* right, and two positions are in order unless a call is about both.         *)
Lined(q) == \A a, b \in 1 .. Len(q) : a < b => q[a].last <= q[b].first
Unbegun(g) == g.left = g.first + 1 /\ g.right = g.last - 1
Together(q, i, j) == \E a \in 1 .. Len(q) : q[a].first <= i /\ j < q[a].last
Ordered(n, y, q) == \A i, j \in 1 .. n : i < j => y[i] <= y[j] \/ Together(q, i, j)
Scanned(y, g) == /\ \A k \in g.first + 1 .. g.left - 1 : y[k] <= y[g.first]
                 /\ \A k \in g.right + 1 .. g.last - 1 : y[k] >= y[g.first]

(* An exchange within the innermost call leaves the order alone.              *)
LEMMA SwapOrdered ==
  ASSUME NEW n \in Nat, NEW y \in [1 .. n -> Int],
         NEW q \in Seq({g \in Sort!Calls(n) : Scans(n, g)}),
         q # <<>>, Lined(q), Ordered(n, y, q),
         NEW a \in q[1].first .. q[1].last - 1, NEW b \in q[1].first .. q[1].last - 1
  PROVE  Ordered(n, Sort!Swap(y, a, b), q)
<1> DEFINE z == Sort!Swap(y, a, b)
           From(k) == IF k = a THEN b ELSE IF k = b THEN a ELSE k
           f == q[1].first
           e == q[1].last
<1>1. /\ Len(q) \in Nat /\ 1 \in 1 .. Len(q)
      /\ \A m \in 1 .. Len(q) : /\ q[m].first \in 1 .. n /\ q[m].last \in 2 .. n + 1
                                /\ q[m].first < q[m].last
  <2>1. Len(q) \in Nat /\ 1 \in 1 .. Len(q)
    BY LenProperties, EmptySeq
  <2>2. ASSUME NEW m \in 1 .. Len(q)
        PROVE  q[m].first \in 1 .. n /\ q[m].last \in 2 .. n + 1 /\ q[m].first < q[m].last
    <3>1. Scans(n, q[m])
      BY <2>2, ElementOfSeq
    <3> QED BY <3>1, ScansIn
  <2> QED BY <2>1, <2>2
<1>2. f \in 1 .. n /\ e \in 2 .. n + 1 /\ f < e /\ \A m \in 1 .. Len(q) : m # 1 => e <= q[m].first
  <2>1. \A m \in 1 .. Len(q) : m # 1 => 1 < m
    BY <1>1
  <2> QED BY <1>1, <2>1 DEF Lined
<1> HIDE DEF f, e
<1>3. a \in f .. e - 1 /\ b \in f .. e - 1
  BY DEF f, e
<1>4. \A k \in 1 .. n : z[k] = y[From(k)] /\ From(k) \in 1 .. n
  BY <1>2, <1>3 DEF Sort!Swap
<1>5. \A k \in 1 .. n : IF k \in f .. e - 1 THEN From(k) \in f .. e - 1 ELSE From(k) = k
  BY <1>2, <1>3
<1> HIDE DEF z, From
<1> SUFFICES ASSUME NEW i \in 1 .. n, NEW j \in 1 .. n, i < j, ~Together(q, i, j)
             PROVE  z[i] <= z[j]
  BY DEF Ordered, z
<1>6. ~(i \in f .. e - 1 /\ j \in f .. e - 1)
  BY <1>1, <1>2 DEF Together, f, e
<1>7. From(i) < From(j)
  BY <1>2, <1>4, <1>5, <1>6
<1>8. ~Together(q, From(i), From(j))
  <2> SUFFICES ASSUME NEW m \in 1 .. Len(q), q[m].first <= From(i), From(j) < q[m].last
               PROVE  FALSE
    BY DEF Together
  <2>1. q[m].first \in 1 .. n /\ q[m].last \in 2 .. n + 1 /\ (m # 1 => e <= q[m].first)
        /\ (m = 1 => q[m].first = f /\ q[m].last = e)
    BY <1>1, <1>2 DEF f, e
  <2>2. ~(q[m].first <= i /\ j < q[m].last)
    BY DEF Together
  <2>3. From(i) \in 1 .. n /\ From(j) \in 1 .. n
    BY <1>4
  <2>4. CASE m = 1
    <3>1. f <= From(i) /\ From(j) < e
      BY <2>1, <2>4
    <3>2. From(i) \in f .. e - 1 /\ From(j) \in f .. e - 1
      BY <1>2, <1>7, <2>3, <3>1
    <3>3. i \in f .. e - 1 /\ j \in f .. e - 1
      BY <1>5, <3>2
    <3> QED BY <1>6, <3>3
  <2>5. CASE m # 1
    <3>1. From(i) \notin f .. e - 1
      BY <1>2, <2>1, <2>3, <2>5
    <3>2. From(i) = i
      BY <1>5, <3>1
    <3>3. From(j) \notin f .. e - 1
      BY <1>2, <1>7, <2>1, <2>3, <2>5
    <3>4. From(j) = j
      BY <1>5, <3>3
    <3> QED BY <2>2, <3>2, <3>4
  <2> QED BY <2>4, <2>5
<1> QED BY <1>4, <1>7, <1>8 DEF Ordered

(* The calls q with one for the nodes from a up to b before them, if there is *)
(* anything to do for it.                                                     *)
Before(n, a, b, q, r) ==
  /\ r \in Seq({g \in Sort!Calls(n) : Scans(n, g)}) /\ Lined(r)
  /\ \A k \in 1 .. Len(r) : \/ Unbegun(r[k]) /\ r[k].first = a /\ r[k].last = b
                            \/ \E m \in 1 .. Len(q) : r[k] = q[m]
  /\ \A m \in 1 .. Len(q) : \E k \in 1 .. Len(r) : r[k] = q[m]
  /\ a + 1 < b => \E k \in 1 .. Len(r) : r[k].first = a /\ r[k].last = b

LEMMA CallBefore ==
  ASSUME NEW n \in Nat, NEW a \in 1 .. n + 1, NEW b \in 1 .. n + 1,
         NEW q \in Seq({g \in Sort!Calls(n) : Scans(n, g)}), Lined(q),
         \A m \in 1 .. Len(q) : b <= q[m].first
  PROVE  Before(n, a, b, q, Sort!Call(a, b) \o q)
<1> DEFINE G == {g \in Sort!Calls(n) : Scans(n, g)}
           r == Sort!Call(a, b) \o q
           x == [first |-> a, last |-> b, left |-> a + 1, right |-> b - 1]
<1>1. Len(q) \in Nat
  BY LenProperties
<1>2. CASE ~(a + 1 < b)
  <2>1. Sort!Call(a, b) = <<>>
    BY <1>2 DEF Sort!Call
  <2>2. r = q
    BY <2>1, ConcatEmptySeq
  <2> HIDE DEF r
  <2>3. Before(n, a, b, q, r)
    BY <1>2, <2>2 DEF Before
  <2> QED BY <2>3 DEF r
<1>3. CASE a + 1 < b
  <2>1. Sort!Call(a, b) = <<x>>
    BY <1>3 DEF Sort!Call
  <2>2. Sort!Call(a, b) \in Seq(G)
    BY CallScans
  <2>3. /\ r \in Seq(G) /\ Len(r) = 1 + Len(q)
        /\ \A k \in 1 .. Len(r) : r[k] = IF k = 1 THEN x ELSE q[k - 1]
    <3>1. Len(<<x>>) = 1 /\ <<x>>[1] = x
      OBVIOUS
    <3> HIDE DEF G, x
    <3>2. q \in Seq(G)
      BY DEF G
    <3>3. /\ r \in Seq(G) /\ Len(r) = 1 + Len(q)
          /\ \A k \in 1 .. 1 + Len(q) : r[k] = IF k <= 1 THEN <<x>>[k] ELSE q[k - 1]
      BY <2>1, <2>2, <3>1, <3>2, ConcatProperties
    <3> HIDE DEF r
    <3>4. ASSUME NEW k \in 1 .. 1 + Len(q) PROVE (k <= 1) = (k = 1)
      BY <1>1
    <3> QED BY <3>1, <3>3, <3>4
  <2> HIDE DEF r
  <2>4. x.first = a /\ x.last = b /\ Unbegun(x)
    BY DEF Unbegun
  <2> HIDE DEF x
  <2>5. 1 \in 1 .. Len(r) /\ \A m \in 1 .. Len(q) : m + 1 \in 1 .. Len(r) /\ r[m + 1] = q[m]
    BY <1>1, <2>3
  <2>6. Lined(r)
    <3> SUFFICES ASSUME NEW k \in 1 .. Len(r), NEW m \in 1 .. Len(r), k < m
                 PROVE  r[k].last <= r[m].first
      BY DEF Lined
    <3>1. r[m] = q[m - 1] /\ m - 1 \in 1 .. Len(q)
      BY <1>1, <2>3
    <3>2. CASE k = 1
      BY <2>3, <2>4, <3>1, <3>2
    <3>3. CASE k # 1
      <4>1. r[k] = q[k - 1] /\ k - 1 \in 1 .. Len(q) /\ k - 1 < m - 1
        BY <1>1, <2>3, <3>3
      <4> QED BY <3>1, <4>1 DEF Lined
    <3> QED BY <3>2, <3>3
  <2>7. ASSUME NEW k \in 1 .. Len(r), k # 1 PROVE \E m \in 1 .. Len(q) : r[k] = q[m]
    <3>1. k - 1 \in 1 .. Len(q)
      BY <1>1, <2>3, <2>7
    <3> QED BY <2>3, <2>7, <3>1
  <2>8. r[1] = x
    BY <2>3, <2>5
  <2>9. Before(n, a, b, q, r)
    BY <2>3, <2>4, <2>5, <2>6, <2>7, <2>8 DEF Before
  <2> QED BY <2>9 DEF r
<1> QED BY <1>2, <1>3

(* The calls a finished round leaves, for the nodes up to l and from l on.    *)
Halved(n, l, q, r) ==
  /\ r \in Seq({g \in Sort!Calls(n) : Scans(n, g)}) /\ Lined(r)
  /\ \A k \in 1 .. Len(r) :
       /\ Unbegun(r[k])
       /\ l <= r[k].first \/ r[k].last <= l
       /\ \E m \in 1 .. Len(q) : q[m].first <= r[k].first /\ r[k].last <= q[m].last
  /\ \A i, j \in 1 .. n :
       i < j /\ Together(q, i, j) => Together(r, i, j)
                                        \/ (q[1].first <= i /\ i < l /\ l <= j /\ j < q[1].last)

LEMMA SplitHalves ==
  ASSUME NEW n \in Nat, NEW q \in Seq({g \in Sort!Calls(n) : Scans(n, g)}), q # <<>>, Lined(q),
         \A m \in 2 .. Len(q) : Unbegun(q[m]), NEW l \in q[1].first + 1 .. q[1].last - 1
  PROVE  Halved(n, l, q, Sort!Call(q[1].first, l) \o Sort!Call(l, q[1].last) \o Tail(q))
<1> DEFINE G == {g \in Sort!Calls(n) : Scans(n, g)}
           f == q[1].first
           e == q[1].last
           t == Tail(q)
           u == Sort!Call(l, e) \o t
           r == Sort!Call(f, l) \o u
<1>1. /\ Len(q) \in Nat /\ 1 \in 1 .. Len(q)
      /\ \A m \in 1 .. Len(q) : Scans(n, q[m])
  BY LenProperties, EmptySeq, ElementOfSeq
<1>2. /\ t \in Seq(G) /\ Len(t) = Len(q) - 1
      /\ \A m \in 1 .. Len(t) : t[m] = q[m + 1] /\ m + 1 \in 2 .. Len(q) /\ m + 1 \in 1 .. Len(q)
  BY <1>1, HeadTailProperties
<1>3. f \in 1 .. n /\ e \in 2 .. n + 1 /\ f < l /\ l < e
        /\ l \in 1 .. n + 1 /\ f \in 1 .. n + 1 /\ e \in 1 .. n + 1
  BY <1>1, ScansIn
<1> HIDE DEF f, e, t
<1>4. ASSUME NEW m \in 1 .. Len(t) PROVE e <= t[m].first /\ t[m].first < t[m].last /\ Unbegun(t[m])
  <2>1. 1 < m + 1 /\ m + 1 \in 1 .. Len(q) /\ m + 1 \in 2 .. Len(q) /\ t[m] = q[m + 1]
    BY <1>1, <1>2, <1>4
  <2> QED BY <1>1, <2>1, ScansIn DEF Lined, e
<1>5. Lined(t)
  <2> SUFFICES ASSUME NEW a \in 1 .. Len(t), NEW b \in 1 .. Len(t), a < b
               PROVE  t[a].last <= t[b].first
    BY DEF Lined
  <2>1. a + 1 < b + 1
    BY <1>1, <1>2
  <2> QED BY <1>2, <2>1 DEF Lined
<1>6. Before(n, l, e, t, u)
  BY <1>2, <1>3, <1>4, <1>5, CallBefore
<1> HIDE DEF u
<1>7. \A m \in 1 .. Len(u) : l <= u[m].first /\ Unbegun(u[m])
  <2> SUFFICES ASSUME NEW m \in 1 .. Len(u) PROVE l <= u[m].first /\ Unbegun(u[m])
    OBVIOUS
  <2>1. CASE Unbegun(u[m]) /\ u[m].first = l
    BY <1>3, <2>1
  <2>2. CASE \E k \in 1 .. Len(t) : u[m] = t[k]
    <3>1. PICK k \in 1 .. Len(t) : u[m] = t[k]
      BY <2>2
    <3>2. k + 1 \in 1 .. Len(q) /\ t[k] = q[k + 1]
      BY <1>2
    <3>3. t[k].first \in 1 .. n
      BY <1>1, <3>2, ScansIn
    <3> QED BY <1>3, <1>4, <3>1, <3>3
  <2> QED BY <1>6, <2>1, <2>2 DEF Before
<1>8. Before(n, f, l, u, r)
  <2>1. u \in Seq(G) /\ Lined(u)
    BY <1>6 DEF Before
  <2> QED BY <1>3, <1>7, <2>1, CallBefore
<1>9. r = Sort!Call(f, l) \o Sort!Call(l, e) \o t
  <2>1. Sort!Call(f, l) \in Seq(G) /\ Sort!Call(l, e) \in Seq(G)
    BY <1>3, CallScans
  <2> HIDE DEF G
  <2> QED BY <1>2, <2>1, ConcatAssociative DEF u
<1> HIDE DEF r
<1>10. \A k \in 1 .. Len(r) :
         \/ Unbegun(r[k]) /\ r[k].first = f /\ r[k].last = l
         \/ Unbegun(r[k]) /\ r[k].first = l /\ r[k].last = e
         \/ \E m \in 1 .. Len(t) : r[k] = t[m]
  BY <1>6, <1>8 DEF Before
<1>11. ASSUME NEW k \in 1 .. Len(r)
       PROVE  /\ Unbegun(r[k])
              /\ l <= r[k].first \/ r[k].last <= l
              /\ \E m \in 1 .. Len(q) : q[m].first <= r[k].first /\ r[k].last <= q[m].last
  <2>1. CASE Unbegun(r[k]) /\ r[k].first = f /\ r[k].last = l
    BY <1>1, <1>3, <2>1 DEF f, e
  <2>2. CASE Unbegun(r[k]) /\ r[k].first = l /\ r[k].last = e
    BY <1>1, <1>3, <2>2 DEF f, e
  <2>3. CASE \E m \in 1 .. Len(t) : r[k] = t[m]
    <3>1. PICK m \in 1 .. Len(t) : r[k] = t[m]
      BY <2>3
    <3>2. m + 1 \in 1 .. Len(q) /\ t[m] = q[m + 1]
      BY <1>2
    <3>3. t[m].first \in 1 .. n /\ t[m].last \in 2 .. n + 1
      BY <1>1, <3>2, ScansIn
    <3>4. l <= t[m].first
      BY <1>3, <1>4, <3>3
    <3>5. q[m + 1].first <= r[k].first /\ r[k].last <= q[m + 1].last
      BY <3>1, <3>2, <3>3
    <3> QED BY <1>4, <3>1, <3>2, <3>4, <3>5
  <2> QED BY <1>10, <2>1, <2>2, <2>3
<1>12. ASSUME NEW i \in 1 .. n, NEW j \in 1 .. n, i < j, Together(q, i, j)
       PROVE  Together(r, i, j) \/ (f <= i /\ i < l /\ l <= j /\ j < e)
  <2>1. PICK m \in 1 .. Len(q) : q[m].first <= i /\ j < q[m].last
    BY <1>12 DEF Together
  <2>2. CASE m = 1
    <3>1. f <= i /\ j < e
      BY <2>1, <2>2 DEF f, e
    <3>2. CASE j < l
      <4>1. PICK k \in 1 .. Len(r) : r[k].first = f /\ r[k].last = l
        BY <1>3, <1>8, <1>12, <3>1, <3>2 DEF Before
      <4> QED BY <3>1, <3>2, <4>1 DEF Together
    <3>3. CASE l <= i
      <4>1. PICK h \in 1 .. Len(u) : u[h].first = l /\ u[h].last = e
        BY <1>3, <1>6, <1>12, <3>1, <3>3 DEF Before
      <4>2. PICK k \in 1 .. Len(r) : r[k] = u[h]
        BY <1>8 DEF Before
      <4> QED BY <3>1, <3>3, <4>1, <4>2 DEF Together
    <3> QED BY <1>3, <3>1, <3>2, <3>3
  <2>3. CASE m # 1
    <3>1. m - 1 \in 1 .. Len(t) /\ t[m - 1] = q[m]
      BY <1>1, <1>2, <2>3
    <3>2. PICK h \in 1 .. Len(u) : u[h] = t[m - 1]
      BY <1>6, <3>1 DEF Before
    <3>3. PICK k \in 1 .. Len(r) : r[k] = u[h]
      BY <1>8 DEF Before
    <3> QED BY <2>1, <3>1, <3>2, <3>3 DEF Together
  <2> QED BY <2>2, <2>3
<1>13. r \in Seq(G) /\ Lined(r)
  BY <1>8 DEF Before
<1>14. Halved(n, l, q, r)
  BY <1>11, <1>12, <1>13 DEF Halved, f, e
<1> QED BY <1>9, <1>14 DEF f, e, t

(* The characters of a list, of which each is at some height.                 *)
Heights(s, n) == \A i \in 1 .. n : IsPlayer(s[i]) /\ s[i].y \in Int
HeightsOf(s, p, n) == [i \in 1 .. n |-> s[p[i]].y]

LEMMA SwapHeights ==
  ASSUME NEW n \in Nat, NEW s, NEW p, Perm(p, n), NEW i \in 1 .. n, NEW j \in 1 .. n
  PROVE  HeightsOf(s, Sort!Swap(p, i, j), n) = Sort!Swap(HeightsOf(s, p, n), i, j)
BY DEF HeightsOf, Sort!Swap, Perm

(* What a round has found when both its scans have stopped.                   *)
Stopped(y, g, l, r) ==
  /\ l \in g.left .. g.right /\ r \in l - 1 .. g.right
  /\ l = g.right \/ y[l] > y[g.first]
  /\ r = l - 1 \/ y[r] < y[g.first]
  /\ \A k \in g.left .. l - 1 : y[k] <= y[g.first]
  /\ \A k \in r + 1 .. g.right : y[k] >= y[g.first]

LEMMA RoundStops ==
  ASSUME NEW n \in Nat, NEW s, Heights(s, n), NEW p, Perm(p, n), NEW g, Scans(n, g)
  PROVE  LET t == [i \in DOMAIN p |-> s[p[i]]]
             l == Sort!ScanLeft(t, g.first, g.left, g.right)
             r == Sort!ScanRight(t, g.first, l, g.right)
         IN Stopped(HeightsOf(s, p, n), g, l, r)
<1> DEFINE t == [i \in DOMAIN p |-> s[p[i]]]
           y == HeightsOf(s, p, n)
           l == Sort!ScanLeft(t, g.first, g.left, g.right)
           r == Sort!ScanRight(t, g.first, l, g.right)
<1>1. /\ g.first \in 1 .. n /\ g.left \in 2 .. n /\ g.right \in 1 .. n
      /\ g.first < g.left /\ g.left <= g.right
  BY ScansIn
<1>2. \A i, j \in 1 .. n : /\ y[i] \in Int /\ y[j] \in Int
                           /\ YsortingFunc(t[i], t[j]) = (y[i] >= y[j])
  BY DEF Heights, HeightsOf, Perm, YsortingFunc
<1> HIDE DEF t, y
<1>3. /\ l \in g.left .. g.right
      /\ l = g.right \/ ~YsortingFunc(t[g.first], t[l])
      /\ \A j \in g.left .. l - 1 : YsortingFunc(t[g.first], t[j])
  <2>1. LeftStop(t, g.first, g.left, g.right, l)
    BY <1>1, ScanLeftStops
  <2> QED BY <2>1 DEF LeftStop
<1> HIDE DEF l
<1>4. l \in Nat \ {0} /\ l <= g.right
  BY <1>1, <1>3
<1>5. /\ r \in l - 1 .. g.right
      /\ r = l - 1 \/ ~YsortingFunc(t[r], t[g.first])
      /\ \A j \in r + 1 .. g.right : YsortingFunc(t[j], t[g.first])
  <2>1. RightStop(t, g.first, l, g.right, r)
    BY <1>1, <1>4, ScanRightStops
  <2> QED BY <2>1 DEF RightStop
<1> HIDE DEF r
<1>6. l = g.right \/ y[l] > y[g.first]
  <2>1. l \in 1 .. n
    BY <1>1, <1>3, <1>4
  <2>2. (y[g.first] >= y[l]) = (y[l] <= y[g.first]) /\ y[g.first] \in Int /\ y[l] \in Int
    BY <1>1, <1>2, <2>1
  <2>3. CASE l = g.right
    BY <2>3
  <2>4. CASE ~YsortingFunc(t[g.first], t[l])
    <3>1. ~(y[g.first] >= y[l])
      BY <1>1, <1>2, <2>1, <2>4
    <3> QED BY <2>2, <3>1
  <2> QED BY <1>3, <2>3, <2>4
<1>7. r = l - 1 \/ y[r] < y[g.first]
  <2>1. CASE r = l - 1
    BY <2>1
  <2>2. CASE r # l - 1
    <3>1. r \in 1 .. n
      BY <1>1, <1>4, <1>5, <2>2
    <3>2. ~YsortingFunc(t[r], t[g.first])
      BY <1>5, <2>2
    <3>3. ~(y[r] >= y[g.first]) /\ y[r] \in Int /\ y[g.first] \in Int
      BY <1>1, <1>2, <3>1, <3>2
    <3> QED BY <3>3
  <2> QED BY <2>1, <2>2
<1>8. \A k \in g.left .. l - 1 : y[k] <= y[g.first]
  <2> SUFFICES ASSUME NEW k \in g.left .. l - 1 PROVE y[k] <= y[g.first]
    OBVIOUS
  <2>1. k \in 1 .. n
    BY <1>1, <1>4
  <2> QED BY <1>1, <1>2, <1>3, <2>1
<1>9. \A k \in r + 1 .. g.right : y[k] >= y[g.first]
  <2> SUFFICES ASSUME NEW k \in r + 1 .. g.right PROVE y[k] >= y[g.first]
    OBVIOUS
  <2>1. k \in 1 .. n
    BY <1>1, <1>4, <1>5
  <2> QED BY <1>1, <1>2, <1>5, <2>1
<1>10. Stopped(y, g, l, r)
  BY <1>3, <1>5, <1>6, <1>7, <1>8, <1>9 DEF Stopped
<1> QED BY <1>10 DEF y, l, r, t

(* How far a sort is after k rounds.  Every call that was split has been cut  *)
(* at a place of its own, of C; the innermost call had d rounds so far, each  *)
(* of which moved a scan.                                                     *)
Spent(n, y, q, k, C, d) ==
  /\ C \in SUBSET (2 .. n) /\ d \in Nat
  /\ \A m \in 1 .. Len(q), x \in C : ~(q[m].first < x /\ x < q[m].last)
  /\ k <= n * Cardinality(C) + d /\ d <= n - 1 - (q[1].right - q[1].left)
  /\ d = 0 \/ y[q[1].left] <= y[q[1].first]

SortedSoFar(n, y, q, k) ==
  /\ Lined(q) /\ \A m \in 2 .. Len(q) : Unbegun(q[m])
  /\ Ordered(n, y, q)
  /\ q # <<>> => Scanned(y, q[1]) /\ \E C, d : Spent(n, y, q, k, C, d)

Queue(n, q) == q \in Seq({g \in Sort!Calls(n) : Scans(n, g)})

LEMMA QueueIs ==
  ASSUME NEW n \in Nat, NEW q, Queue(n, q), q # <<>>
  PROVE  /\ Len(q) \in Nat /\ 1 \in 1 .. Len(q)
         /\ \A m \in 1 .. Len(q) : Scans(n, q[m])
BY LenProperties, EmptySeq, ElementOfSeq DEF Queue

(* The innermost call with its scans moved to l and r.                        *)
Moved(q, p, l, r) ==
  /\ Len(p) = Len(q) /\ p[1] = [q[1] EXCEPT !.left = l, !.right = r]
  /\ \A m \in 2 .. Len(q) : p[m] = q[m]

(* A round that ends in an exchange.                                          *)
LEMMA ExchangeSorts ==
  ASSUME NEW n \in Nat, NEW k \in Nat, NEW y \in [1 .. n -> Int],
         NEW q, Queue(n, q), q # <<>>, SortedSoFar(n, y, q, k),
         NEW l, NEW r, Stopped(y, q[1], l, r), l < r,
         NEW p, Queue(n, p), Moved(q, p, l, r)
  PROVE  SortedSoFar(n, Sort!Swap(y, l, r), p, k + 1)
<1> DEFINE z == Sort!Swap(y, l, r)
           g == q[1]
           h == p[1]
<1>1. /\ Len(q) \in Nat /\ 1 \in 1 .. Len(q) /\ Scans(n, g) /\ Scans(n, h)
      /\ p # <<>>
  <2>1. p # <<>>
    BY QueueIs, EmptySeq DEF Moved
  <2> QED BY <2>1, QueueIs
<1>2. /\ g.first \in 1 .. n /\ g.last \in 2 .. n + 1 /\ g.left \in 2 .. n /\ g.right \in 1 .. n
      /\ g.first < g.left /\ g.left <= g.right /\ g.right < g.last
  BY <1>1, ScansIn
<1>3. /\ l \in g.left .. g.right /\ r \in l + 1 .. g.right
      /\ y[r] < y[g.first] /\ y[l] > y[g.first]
      /\ \A x \in g.left .. l - 1 : y[x] <= y[g.first]
      /\ \A x \in r + 1 .. g.right : y[x] >= y[g.first]
  <2>1. Stopped(y, g, l, r)
    OBVIOUS
  <2> HIDE DEF g
  <2>2. l \in g.left .. g.right /\ r \in l - 1 .. g.right
    BY <2>1 DEF Stopped
  <2>3. r \in l + 1 .. g.right /\ r # l - 1 /\ l # g.right /\ r \in 1 .. n /\ l \in 1 .. n
    BY <1>2, <2>2
  <2>4. y[l] \in Int /\ y[r] \in Int /\ y[g.first] \in Int
    BY <1>2, <2>3
  <2> QED BY <2>1, <2>2, <2>3, <2>4 DEF Stopped
<1>20. /\ l # g.left => r - l + 1 <= g.right - g.left
       /\ g.first \in Int /\ g.left \in Int /\ g.right \in Int
       /\ l \in 1 .. n /\ r \in 1 .. n /\ g.left <= l /\ l < r /\ r <= g.right
       /\ g.first < l /\ r < g.last
  <2> HIDE DEF g
  <2>1. l \in g.left .. g.right /\ r \in l + 1 .. g.right
    BY <1>3
  <2>2. g.first \in Int /\ g.left \in Int /\ g.right \in Int /\ l \in Int /\ r \in Int
    BY <1>2, <2>1
  <2>3. l \in 1 .. n
    BY <1>2, <2>1
  <2>4. r \in 1 .. n
    BY <1>2, <2>1
  <2>5. g.left <= l /\ r <= g.right /\ l < r
    BY <1>2, <2>1
  <2>6. g.first < l
    BY <1>2, <2>1
  <2>7. r < g.last
    BY <1>2, <2>1
  <2>8. ASSUME l # g.left PROVE r - l + 1 <= g.right - g.left
    <3>1. g.left < l
      BY <2>2, <2>5, <2>8
    <3> QED BY <2>2, <2>5, <3>1
  <2> QED BY <2>2, <2>3, <2>4, <2>5, <2>6, <2>7, <2>8
<1>4. h.first = g.first /\ h.last = g.last /\ h.left = l /\ h.right = r
  BY <1>1 DEF Scans, Sort!Calls, Moved
<1>5. \A m \in 1 .. Len(q) : p[m].first = q[m].first /\ p[m].last = q[m].last
  <2> SUFFICES ASSUME NEW m \in 1 .. Len(q) PROVE p[m].first = q[m].first /\ p[m].last = q[m].last
    OBVIOUS
  <2>1. CASE m = 1
    BY <1>4, <2>1
  <2>2. CASE m # 1
    BY <1>1, <2>2 DEF Moved
  <2> QED BY <2>1, <2>2
<1> HIDE DEF g, h
<1>6. Lined(p) /\ \A m \in 2 .. Len(p) : Unbegun(p[m])
  BY <1>5 DEF SortedSoFar, Lined, Moved, Unbegun
<1>7. Ordered(n, z, q)
  <2>1. l \in g.first .. g.last - 1 /\ r \in g.first .. g.last - 1
    BY <1>2, <1>3
  <2> QED BY <2>1, SwapOrdered DEF SortedSoFar, g, Queue
<1>8. Ordered(n, z, p)
  BY <1>5, <1>7 DEF Ordered, Together, Moved
<1>9. /\ l \in 1 .. n /\ r \in 1 .. n
      /\ z \in [1 .. n -> Int] /\ z[l] = y[r] /\ z[r] = y[l]
      /\ \A x \in 1 .. n : x # l /\ x # r => z[x] = y[x]
  <2>1. l \in 1 .. n /\ r \in 1 .. n
    BY <1>2, <1>3
  <2> QED BY <2>1 DEF Sort!Swap
<1> HIDE DEF z
<1>10. z[g.first] = y[g.first]
  <2>1. g.first # l /\ g.first # r
    <3>1. g.first \in Int /\ l \in 1 .. n /\ r \in 1 .. n /\ g.first < l /\ l < r
      BY <1>20
    <3> QED BY ONLY n \in Nat, <3>1
  <2> QED BY <1>2, <1>9, <2>1
<1>11. Scanned(z, h)
  <2>1. Scanned(y, g)
    BY DEF SortedSoFar, g
  <2>2. ASSUME NEW x \in g.first + 1 .. l - 1 PROVE z[x] <= z[g.first]
    <3>1. x \in 1 .. n /\ x # l /\ x # r
      BY <1>2, <1>20
    <3>2. y[x] <= y[g.first]
      BY <1>2, <1>3, <1>20, <2>1 DEF Scanned
    <3> QED BY <1>9, <1>10, <3>1, <3>2
  <2>3. ASSUME NEW x \in r + 1 .. g.last - 1 PROVE z[x] >= z[g.first]
    <3>1. x \in 1 .. n /\ x # l /\ x # r
      BY <1>2, <1>20
    <3>2. y[x] >= y[g.first]
      BY <1>2, <1>3, <1>20, <2>1 DEF Scanned
    <3> QED BY <1>9, <1>10, <3>1, <3>2
  <2> QED BY <1>4, <2>2, <2>3 DEF Scanned
<1>12. PICK C, d : Spent(n, y, q, k, C, d)
  BY DEF SortedSoFar
<1>13. /\ C \in SUBSET (2 .. n) /\ d \in Nat
       /\ \A m \in 1 .. Len(q), x \in C : ~(q[m].first < x /\ x < q[m].last)
       /\ k <= n * Cardinality(C) + d /\ d <= n - 1 - (g.right - g.left)
       /\ d = 0 \/ y[g.left] <= y[g.first]
  BY <1>12 DEF Spent, g
<1>14. Cardinality(C) \in Nat
  <2>1. IsFiniteSet(2 .. n)
    BY FS_Interval
  <2>2. IsFiniteSet(C)
    BY <1>13, <2>1, FS_Subset
  <2> QED BY <2>2, FS_CardinalityType
<1>15. d + 1 <= n - 1 - (r - l)
  <2>1. CASE d = 0
    BY <1>2, <1>20, <2>1
  <2>2. CASE d # 0
    <3>1. l # g.left
      <4>1. y[g.left] <= y[g.first] /\ y[l] > y[g.first] /\ y[l] \in Int /\ y[g.first] \in Int
        BY <1>2, <1>3, <1>13, <1>20, <2>2
      <4> QED BY <4>1
    <3>2. d <= n - 1 - (g.right - g.left) /\ d \in Nat
      BY <1>13
    <3>3. r - l + 1 <= g.right - g.left
      BY <1>20, <3>1
    <3> QED BY <1>20, <3>2, <3>3
  <2> QED BY <2>1, <2>2
<1>16. k + 1 <= n * Cardinality(C) + (d + 1)
  <2>1. n * Cardinality(C) \in Nat
    BY <1>14
  <2> QED BY <1>13, <2>1
<1>17. z[h.left] <= z[h.first]
  <2>1. y[r] \in Int /\ y[g.first] \in Int
    BY <1>2, <1>9
  <2> QED BY <1>3, <1>4, <1>9, <1>10, <2>1
<1>18. Spent(n, z, p, k + 1, C, d + 1)
  <2>1. \A m \in 1 .. Len(p), x \in C : ~(p[m].first < x /\ x < p[m].last)
    BY <1>5, <1>13 DEF Moved
  <2>2. d + 1 \in Nat
    BY <1>13
  <2> QED BY <1>4, <1>13, <1>15, <1>16, <1>17, <2>1, <2>2 DEF Spent, h
<1>19. SortedSoFar(n, z, p, k + 1)
  BY <1>6, <1>8, <1>11, <1>18 DEF SortedSoFar, h
<1> QED BY <1>19 DEF z

(* A round that puts the pivot in its place.                                  *)
LEMMA SplitSorts ==
  ASSUME NEW n \in Nat, NEW k \in Nat, NEW y \in [1 .. n -> Int],
         NEW q, Queue(n, q), q # <<>>, SortedSoFar(n, y, q, k),
         NEW l, NEW r, Stopped(y, q[1], l, r), r <= l, NEW p, Halved(n, l, q, p)
  PROVE  SortedSoFar(n, Sort!Swap(y, r, q[1].first), p, k + 1)
<1> DEFINE g == q[1]
           z == Sort!Swap(y, r, g.first)
<1>1. /\ Len(q) \in Nat /\ 1 \in 1 .. Len(q) /\ Scans(n, g)
      /\ \A m \in 1 .. Len(q) : Scans(n, q[m])
  BY QueueIs
<1>2. /\ g.first \in 1 .. n /\ g.last \in 2 .. n + 1 /\ g.left \in 2 .. n /\ g.right \in 1 .. n
      /\ g.first < g.left /\ g.left <= g.right /\ g.right < g.last
  BY <1>1, ScansIn
<1> HIDE DEF g
<1>3. /\ l \in g.left .. g.right /\ (r = l - 1 \/ (r = l /\ l = g.right /\ y[l] < y[g.first]))
      /\ \A x \in g.left .. l - 1 : y[x] <= y[g.first]
      /\ \A x \in r + 1 .. g.right : y[x] >= y[g.first]
  <2>1. Stopped(y, g, l, r)
    BY DEF g
  <2>2. l \in g.left .. g.right /\ r \in l - 1 .. g.right
    BY <2>1 DEF Stopped
  <2>3. CASE r = l - 1
    BY <2>1, <2>3 DEF Stopped
  <2>4. CASE r # l - 1
    <3>1. r = l /\ l \in 1 .. n
      BY <1>2, <2>2, <2>4
    <3>2. y[l] < y[g.first] /\ y[l] \in Int /\ y[g.first] \in Int
      BY <1>2, <2>1, <2>4, <3>1 DEF Stopped
    <3>3. l = g.right
      BY <2>1, <3>2 DEF Stopped
    <3> QED BY <2>1, <3>1, <3>2, <3>3 DEF Stopped
  <2> QED BY <2>3, <2>4
<1>14. /\ l \in 1 .. n /\ r \in 1 .. n /\ g.left <= l /\ l <= g.right /\ l - 1 <= r /\ r <= l
       /\ g.first <= r /\ g.first < l /\ l < g.last /\ g.right < g.last
  <2>1. l \in g.left .. g.right /\ (r = l - 1 \/ r = l)
    BY <1>3
  <2>2. g.left <= l /\ l <= g.right /\ l - 1 <= r /\ r <= l
    BY <1>2, <2>1
  <2>3. l \in 1 .. n
    BY <1>2, <2>1
  <2>4. g.first < l /\ l < g.last
    BY <1>2, <2>1
  <2>5. g.first <= r
    BY <1>2, <2>1, <2>4
  <2>6. r \in 1 .. n
    BY <1>2, <2>1, <2>3, <2>5
  <2> QED BY <1>2, <2>2, <2>3, <2>4, <2>5, <2>6
<1>4. Scanned(y, g)
  BY DEF SortedSoFar, g
<1>5. /\ r \in 1 .. n /\ r \in g.first .. g.last - 1 /\ g.first \in g.first .. g.last - 1
      /\ z \in [1 .. n -> Int] /\ z[r] = y[g.first] /\ z[g.first] = y[r]
      /\ \A x \in 1 .. n : x # r /\ x # g.first => z[x] = y[x]
  <2>1. r \in 1 .. n /\ r \in g.first .. g.last - 1 /\ g.first \in g.first .. g.last - 1
    BY <1>2, <1>14
  <2> QED BY <1>2, <2>1 DEF Sort!Swap
<1>6. Ordered(n, z, q)
  BY <1>5, SwapOrdered DEF SortedSoFar, g, Queue
<1> HIDE DEF z
<1> DEFINE v == y[g.first]
<1>7. \A x \in g.first .. g.last - 1 : /\ x \in 1 .. n /\ y[x] \in Int /\ z[x] \in Int
                                       /\ x < l => z[x] <= v
                                       /\ l <= x => z[x] >= v
  <2> SUFFICES ASSUME NEW x \in g.first .. g.last - 1
               PROVE  /\ x \in 1 .. n /\ y[x] \in Int /\ z[x] \in Int
                      /\ x < l => z[x] <= v
                      /\ l <= x => z[x] >= v
    OBVIOUS
  <2>1. x \in 1 .. n /\ y[x] \in Int /\ z[x] \in Int /\ v \in Int
    <3>1. x \in 1 .. n
      BY <1>2
    <3> QED BY <1>2, <1>5, <3>1
  <2>2. ASSUME NEW w \in g.first + 1 .. l - 1 PROVE y[w] <= v
    <3>1. w \in g.first + 1 .. g.left - 1 \/ w \in g.left .. l - 1
      BY <1>2, <1>3
    <3> QED BY <1>3, <1>4, <3>1 DEF Scanned
  <2>3. ASSUME NEW w \in r + 1 .. g.last - 1 PROVE y[w] >= v
    <3>1. w \in g.right + 1 .. g.last - 1 \/ w \in r + 1 .. g.right
      BY <1>2, <1>3
    <3> QED BY <1>3, <1>4, <3>1 DEF Scanned
  <2>4. ASSUME x < l PROVE z[x] <= v
    <3>1. CASE x = r
      BY <1>5, <2>1, <3>1
    <3>2. CASE x = g.first /\ x # r
      <4>1. z[x] = y[r]
        BY <1>5, <3>2
      <4>2. CASE r = l
        <5>1. y[r] < v
          BY <1>2, <1>3, <4>2
        <5> QED BY <2>1, <4>1, <5>1
      <4>3. CASE r # l
        <5>1. r \in g.first + 1 .. l - 1
          BY <1>2, <1>14, <3>2, <4>3
        <5> QED BY <2>2, <4>1, <5>1
      <4> QED BY <4>2, <4>3
    <3>3. CASE x # g.first /\ x # r
      <4>1. z[x] = y[x] /\ x \in g.first + 1 .. l - 1
        BY <1>2, <1>3, <1>5, <2>1, <2>4, <3>3
      <4> QED BY <2>2, <4>1
    <3> QED BY <3>1, <3>2, <3>3
  <2>5. ASSUME l <= x PROVE z[x] >= v
    <3>1. CASE x = r
      BY <1>5, <2>1, <3>1
    <3>2. CASE x # r
      <4>1. x # g.first /\ x \in r + 1 .. g.last - 1
        BY <1>2, <1>3, <2>5, <3>2
      <4> QED BY <1>5, <2>1, <2>3, <3>2, <4>1
    <3> QED BY <3>1, <3>2
  <2> QED BY <2>1, <2>4, <2>5
<1>8. Ordered(n, z, p)
  <2> SUFFICES ASSUME NEW i \in 1 .. n, NEW j \in 1 .. n, i < j, ~Together(p, i, j)
               PROVE  z[i] <= z[j]
    BY DEF Ordered
  <2>1. CASE ~Together(q, i, j)
    BY <1>6, <2>1 DEF Ordered
  <2>2. CASE Together(q, i, j)
    <3>1. g.first <= i /\ i < l /\ l <= j /\ j < g.last
      BY <2>2 DEF Halved, g
    <3>2. i \in g.first .. g.last - 1 /\ j \in g.first .. g.last - 1
      <4>1. g.first \in 1 .. n /\ g.last \in 2 .. n + 1 /\ l \in g.left .. g.right
        BY <1>2, <1>3
      <4>2. g.left \in 2 .. n /\ g.right \in 1 .. n
        BY <1>2
      <4> QED BY ONLY n \in Nat, i \in 1 .. n, j \in 1 .. n, <3>1, <4>1, <4>2
    <3>3. z[i] <= v /\ v <= z[j] /\ z[i] \in Int /\ z[j] \in Int /\ v \in Int
      BY <1>2, <1>7, <3>1, <3>2
    <3> QED BY <3>3
  <2> QED BY <2>1, <2>2
<1>9. Queue(n, p) /\ Lined(p) /\ \A m \in 1 .. Len(p) : Unbegun(p[m])
  BY DEF Halved, Queue
<1>10. ASSUME p # <<>>
       PROVE  Scanned(z, p[1]) /\ \E D, e : Spent(n, z, p, k + 1, D, e)
  <2>1. Len(p) \in Nat /\ 1 \in 1 .. Len(p) /\ Scans(n, p[1])
    BY <1>9, <1>10, QueueIs
  <2>2. /\ p[1].first \in 1 .. n /\ p[1].last \in 2 .. n + 1
        /\ p[1].left = p[1].first + 1 /\ p[1].right = p[1].last - 1
    BY <1>9, <2>1, ScansIn DEF Unbegun
  <2>3. Scanned(z, p[1])
    BY <2>2 DEF Scanned
  <2>4. PICK C, d : Spent(n, y, q, k, C, d)
    BY DEF SortedSoFar
  <2>5. /\ C \in SUBSET (2 .. n) /\ d \in Nat
        /\ \A m \in 1 .. Len(q), x \in C : ~(q[m].first < x /\ x < q[m].last)
        /\ k <= n * Cardinality(C) + d /\ d <= n - 1 - (g.right - g.left)
    BY <2>4 DEF Spent, g
  <2> DEFINE D == C \cup {l}
  <2>6. l \notin C /\ l \in 2 .. n
    <3>1. \A x \in C : ~(g.first < x /\ x < g.last)
      BY <1>1, <2>5 DEF g
    <3>2. l \notin C
      BY <1>14, <3>1
    <3>3. l \in 2 .. n
      BY <1>2, <1>14
    <3> QED BY <3>2, <3>3
  <2>7. Cardinality(C) \in Nat /\ Cardinality(D) = Cardinality(C) + 1
    <3>1. IsFiniteSet(2 .. n)
      BY FS_Interval
    <3>2. IsFiniteSet(C)
      BY <2>5, <3>1, FS_Subset
    <3> QED BY <2>6, <3>2, FS_AddElement, FS_CardinalityType
  <2>8. ASSUME NEW m \in 1 .. Len(p), NEW x \in D PROVE ~(p[m].first < x /\ x < p[m].last)
    <3>1. Scans(n, p[m])
      BY <1>9, <1>10, QueueIs
    <3>2. p[m].first \in 1 .. n /\ p[m].last \in 2 .. n + 1
      BY <3>1, ScansIn
    <3>3. CASE x = l
      <4>1. l <= p[m].first \/ p[m].last <= l
        BY DEF Halved
      <4> QED BY <2>6, <3>2, <3>3, <4>1
    <3>4. CASE x \in C
      <4>1. PICK w \in 1 .. Len(q) : q[w].first <= p[m].first /\ p[m].last <= q[w].last
        BY DEF Halved
      <4>2. Scans(n, q[w])
        BY <1>1
      <4>3. q[w].first \in 1 .. n /\ q[w].last \in 2 .. n + 1 /\ x \in 2 .. n
        BY <2>5, <3>4, <4>2, ScansIn
      <4>4. ~(q[w].first < x /\ x < q[w].last)
        BY <2>5, <3>4
      <4>5. q[w].first \in Int /\ q[w].last \in Int /\ x \in Int
        BY <4>3
      <4>6. p[m].first \in Int /\ p[m].last \in Int
        BY <3>2
      <4> QED BY <4>1, <4>4, <4>5, <4>6
    <3> QED BY <3>3, <3>4
  <2>9. k + 1 <= n * Cardinality(D) + 0
    <3>1. n * (Cardinality(C) + 1) = n * Cardinality(C) + n /\ n * Cardinality(C) \in Nat
      <4>1. \A a, b \in Nat : a * (b + 1) = a * b + a /\ a * b \in Nat
        OBVIOUS
      <4> QED BY <2>7, <4>1
    <3>2. d + 1 <= n
      BY <1>2, <2>5
    <3> HIDE DEF D
    <3> QED BY <2>5, <2>7, <3>1, <3>2
  <2>10. 0 <= n - 1 - (p[1].right - p[1].left)
    BY <2>2
  <2>11. D \in SUBSET (2 .. n)
    BY <2>5, <2>6
  <2> HIDE DEF D
  <2>12. Spent(n, z, p, k + 1, D, 0)
    BY <2>8, <2>9, <2>10, <2>11 DEF Spent
  <2> QED BY <2>3, <2>12
<1>11. SortedSoFar(n, z, p, k + 1)
  <2>1. \A m \in 2 .. Len(p) : m \in 1 .. Len(p)
    OBVIOUS
  <2> QED BY <1>8, <1>9, <1>10, <2>1 DEF SortedSoFar
<1> QED BY <1>11 DEF z, g

Going(s, n, st, k) == SortedSoFar(n, HeightsOf(s, st.order, n), st.calls, k)

LEMMA RoundGoesOn ==
  ASSUME NEW n \in Nat, NEW k \in Nat, NEW s, Heights(s, n), NEW st, Sorting(n, st),
         Going(s, n, st, k)
  PROVE  Going(s, n, Sort!Round(s, st), k + 1)
<1> DEFINE p == st.order
           q == st.calls
           t == [i \in DOMAIN p |-> s[p[i]]]
           g == Head(q)
           l == Sort!ScanLeft(t, g.first, g.left, g.right)
           r == Sort!ScanRight(t, g.first, l, g.right)
           y == HeightsOf(s, p, n)
           next == Sort!Round(s, st)
<1>1. Perm(p, n) /\ Queue(n, q)
  BY DEF Sorting, Queue
<1>2. SortedSoFar(n, y, q, k)
  BY DEF Going
<1>3. y \in [1 .. n -> Int]
  BY <1>1 DEF HeightsOf, Heights, Perm
<1>4. Sorting(n, next)
  BY RoundSorts
<1>5. CASE q = <<>>
  <2>1. next = st
    BY <1>5 DEF Sort!Round
  <2>2. SortedSoFar(n, y, q, k + 1)
    <3> HIDE DEF y, q
    <3> QED BY <1>2, <1>5 DEF SortedSoFar
  <2> HIDE DEF next
  <2>3. Going(s, n, next, k + 1)
    BY <2>1, <2>2 DEF Going
  <2> QED BY <2>3 DEF next
<1>6. CASE q # <<>>
  <2>1. g = q[1] /\ Len(q) \in Nat /\ Scans(n, q[1])
    <3>1. q[1] = Head(q)
      BY <1>1, <1>6 DEF Queue
    <3> QED BY <1>1, <1>6, <3>1, QueueIs
  <2>2. Stopped(y, q[1], l, r)
    BY <1>1, <2>1, RoundStops
  <2>3. /\ g.first \in 1 .. n /\ g.last \in 2 .. n + 1 /\ g.left \in 2 .. n /\ g.right \in 1 .. n
        /\ g.first < g.left /\ g.left <= g.right /\ g.right < g.last
    BY <2>1, ScansIn
  <2>4. CASE r <= l
    <3> DEFINE m == Sort!Call(g.first, l) \o Sort!Call(l, g.last) \o Tail(q)
    <3>1. next = [order |-> Sort!Swap(p, r, g.first), calls |-> m]
      BY <1>6, <2>4 DEF Sort!Round
    <3>2. next.order = Sort!Swap(p, r, g.first) /\ next.calls = m
      <4> HIDE DEF m, next, g, l, r, p
      <4> QED BY <3>1
    <3> HIDE DEF next, l, r, g
    <3>3. l \in g.left .. g.right /\ r \in l - 1 .. g.right
      BY <2>1, <2>2 DEF Stopped
    <3>4. l \in g.first + 1 .. g.last - 1
      BY <2>3, <3>3
    <3>5. \A x \in 2 .. Len(q) : Unbegun(q[x])
      BY <1>2 DEF SortedSoFar
    <3>6. Lined(q)
      BY <1>2 DEF SortedSoFar
    <3>7. Halved(n, l, q, m)
      BY <1>1, <1>6, <2>1, <3>4, <3>5, <3>6, SplitHalves DEF Queue
    <3> HIDE DEF m, q, y, p
    <3>8. SortedSoFar(n, Sort!Swap(y, r, q[1].first), m, k + 1)
      BY <1>1, <1>2, <1>3, <1>6, <2>2, <2>4, <3>7, SplitSorts
    <3>9. r \in 1 .. n
      <4>1. l - 1 \in 1 .. n
        BY <2>3, <3>4
      <4> QED BY <2>3, <3>3, <4>1
    <3>10. HeightsOf(s, Sort!Swap(p, r, g.first), n) = Sort!Swap(y, r, g.first)
      BY <1>1, <2>3, <3>9, SwapHeights DEF y
    <3>11. Going(s, n, next, k + 1)
      BY <2>1, <3>2, <3>8, <3>10 DEF Going
    <3> QED BY <3>11 DEF next
  <2>5. CASE ~(r <= l)
    <3> DEFINE h == [g EXCEPT !.left = l, !.right = r]
               m == <<h>> \o Tail(q)
    <3>1. next = [order |-> Sort!Swap(p, l, r), calls |-> m]
      BY <1>6, <2>5 DEF Sort!Round
    <3>2. next.order = Sort!Swap(p, l, r) /\ next.calls = m
      <4> HIDE DEF m, next, g, l, r, p
      <4> QED BY <3>1
    <3> HIDE DEF next, l, r, g
    <3>3. l \in g.left .. g.right /\ r \in l - 1 .. g.right
      BY <2>1, <2>2 DEF Stopped
    <3>4. l < r /\ l \in 1 .. n /\ r \in 1 .. n
      <4>1. l \in Int /\ r \in Int
        BY <2>3, <3>3
      <4>2. l < r
        BY <2>5, <4>1
      <4>3. l \in 1 .. n
        BY <2>3, <3>3
      <4> QED BY <2>3, <3>3, <4>2, <4>3
    <3>5. Queue(n, m)
      BY <1>4, <3>2 DEF Sorting, Queue
    <3>6. Moved(q, m, l, r)
      <4> DEFINE G == {x \in Sort!Calls(n) : Scans(n, x)}
      <4> HIDE DEF q, y, p
      <4>1. q \in Seq(G) /\ q # <<>>
        BY <1>1, <1>6 DEF Queue
      <4> HIDE DEF G
      <4>2. /\ Tail(q) \in Seq(G) /\ Len(Tail(q)) = Len(q) - 1
            /\ \A x \in 1 .. Len(Tail(q)) : Tail(q)[x] = q[x + 1]
        BY <4>1, HeadTailProperties
      <4>3. Len(<<h>>) = 1 /\ <<h>>[1] = h /\ <<h>> \in Seq(G \cup {h})
        OBVIOUS
      <4>4. Tail(q) \in Seq(G \cup {h})
        BY <4>2, SeqMonotonic
      <4>5. /\ Len(m) = 1 + Len(Tail(q))
            /\ \A x \in 1 .. 1 + Len(Tail(q)) : m[x] = IF x <= 1 THEN <<h>>[x] ELSE Tail(q)[x - 1]
        <5> HIDE DEF h
        <5> QED BY <4>3, <4>4, ConcatProperties
      <4> HIDE DEF m, h
      <4>6. Len(q) \in Nat /\ 1 <= Len(q)
        BY <1>1, <1>6, QueueIs
      <4>7. Len(m) = Len(q) /\ m[1] = h
        BY <4>2, <4>3, <4>5, <4>6
      <4>8. ASSUME NEW x \in 2 .. Len(q) PROVE m[x] = q[x]
        <5>1. /\ x \in 1 .. 1 + Len(Tail(q)) /\ ~(x <= 1) /\ x - 1 \in 1 .. Len(Tail(q))
              /\ (x - 1) + 1 = x
          BY <4>2, <4>6
        <5> QED BY <4>2, <4>5, <5>1
      <4> QED BY <2>1, <4>7, <4>8 DEF Moved, h
    <3> HIDE DEF m, q, y, p
    <3>7. SortedSoFar(n, Sort!Swap(y, l, r), m, k + 1)
      BY <1>1, <1>2, <1>3, <1>6, <2>2, <3>4, <3>5, <3>6, ExchangeSorts
    <3>8. HeightsOf(s, Sort!Swap(p, l, r), n) = Sort!Swap(y, l, r)
      BY <1>1, <3>4, SwapHeights DEF y
    <3>9. Going(s, n, next, k + 1)
      BY <3>2, <3>7, <3>8 DEF Going
    <3> QED BY <3>9 DEF next
  <2> QED BY <2>4, <2>5
<1> QED BY <1>5, <1>6

(* The rounds of QuickSort are enough, and a list of characters is sorted.    *)
LEMMA SortSorts ==
  ASSUME NEW s, Len(s) \in Nat, Heights(s, Len(s))
  PROVE  \A i, j \in 1 .. Len(s) : i < j => YSort(s)[i].y <= YSort(s)[j].y
<1> DEFINE n == Len(s)
           N == n * n
<1>1. PICK u : SortRun(s, n, u)
  BY SortRuns
<1>2. N \in Nat
  OBVIOUS
<1>3. /\ u[0] = FirstRound(n) /\ \A k \in 1 .. N : u[k] = Sort!Round(s, u[k - 1])
      /\ \A k \in 0 .. N : Sorting(n, u[k])
      /\ YSort(s) = [i \in 1 .. n |-> s[u[N].order[i]]]
  BY <1>1 DEF SortRun
<1> HIDE DEF n, N
<1>4. n \in Nat
  BY DEF n
<1>5. Going(s, n, u[0], 0)
  <2> DEFINE y == HeightsOf(s, u[0].order, n)
             q == Sort!Call(1, n + 1)
             x == [first |-> 1, last |-> n + 1, left |-> 2, right |-> n]
  <2>1. u[0].calls = q
    BY <1>3 DEF FirstRound
  <2>2. CASE n <= 1
    <3>1. q = <<>>
      BY <1>4, <2>2 DEF Sort!Call
    <3>2. Ordered(n, y, q)
      <4>1. \A i, j \in 1 .. n : ~(i < j)
        BY <1>4, <2>2
      <4> QED BY <4>1 DEF Ordered
    <3> HIDE DEF y, q
    <3> QED BY <2>1, <3>1, <3>2 DEF Going, SortedSoFar, Lined, y
  <2>3. CASE ~(n <= 1)
    <3>1. q = <<x>>
      BY <1>4, <2>3 DEF Sort!Call
    <3>2. Len(q) = 1 /\ q[1] = x
      BY <3>1
    <3>3. x.first = 1 /\ x.last = n + 1 /\ x.left = 2 /\ x.right = n
      OBVIOUS
    <3> HIDE DEF y, q, x
    <3>4. Lined(q) /\ \A m \in 2 .. Len(q) : Unbegun(q[m])
      <4>1. \A a, b \in 1 .. 1 : ~(a < b)
        OBVIOUS
      <4>2. \A m \in 2 .. 1 : FALSE
        OBVIOUS
      <4> QED BY <3>2, <4>1, <4>2 DEF Lined
    <3>5. Ordered(n, y, q)
      <4>1. \A i, j \in 1 .. n : 1 <= i /\ j < n + 1
        BY <1>4
      <4>2. 1 \in 1 .. Len(q)
        BY <3>2
      <4> QED BY <3>2, <3>3, <4>1, <4>2 DEF Ordered, Together
    <3>6. Scanned(y, q[1])
      <4>1. (\A a \in 2 .. 1 : FALSE) /\ (\A a \in n + 1 .. n : FALSE)
        BY <1>4
      <4>2. x.first + 1 = 2 /\ x.left - 1 = 1 /\ x.right + 1 = n + 1 /\ x.last - 1 = n
        BY <1>4, <3>3
      <4> QED BY <3>2, <4>1, <4>2 DEF Scanned
    <3>7. Spent(n, y, q, 0, {}, 0)
      <4>1. Cardinality({}) = 0 /\ n * 0 = 0
        BY <1>4, FS_EmptySet
      <4>2. 0 <= n * Cardinality({}) + 0
        BY <4>1
      <4>3. 0 <= n - 1 - (q[1].right - q[1].left)
        BY <1>4, <3>2, <3>3
      <4> QED BY <4>2, <4>3 DEF Spent
    <3> QED BY <2>1, <3>4, <3>5, <3>6, <3>7 DEF Going, SortedSoFar, y
  <2> QED BY <2>2, <2>3
<1> DEFINE Bad == {k \in 0 .. N : ~Going(s, n, u[k], k)}
<1>6. Bad = {}
  <2> SUFFICES ASSUME Bad # {} PROVE FALSE
    OBVIOUS
  <2>1. PICK k \in Bad : \A j \in Bad : k <= j
    <3>1. Bad \in SUBSET Nat
      OBVIOUS
    <3> HIDE DEF Bad
    <3> QED BY <3>1, Least
  <2>2. k \in 1 .. N
    BY <1>2, <1>5, <2>1
  <2>3. k - 1 \in 0 .. N /\ ~(k <= k - 1) /\ k - 1 \in Nat /\ (k - 1) + 1 = k
    BY <1>2, <2>2
  <2>4. Going(s, n, u[k - 1], k - 1) /\ Sorting(n, u[k - 1])
    BY <1>3, <2>1, <2>3
  <2>5. Going(s, n, Sort!Round(s, u[k - 1]), (k - 1) + 1)
    <3> HIDE DEF Bad
    <3> QED BY <1>4, <2>3, <2>4, RoundGoesOn DEF n
  <2> QED BY <1>3, <2>1, <2>2, <2>3, <2>5
<1> DEFINE y == HeightsOf(s, u[N].order, n)
           q == u[N].calls
<1>7. SortedSoFar(n, y, q, N) /\ Perm(u[N].order, n) /\ Queue(n, q)
  <2>1. N \in 0 .. N
    BY <1>2
  <2> QED BY <1>3, <1>6, <2>1 DEF Going, Sorting, Queue
<1> HIDE DEF Bad, q
<1>8. q = <<>>
  <2> SUFFICES ASSUME q # <<>> PROVE FALSE
    OBVIOUS
  <2>1. PICK C, d : Spent(n, y, q, N, C, d)
    BY <1>7 DEF SortedSoFar
  <2> HIDE DEF y
  <2>2. Scans(n, q[1])
    BY <1>4, <1>7, QueueIs
  <2>3. 2 <= n /\ q[1].left <= q[1].right /\ q[1].left \in Int /\ q[1].right \in Int
    <3>1. q[1].left \in 2 .. n /\ q[1].left <= q[1].right /\ q[1].right \in 1 .. n
      BY <1>4, <2>2, ScansIn
    <3> QED BY <1>4, <3>1
  <2>4. /\ C \in SUBSET (2 .. n) /\ d \in Nat /\ N <= n * Cardinality(C) + d
        /\ d <= n - 1 - (q[1].right - q[1].left)
    BY <2>1 DEF Spent
  <2>5. IsFiniteSet(2 .. n) /\ Cardinality(2 .. n) = n - 1
    <3>1. /\ IsFiniteSet(2 .. n)
          /\ Cardinality(2 .. n) = IF 2 > n THEN 0 ELSE n - 2 + 1
      BY <1>4, FS_Interval
    <3>2. ~(2 > n) /\ n - 2 + 1 = n - 1
      BY <1>4, <2>3
    <3> QED BY <3>1, <3>2
  <2>6. Cardinality(C) \in Nat /\ Cardinality(C) <= n - 1
    <3>1. IsFiniteSet(C) /\ Cardinality(C) <= Cardinality(2 .. n)
      BY <2>4, <2>5, FS_Subset
    <3> QED BY <2>5, <3>1, FS_CardinalityType
  <2>7. d <= n - 1
    BY <1>4, <2>3, <2>4
  <2>8. n * Cardinality(C) <= n * (n - 1)
    <3>1. \A a, b, c \in Nat : b <= c => a * b <= a * c
      OBVIOUS
    <3>2. n - 1 \in Nat
      BY <1>4, <2>3
    <3> QED BY <1>4, <2>6, <3>1, <3>2
  <2>9. n * (n - 1) = N - n
    <3>1. \A a \in Nat : a * (a - 1) = a * a - a
      OBVIOUS
    <3> QED BY <1>4, <3>1 DEF N
  <2>10. n * Cardinality(C) \in Nat
    BY <1>4, <2>6
  <2> QED BY <1>2, <1>4, <2>4, <2>7, <2>8, <2>9, <2>10
<1>9. \A i, j \in 1 .. n : i < j => y[i] <= y[j]
  <2>1. Len(q) = 0
    BY <1>8
  <2>2. \A i, j \in 1 .. n : ~Together(q, i, j)
    BY <2>1 DEF Together
  <2> QED BY <1>7, <2>2 DEF SortedSoFar, Ordered
<1>10. \A i \in 1 .. n : YSort(s)[i].y = y[i]
  BY <1>3 DEF HeightsOf
<1> QED BY <1>9, <1>10 DEF n

(* What is picked is what stood at the positions, each once, in the order f.  *)
Picks(f, s, I) ==
  /\ f \in [1 .. Cardinality(I) -> I] /\ Cardinality(I) \in Nat
  /\ \A a, b \in 1 .. Cardinality(I) : f[a] = f[b] => a = b
  /\ \A i \in I : \E a \in 1 .. Cardinality(I) : f[a] = i
  /\ Picked(s, I) = [a \in 1 .. Cardinality(I) |-> s[f[a]]]

LEMMA PickedOnce ==
  ASSUME NEW n \in Nat, NEW I \in SUBSET (1 .. n), NEW s
  PROVE  \E f : Picks(f, s, I)
<1> DEFINE m == Cardinality(I)
           Upto(i) == {j \in I : j <= i}
           rank == [i \in I |-> Cardinality(Upto(i))]
           f == [k \in 1 .. m |-> CHOOSE i \in I : Cardinality(Upto(i)) = k]
<1>1. IsFiniteSet(I) /\ m \in Nat
  <2>1. IsFiniteSet(1 .. n)
    BY FS_Interval
  <2>2. IsFiniteSet(I)
    BY <2>1, FS_Subset
  <2> QED BY <2>2, FS_CardinalityType
<1>2. \A i \in I : /\ IsFiniteSet(Upto(i)) /\ Cardinality(Upto(i)) \in 1 .. m
                   /\ rank[i] = Cardinality(Upto(i))
  <2> SUFFICES ASSUME NEW i \in I
               PROVE IsFiniteSet(Upto(i)) /\ Cardinality(Upto(i)) \in 1 .. m
    OBVIOUS
  <2>1. Upto(i) \in SUBSET I /\ i \in Upto(i)
    OBVIOUS
  <2> HIDE DEF Upto
  <2>2. IsFiniteSet(Upto(i)) /\ Cardinality(Upto(i)) <= m /\ Cardinality(Upto(i)) \in Nat
    BY <1>1, <2>1, FS_Subset, FS_CardinalityType
  <2>3. Cardinality(Upto(i)) # 0
    BY <2>1, <2>2, FS_EmptySet
  <2> HIDE DEF m
  <2> QED BY <1>1, <2>2, <2>3
<1>3. ASSUME NEW i \in I, NEW j \in I, i < j PROVE rank[i] # rank[j]
  <2>1. Upto(i) \in SUBSET Upto(j) /\ j \in Upto(j) /\ j \notin Upto(i)
    <3>1. i \in Int /\ j \in Int /\ \A x \in I : x \in Int
      OBVIOUS
    <3>2. (\A x \in I : x <= i => x <= j) /\ ~(j <= i) /\ j <= j
      BY <1>3, <3>1
    <3> HIDE DEF rank, f, m
    <3> QED BY <3>2, Zenon
  <2> HIDE DEF Upto, rank
  <2> QED BY <1>2, <2>1, FS_Subset
<1>4. rank \in Injection(I, 1 .. m)
  <2>1. rank \in [I -> 1 .. m]
    BY <1>2
  <2>2. \A i, j \in I : i = j \/ i < j \/ j < i
    OBVIOUS
  <2> HIDE DEF rank, m
  <2>3. \A i, j \in I : rank[i] = rank[j] => i = j
    BY <1>3, <2>2
  <2> QED BY <2>1, <2>3 DEF Injection, IsInjective
<1>5. rank \in Surjection(I, 1 .. m)
  <2>1. IsFiniteSet(1 .. m) /\ Cardinality(1 .. m) = m
    BY <1>1, FS_Interval
  <2> HIDE DEF rank
  <2> QED BY <1>1, <1>4, <2>1, FS_Injection
<1> HIDE DEF rank, Upto, m
<1>6. \A k \in 1 .. m : \E i \in I : Cardinality(Upto(i)) = k
  BY <1>2, <1>5 DEF Surjection
<1>7. \A k \in 1 .. m : f[k] \in I /\ rank[f[k]] = k
  BY <1>2, <1>6
<1>8. Picked(s, I) = [k \in 1 .. m |-> s[f[k]]]
  <2>1. \A k \in 1 .. m : f[k] = CHOOSE i \in I : Cardinality(Upto(i)) = k
    OBVIOUS
  <2> DEFINE h(k) == CHOOSE i \in I : Cardinality(Upto(i)) = k
  <2>2. Picked(s, I) = [k \in 1 .. m |-> s[h(k)]]
    BY DEF Picked, Upto, m
  <2>3. \A k \in 1 .. m : f[k] = h(k)
    BY <2>1
  <2> HIDE DEF f, h
  <2> QED BY <2>2, <2>3
<1>9. f \in [1 .. m -> I]
  BY <1>7
<1> HIDE DEF f
<1>10. \A a, b \in 1 .. m : f[a] = f[b] => a = b
  BY <1>7
<1>11. ASSUME NEW i \in I PROVE \E a \in 1 .. m : f[a] = i
  <2>1. rank[i] \in 1 .. m /\ f[rank[i]] \in I /\ rank[f[rank[i]]] = rank[i]
    BY <1>2, <1>7
  <2>2. f[rank[i]] = i
    BY <1>4, <2>1 DEF Injection, IsInjective
  <2> QED BY <2>1, <2>2
<1>12. Picks(f, s, I)
  BY <1>1, <1>8, <1>9, <1>10, <1>11 DEF m, Picks
<1> QED BY <1>12

(* What FindByObjectID and SetPlayerObject find: the first of them.           *)
LEMMA FoundFirst ==
  ASSUME NEW n \in Nat, NEW I \in SUBSET (1 .. n), NEW k, k = IF I # {} THEN Min(I) ELSE 0
  PROVE  /\ k \in 0 .. n /\ (k # 0 <=> I # {}) /\ (k # 0 => k \in I)
<1>1. CASE I = {}
  BY <1>1
<1>2. CASE I # {}
  <2>1. I \in SUBSET Nat
    OBVIOUS
  <2>2. \E i \in I : \A j \in I : i <= j
    BY <1>2, <2>1, Least
  <2>3. Min(I) \in I
    BY <2>2 DEF Min
  <2>4. k = Min(I)
    BY <1>2
  <2>5. k \in I
    BY <2>3, <2>4
  <2> QED BY <1>2, <2>5
<1> QED BY <1>1, <1>2

LEMMA ListAtIs ==
  ASSUME NEW c, NEW a, Len(list[c]) \in Nat
  PROVE  /\ ListAt(c, a) \in 0 .. Len(list[c])
         /\ ListAt(c, a) # 0 => IsPlayer(list[c][ListAt(c, a)]) /\ list[c][ListAt(c, a)].at = a
         /\ \A i \in 1 .. Len(list[c]) :
              IsPlayer(list[c][i]) /\ list[c][i].at = a => ListAt(c, a) # 0
<1> DEFINE I == {i \in 1 .. Len(list[c]) : IsPlayer(list[c][i]) /\ list[c][i].at = a}
<1>1. ListAt(c, a) = IF I # {} THEN Min(I) ELSE 0
  BY DEF ListAt, SelectInSeq
<1>2. /\ ListAt(c, a) \in 0 .. Len(list[c]) /\ (ListAt(c, a) # 0 <=> I # {})
      /\ (ListAt(c, a) # 0 => ListAt(c, a) \in I)
  <2>1. I \in SUBSET (1 .. Len(list[c]))
    OBVIOUS
  <2> HIDE DEF I
  <2> QED BY <1>1, <2>1, FoundFirst
<1> QED BY <1>2

LEMMA IndexIs ==
  ASSUME NEW c, NEW id, Len(list[c]) \in Nat
  PROVE  /\ Index(c, id) \in 0 .. Len(list[c])
         /\ Index(c, id) # 0 => list[c][Index(c, id)].id = id
         /\ \A i \in 1 .. Len(list[c]) : list[c][i].id = id => Index(c, id) # 0
<1> DEFINE I == {i \in 1 .. Len(list[c]) : list[c][i].id = id}
<1>1. Index(c, id) = IF I # {} THEN Min(I) ELSE 0
  BY DEF Index, SelectInSeq
<1>2. /\ Index(c, id) \in 0 .. Len(list[c]) /\ (Index(c, id) # 0 <=> I # {})
      /\ (Index(c, id) # 0 => Index(c, id) \in I)
  <2>1. I \in SUBSET (1 .. Len(list[c]))
    OBVIOUS
  <2> HIDE DEF I
  <2> QED BY <1>1, <2>1, FoundFirst
<1> QED BY <1>2

(* A list with one element less.                                              *)
LEMMA RemoveAtIs ==
  ASSUME NEW S, NEW s \in Seq(S), NEW i \in 1 .. Len(s)
  PROVE  /\ RemoveAt(s, i) \in Seq(S) /\ Len(RemoveAt(s, i)) = Len(s) - 1
         /\ \A j \in 1 .. Len(s) - 1 : RemoveAt(s, i)[j] = s[IF j < i THEN j ELSE j + 1]
<1> DEFINE a == SubSeq(s, 1, i - 1)
           b == SubSeq(s, i + 1, Len(s))
<1>1. Len(s) \in Nat /\ i \in Nat /\ 1 <= i /\ i <= Len(s) /\ \A k \in 1 .. Len(s) : s[k] \in S
  BY LenProperties, ElementOfSeq
<1>2. a \in Seq(S) /\ Len(a) = i - 1 /\ \A j \in 1 .. i - 1 : a[j] = s[j]
  BY <1>1, SubSeqProperties
<1>3. b \in Seq(S) /\ Len(b) = Len(s) - i /\ \A j \in 1 .. Len(s) - i : b[j] = s[j + i]
  <2>1. b \in Seq(S) /\ Len(b) = IF i + 1 <= Len(s) THEN Len(s) - (i + 1) + 1 ELSE 0
    BY <1>1, SubSeqProperties
  <2>2. \A j \in 1 .. Len(s) - i : b[j] = s[(i + 1) + j - 1]
    BY <1>1, SubSeqProperties
  <2>3. \A j \in 1 .. Len(s) - i : (i + 1) + j - 1 = j + i
    BY <1>1
  <2> QED BY <1>1, <2>1, <2>2, <2>3
<1> HIDE DEF a, b
<1>4. /\ a \o b \in Seq(S) /\ Len(a \o b) = Len(s) - 1
      /\ \A j \in 1 .. Len(a) + Len(b) : (a \o b)[j] = IF j <= Len(a) THEN a[j] ELSE b[j - Len(a)]
  BY <1>1, <1>2, <1>3, ConcatProperties
<1>5. ASSUME NEW j \in 1 .. Len(s) - 1 PROVE (a \o b)[j] = s[IF j < i THEN j ELSE j + 1]
  <2>1. j \in 1 .. Len(a) + Len(b)
    BY <1>1, <1>2, <1>3
  <2>2. CASE j < i
    <3>1. j <= Len(a) /\ j \in 1 .. i - 1
      BY <1>1, <1>2, <2>2
    <3> QED BY <1>2, <1>4, <2>1, <2>2, <3>1
  <2>3. CASE ~(j < i)
    <3>1. ~(j <= Len(a)) /\ j - Len(a) \in 1 .. Len(s) - i /\ (j - Len(a)) + i = j + 1
      BY <1>1, <1>2, <2>3
    <3> QED BY <1>3, <1>4, <2>1, <2>3, <3>1
  <2> QED BY <2>2, <2>3
<1> QED BY <1>4, <1>5 DEF RemoveAt, a, b
-----------------------------------------------------------------------------
(* Sequences of whatever it may be.                                           *)
IsSeq(s) == \E S : s \in Seq(S)

LEMMA SeqIs ==
  ASSUME NEW s, IsSeq(s)
  PROVE  Len(s) \in Nat /\ DOMAIN s = 1 .. Len(s) /\ s \in Seq({s[i] : i \in 1 .. Len(s)})
<1>1. PICK S : s \in Seq(S)
  BY DEF IsSeq
<1>2. Len(s) \in Nat /\ DOMAIN s = 1 .. Len(s) /\ s \in [1 .. Len(s) -> S]
  BY <1>1, LenProperties
<1>3. s \in [1 .. Len(s) -> {s[i] : i \in 1 .. Len(s)}]
  BY <1>2
<1>4. s \in Seq({s[i] : i \in 1 .. Len(s)})
  BY <1>2, <1>3
<1> QED BY <1>2, <1>4

LEMMA MadeSeq ==
  ASSUME NEW n \in Nat, NEW s, s = [i \in 1 .. n |-> s[i]]
  PROVE  IsSeq(s) /\ Len(s) = n
<1>1. s \in [1 .. n -> {s[i] : i \in 1 .. n}]
  OBVIOUS
<1>2. s \in Seq({s[i] : i \in 1 .. n})
  BY <1>1
<1>3. DOMAIN s = 1 .. n
  BY <1>1
<1>4. Len(s) \in Nat /\ DOMAIN s = 1 .. Len(s)
  BY <1>2, LenProperties
<1>5. Len(s) = n
  BY <1>3, <1>4
<1> QED BY <1>2, <1>5 DEF IsSeq

LEMMA JoinedIs ==
  ASSUME NEW s, IsSeq(s), NEW t, IsSeq(t)
  PROVE  /\ IsSeq(s \o t) /\ Len(s \o t) = Len(s) + Len(t)
         /\ Len(s) \in Nat /\ Len(t) \in Nat
         /\ \A i \in 1 .. Len(s) : (s \o t)[i] = s[i]
         /\ \A i \in 1 .. Len(t) : (s \o t)[Len(s) + i] = t[i]
         /\ \A k \in 1 .. Len(s) + Len(t) :
              \/ k \in 1 .. Len(s) /\ (s \o t)[k] = s[k]
              \/ k - Len(s) \in 1 .. Len(t) /\ (s \o t)[k] = t[k - Len(s)]
<1>1. PICK S : s \in Seq(S)
  BY DEF IsSeq
<1>2. PICK T : t \in Seq(T)
  BY DEF IsSeq
<1>3. s \in Seq(S \cup T) /\ t \in Seq(S \cup T)
  <2>1. \A i \in 1 .. Len(s) : s[i] \in S
    BY <1>1, ElementOfSeq
  <2>2. \A i \in 1 .. Len(t) : t[i] \in T
    BY <1>2, ElementOfSeq
  <2> QED BY <1>1, <1>2, <2>1, <2>2
<1>4. Len(s) \in Nat /\ Len(t) \in Nat
  BY <1>1, <1>2, LenProperties
<1> DEFINE z == s \o t
<1>5. /\ z \in Seq(S \cup T) /\ Len(z) = Len(s) + Len(t)
      /\ \A i \in 1 .. Len(s) + Len(t) : z[i] = IF i <= Len(s) THEN s[i] ELSE t[i - Len(s)]
  BY <1>3, ConcatProperties
<1> HIDE DEF z
<1>6. \A i \in 1 .. Len(s) : z[i] = s[i]
  BY <1>4, <1>5
<1>7. ASSUME NEW i \in 1 .. Len(t) PROVE z[Len(s) + i] = t[i]
  <2>1. Len(s) + i \in 1 .. Len(s) + Len(t) /\ ~(Len(s) + i <= Len(s)) /\ (Len(s) + i) - Len(s) = i
    BY <1>4
  <2> QED BY <1>5, <2>1
<1>8. ASSUME NEW k \in 1 .. Len(s) + Len(t)
      PROVE  \/ k \in 1 .. Len(s) /\ z[k] = s[k]
             \/ k - Len(s) \in 1 .. Len(t) /\ z[k] = t[k - Len(s)]
  <2>1. CASE k <= Len(s)
    BY <1>4, <1>5, <2>1
  <2>2. CASE ~(k <= Len(s))
    <3>1. k - Len(s) \in 1 .. Len(t)
      BY <1>4, <2>2
    <3> QED BY <1>5, <2>2, <3>1
  <2> QED BY <2>1, <2>2
<1>9. IsSeq(z)
  BY <1>5 DEF IsSeq
<1> QED BY <1>4, <1>5, <1>6, <1>7, <1>8, <1>9 DEF z

LEMMA AppendIs ==
  ASSUME NEW s, IsSeq(s), NEW e
  PROVE  /\ IsSeq(Append(s, e)) /\ Len(Append(s, e)) = Len(s) + 1 /\ Len(s) \in Nat
         /\ Append(s, e)[Len(s) + 1] = e
         /\ \A i \in 1 .. Len(s) : Append(s, e)[i] = s[i]
<1>1. PICK S : s \in Seq(S)
  BY DEF IsSeq
<1>2. s \in Seq(S \cup {e}) /\ e \in S \cup {e}
  <2>1. \A i \in 1 .. Len(s) : s[i] \in S
    BY <1>1, ElementOfSeq
  <2> QED BY <1>1, <2>1
<1>3. Len(s) \in Nat
  BY <1>1, LenProperties
<1>4. /\ Append(s, e) \in Seq(S \cup {e}) /\ Len(Append(s, e)) = Len(s) + 1
      /\ \A i \in 1 .. Len(s) : Append(s, e)[i] = s[i]
      /\ Append(s, e)[Len(s) + 1] = e
  BY <1>2, AppendProperties
<1> QED BY <1>3, <1>4 DEF IsSeq

LEMMA TailIs ==
  ASSUME NEW s, IsSeq(s), s # <<>>
  PROVE  /\ IsSeq(Tail(s)) /\ Len(Tail(s)) = Len(s) - 1 /\ Len(s) \in Nat \ {0}
         /\ Head(s) = s[1] /\ \A i \in 1 .. Len(s) - 1 : Tail(s)[i] = s[i + 1]
<1>1. PICK S : s \in Seq(S)
  BY DEF IsSeq
<1>2. Len(s) \in Nat
  BY <1>1, LenProperties
<1>3. Tail(s) \in Seq(S) /\ Len(s) = Len(Tail(s)) + 1 /\ Head(s) = s[1]
  BY <1>1, HeadTailProperties
<1>4. Len(Tail(s)) \in Nat
  BY <1>3, LenProperties
<1>5. Len(Tail(s)) = Len(s) - 1 /\ Len(s) # 0
  BY <1>2, <1>3, <1>4
<1>6. \A i \in 1 .. Len(Tail(s)) : Tail(s)[i] = s[i + 1]
  BY <1>1, HeadTailProperties
<1> QED BY <1>2, <1>3, <1>5, <1>6 DEF IsSeq

LEMMA NoneIs ==
  IsSeq(<<>>) /\ Len(<<>>) = 0
<1>1. <<>> \in Seq({})
  BY EmptySeq
<1> QED BY <1>1 DEF IsSeq

LEMMA OneIs ==
  ASSUME NEW e
  PROVE  IsSeq(<<e>>) /\ Len(<<e>>) = 1 /\ <<e>>[1] = e
<1>1. <<e>> \in Seq({e})
  OBVIOUS
<1> QED BY <1>1 DEF IsSeq

LEMMA ReverseIs ==
  ASSUME NEW s, IsSeq(s)
  PROVE  /\ IsSeq(Reverse(s)) /\ Len(Reverse(s)) = Len(s) /\ Len(s) \in Nat
         /\ \A i \in 1 .. Len(s) : /\ Len(s) - i + 1 \in 1 .. Len(s)
                                   /\ Reverse(s)[i] = s[Len(s) - i + 1]
<1>1. Len(s) \in Nat
  BY SeqIs
<1> DEFINE m == Reverse(s)
<1>2. m = [i \in 1 .. Len(s) |-> s[Len(s) - i + 1]]
  BY DEF Reverse
<1> HIDE DEF m
<1>3. m = [i \in 1 .. Len(s) |-> m[i]]
  BY <1>2
<1>4. IsSeq(m) /\ Len(m) = Len(s)
  BY <1>1, <1>3, MadeSeq
<1>5. \A i \in 1 .. Len(s) : Len(s) - i + 1 \in 1 .. Len(s) /\ m[i] = s[Len(s) - i + 1]
  BY <1>1, <1>2
<1> QED BY <1>1, <1>4, <1>5 DEF m

LEMMA NoneReplaced ==
  ASSUME NEW s, IsSeq(s), NEW o
  PROVE  [s EXCEPT ![0] = o] = s
<1>1. PICK S : s \in Seq(S)
  BY DEF IsSeq
<1>2. Len(s) \in Nat /\ s \in [1 .. Len(s) -> S]
  BY <1>1, LenProperties
<1>3. 0 \notin 1 .. Len(s)
  BY <1>2
<1> QED BY <1>2, <1>3
-----------------------------------------------------------------------------
(* A character or its slot, and an effect.                                    *)
IsSlot(o) ==
  /\ DOMAIN o = {"type", "at", "id", "mine", "x", "y", "right", "action",
                   "hp", "dead", "cur", "anim"}
  /\ o.type = "player" /\ o.mine \in BOOLEAN /\ o.right \in BOOLEAN
  /\ DOMAIN o.anim = Attacks \X BOOLEAN

IsEffect(o) == DOMAIN o = {"type", "id", "x", "y", "tick", "dead"} /\ o.type = "effect" /\ o.id = -1

(* p is o after something happened to it.                                     *)
Keeps(o, p) == IsSlot(p) /\ p.at = o.at /\ p.id = o.id /\ p.mine = o.mine

(* No animation but the one that plays is anywhere but at its start, and one  *)
(* that plays an attack plays what the character does.                        *)
Complete(o) ==
  /\ \A a \in (Attacks \X BOOLEAN) \ {o.cur} : o.anim[a] = ResetFrame
  /\ InAttack(o) => o.action \in Attacks /\ o.cur = <<o.action, o.right>>

LEMMA SetPositionKeeps ==
  ASSUME NEW o, IsSlot(o), NEW x, NEW y
  PROVE  /\ Keeps(o, SetPosition(o, x, y)) /\ (Complete(o) => Complete(SetPosition(o, x, y)))
         /\ SetPosition(o, x, y).action = o.action
BY DEF IsSlot, Keeps, Complete, InAttack, SetPosition

LEMMA SetHPKeeps ==
  ASSUME NEW o, IsSlot(o), NEW hp
  PROVE  Keeps(o, SetHP(o, hp)) /\ (Complete(o) => Complete(SetHP(o, hp)))
BY DEF IsSlot, Keeps, Complete, InAttack, SetHP

LEMMA PlacedKeeps ==
  ASSUME NEW o, IsSlot(o), NEW p
  PROVE  Keeps(o, Placed(o, p)) /\ (~InAttack(o) /\ Complete(o) => Complete(Placed(o, p)))
BY DEF IsSlot, Keeps, Complete, InAttack, Placed, SetPosition

LEMMA SetHitEffectKeeps ==
  ASSUME NEW o, IsSlot(o), NEW pos
  PROVE  Keeps(o, SetHitEffect(o, pos)) /\ (Complete(o) => Complete(SetHitEffect(o, pos)))
BY DEF IsSlot, Keeps, Complete, InAttack, SetHitEffect

(* After LoopResetFrame nothing is left of any attack.                        *)
LEMMA LoopResetKeeps ==
  ASSUME NEW o, IsSlot(o)
  PROVE  /\ Keeps(o, LoopResetFrame(o)) /\ (Complete(o) => Complete(LoopResetFrame(o)))
         /\ LoopResetFrame(o).cur = o.cur
         /\ Complete(o) => \A a \in Attacks \X BOOLEAN : LoopResetFrame(o).anim[a] = ResetFrame
<1> DEFINE p == LoopResetFrame(o)
<1>1. CASE ~InAttack(o)
  <2>1. p = o
    BY <1>1 DEF LoopResetFrame
  <2>2. \A a \in Attacks \X BOOLEAN : a # o.cur
    BY <1>1 DEF InAttack
  <2> QED BY <2>1, <2>2 DEF Keeps, IsSlot, Complete
<1>2. CASE InAttack(o)
  <2>1. p = [o EXCEPT !.anim = [o.anim EXCEPT ![o.cur] = ResetFrame]]
    BY <1>2 DEF LoopResetFrame
  <2>2. /\ DOMAIN p = DOMAIN o /\ p.anim = [o.anim EXCEPT ![o.cur] = ResetFrame]
        /\ p.type = o.type /\ p.at = o.at /\ p.id = o.id /\ p.mine = o.mine /\ p.right = o.right
        /\ p.cur = o.cur /\ p.action = o.action
    BY <2>1 DEF IsSlot
  <2> HIDE DEF p
  <2>3. Keeps(o, p)
    BY <2>2 DEF IsSlot, Keeps
  <2>4. ASSUME Complete(o) PROVE \A a \in Attacks \X BOOLEAN : p.anim[a] = ResetFrame
    BY <2>2, <2>4 DEF IsSlot, Complete
  <2>5. ASSUME Complete(o) PROVE Complete(p)
    BY <2>2, <2>4, <2>5 DEF Complete, InAttack
  <2> QED BY <2>2, <2>3, <2>4, <2>5 DEF p
<1> QED BY <1>1, <1>2

LEMMA InputKeeps ==
  ASSUME NEW o, IsSlot(o), NEW action \in Actions
  PROVE  /\ Keeps(o, InputActionProc(o, action))
         /\ o.mine /\ Complete(o) => Complete(InputActionProc(o, action))
<1> DEFINE q == IF o.mine /\ o.action \in Attacks THEN LoopResetFrame(o) ELSE o
           z == [q EXCEPT !.action = action]
           p == SetAnimation(z)
<1>1. CASE Ignored(o, action)
  BY <1>1 DEF InputActionProc, Keeps
<1>2. CASE ~Ignored(o, action)
  <2>1. InputActionProc(o, action) = p
    BY <1>2 DEF InputActionProc
  <2>2. Keeps(o, q) /\ IsSlot(q)
    BY LoopResetKeeps DEF Keeps
  <2>3. ASSUME o.mine, Complete(o) PROVE \A a \in Attacks \X BOOLEAN : q.anim[a] = ResetFrame
    <3>1. CASE o.action \in Attacks
      BY <2>3, <3>1, LoopResetKeeps
    <3>2. CASE o.action \notin Attacks
      <4>1. ~InAttack(o)
        BY <2>3, <3>2 DEF Complete
      <4>2. \A a \in Attacks \X BOOLEAN : a # o.cur
        BY <4>1 DEF InAttack
      <4> QED BY <2>3, <3>2, <4>2 DEF Complete
    <3> QED BY <3>1, <3>2
  <2> HIDE DEF q
  <2>4. /\ DOMAIN p = DOMAIN q /\ p.anim = q.anim /\ p.action = action /\ p.right = q.right
        /\ p.type = q.type /\ p.at = q.at /\ p.id = q.id /\ p.mine = q.mine
        /\ p.cur = <<IF action \in Moves THEN LL ELSE action, q.right>>
    BY <2>2 DEF IsSlot, SetAnimation, AnimationOf
  <2> HIDE DEF p
  <2>5. Keeps(o, p)
    BY <2>2, <2>4 DEF IsSlot, Keeps
  <2>6. InAttack(p) => p.action \in Attacks /\ p.cur = <<p.action, p.right>>
    BY <2>4 DEF InAttack, Attacks, Moves, LL, LD
  <2>7. ASSUME o.mine, Complete(o) PROVE Complete(p)
    BY <2>3, <2>4, <2>6, <2>7 DEF Complete
  <2> QED BY <2>1, <2>5, <2>7
<1> QED BY <1>1, <1>2

LEMMA NextFrameKeeps ==
  ASSUME NEW o, IsSlot(o)
  PROVE  Keeps(o, NextFrame(o)) /\ (Complete(o) => Complete(NextFrame(o)))
<1> DEFINE p == NextFrame(o)
<1>1. CASE ~InAttack(o) \/ o.anim[o.cur].end
  BY <1>1 DEF NextFrame, Keeps
<1>2. CASE ~(~InAttack(o) \/ o.anim[o.cur].end)
  <2>1. PICK f : p = [o EXCEPT !.anim = [o.anim EXCEPT ![o.cur] = f]]
    BY <1>2 DEF NextFrame
  <2> HIDE DEF p
  <2>2. /\ DOMAIN p = DOMAIN o /\ p.anim = [o.anim EXCEPT ![o.cur] = f]
        /\ p.type = o.type /\ p.at = o.at /\ p.id = o.id /\ p.mine = o.mine /\ p.right = o.right
        /\ p.cur = o.cur /\ p.action = o.action
    BY <2>1 DEF IsSlot
  <2>3. Keeps(o, p)
    BY <2>2 DEF IsSlot, Keeps
  <2>4. Complete(o) => Complete(p)
    BY <2>2 DEF IsSlot, Complete, InAttack
  <2> QED BY <2>3, <2>4 DEF p
<1> QED BY <1>1, <1>2

LEMMA ActionProcKeeps ==
  ASSUME NEW o, IsSlot(o)
  PROVE  Keeps(o, ActionProc(o)) /\ (Complete(o) => Complete(ActionProc(o)))
<1> DEFINE p == ActionProc(o)
           over == o.action \in Attacks /\ IsEndFrame(o)
           action == IF over THEN STAND ELSE o.action
           right == (o.right \/ Rightwards(o.action)) /\ ~Leftwards(o.action)
<1>1. /\ DOMAIN p = DOMAIN o /\ p.type = o.type /\ p.at = o.at /\ p.id = o.id /\ p.mine = o.mine
      /\ p.right = right /\ p.action = action /\ p.cur = AnimationOf(action, right)
      /\ p.anim = IF over THEN [o.anim EXCEPT ![o.cur] = ResetFrame] ELSE o.anim
  <2> HIDE DEF over, action, right
  <2>1. PICK x, y : p = [o EXCEPT !.x = x, !.y = y, !.right = right, !.action = action,
                            !.cur = AnimationOf(action, right),
                            !.anim = IF over THEN [o.anim EXCEPT ![o.cur] = ResetFrame] ELSE o.anim]
    BY DEF ActionProc, over, action, right
  <2> HIDE DEF p
  <2> QED BY <2>1 DEF IsSlot
<1> HIDE DEF p
<1>2. right \in BOOLEAN /\ (o.action \in Attacks => right = o.right)
  BY DEF IsSlot, Attacks, Rightwards, Leftwards, RR, RU, RD, LL, LU, LD
<1>3. Keeps(o, p)
  <2>1. DOMAIN p.anim = DOMAIN o.anim
    BY <1>1
  <2> HIDE DEF right, over, action
  <2> QED BY <1>1, <1>2, <2>1 DEF IsSlot, Keeps
<1>4. ASSUME Complete(o) PROVE Complete(p)
  <2>1. InAttack(p) => p.action \in Attacks /\ p.cur = <<p.action, p.right>>
    <3> HIDE DEF right, over
    <3> QED BY <1>1 DEF InAttack, AnimationOf, Attacks, Moves, LL, LD, STAND
  <2>2. CASE over
    <3>1. p.anim = [o.anim EXCEPT ![o.cur] = ResetFrame]
      BY <1>1, <2>2
    <3>2. \A a \in Attacks \X BOOLEAN : p.anim[a] = ResetFrame
      BY <1>4, <3>1 DEF IsSlot, Complete
    <3> QED BY <2>1, <3>2 DEF Complete
  <2>3. CASE ~over /\ InAttack(o)
    <3>1. p.cur = o.cur /\ p.anim = o.anim
      BY <1>1, <1>2, <1>4, <2>3 DEF Complete, AnimationOf, Attacks, Moves, LL, LD
    <3> QED BY <1>4, <2>1, <3>1 DEF Complete
  <2>4. CASE ~over /\ ~InAttack(o)
    <3>1. p.anim = o.anim
      BY <1>1, <2>4
    <3>2. \A a \in Attacks \X BOOLEAN : a # o.cur
      BY <2>4 DEF InAttack
    <3>3. \A a \in Attacks \X BOOLEAN : p.anim[a] = ResetFrame
      BY <1>4, <3>1, <3>2 DEF Complete
    <3> QED BY <2>1, <3>3 DEF Complete
  <2> QED BY <2>2, <2>3, <2>4
<1> QED BY <1>3, <1>4 DEF p

LEMMA RunKeeps ==
  ASSUME NEW o
  PROVE  /\ IsSlot(o) => Keeps(o, RunObject(o)) /\ (Complete(o) => Complete(RunObject(o)))
         /\ IsEffect(o) => IsEffect(RunObject(o)) /\ IsEffect(RunEffect(o))
<1>1. ASSUME IsSlot(o)
      PROVE  Keeps(o, RunObject(o)) /\ (Complete(o) => Complete(RunObject(o)))
  <2>1. RunPlayer(o) = ActionProc(NextFrame(o))
    BY DEF RunPlayer
  <2>2. RunObject(o) = ActionProc(NextFrame(o))
    BY <1>1, <2>1 DEF RunObject, IsPlayer, IsSlot
  <2>3. Keeps(o, NextFrame(o)) /\ IsSlot(NextFrame(o)) /\ (Complete(o) => Complete(NextFrame(o)))
    BY <1>1, NextFrameKeeps DEF Keeps
  <2>4. /\ Keeps(NextFrame(o), ActionProc(NextFrame(o)))
        /\ Complete(NextFrame(o)) => Complete(ActionProc(NextFrame(o)))
    BY <2>3, ActionProcKeeps
  <2> QED BY <2>2, <2>3, <2>4 DEF Keeps
<1>2. ASSUME IsEffect(o) PROVE IsEffect(RunObject(o)) /\ IsEffect(RunEffect(o))
  <2>1. RunObject(o) = RunEffect(o)
    BY <1>2 DEF RunObject, IsPlayer, IsEffect
  <2>2. IsEffect(RunEffect(o))
    BY <1>2 DEF RunEffect, IsEffect
  <2> QED BY <2>1, <2>2
<1> QED BY <1>1, <1>2

LEMMA NewEffectIs ==
  ASSUME NEW pos
  PROVE  IsEffect(NewEffect(pos))
BY DEF IsEffect, NewEffect

LEMMA KindsDiffer ==
  ASSUME NEW o
  PROVE  (IsSlot(o) => IsPlayer(o)) /\ (IsEffect(o) => ~IsPlayer(o) /\ o.id = -1)
BY DEF IsSlot, IsEffect, IsPlayer

(* A new character has no attack to complete.                                 *)
LEMMA NewPlayerIs ==
  ASSUME NEW slot, IsSlot(slot), NEW id
  PROVE  LET p == NewPlayer(slot, id)
         IN /\ IsSlot(p) /\ Complete(p) /\ ~InAttack(p)
            /\ p.at = slot.at /\ p.id = id /\ p.mine = FALSE
<1> DEFINE p == NewPlayer(slot, id)
<1>1. /\ DOMAIN p = DOMAIN slot /\ p.type = slot.type /\ p.at = slot.at /\ p.right = slot.right
      /\ p.id = id /\ p.mine = FALSE /\ p.cur = <<STAND, FALSE>>
      /\ p.anim = [a \in Attacks \X BOOLEAN |-> ResetFrame]
  BY DEF NewPlayer, IsSlot
<1> HIDE DEF p
<1>2. IsSlot(p)
  BY <1>1 DEF IsSlot
<1>3. ~InAttack(p)
  BY <1>1 DEF InAttack, Attacks, STAND
<1>4. Complete(p)
  BY <1>1, <1>3 DEF Complete
<1> QED BY <1>1, <1>2, <1>3, <1>4 DEF p
-----------------------------------------------------------------------------
(* A list of objects, and the free slots; no character is twice in them.      *)
Things(l) == IsSeq(l) /\ \A i \in 1 .. Len(l) : IsSlot(l[i]) \/ IsEffect(l[i])
Slots(q) == IsSeq(q) /\ \A k \in 1 .. Len(q) : IsSlot(q[k])

Distinct(l) == \A i, j \in 1 .. Len(l) :
                 IsPlayer(l[i]) /\ IsPlayer(l[j]) /\ l[i].at = l[j].at => i = j
Apart(l, q) == /\ Distinct(l) /\ Distinct(q)
               /\ \A i \in 1 .. Len(l), k \in 1 .. Len(q) : IsPlayer(l[i]) => l[i].at # q[k].at

(* The character at w on the list is that of client c, or it is not there.    *)
IsOwn(o, w, c) == IsSlot(o) /\ o.at = w /\ o.mine /\ o.id = c /\ Complete(o)
Shows(l, w, c) == \E i \in 1 .. Len(l) : IsOwn(l[i], w, c)
Lacks(l, w) == \A i \in 1 .. Len(l) : IsPlayer(l[i]) => l[i].at # w

(* m is l after something happened to its objects.                            *)
Same(l, m) ==
  /\ IsSeq(m) /\ Len(m) = Len(l)
  /\ \A i \in 1 .. Len(l) : /\ IsSlot(l[i]) => Keeps(l[i], m[i])
                            /\ IsEffect(l[i]) => IsEffect(m[i])

LEMMA SameKeeps ==
  ASSUME NEW l, Things(l), NEW m, Same(l, m)
  PROVE  /\ Things(m) /\ (Distinct(l) => Distinct(m)) /\ (Slots(l) => Slots(m))
         /\ \A q : (Apart(l, q) => Apart(m, q)) /\ (Apart(q, l) /\ Slots(l) => Apart(q, m))
         /\ \A w : Lacks(l, w) => Lacks(m, w)
<1>1. /\ IsSeq(m) /\ Len(m) = Len(l)
      /\ \A i \in 1 .. Len(l) :
           \/ IsSlot(l[i]) /\ IsSlot(m[i]) /\ IsPlayer(l[i]) /\ IsPlayer(m[i]) /\ m[i].at = l[i].at
           \/ IsEffect(m[i]) /\ ~IsPlayer(m[i]) /\ ~IsSlot(l[i])
  BY KindsDiffer DEF Things, Same, Keeps
<1>2. Things(m) /\ (Slots(l) => Slots(m))
  BY <1>1 DEF Things, Slots
<1>3. Distinct(l) => Distinct(m)
  BY <1>1 DEF Distinct
<1>4. ASSUME NEW q, Apart(l, q) PROVE Apart(m, q)
  BY <1>1, <1>3, <1>4 DEF Apart
<1>5. ASSUME NEW q, Apart(q, l), Slots(l) PROVE Apart(q, m)
  BY <1>1, <1>3, <1>5 DEF Apart, Slots
<1>6. ASSUME NEW w, Lacks(l, w) PROVE Lacks(m, w)
  BY <1>1, <1>6 DEF Lacks
<1> QED BY <1>2, <1>3, <1>4, <1>5, <1>6

(* One object of a list changes.                                              *)
LEMMA ChangeSame ==
  ASSUME NEW l, Things(l), NEW j \in 1 .. Len(l), NEW o,
         IsSlot(l[j]) => Keeps(l[j], o), IsEffect(l[j]) => IsEffect(o)
  PROVE  /\ Same(l, [l EXCEPT ![j] = o])
         /\ \A w, c : Shows(l, w, c) /\ (IsOwn(l[j], w, c) => IsOwn(o, w, c))
                        => Shows([l EXCEPT ![j] = o], w, c)
<1> DEFINE m == [l EXCEPT ![j] = o]
<1>1. Len(l) \in Nat /\ DOMAIN l = 1 .. Len(l)
  BY SeqIs DEF Things
<1>2. m = [i \in 1 .. Len(l) |-> IF i = j THEN o ELSE l[i]]
  BY <1>1
<1> HIDE DEF m
<1>3. IsSeq(m) /\ Len(m) = Len(l) /\ \A i \in 1 .. Len(l) : m[i] = IF i = j THEN o ELSE l[i]
  <2>1. m = [i \in 1 .. Len(l) |-> m[i]]
    BY <1>2
  <2> QED BY <1>1, <1>2, <2>1, MadeSeq
<1>4. Same(l, m)
  BY <1>3 DEF Same, Things, Keeps
<1>5. ASSUME NEW w, NEW c, Shows(l, w, c), IsOwn(l[j], w, c) => IsOwn(o, w, c)
      PROVE  Shows(m, w, c)
  BY <1>3, <1>5 DEF Shows
<1> QED BY <1>4, <1>5 DEF m

(* m is some of the objects of l, in whatever order: those at f.              *)
Part(l, f, m) ==
  /\ IsSeq(m) /\ Len(m) \in Nat
  /\ \A a \in 1 .. Len(m) : f[a] \in 1 .. Len(l) /\ m[a] = l[f[a]]
  /\ \A a, b \in 1 .. Len(m) : f[a] = f[b] => a = b

LEMMA SomeKeep ==
  ASSUME NEW l, Things(l), NEW f, NEW m, Part(l, f, m)
  PROVE  /\ Things(m) /\ (Distinct(l) => Distinct(m)) /\ (Slots(l) => Slots(m))
         /\ \A q : Apart(l, q) => Apart(m, q)
         /\ \A w : Lacks(l, w) => Lacks(m, w)
         /\ \A w, c : \A a \in 1 .. Len(m) : IsOwn(l[f[a]], w, c) => Shows(m, w, c)
<1>1. IsSeq(m) /\ \A a \in 1 .. Len(m) : m[a] = l[f[a]] /\ f[a] \in 1 .. Len(l)
  BY DEF Part
<1>2. Things(m) /\ (Slots(l) => Slots(m))
  BY <1>1 DEF Things, Slots
<1>3. ASSUME Distinct(l) PROVE Distinct(m)
  <2> SUFFICES ASSUME NEW a \in 1 .. Len(m), NEW b \in 1 .. Len(m),
                      IsPlayer(m[a]), IsPlayer(m[b]), m[a].at = m[b].at
               PROVE  a = b
    BY <1>1 DEF Distinct
  <2>1. f[a] \in 1 .. Len(l) /\ f[b] \in 1 .. Len(l) /\ m[a] = l[f[a]] /\ m[b] = l[f[b]]
    BY <1>1
  <2>2. f[a] = f[b]
    BY <1>3, <2>1 DEF Distinct
  <2> QED BY <2>2 DEF Part
<1>4. ASSUME NEW q, Apart(l, q) PROVE Apart(m, q)
  BY <1>1, <1>3, <1>4 DEF Apart
<1>5. ASSUME NEW w, Lacks(l, w) PROVE Lacks(m, w)
  BY <1>1, <1>5 DEF Lacks
<1>6. ASSUME NEW w, NEW c, NEW a \in 1 .. Len(m), IsOwn(l[f[a]], w, c) PROVE Shows(m, w, c)
  BY <1>1, <1>6 DEF Shows
<1> QED BY <1>2, <1>3, <1>4, <1>5, <1>6

LEMMA SortKeeps ==
  ASSUME NEW l, Things(l)
  PROVE  /\ Things(YSort(l)) /\ \A q : Apart(l, q) => Apart(YSort(l), q)
         /\ \A w : Lacks(l, w) => Lacks(YSort(l), w)
         /\ \A w, c : Shows(l, w, c) => Shows(YSort(l), w, c)
<1>1. Len(l) \in Nat
  BY SeqIs DEF Things
<1>2. PICK p : Perm(p, Len(l)) /\ YSort(l) = [i \in 1 .. Len(l) |-> l[p[i]]]
  BY <1>1, SortMoves
<1> DEFINE m == YSort(l)
<1>3. /\ \A a \in 1 .. Len(l) : p[a] \in 1 .. Len(l)
      /\ \A a, b \in 1 .. Len(l) : p[a] = p[b] => a = b
      /\ \A v \in 1 .. Len(l) : \E a \in 1 .. Len(l) : p[a] = v
      /\ m = [i \in 1 .. Len(l) |-> l[p[i]]]
  BY <1>2 DEF Perm
<1> HIDE DEF m
<1>4. IsSeq(m) /\ Len(m) = Len(l)
  <2>1. m = [i \in 1 .. Len(l) |-> m[i]]
    BY <1>3
  <2> QED BY <1>1, <2>1, MadeSeq
<1>5. Part(l, p, m)
  BY <1>1, <1>3, <1>4 DEF Part
<1>6. /\ Things(m) /\ \A q : Apart(l, q) => Apart(m, q)
      /\ \A w : Lacks(l, w) => Lacks(m, w)
      /\ \A w, c : \A a \in 1 .. Len(m) : IsOwn(l[p[a]], w, c) => Shows(m, w, c)
  BY <1>5, SomeKeep
<1>7. ASSUME NEW w, NEW c, Shows(l, w, c) PROVE Shows(m, w, c)
  <2>1. PICK v \in 1 .. Len(l) : IsOwn(l[v], w, c)
    BY <1>7 DEF Shows
  <2>2. PICK a \in 1 .. Len(l) : p[a] = v
    BY <1>3
  <2>3. a \in 1 .. Len(m) /\ IsOwn(l[p[a]], w, c)
    BY <1>4, <2>1, <2>2
  <2> QED BY <1>6, <2>3
<1> QED BY <1>6, <1>7 DEF m

(* Effects are added at the end.                                              *)
LEMMA EffectsAdded ==
  ASSUME NEW l, Things(l), NEW e, IsSeq(e), \A i \in 1 .. Len(e) : IsEffect(e[i])
  PROVE  /\ Things(l \o e) /\ (Distinct(l) => Distinct(l \o e))
         /\ \A q : Apart(l, q) => Apart(l \o e, q)
         /\ \A w : Lacks(l, w) => Lacks(l \o e, w)
         /\ \A w, c : Shows(l, w, c) => Shows(l \o e, w, c)
<1> DEFINE m == l \o e
<1>1. /\ IsSeq(m) /\ Len(m) = Len(l) + Len(e) /\ Len(l) \in Nat /\ Len(e) \in Nat
      /\ \A i \in 1 .. Len(l) : m[i] = l[i]
      /\ \A k \in 1 .. Len(l) + Len(e) :
              \/ k \in 1 .. Len(l) /\ m[k] = l[k]
              \/ k - Len(l) \in 1 .. Len(e) /\ m[k] = e[k - Len(l)]
  BY JoinedIs DEF Things
<1> HIDE DEF m
<1>2. \A k \in 1 .. Len(m) : \/ k \in 1 .. Len(l) /\ m[k] = l[k]
                             \/ IsEffect(m[k]) /\ ~IsPlayer(m[k])
  BY <1>1, KindsDiffer
<1>3. \A k \in 1 .. Len(l) : k \in 1 .. Len(m)
  BY <1>1
<1>4. Things(m)
  BY <1>1, <1>2 DEF Things
<1>5. Distinct(l) => Distinct(m)
  BY <1>2 DEF Distinct
<1>6. ASSUME NEW q, Apart(l, q) PROVE Apart(m, q)
  BY <1>2, <1>5, <1>6 DEF Apart
<1>7. ASSUME NEW w, Lacks(l, w) PROVE Lacks(m, w)
  BY <1>2, <1>7 DEF Lacks
<1>8. ASSUME NEW w, NEW c, Shows(l, w, c) PROVE Shows(m, w, c)
  BY <1>1, <1>3, <1>8 DEF Shows
<1> QED BY <1>4, <1>5, <1>6, <1>7, <1>8 DEF m

(* The only character at w is the one on the list.                            *)
LEMMA OwnIsAt ==
  ASSUME NEW l, Things(l), Distinct(l), NEW w, NEW c, Shows(l, w, c),
         NEW i \in 1 .. Len(l), IsPlayer(l[i]), l[i].at = w
  PROVE  IsOwn(l[i], w, c)
<1>1. PICK j \in 1 .. Len(l) : IsOwn(l[j], w, c)
  BY DEF Shows
<1>2. IsPlayer(l[j]) /\ l[j].at = w
  BY <1>1, KindsDiffer DEF IsOwn
<1>3. i = j
  BY <1>2 DEF Distinct
<1> QED BY <1>1, <1>3

(* m is the part of l at the positions I.                                      *)
PartAt(l, I, f, m) ==
  /\ Part(l, f, m)
  /\ \A a \in 1 .. Len(m) : f[a] \in I
  /\ \A i \in I : \E a \in 1 .. Len(m) : f[a] = i

LEMMA PickedPart ==
  ASSUME NEW l, Things(l), NEW I \in SUBSET (1 .. Len(l))
  PROVE  \E f : PartAt(l, I, f, Picked(l, I))
<1>1. Len(l) \in Nat
  BY SeqIs DEF Things
<1>2. PICK f : Picks(f, l, I)
  BY <1>1, PickedOnce
<1> DEFINE n == Cardinality(I)
           m == Picked(l, I)
<1>3. n \in Nat /\ m = [a \in 1 .. n |-> l[f[a]]]
  BY <1>2 DEF Picks
<1>4. /\ \A a \in 1 .. n : f[a] \in I
      /\ \A a, b \in 1 .. n : f[a] = f[b] => a = b
      /\ \A i \in I : \E a \in 1 .. n : f[a] = i
  BY <1>2 DEF Picks
<1> HIDE DEF n, m
<1>5. IsSeq(m) /\ Len(m) = n
  <2>1. m = [a \in 1 .. n |-> m[a]]
    BY <1>3
  <2> QED BY <1>3, <2>1, MadeSeq
<1>6. \A a \in 1 .. n : m[a] = l[f[a]] /\ f[a] \in 1 .. Len(l)
  BY <1>3, <1>4
<1>7. PartAt(l, I, f, m)
  BY <1>3, <1>4, <1>5, <1>6 DEF Part, PartAt
<1> QED BY <1>7 DEF m

(* Two lists of slots become one.                                             *)
LEMMA SlotsJoin ==
  ASSUME NEW a, Slots(a), NEW b, Slots(b), NEW l, Apart(l, a), Apart(l, b),
         \A i \in 1 .. Len(a), k \in 1 .. Len(b) : a[i].at # b[k].at
  PROVE  Slots(a \o b) /\ Apart(l, a \o b) /\ Len(a \o b) = Len(a) + Len(b)
<1> DEFINE m == a \o b
<1>1. /\ IsSeq(m) /\ Len(m) = Len(a) + Len(b) /\ Len(a) \in Nat /\ Len(b) \in Nat
      /\ \A k \in 1 .. Len(a) + Len(b) :
              \/ k \in 1 .. Len(a) /\ m[k] = a[k]
              \/ k - Len(a) \in 1 .. Len(b) /\ m[k] = b[k - Len(a)]
  BY JoinedIs DEF Slots
<1> HIDE DEF m
<1>2. \A k \in 1 .. Len(m) : \/ k \in 1 .. Len(a) /\ m[k] = a[k]
                             \/ \E j \in 1 .. Len(b) : k = Len(a) + j /\ m[k] = b[j]
  <2> SUFFICES ASSUME NEW k \in 1 .. Len(m), ~(k \in 1 .. Len(a) /\ m[k] = a[k])
               PROVE  \E j \in 1 .. Len(b) : k = Len(a) + j /\ m[k] = b[j]
    OBVIOUS
  <2>1. k - Len(a) \in 1 .. Len(b) /\ m[k] = b[k - Len(a)]
    BY <1>1
  <2>2. k = Len(a) + (k - Len(a))
    BY <1>1
  <2> QED BY <2>1, <2>2
<1>3. Slots(m)
  BY <1>1, <1>2 DEF Slots
<1>4. Distinct(m)
  <2> SUFFICES ASSUME NEW i \in 1 .. Len(m), NEW k \in 1 .. Len(m), IsPlayer(m[i]), IsPlayer(m[k]),
                      m[i].at = m[k].at
               PROVE  i = k
    BY DEF Distinct
  <2>1. CASE i \in 1 .. Len(a) /\ m[i] = a[i] /\ k \in 1 .. Len(a) /\ m[k] = a[k]
    BY <2>1 DEF Apart, Distinct
  <2>2. ASSUME NEW j \in 1 .. Len(b), i = Len(a) + j, m[i] = b[j],
               NEW h \in 1 .. Len(b), k = Len(a) + h, m[k] = b[h]
        PROVE  i = k
    BY <2>2 DEF Apart, Distinct
  <2>3. ASSUME i \in 1 .. Len(a), m[i] = a[i], NEW h \in 1 .. Len(b), m[k] = b[h]
        PROVE  FALSE
    BY <2>3
  <2>4. ASSUME k \in 1 .. Len(a), m[k] = a[k], NEW j \in 1 .. Len(b), m[i] = b[j]
        PROVE  FALSE
    BY <2>4
  <2> QED BY <1>2, <2>1, <2>2, <2>3, <2>4
<1>5. Apart(l, m)
  BY <1>2, <1>4 DEF Apart
<1> QED BY <1>1, <1>3, <1>5 DEF m

(* One pass of CObjectMgr::Run: the dead characters go back to the pool, and  *)
(* a player's own character leaves the list only when the client ends.        *)
LEMMA PassKeeps ==
  ASSUME NEW l, Things(l), NEW q, Slots(q), Apart(l, q)
  PROVE  LET run == RunPass(l)
             slots == run.freed \o q
         IN /\ Things(run.objects) /\ Slots(slots) /\ Apart(run.objects, slots)
            /\ \E k \in Nat : Len(slots) = k + Len(q)
            /\ \A w : Lacks(l, w) => Lacks(run.objects, w)
            /\ \A w, c : Shows(l, w, c) =>
                 \/ Shows(run.objects, w, c)
                 \/ ~run.ok /\ Lacks(run.objects, w)
<1> DEFINE n == Len(l)
           ends(i) == l[i].dead /\ IsPlayer(l[i]) /\ l[i].mine
           stop == SelectInSeq(l, LAMBDA o : o.dead /\ IsPlayer(o) /\ o.mine)
           reached == 1 .. IF stop = 0 THEN n ELSE stop
           gone == {i \in reached : l[i].dead}
           ran == [i \in 1 .. n |-> IF i \in reached \ gone THEN RunObject(l[i]) ELSE l[i]]
           hits == Picked(l, {i \in reached \ gone : IsPlayer(l[i]) /\ HitNow(l[i])})
           made == [i \in DOMAIN hits |-> NewEffect(hits[i].anim[hits[i].cur].hit)]
           kept == Picked(ran, (1 .. n) \ gone)
           added == IF stop = 0 THEN [i \in DOMAIN made |-> RunEffect(made[i])] ELSE made
           left == Picked(l, {i \in gone : IsPlayer(l[i])})
           freed == Reverse(left)
           run == RunPass(l)
           objects == run.objects
<1>1. objects = kept \o added /\ run.freed = freed /\ run.ok = (stop = 0)
  BY DEF RunPass
<1>2. n \in Nat
  BY SeqIs DEF Things
<1>3. stop \in 0 .. n /\ (stop = 0 => \A i \in 1 .. n : ~ends(i))
  <2> DEFINE I == {i \in 1 .. n : ends(i)}
  <2>1. stop = IF I # {} THEN Min(I) ELSE 0
    BY DEF SelectInSeq
  <2>2. I \in SUBSET (1 .. n)
    OBVIOUS
  <2> HIDE DEF I, stop
  <2>3. stop \in 0 .. n /\ (stop # 0 <=> I # {})
    BY <1>2, <2>1, <2>2, FoundFirst
  <2> QED BY <2>3 DEF I
<1>4. reached \in SUBSET (1 .. n) /\ gone \in SUBSET (1 .. n)
  <2> HIDE DEF stop
  <2>1. CASE stop = 0
    BY <2>1
  <2>2. CASE stop # 0
    BY <1>2, <1>3, <2>2
  <2> QED BY <2>1, <2>2
<1>5. Same(l, ran) /\ \A i \in 1 .. n : \A w, c : IsOwn(l[i], w, c) => IsOwn(ran[i], w, c)
  <2>1. IsSeq(ran) /\ Len(ran) = n
    <3>1. ran = [i \in 1 .. n |-> ran[i]]
      OBVIOUS
    <3> HIDE DEF ran
    <3> QED BY <1>2, <3>1, MadeSeq
  <2>2. \A i \in 1 .. n : ran[i] = RunObject(l[i]) \/ ran[i] = l[i]
    OBVIOUS
  <2> HIDE DEF ran
  <2>3. ASSUME NEW i \in 1 .. n
        PROVE  /\ IsSlot(l[i]) => Keeps(l[i], ran[i]) /\ (Complete(l[i]) => Complete(ran[i]))
               /\ IsEffect(l[i]) => IsEffect(ran[i])
    BY <2>2, RunKeeps DEF Keeps
  <2>4. Same(l, ran)
    BY <2>1, <2>3 DEF Same
  <2> QED BY <2>3, <2>4 DEF IsOwn, Keeps
<1>6. /\ Things(ran) /\ Len(ran) = n
      /\ \A p : Apart(l, p) => Apart(ran, p)
      /\ \A w : Lacks(l, w) => Lacks(ran, w)
  <2> HIDE DEF ran, n
  <2>1. Same(l, ran)
    BY <1>5
  <2> QED BY <2>1, SameKeeps DEF Same, n
<1>7. IsSeq(added) /\ \A i \in 1 .. Len(added) : IsEffect(added[i])
  <2>1. PICK m \in Nat : DOMAIN hits = 1 .. m
    <3>1. {i \in reached \ gone : IsPlayer(l[i]) /\ HitNow(l[i])} \in SUBSET (1 .. n)
      BY <1>4
    <3> HIDE DEF reached, gone
    <3>2. PICK f : Part(l, f, hits)
      BY <3>1, PickedPart DEF PartAt
    <3>3. IsSeq(hits)
      BY <3>2 DEF Part
    <3> QED BY <3>3, SeqIs
  <2> HIDE DEF hits
  <2>2. added = [i \in 1 .. m |-> added[i]]
    BY <2>1
  <2>3. \A i \in 1 .. m : \E pos : added[i] = NewEffect(pos) \/ added[i] = RunEffect(NewEffect(pos))
    BY <2>1
  <2> HIDE DEF added
  <2>4. IsSeq(added) /\ Len(added) = m
    BY <2>2, MadeSeq
  <2> QED BY <2>3, <2>4, NewEffectIs, RunKeeps
<1> HIDE DEF reached, added, hits, made, ran, stop
<1>8. PICK f : PartAt(ran, (1 .. n) \ gone, f, kept)
  <2>1. (1 .. n) \ gone \in SUBSET (1 .. Len(ran))
    BY <1>6
  <2> HIDE DEF n, gone
  <2> QED BY <1>6, <2>1, PickedPart
<1>9. PICK g : PartAt(l, {i \in gone : IsPlayer(l[i])}, g, left)
  <2>1. {i \in gone : IsPlayer(l[i])} \in SUBSET (1 .. Len(l))
    BY <1>4
  <2> HIDE DEF gone
  <2> QED BY <2>1, PickedPart
<1> HIDE DEF n, gone, kept, left, run
<1>10. /\ Things(kept) /\ \A p : Apart(ran, p) => Apart(kept, p)
       /\ \A w : Lacks(ran, w) => Lacks(kept, w)
       /\ \A w, c : \A a \in 1 .. Len(kept) : IsOwn(ran[f[a]], w, c) => Shows(kept, w, c)
  BY <1>6, <1>8, SomeKeep DEF PartAt
<1>11. Distinct(ran) /\ Apart(ran, q) /\ Distinct(l)
  BY <1>6 DEF Apart
(* The slots freed were those of characters on the list that are gone.        *)
<1>12. /\ Things(left) /\ Distinct(left)
       /\ \A a \in 1 .. Len(left) : g[a] \in gone /\ IsPlayer(l[g[a]]) /\ left[a] = l[g[a]]
  <2>1. Part(l, g, left)
    BY <1>9 DEF PartAt
  <2>2. Things(left) /\ Distinct(left)
    BY <1>11, <2>1, SomeKeep
  <2> QED BY <1>9, <2>1, <2>2 DEF Part, PartAt
<1>13. /\ IsSeq(freed) /\ Len(freed) = Len(left) /\ Len(left) \in Nat
       /\ \A k \in 1 .. Len(left) : /\ Len(left) - k + 1 \in 1 .. Len(left)
                                    /\ freed[k] = left[Len(left) - k + 1]
  BY <1>12, ReverseIs DEF Things
<1> HIDE DEF freed
<1>14. /\ Slots(freed) /\ Len(freed) \in Nat
       /\ \A k \in 1 .. Len(freed) : \E i \in gone : IsPlayer(l[i]) /\ freed[k] = l[i]
  <2>1. \A a \in 1 .. Len(left) : IsSlot(left[a])
    BY <1>12, KindsDiffer DEF Things
  <2>2. ASSUME NEW k \in 1 .. Len(left)
        PROVE  IsSlot(freed[k]) /\ \E i \in gone : IsPlayer(l[i]) /\ freed[k] = l[i]
    <3>1. PICK a \in 1 .. Len(left) : freed[k] = left[a]
      BY <1>13
    <3> QED BY <1>12, <2>1, <3>1
  <2> QED BY <1>13, <2>2 DEF Slots
<1>15. Distinct(freed)
  <2> SUFFICES ASSUME NEW i \in 1 .. Len(left), NEW k \in 1 .. Len(left),
                      IsPlayer(freed[i]), IsPlayer(freed[k]), freed[i].at = freed[k].at
               PROVE  i = k
    BY <1>13 DEF Distinct
  <2>1. PICK a \in 1 .. Len(left) : a = Len(left) - i + 1 /\ freed[i] = left[a]
    BY <1>13
  <2>2. PICK b \in 1 .. Len(left) : b = Len(left) - k + 1 /\ freed[k] = left[b]
    BY <1>13
  <2>3. a = b
    BY <1>12, <2>1, <2>2 DEF Distinct
  <2> QED BY <1>13, <2>1, <2>2, <2>3
(* Where the characters of the pass are, they were.                           *)
<1>16. \A x \in 1 .. n : IsPlayer(ran[x]) => IsPlayer(l[x]) /\ ran[x].at = l[x].at
  BY <1>5, KindsDiffer DEF Same, Keeps, Things, n
<1>17. \A a \in 1 .. Len(kept) :
         /\ f[a] \in 1 .. n /\ f[a] \notin gone /\ kept[a] = ran[f[a]]
         /\ IsPlayer(kept[a]) => IsPlayer(l[f[a]]) /\ kept[a].at = l[f[a]].at
  BY <1>8, <1>16 DEF PartAt, Part
<1>18. /\ gone \in SUBSET (1 .. n)
       /\ \A i, j \in 1 .. n : IsPlayer(l[i]) /\ IsPlayer(l[j]) /\ l[i].at = l[j].at => i = j
  BY <1>4, <1>11 DEF Distinct, n
<1>19. Apart(kept, freed)
  <2>1. Distinct(kept)
    BY <1>10, <1>11 DEF Apart
  <2>2. ASSUME NEW a \in 1 .. Len(kept), NEW k \in 1 .. Len(freed), IsPlayer(kept[a]),
               kept[a].at = freed[k].at
        PROVE  FALSE
    <3>1. PICK i \in gone : IsPlayer(l[i]) /\ freed[k] = l[i]
      BY <1>14
    <3>2. f[a] = i
      BY <1>17, <1>18, <2>2, <3>1
    <3> QED BY <1>17, <3>2
  <2> QED BY <1>15, <2>1, <2>2 DEF Apart
<1>20. \A k \in 1 .. Len(freed), j \in 1 .. Len(q) : freed[k].at # q[j].at
  BY <1>14, <1>18 DEF Apart, n
<1>21. Slots(freed \o q) /\ Apart(kept, freed \o q) /\ Len(freed \o q) = Len(freed) + Len(q)
  BY <1>10, <1>11, <1>14, <1>19, <1>20, SlotsJoin
<1>22. /\ Things(kept \o added) /\ \A p : Apart(kept, p) => Apart(kept \o added, p)
       /\ \A w : Lacks(kept, w) => Lacks(kept \o added, w)
       /\ \A w, c : Shows(kept, w, c) => Shows(kept \o added, w, c)
  BY <1>7, <1>10, EffectsAdded
<1>23. ASSUME NEW w, NEW c, Shows(l, w, c)
       PROVE  Shows(kept, w, c) \/ (stop # 0 /\ Lacks(kept, w))
  <2>1. PICK i \in 1 .. n : IsOwn(l[i], w, c)
    BY <1>23 DEF Shows, n
  <2>2. IsPlayer(l[i]) /\ l[i].mine /\ l[i].at = w
    BY <2>1, KindsDiffer DEF IsOwn
  <2>3. CASE i \notin gone
    <3>1. PICK a \in 1 .. Len(kept) : f[a] = i
      BY <1>8, <2>3 DEF PartAt
    <3> QED BY <1>5, <1>10, <2>1, <3>1
  <2>4. CASE i \in gone
    <3>1. l[i].dead
      BY <2>4 DEF gone
    <3>2. stop # 0
      BY <1>3, <2>2, <3>1
    <3>3. Lacks(kept, w)
      BY <1>17, <1>18, <2>2, <2>4 DEF Lacks
    <3> QED BY <3>2, <3>3
  <2> QED BY <2>3, <2>4
<1>24. /\ Things(objects) /\ Slots(run.freed \o q) /\ Apart(objects, run.freed \o q)
       /\ \E k \in Nat : Len(run.freed \o q) = k + Len(q)
       /\ \A w : Lacks(l, w) => Lacks(objects, w)
  BY <1>1, <1>6, <1>10, <1>14, <1>21, <1>22
<1>25. \A w, c : Shows(l, w, c) => Shows(objects, w, c) \/ (~run.ok /\ Lacks(objects, w))
  BY <1>1, <1>22, <1>23
<1> QED BY <1>24, <1>25 DEF run
-----------------------------------------------------------------------------
(* What the server relays, and what it may send at all.                       *)
MoveTypes == {11, 13, 21, 23, 25}
Sent(p) == p[1] \in {10, 12, 20, 22, 24} /\ p[2] \in Actions

(* A packet on its way to c that creates no character.                        *)
LatePacket(c, alive, p) ==
  \/ p[1] \in MoveTypes /\ p[2] \in Clients \ {c} /\ p[3] \in Actions
  \/ p[1] = 2 /\ p[2] \in Clients /\ alive[p[2]] = 0
  \/ p[1] = 30 /\ p[2] \in Clients /\ p[3] \in Clients
  \/ p[1] = 251 /\ p[2] \in Clients
FirstPacket(c, p) == (p[1] = 0 /\ p[2] = c) \/ p[1] = 1

(* Characters are created before anything else happens, and each finds a      *)
(* free slot.                                                                 *)
Mail(c, box, q, alive) ==
  /\ IsSeq(box)
  /\ \A i \in 1 .. Len(box) :
       \/ LatePacket(c, alive, box[i])
       \/ FirstPacket(c, box[i]) /\ i <= Len(q) /\ \A j \in 1 .. i : FirstPacket(c, box[j])
NoFirst(c, box) == \A i \in 1 .. Len(box) : ~FirstPacket(c, box[i])

(* What a client knows of its own character.                                  *)
Knows(c, l, w, runs, box, lives) ==
  w # 0 => \/ Shows(l, w, c)
           \/ Lacks(l, w) /\ (~runs \/ (lives = 0 /\ NoFirst(c, box)))

ClientOK(c, l, q, w, runs, box, alive) ==
  /\ Things(l) /\ Slots(q) /\ Apart(l, q)
  /\ Mail(c, box, q, alive)
  /\ Knows(c, l, w, runs, box, alive[c])

WorldInv ==
  /\ life \in [Clients -> Nat]
  /\ DOMAIN list = Clients /\ DOMAIN pool = Clients /\ DOMAIN own = Clients
  /\ DOMAIN running = Clients /\ DOMAIN inbox = Clients
  /\ \A c \in Clients : ClientOK(c, list[c], pool[c], own[c], running[c], inbox[c], life)

(* Packets that come after those on their way.                                *)
Late(c, alive, m) == IsSeq(m) /\ \A i \in 1 .. Len(m) : LatePacket(c, alive, m[i])
Grows(c, s, t, alive) ==
  /\ IsSeq(t) /\ Len(s) <= Len(t)
  /\ \A i \in 1 .. Len(s) : t[i] = s[i]
  /\ \A i \in 1 .. Len(t) : i > Len(s) => LatePacket(c, alive, t[i])
StayDead(before, after) == \A d \in Clients : before[d] = 0 => after[d] = 0

LEMMA GrowsNone ==
  ASSUME NEW c, NEW s, IsSeq(s), NEW alive
  PROVE  Grows(c, s, s, alive)
<1>1. Len(s) \in Nat
  BY SeqIs
<1> QED BY <1>1 DEF Grows

LEMMA GrowsMore ==
  ASSUME NEW c, NEW s, IsSeq(s), NEW t, NEW alive, Grows(c, s, t, alive),
         NEW m, Late(c, alive, m)
  PROVE  Grows(c, s, t \o m, alive)
<1> DEFINE z == t \o m
<1>1. IsSeq(t) /\ IsSeq(m) /\ Len(s) \in Nat
  BY SeqIs DEF Grows, Late
<1>2. /\ IsSeq(z) /\ Len(z) = Len(t) + Len(m) /\ Len(t) \in Nat /\ Len(m) \in Nat
      /\ \A i \in 1 .. Len(t) : z[i] = t[i]
      /\ \A k \in 1 .. Len(t) + Len(m) :
           \/ k \in 1 .. Len(t) /\ z[k] = t[k]
           \/ k - Len(t) \in 1 .. Len(m) /\ z[k] = m[k - Len(t)]
  BY <1>1, JoinedIs
<1> HIDE DEF z
<1>3. Len(s) <= Len(z) /\ \A i \in 1 .. Len(s) : z[i] = s[i]
  BY <1>1, <1>2 DEF Grows
<1>4. ASSUME NEW k \in 1 .. Len(z), k > Len(s) PROVE LatePacket(c, alive, z[k])
  <2>1. CASE k \in 1 .. Len(t) /\ z[k] = t[k]
    BY <1>4, <2>1 DEF Grows
  <2>2. CASE k - Len(t) \in 1 .. Len(m) /\ z[k] = m[k - Len(t)]
    BY <2>2 DEF Late
  <2> QED BY <1>2, <2>1, <2>2
<1> QED BY <1>2, <1>3, <1>4 DEF Grows, z

LEMMA LateIs ==
  ASSUME NEW c, NEW alive
  PROVE  /\ Late(c, alive, <<>>)
         /\ \A p : LatePacket(c, alive, p) => Late(c, alive, <<p>>)
<1>1. Late(c, alive, <<>>)
  BY NoneIs DEF Late
<1>2. ASSUME NEW p, LatePacket(c, alive, p) PROVE Late(c, alive, <<p>>)
  <2>1. IsSeq(<<p>>) /\ Len(<<p>>) = 1 /\ <<p>>[1] = p
    BY OneIs
  <2> QED BY <1>2, <2>1 DEF Late
<1> QED BY <1>1, <1>2

(* No packet of the one kind is of the other.                                 *)
LEMMA LateNotFirst ==
  ASSUME NEW c, NEW alive, NEW p, LatePacket(c, alive, p)
  PROVE  ~FirstPacket(c, p)
BY DEF LatePacket, FirstPacket, MoveTypes

LEMMA MailGrows ==
  ASSUME NEW c, NEW s, NEW q, NEW a, Mail(c, s, q, a), NEW t, NEW b, StayDead(a, b),
         Grows(c, s, t, b), NEW q2, Len(q) \in Nat, NEW k \in Nat, Len(q2) = k + Len(q)
  PROVE  Mail(c, t, q2, b) /\ (NoFirst(c, s) => NoFirst(c, t))
<1>1. IsSeq(t) /\ Len(t) \in Nat /\ IsSeq(s) /\ Len(s) \in Nat /\ Len(s) <= Len(t)
  BY SeqIs DEF Grows, Mail
<1>2. \A i \in 1 .. Len(t) : (i \in 1 .. Len(s) /\ t[i] = s[i]) \/ LatePacket(c, b, t[i])
  BY <1>1 DEF Grows
<1>3. ASSUME NEW i \in 1 .. Len(s), LatePacket(c, a, s[i]) PROVE LatePacket(c, b, s[i])
  BY <1>3 DEF LatePacket, StayDead
<1>4. ASSUME NEW i \in 1 .. Len(s), t[i] = s[i]
      PROVE  \/ LatePacket(c, b, t[i])
             \/ FirstPacket(c, t[i]) /\ i <= Len(q2) /\ \A j \in 1 .. i : FirstPacket(c, t[j])
  <2>1. CASE LatePacket(c, a, s[i])
    BY <1>3, <1>4, <2>1
  <2>2. CASE FirstPacket(c, s[i]) /\ i <= Len(q) /\ \A j \in 1 .. i : FirstPacket(c, s[j])
    <3>1. i <= Len(q2)
      BY <1>1, <2>2
    <3>2. \A j \in 1 .. i : t[j] = s[j]
      BY <1>1 DEF Grows
    <3> QED BY <1>4, <2>2, <3>1, <3>2
  <2> QED BY <2>1, <2>2 DEF Mail
<1>5. Mail(c, t, q2, b)
  BY <1>1, <1>2, <1>4 DEF Mail
<1>6. ASSUME NoFirst(c, s) PROVE NoFirst(c, t)
  BY <1>2, <1>6, LateNotFirst DEF NoFirst
<1> QED BY <1>5, <1>6

(* The first packet is taken: a character to create finds a free slot, and    *)
(* after any other packet there are none to create.                           *)
LEMMA MailTaken ==
  ASSUME NEW c, NEW s, NEW q, NEW a, Mail(c, s, q, a), s # <<>>, Len(q) \in Nat
  PROVE  /\ LatePacket(c, a, Head(s)) =>
              Mail(c, Tail(s), q, a) /\ NoFirst(c, s) /\ NoFirst(c, Tail(s))
         /\ ~LatePacket(c, a, Head(s)) => FirstPacket(c, Head(s)) /\ Len(q) # 0
         /\ \A q2 : Len(q2) = Len(q) - 1 => Mail(c, Tail(s), q2, a)
<1>1. /\ IsSeq(Tail(s)) /\ Len(Tail(s)) = Len(s) - 1 /\ Len(s) \in Nat \ {0}
      /\ Head(s) = s[1] /\ \A i \in 1 .. Len(s) - 1 : Tail(s)[i] = s[i + 1]
  BY TailIs DEF Mail
<1>2. \A i \in 1 .. Len(s) :
       \/ LatePacket(c, a, s[i])
       \/ FirstPacket(c, s[i]) /\ i <= Len(q) /\ \A j \in 1 .. i : FirstPacket(c, s[j])
  BY DEF Mail
<1>3. 1 \in 1 .. Len(s) /\ \A i \in 1 .. Len(s) : 1 \in 1 .. i
  BY <1>1
<1>4. ~LatePacket(c, a, Head(s)) => FirstPacket(c, Head(s)) /\ Len(q) # 0
  BY <1>1, <1>2, <1>3
<1>5. \A i \in 1 .. Len(Tail(s)) : i + 1 \in 1 .. Len(s) /\ Tail(s)[i] = s[i + 1]
  BY <1>1
<1>6. ASSUME LatePacket(c, a, Head(s))
      PROVE  Mail(c, Tail(s), q, a) /\ NoFirst(c, s) /\ NoFirst(c, Tail(s))
  <2>1. ~FirstPacket(c, s[1])
    BY <1>1, <1>6, LateNotFirst
  <2>2. \A i \in 1 .. Len(s) : LatePacket(c, a, s[i])
    BY <1>2, <1>3, <2>1
  <2>3. NoFirst(c, s)
    BY <2>2, LateNotFirst DEF NoFirst
  <2>4. \A i \in 1 .. Len(Tail(s)) : LatePacket(c, a, Tail(s)[i])
    BY <1>5, <2>2
  <2>5. NoFirst(c, Tail(s))
    BY <2>4, LateNotFirst DEF NoFirst
  <2> QED BY <1>1, <2>3, <2>4, <2>5 DEF Mail
<1>7. ASSUME NEW q2, Len(q2) = Len(q) - 1 PROVE Mail(c, Tail(s), q2, a)
  <2>1. ASSUME NEW i \in 1 .. Len(Tail(s)), ~LatePacket(c, a, Tail(s)[i])
        PROVE  /\ FirstPacket(c, Tail(s)[i]) /\ i <= Len(q2)
               /\ \A j \in 1 .. i : FirstPacket(c, Tail(s)[j])
    <3>1. FirstPacket(c, s[i + 1]) /\ i + 1 <= Len(q) /\ \A j \in 1 .. i + 1 : FirstPacket(c, s[j])
      BY <1>2, <1>5, <2>1
    <3>2. \A j \in 1 .. i : j + 1 \in 1 .. i + 1 /\ Tail(s)[j] = s[j + 1]
      BY <1>1
    <3>3. \A j \in 1 .. i : FirstPacket(c, Tail(s)[j])
      BY <3>1, <3>2
    <3>4. i <= Len(q2) /\ i \in 1 .. i
      BY <1>7, <3>1
    <3> QED BY <3>3, <3>4
  <2> QED BY <1>1, <2>1 DEF Mail
<1> QED BY <1>4, <1>6, <1>7

(* What a client sends reaches the others, and may take a life.               *)
IsSent(sent) == sent = <<>> \/ \E p : sent = <<p>> /\ Sent(p)

LEMMA SaysIs ==
  ASSUME NEW o, NEW action \in Actions
  PROVE  IsSent(Announcement(o, action))
<1>1. Announcement(o, action) = <<>> \/ Announcement(o, action) = <<SendAction(o, action)>>
  BY DEF Announcement
<1> DEFINE p == SendAction(o, action)
<1>2. p[1] = CS(action) /\ p[2] = IF action \in Moves THEN action ELSE Facing(o.right)
  BY DEF SendAction
<1>3. p[1] \in {10, 12, 20, 22, 24}
  BY <1>2 DEF CS, Actions, Moves, STAND, LL, LD
<1>4. p[2] \in Actions
  BY <1>2 DEF Facing, Actions, STAND, LL, RR
<1>5. Sent(p)
  BY <1>3, <1>4 DEF Sent
<1> QED BY <1>1, <1>5 DEF IsSent

LEMMA RouteKeeps ==
  ASSUME life \in [Clients -> Nat], NEW c \in Clients, NEW sent, IsSent(sent),
         NEW rest, DOMAIN rest = Clients, \A d \in Clients : IsSeq(rest[d]), Route(c, sent, rest)
  PROVE  /\ life' \in [Clients -> Nat] /\ DOMAIN inbox' = Clients /\ StayDead(life, life')
         /\ \A d \in Clients : Grows(d, rest[d], inbox'[d], life')
<1>1. CASE sent = <<>> \/ life[c] = 0
  <2>1. inbox' = rest /\ life' = life
    BY <1>1 DEF Route
  <2> QED BY <2>1, GrowsNone DEF StayDead
<1>2. CASE ~(sent = <<>> \/ life[c] = 0)
  <2> DEFINE p == sent[1]
             relayed == mpMove(p[1], c, p[2], p[3], p[4])
  <2>1. Sent(p)
    BY <1>2 DEF IsSent
  <2>3. PICK sync \in (IF p[1] = 12 THEN {<<>>, <<mpSync(c, p[3], p[4])>>} ELSE {<<>>}),
             victim \in (IF p[1] >= 20 THEN {d \in Clients \ {c} : life[d] > 0} \cup {c} ELSE {c}) :
            LET hp == life[victim] - 1
                hit == IF victim = c THEN <<>> ELSE <<mpDamage(c, victim, hp)>>
                death == IF victim # c /\ hp = 0 THEN <<mpDeleteCharacter(victim)>> ELSE <<>>
            IN \E last \in {<<>>, death} :
                 /\ inbox' = [d \in Clients |->
                      rest[d] \o (IF d = c THEN <<>> ELSE Append(sync, relayed))
                              \o hit \o (IF d = victim THEN last ELSE death)]
                 /\ life' = IF victim = c THEN life ELSE [life EXCEPT ![victim] = hp]
    BY <1>2 DEF Route
  <2> DEFINE hp == life[victim] - 1
             hit == IF victim = c THEN <<>> ELSE <<mpDamage(c, victim, hp)>>
             death == IF victim # c /\ hp = 0 THEN <<mpDeleteCharacter(victim)>> ELSE <<>>
  <2>4. PICK last \in {<<>>, death} :
          /\ inbox' = [d \in Clients |->
               rest[d] \o (IF d = c THEN <<>> ELSE Append(sync, relayed))
                       \o hit \o (IF d = victim THEN last ELSE death)]
          /\ life' = IF victim = c THEN life ELSE [life EXCEPT ![victim] = hp]
    BY <2>3
  <2>5. victim \in Clients /\ (victim # c => life[victim] > 0)
    BY <2>3
  <2>6. life' \in [Clients -> Nat] /\ StayDead(life, life') /\ (victim # c => life'[victim] = hp)
    BY <2>4, <2>5 DEF StayDead
  <2>7. ASSUME NEW d \in Clients PROVE Late(d, life', hit)
    <3>1. LatePacket(d, life', mpDamage(c, victim, hp))
      BY <2>5 DEF LatePacket, mpDamage
    <3> QED BY <3>1, LateIs
  <2>8. \A d \in Clients : Late(d, life', death) /\ Late(d, life', last)
    <3>1. ASSUME NEW d \in Clients, hp = 0, victim # c
          PROVE  LatePacket(d, life', mpDeleteCharacter(victim))
      BY <2>5, <2>6, <3>1 DEF LatePacket, mpDeleteCharacter
    <3>2. \A d \in Clients : Late(d, life', death)
      BY <3>1, LateIs
    <3> HIDE DEF death
    <3> QED BY <2>4, <3>2, LateIs
  <2>9. ASSUME NEW d \in Clients, d # c PROVE Late(d, life', Append(sync, relayed))
    <3>1. LatePacket(d, life', relayed)
      <4>1. relayed[1] = p[1] + 1 /\ relayed[2] = c /\ relayed[3] = p[2]
        BY DEF mpMove
      <4> QED BY <2>1, <2>9, <4>1 DEF LatePacket, Sent, MoveTypes
    <3>2. LatePacket(d, life', mpSync(c, p[3], p[4]))
      BY DEF LatePacket, mpSync
    <3>3. sync = <<>> \/ sync = <<mpSync(c, p[3], p[4])>>
      BY <2>3
    <3>4. Late(d, life', sync)
      BY <3>2, <3>3, LateIs
    <3> HIDE DEF relayed
    <3>5. /\ IsSeq(Append(sync, relayed)) /\ Len(Append(sync, relayed)) = Len(sync) + 1
          /\ Len(sync) \in Nat /\ Append(sync, relayed)[Len(sync) + 1] = relayed
          /\ \A i \in 1 .. Len(sync) : Append(sync, relayed)[i] = sync[i]
      BY <3>4, AppendIs DEF Late
    <3> QED BY <3>1, <3>4, <3>5 DEF Late
  <2> HIDE DEF hit, death, relayed
  <2>10. ASSUME NEW d \in Clients PROVE Grows(d, rest[d], inbox'[d], life')
    <3> DEFINE m1 == IF d = c THEN <<>> ELSE Append(sync, relayed)
               m3 == IF d = victim THEN last ELSE death
    <3>1. inbox'[d] = rest[d] \o m1 \o hit \o m3
      BY <2>4
    <3>2. Late(d, life', m1) /\ Late(d, life', hit) /\ Late(d, life', m3)
      BY <2>7, <2>8, <2>9, LateIs
    <3> HIDE DEF m1, m3
    <3>3. Grows(d, rest[d], rest[d], life')
      BY GrowsNone
    <3>4. Grows(d, rest[d], rest[d] \o m1, life')
      BY <3>2, <3>3, GrowsMore
    <3>5. Grows(d, rest[d], rest[d] \o m1 \o hit, life')
      BY <3>2, <3>4, GrowsMore
    <3>6. Grows(d, rest[d], rest[d] \o m1 \o hit \o m3, life')
      BY <3>2, <3>5, GrowsMore
    <3> QED BY <3>1, <3>6
  <2> QED BY <2>4, <2>6, <2>10
<1> QED BY <1>1, <1>2
-----------------------------------------------------------------------------
LEMMA ReadActionIs ==
  ASSUME NEW keys
  PROVE  ReadAction(keys) \in Actions
BY DEF ReadAction, Actions, STAND, LL, LU, UU, RU, RR, RD, DD, LD

(* The input of a turn changes one character: the player's own, or what is in *)
(* the slot that was his.                                                     *)
LEMMA InputIs ==
  ASSUME NEW c, Things(list[c]), Slots(pool[c]), Apart(list[c], pool[c]), NEW ended,
         NEW in, in = Input(c, ended)
  PROVE  /\ Things(in.objects) /\ Slots(in.slots) /\ Apart(in.objects, in.slots)
         /\ Len(in.slots) = Len(pool[c]) /\ IsSent(in.sent)
         /\ \A w : Lacks(list[c], w) => Lacks(in.objects, w)
         /\ \A w, d : Shows(list[c], w, d) => Shows(in.objects, w, d)
<1> DEFINE i == ListAt(c, own[c])
           k == SelectInSeq(pool[c], LAMBDA s : s.at = own[c])
           freed == IF InAttack(pool[c][k])
                    THEN [pool[c][k] EXCEPT !.anim[pool[c][k].cur].end = ended]
                    ELSE pool[c][k]
           act == ReadAction(held[c])
<1>1. \/ in = [objects |-> list[c], slots |-> pool[c], sent |-> <<>>]
      \/ i > 0 /\ in = [objects |-> ReplaceAt(list[c], i, InputActionProc(list[c][i], act)),
                        slots |-> pool[c], sent |-> Announcement(list[c][i], act)]
      \/ in = [objects |-> list[c], slots |-> ReplaceAt(pool[c], k, InputActionProc(freed, act)),
               sent |-> Announcement(freed, act)]
  BY DEF Input
<1>2. act \in Actions /\ Len(list[c]) \in Nat /\ Len(pool[c]) \in Nat
  BY ReadActionIs, SeqIs DEF Things, Slots
<1> HIDE DEF act
<1>3. CASE in = [objects |-> list[c], slots |-> pool[c], sent |-> <<>>]
  BY <1>3 DEF IsSent
<1>4. CASE i > 0 /\ in = [objects |-> ReplaceAt(list[c], i, InputActionProc(list[c][i], act)),
                          slots |-> pool[c], sent |-> Announcement(list[c][i], act)]
  <2>1. i \in 1 .. Len(list[c]) /\ IsPlayer(list[c][i])
    BY <1>2, <1>4, ListAtIs
  <2> DEFINE o == InputActionProc(list[c][i], act)
             m == [list[c] EXCEPT ![i] = o]
  <2>2. IsSlot(list[c][i])
    BY <2>1, KindsDiffer DEF Things
  <2>3. Keeps(list[c][i], o) /\ (list[c][i].mine /\ Complete(list[c][i]) => Complete(o))
    BY <1>2, <2>2, InputKeeps
  <2>4. \A w, d : IsOwn(list[c][i], w, d) => IsOwn(o, w, d)
    BY <2>3 DEF IsOwn, Keeps
  <2> HIDE DEF i, o
  <2>5. ~IsEffect(list[c][i])
    BY <2>2, KindsDiffer
  <2>6. /\ Same(list[c], m)
        /\ \A w, d : Shows(list[c], w, d) => Shows(m, w, d)
    BY <2>1, <2>3, <2>4, <2>5, ChangeSame
  <2>7. in.objects = m /\ in.slots = pool[c] /\ in.sent = Announcement(list[c][i], act)
    BY <1>4 DEF ReplaceAt, o
  <2> HIDE DEF m
  <2>8. /\ Things(m) /\ Apart(m, pool[c])
        /\ \A w : Lacks(list[c], w) => Lacks(m, w)
    BY <2>6, SameKeeps
  <2>9. IsSent(in.sent)
    BY <1>2, <2>7, SaysIs
  <2> QED BY <2>6, <2>7, <2>8, <2>9
<1>5. CASE in = [objects |-> list[c], slots |-> ReplaceAt(pool[c], k, InputActionProc(freed, act)),
                 sent |-> Announcement(freed, act)]
  <2> DEFINE o == InputActionProc(freed, act)
             m == [pool[c] EXCEPT ![k] = o]
  <2>1. k \in 0 .. Len(pool[c])
    <3> DEFINE I == {j \in 1 .. Len(pool[c]) : pool[c][j].at = own[c]}
    <3>1. k = IF I # {} THEN Min(I) ELSE 0
      BY DEF SelectInSeq
    <3>2. I \in SUBSET (1 .. Len(pool[c]))
      OBVIOUS
    <3> HIDE DEF I, k
    <3> QED BY <1>2, <3>1, <3>2, FoundFirst
  <2>2. in.objects = list[c] /\ in.slots = m /\ in.sent = Announcement(freed, act)
    <3> HIDE DEF freed, k
    <3> QED BY <1>5 DEF ReplaceAt
  <2>3. IsSent(in.sent)
    <3> HIDE DEF freed
    <3> QED BY <1>2, <2>2, SaysIs
  <2>4. CASE k = 0
    <3> HIDE DEF k, o
    <3>1. m = pool[c]
      BY <2>4, NoneReplaced DEF Slots
    <3> QED BY <2>2, <2>3, <3>1
  <2>5. CASE k # 0
    <3>1. k \in 1 .. Len(pool[c]) /\ IsSlot(pool[c][k])
      BY <1>2, <2>1, <2>5 DEF Slots
    <3>2. Keeps(pool[c][k], freed)
      <4> HIDE DEF k
      <4> QED BY <3>1 DEF Keeps, IsSlot
    <3>3. Keeps(freed, o)
      <4>1. IsSlot(freed)
        BY <3>2 DEF Keeps
      <4> HIDE DEF freed
      <4> QED BY <1>2, <4>1, InputKeeps
    <3>4. Keeps(pool[c][k], o)
      <4> HIDE DEF freed, k, o
      <4> QED BY <3>2, <3>3 DEF Keeps
    <3>5. Things(pool[c])
      BY DEF Things, Slots
    <3> HIDE DEF k, o
    <3>6. ~IsEffect(pool[c][k])
      BY <3>1, KindsDiffer
    <3>7. Same(pool[c], m)
      BY <3>1, <3>4, <3>5, <3>6, ChangeSame
    <3>8. Slots(m) /\ Apart(list[c], m) /\ Len(m) = Len(pool[c])
      BY <3>5, <3>7, SameKeeps DEF Same
    <3> QED BY <2>2, <2>3, <3>8
  <2> QED BY <2>4, <2>5
<1> QED BY <1>1, <1>3, <1>4, <1>5

(* What happens at one client leaves the others as they were but for their    *)
(* mail.                                                                      *)
Only(c) ==
  /\ DOMAIN list' = Clients /\ DOMAIN pool' = Clients
  /\ DOMAIN own' = Clients /\ DOMAIN running' = Clients
  /\ \A d \in Clients \ {c} : /\ list'[d] = list[d] /\ pool'[d] = pool[d]
                              /\ own'[d] = own[d] /\ running'[d] = running[d]

LEMMA WorldStep ==
  ASSUME WorldInv, NEW c \in Clients, Only(c),
         life' \in [Clients -> Nat], DOMAIN inbox' = Clients, StayDead(life, life'),
         \A d \in Clients \ {c} : Grows(d, inbox[d], inbox'[d], life'),
         ClientOK(c, list'[c], pool'[c], own'[c], running'[c], inbox'[c], life')
  PROVE  WorldInv'
<1>1. ASSUME NEW d \in Clients, d # c
      PROVE  ClientOK(d, list'[d], pool'[d], own'[d], running'[d], inbox'[d], life')
  <2>1. ClientOK(d, list[d], pool[d], own[d], running[d], inbox[d], life)
    BY DEF WorldInv
  <2>2. list'[d] = list[d] /\ pool'[d] = pool[d] /\ own'[d] = own[d] /\ running'[d] = running[d]
    BY <1>1 DEF Only
  <2>3. Mail(d, inbox[d], pool[d], life) /\ Len(pool[d]) \in Nat
    BY <2>1, SeqIs DEF ClientOK, Slots
  <2>4. Grows(d, inbox[d], inbox'[d], life')
    BY <1>1
  <2>5. Len(pool[d]) = 0 + Len(pool[d]) /\ 0 \in Nat
    BY <2>3
  <2>6. Mail(d, inbox'[d], pool[d], life') /\ (NoFirst(d, inbox[d]) => NoFirst(d, inbox'[d]))
    BY <2>3, <2>4, <2>5, MailGrows
  <2>7. life[d] \in Nat /\ life'[d] \in Nat /\ (life[d] = 0 => life'[d] = 0)
    BY DEF WorldInv, StayDead
  <2>8. Knows(d, list[d], own[d], running[d], inbox[d], life[d])
    BY <2>1 DEF ClientOK
  <2>9. Knows(d, list[d], own[d], running[d], inbox'[d], life'[d])
    BY <2>6, <2>7, <2>8 DEF Knows
  <2> QED BY <2>1, <2>2, <2>6, <2>9 DEF ClientOK
<1>2. \A d \in Clients : ClientOK(d, list'[d], pool'[d], own'[d], running'[d], inbox'[d], life')
  BY <1>1
<1> QED BY <1>2 DEF WorldInv, Only

(* A turn without a message.                                                  *)
LEMMA RunCycleKeeps ==
  ASSUME WorldInv, NEW c \in Clients, RunCycle(c)
  PROVE  WorldInv'
<1>1. running[c] /\ own' = own
  BY DEF RunCycle
<1>2. PICK ended \in BOOLEAN : \E run \in {RunPass(Input(c, ended).objects)} :
         /\ list' = [list EXCEPT ![c] = YSort(run.objects)]
         /\ pool' = [pool EXCEPT ![c] = run.freed \o Input(c, ended).slots]
         /\ running' = [running EXCEPT ![c] = run.ok]
         /\ Route(c, Input(c, ended).sent, inbox)
  BY DEF RunCycle
<1>3. PICK in : in = Input(c, ended)
  OBVIOUS
<1>4. PICK run : run = RunPass(in.objects)
  OBVIOUS
<1>5. /\ list' = [list EXCEPT ![c] = YSort(run.objects)]
      /\ pool' = [pool EXCEPT ![c] = run.freed \o in.slots]
      /\ running' = [running EXCEPT ![c] = run.ok]
      /\ Route(c, in.sent, inbox)
  BY <1>2, <1>3, <1>4
<1>6. /\ Things(list[c]) /\ Slots(pool[c]) /\ Apart(list[c], pool[c])
      /\ Mail(c, inbox[c], pool[c], life)
      /\ Knows(c, list[c], own[c], running[c], inbox[c], life[c])
      /\ life \in [Clients -> Nat] /\ DOMAIN inbox = Clients
      /\ DOMAIN list = Clients /\ DOMAIN pool = Clients
      /\ DOMAIN own = Clients /\ DOMAIN running = Clients
  BY DEF WorldInv, ClientOK
<1>7. /\ Things(in.objects) /\ Slots(in.slots) /\ Apart(in.objects, in.slots)
      /\ Len(in.slots) = Len(pool[c]) /\ IsSent(in.sent)
      /\ \A w : Lacks(list[c], w) => Lacks(in.objects, w)
      /\ \A w, d : Shows(list[c], w, d) => Shows(in.objects, w, d)
  BY <1>3, <1>6, InputIs
<1> DEFINE slots == run.freed \o in.slots
<1>8. /\ Things(run.objects) /\ Slots(slots) /\ Apart(run.objects, slots)
      /\ \E k \in Nat : Len(slots) = k + Len(in.slots)
      /\ \A w : Lacks(in.objects, w) => Lacks(run.objects, w)
      /\ \A w, d : Shows(in.objects, w, d) =>
           Shows(run.objects, w, d) \/ (~run.ok /\ Lacks(run.objects, w))
  BY <1>4, <1>7, PassKeeps
<1> DEFINE sorted == YSort(run.objects)
<1> HIDE DEF slots
<1>9. /\ Things(sorted) /\ Apart(sorted, slots)
      /\ \A w : Lacks(run.objects, w) => Lacks(sorted, w)
      /\ \A w, d : Shows(run.objects, w, d) => Shows(sorted, w, d)
  BY <1>8, SortKeeps
<1> HIDE DEF sorted
<1>10. list'[c] = sorted /\ pool'[c] = slots /\ own'[c] = own[c] /\ running'[c] = run.ok /\ Only(c)
  BY <1>1, <1>5, <1>6 DEF Only, sorted, slots
<1>11. \A d \in Clients : IsSeq(inbox[d])
  BY DEF WorldInv, ClientOK, Mail
<1>12. /\ life' \in [Clients -> Nat] /\ DOMAIN inbox' = Clients /\ StayDead(life, life')
       /\ \A d \in Clients : Grows(d, inbox[d], inbox'[d], life')
  BY <1>5, <1>6, <1>7, <1>11, RouteKeeps
<1>13. PICK k \in Nat : Len(slots) = k + Len(pool[c])
  BY <1>7, <1>8
<1>14. Len(pool[c]) \in Nat
  BY <1>6, SeqIs DEF Slots
<1>15. Grows(c, inbox[c], inbox'[c], life')
  BY <1>12
<1>16. Mail(c, inbox'[c], slots, life') /\ (NoFirst(c, inbox[c]) => NoFirst(c, inbox'[c]))
  BY <1>6, <1>12, <1>13, <1>14, <1>15, MailGrows
<1>17. life[c] = 0 => life'[c] = 0
  BY <1>12 DEF StayDead
<1>18. Knows(c, sorted, own[c], run.ok, inbox'[c], life'[c])
  BY <1>1, <1>6, <1>7, <1>8, <1>9, <1>16, <1>17 DEF Knows
<1>19. ClientOK(c, list'[c], pool'[c], own'[c], running'[c], inbox'[c], life')
  BY <1>8, <1>9, <1>10, <1>16, <1>18 DEF ClientOK
<1> QED BY <1>10, <1>12, <1>19, WorldStep

(* A packet handler other than those that create a character.                 *)
LEMMA HandlerKeeps ==
  ASSUME WorldInv, NEW c \in Clients, Only(c), own' = own, running' = running,
         inbox[c] # <<>>, LatePacket(c, life, Head(inbox[c])),
         Things(list'[c]), Slots(pool'[c]), Apart(list'[c], pool'[c]),
         NEW k \in Nat, Len(pool'[c]) = k + Len(pool[c]),
         \A w : Lacks(list[c], w) => Lacks(list'[c], w),
         own[c] # 0 /\ Shows(list[c], own[c], c) =>
            Shows(list'[c], own[c], c) \/ (life[c] = 0 /\ Lacks(list'[c], own[c])),
         NEW sent, IsSent(sent), Route(c, sent, Taken(c))
  PROVE  WorldInv'
<1>1. /\ Mail(c, inbox[c], pool[c], life) /\ Slots(pool[c])
      /\ Knows(c, list[c], own[c], running[c], inbox[c], life[c])
      /\ life \in [Clients -> Nat] /\ DOMAIN inbox = Clients
      /\ \A d \in Clients : IsSeq(inbox[d])
  BY DEF WorldInv, ClientOK, Mail
<1>2. Len(pool[c]) \in Nat
  BY <1>1, SeqIs DEF Slots
<1>3. /\ Mail(c, Tail(inbox[c]), pool[c], life)
      /\ NoFirst(c, inbox[c]) /\ NoFirst(c, Tail(inbox[c]))
      /\ IsSeq(Tail(inbox[c]))
  BY <1>1, <1>2, MailTaken, TailIs
<1>4. /\ DOMAIN Taken(c) = Clients /\ Taken(c)[c] = Tail(inbox[c])
      /\ \A d \in Clients \ {c} : Taken(c)[d] = inbox[d]
  BY <1>1 DEF Taken
<1>5. \A d \in Clients : IsSeq(Taken(c)[d])
  BY <1>1, <1>3, <1>4
<1>6. PICK rest : rest = Taken(c)
  OBVIOUS
<1>7. DOMAIN rest = Clients /\ (\A d \in Clients : IsSeq(rest[d])) /\ Route(c, sent, rest)
  BY <1>4, <1>5, <1>6
<1>8. /\ life' \in [Clients -> Nat] /\ DOMAIN inbox' = Clients /\ StayDead(life, life')
      /\ \A d \in Clients : Grows(d, rest[d], inbox'[d], life')
  BY <1>1, <1>7, RouteKeeps
<1>9. \A d \in Clients \ {c} : Grows(d, inbox[d], inbox'[d], life')
  BY <1>4, <1>6, <1>8
<1>10. Grows(c, Tail(inbox[c]), inbox'[c], life')
  BY <1>4, <1>6, <1>8
<1>11. /\ Mail(c, inbox'[c], pool'[c], life')
       /\ (NoFirst(c, Tail(inbox[c])) => NoFirst(c, inbox'[c]))
  BY <1>2, <1>3, <1>8, <1>10, MailGrows
<1>12. life[c] = 0 => life'[c] = 0
  BY <1>8 DEF StayDead
<1>13. Knows(c, list'[c], own[c], running[c], inbox'[c], life'[c])
  BY <1>1, <1>3, <1>11, <1>12 DEF Knows
<1>14. ClientOK(c, list'[c], pool'[c], own'[c], running'[c], inbox'[c], life')
  BY <1>11, <1>13 DEF ClientOK
<1> QED BY <1>8, <1>9, <1>14, WorldStep

(* A packet taken from the mail is one of those on their way.                 *)
LEMMA ReceivedIs ==
  ASSUME WorldInv, NEW c \in Clients, NEW types, Receives(c, types)
  PROVE  /\ running[c] /\ inbox[c] # <<>> /\ Packet(c) = Head(inbox[c]) /\ Packet(c)[1] \in types
         /\ types \cap {0, 1} = {} => LatePacket(c, life, Packet(c))
<1>1. running[c] /\ inbox[c] # <<>> /\ Packet(c) = Head(inbox[c]) /\ Packet(c)[1] \in types
  BY DEF Receives, Packet
<1>2. Mail(c, inbox[c], pool[c], life) /\ Len(pool[c]) \in Nat
  BY SeqIs DEF WorldInv, ClientOK, Slots
<1>3. ~LatePacket(c, life, Head(inbox[c])) => FirstPacket(c, Head(inbox[c]))
  BY <1>1, <1>2, MailTaken
<1> QED BY <1>1, <1>3 DEF FirstPacket

(* FindByObjectID finds characters: an effect has no number of a client's.    *)
LEMMA FoundIs ==
  ASSUME WorldInv, NEW c \in Clients, NEW id \in Clients, NEW i, i = Index(c, id), i # 0
  PROVE  i \in 1 .. Len(list[c]) /\ IsSlot(list[c][i]) /\ list[c][i].id = id
<1>1. Things(list[c]) /\ Len(list[c]) \in Nat
  BY SeqIs DEF WorldInv, ClientOK, Things
<1>2. i \in 1 .. Len(list[c]) /\ list[c][i].id = id
  BY <1>1, IndexIs
<1>3. id \in Nat
  BY ClientsAssumption
<1>4. ~IsEffect(list[c][i])
  BY <1>2, <1>3 DEF IsEffect
<1> QED BY <1>1, <1>2, <1>4 DEF Things

(* The handlers that change objects of the list and nothing else.             *)
LEMMA ChangerKeeps ==
  ASSUME WorldInv, NEW c \in Clients, inbox[c] # <<>>, LatePacket(c, life, Head(inbox[c])),
         DOMAIN list' = Clients, \A d \in Clients \ {c} : list'[d] = list[d],
         UNCHANGED <<pool, own, running>>,
         Same(list[c], list'[c]),
         Shows(list[c], own[c], c) => Shows(list'[c], own[c], c),
         NEW sent, IsSent(sent), Route(c, sent, Taken(c))
  PROVE  WorldInv'
<1>1. /\ Things(list[c]) /\ Slots(pool[c]) /\ Apart(list[c], pool[c])
      /\ DOMAIN pool = Clients /\ DOMAIN own = Clients /\ DOMAIN running = Clients
  BY DEF WorldInv, ClientOK
<1>2. /\ Things(list'[c]) /\ Apart(list'[c], pool[c])
      /\ \A w : Lacks(list[c], w) => Lacks(list'[c], w)
  BY <1>1, SameKeeps
<1>3. Only(c)
  BY <1>1 DEF Only
<1>4. Len(pool[c]) \in Nat /\ Len(pool'[c]) = 0 + Len(pool[c]) /\ 0 \in Nat
  BY <1>1, SeqIs DEF Slots
<1>5. Slots(pool'[c]) /\ Apart(list'[c], pool'[c]) /\ own' = own /\ running' = running
  BY <1>1, <1>2
<1> QED BY <1>2, <1>3, <1>4, <1>5, HandlerKeeps

LEMMA SameIs ==
  ASSUME NEW l, Things(l)
  PROVE  Same(l, l)
BY SeqIs, KindsDiffer DEF Same, Things, Keeps

(* The packets that let a character act are never about the player's own.     *)
LEMMA ActKeeps ==
  ASSUME WorldInv, NEW c \in Clients, NEW types, Receives(c, types), types \subseteq MoveTypes,
         NEW before, NEW action, action \in Actions, NEW after, Act(c, before, action, after),
         IsSlot(Found(c)) => Keeps(Found(c), after)
  PROVE  WorldInv'
<1>1. /\ inbox[c] # <<>> /\ Packet(c) = Head(inbox[c]) /\ LatePacket(c, life, Head(inbox[c]))
      /\ Packet(c)[1] \in MoveTypes
  BY ReceivedIs DEF MoveTypes
<1>2. Packet(c)[2] \in Clients \ {c}
  BY <1>1 DEF LatePacket, MoveTypes
<1>3. PICK i : i = Index(c, Packet(c)[2])
  OBVIOUS
<1>4. /\ UNCHANGED <<pool, own, running>>
      /\ i = 0 => list' = list /\ Route(c, <<>>, Taken(c))
      /\ i # 0 => /\ list' = [list EXCEPT ![c][i] = after]
                  /\ Route(c, Announcement(before, action), Taken(c))
  BY <1>3 DEF Act
<1>5. Things(list[c]) /\ DOMAIN list = Clients
  BY DEF WorldInv, ClientOK
<1>6. CASE i = 0
  <2>1. IsSent(<<>>)
    BY DEF IsSent
  <2>2. Same(list[c], list'[c])
    BY <1>4, <1>5, <1>6, SameIs
  <2> QED BY <1>1, <1>4, <1>5, <1>6, <2>1, <2>2, ChangerKeeps
<1>7. CASE i # 0
  <2>1. i \in 1 .. Len(list[c]) /\ IsSlot(list[c][i]) /\ list[c][i].id # c
    BY <1>2, <1>3, <1>7, FoundIs
  <2>2. Keeps(list[c][i], after) /\ ~IsEffect(list[c][i])
    BY <1>3, <2>1, KindsDiffer DEF Found
  <2>3. ~IsOwn(list[c][i], own[c], c)
    BY <2>1 DEF IsOwn
  <2> DEFINE m == [list[c] EXCEPT ![i] = after]
  <2>4. Same(list[c], m) /\ (Shows(list[c], own[c], c) => Shows(m, own[c], c))
    BY <1>5, <2>1, <2>2, <2>3, ChangeSame
  <2>5. DOMAIN list' = Clients /\ list'[c] = m /\ \A d \in Clients \ {c} : list'[d] = list[d]
    BY <1>4, <1>5, <1>7
  <2> HIDE DEF m
  <2>6. IsSent(Announcement(before, action))
    BY SaysIs
  <2> QED BY <1>1, <1>4, <1>7, <2>4, <2>5, <2>6, ChangerKeeps
<1> QED BY <1>6, <1>7

LEMMA MoveStartKeeps ==
  ASSUME WorldInv, NEW c \in Clients, netPacketProc_MoveStart(c)
  PROVE  WorldInv'
<1>1. Receives(c, {11}) /\ {11} \subseteq MoveTypes
  BY DEF netPacketProc_MoveStart, MoveTypes
<1>2. LatePacket(c, life, Packet(c)) /\ Packet(c)[1] = 11
  BY <1>1, ReceivedIs
<1>3. Packet(c)[3] \in Actions
  BY <1>2 DEF LatePacket, MoveTypes
<1> DEFINE moved == InputActionProc(Found(c), Packet(c)[3])
           after == SetPosition(moved, Packet(c)[4], Packet(c)[5])
<1>4. Act(c, Found(c), Packet(c)[3], after)
  BY DEF netPacketProc_MoveStart
<1>5. IsSlot(Found(c)) => Keeps(Found(c), moved)
  BY <1>3, InputKeeps
<1>6. IsSlot(moved) => Keeps(moved, after)
  <2> HIDE DEF moved
  <2> QED BY SetPositionKeeps
<1> HIDE DEF moved, after
<1>7. IsSlot(Found(c)) => Keeps(Found(c), after)
  BY <1>5, <1>6 DEF Keeps
<1> QED BY <1>1, <1>3, <1>4, <1>7, ActKeeps

LEMMA MoveStopKeeps ==
  ASSUME WorldInv, NEW c \in Clients, netPacketProc_MoveStop(c)
  PROVE  WorldInv'
<1>1. Receives(c, {13}) /\ {13} \subseteq MoveTypes
  BY DEF netPacketProc_MoveStop, MoveTypes
<1> DEFINE o == Placed(Found(c), Packet(c))
           after == InputActionProc(o, STAND)
<1>2. Act(c, o, STAND, after)
  BY DEF netPacketProc_MoveStop
<1>3. STAND \in Actions
  BY DEF Actions, STAND
<1>4. IsSlot(Found(c)) => Keeps(Found(c), o)
  BY PlacedKeeps
<1>5. IsSlot(o) => Keeps(o, after)
  <2> HIDE DEF o
  <2> QED BY <1>3, InputKeeps
<1> HIDE DEF o, after
<1>6. IsSlot(Found(c)) => Keeps(Found(c), after)
  BY <1>4, <1>5 DEF Keeps
<1> QED BY <1>1, <1>2, <1>3, <1>6, ActKeeps

LEMMA AttackKeeps ==
  ASSUME WorldInv, NEW c \in Clients, netPacketProc_Attack(c)
  PROVE  WorldInv'
<1>1. Receives(c, {21, 23, 25}) /\ {21, 23, 25} \subseteq MoveTypes
  BY DEF netPacketProc_Attack, MoveTypes
<1>2. Packet(c)[1] \in {21, 23, 25}
  BY <1>1, ReceivedIs
<1> DEFINE o == Placed(Found(c), Packet(c))
           acted == InputActionProc(o, AttackOf(c))
           after == LoopResetFrame(acted)
<1>3. Act(c, o, AttackOf(c), after)
  BY DEF netPacketProc_Attack
<1>4. AttackOf(c) \in Actions
  <2>1. Packet(c)[1] - 5 \in {16, 18, 20}
    BY <1>2
  <2>2. AttackOf(c) \in {8, 9, 10}
    BY <2>1 DEF AttackOf
  <2> QED BY <2>2 DEF Actions, STAND
<1>5. IsSlot(Found(c)) => Keeps(Found(c), o)
  BY PlacedKeeps
<1>6. IsSlot(o) => Keeps(o, acted)
  <2> HIDE DEF o
  <2> QED BY <1>4, InputKeeps
<1>7. IsSlot(acted) => Keeps(acted, after)
  <2> HIDE DEF acted
  <2> QED BY LoopResetKeeps
<1> HIDE DEF o, acted, after
<1>8. IsSlot(Found(c)) => Keeps(Found(c), after)
  BY <1>5, <1>6, <1>7 DEF Keeps
<1> QED BY <1>1, <1>3, <1>4, <1>8, ActKeeps

LEMMA DamageKeeps ==
  ASSUME WorldInv, NEW c \in Clients, netPacketProc_Damage(c)
  PROVE  WorldInv'
<1>1. /\ inbox[c] # <<>> /\ Packet(c) = Head(inbox[c]) /\ LatePacket(c, life, Head(inbox[c]))
      /\ Packet(c)[1] = 30
  BY ReceivedIs DEF netPacketProc_Damage
<1>2. Packet(c)[2] \in Clients /\ Packet(c)[3] \in Clients
  BY <1>1 DEF LatePacket, MoveTypes
<1>3. PICK i, j, hp : i = Index(c, Packet(c)[2]) /\ j = Index(c, Packet(c)[3]) /\ hp = Packet(c)[4]
  OBVIOUS
<1> DEFINE l == list[c]
           hitAt == <<l[j].x, l[j].y - Lift>>
           o == SetHitEffect(l[i], hitAt)
           m == [l EXCEPT ![i] = o]
           o2 == SetHP(m[j], hp)
           m2 == [m EXCEPT ![j] = o2]
<1>4. /\ UNCHANGED <<pool, own, running>> /\ inbox' = Taken(c) /\ life' = life
      /\ list' = IF i = 0 \/ j = 0 THEN list
                 ELSE [[list EXCEPT ![c][i] = SetHitEffect(@, hitAt)] EXCEPT ![c][j] = SetHP(@, hp)]
  BY <1>3 DEF netPacketProc_Damage
<1>5. Things(list[c]) /\ DOMAIN list = Clients
  BY DEF WorldInv, ClientOK
<1>6. IsSent(<<>>) /\ Route(c, <<>>, Taken(c))
  BY <1>4 DEF IsSent, Route
<1>7. CASE i = 0 \/ j = 0
  <2>1. list' = list
    BY <1>4, <1>7
  <2>2. Same(list[c], list'[c])
    BY <1>5, <2>1, SameIs
  <2> QED BY <1>1, <1>4, <1>5, <1>6, <2>1, <2>2, ChangerKeeps
<1>8. CASE ~(i = 0 \/ j = 0)
  <2>1. i \in 1 .. Len(l) /\ IsSlot(l[i]) /\ j \in 1 .. Len(l) /\ IsSlot(l[j])
    BY <1>2, <1>3, <1>8, FoundIs
  <2>2. DOMAIN list' = Clients /\ list'[c] = m2 /\ \A d \in Clients \ {c} : list'[d] = list[d]
    <3> HIDE DEF hitAt
    <3>1. list' = [[list EXCEPT ![c][i] = SetHitEffect(@, hitAt)] EXCEPT ![c][j] = SetHP(@, hp)]
      BY <1>4, <1>8
    <3>2. list' = [[list EXCEPT ![c] = m] EXCEPT ![c][j] = SetHP(@, hp)]
      BY <1>5, <3>1
    <3> HIDE DEF m
    <3> QED BY <1>5, <3>2
  <2> HIDE DEF hitAt, l
  <2>3. Keeps(l[i], o) /\ (Complete(l[i]) => Complete(o)) /\ ~IsEffect(l[i])
    BY <2>1, SetHitEffectKeeps, KindsDiffer
  <2> HIDE DEF o
  <2>4. \A w, d : IsOwn(l[i], w, d) => IsOwn(o, w, d)
    BY <2>3 DEF IsOwn, Keeps
  <2>5. Things(l)
    BY <1>5 DEF l
  <2>6. Same(l, m) /\ \A w, d : Shows(l, w, d) => Shows(m, w, d)
    BY <2>1, <2>3, <2>4, <2>5, ChangeSame
  <2> HIDE DEF m
  <2>7. Things(m) /\ j \in 1 .. Len(m) /\ IsSlot(m[j])
    BY <2>1, <2>5, <2>6, SameKeeps DEF Same, Keeps
  <2>8. Keeps(m[j], o2) /\ (Complete(m[j]) => Complete(o2)) /\ ~IsEffect(m[j])
    BY <2>7, SetHPKeeps, KindsDiffer
  <2> HIDE DEF o2
  <2>9. \A w, d : IsOwn(m[j], w, d) => IsOwn(o2, w, d)
    BY <2>8 DEF IsOwn, Keeps
  <2>10. Same(m, m2) /\ \A w, d : Shows(m, w, d) => Shows(m2, w, d)
    BY <2>7, <2>8, <2>9, ChangeSame
  <2> HIDE DEF m2
  <2>11. Same(l, m2)
    BY <2>5, <2>6, <2>10 DEF Same, Keeps, Things
  <2>12. Same(list[c], list'[c]) /\ (Shows(list[c], own[c], c) => Shows(list'[c], own[c], c))
    BY <2>2, <2>6, <2>10, <2>11 DEF l
  <2> QED BY <1>1, <1>4, <1>6, <2>2, <2>12, ChangerKeeps
<1> QED BY <1>7, <1>8

LEMMA SyncKeeps ==
  ASSUME WorldInv, NEW c \in Clients, netPacketProc_Sync(c)
  PROVE  WorldInv'
<1>1. /\ inbox[c] # <<>> /\ Packet(c) = Head(inbox[c]) /\ LatePacket(c, life, Head(inbox[c]))
      /\ Packet(c)[1] = 251
  BY ReceivedIs DEF netPacketProc_Sync
<1>2. Packet(c)[2] \in Clients
  BY <1>1 DEF LatePacket, MoveTypes
<1>3. PICK i : i = Index(c, Packet(c)[2])
  OBVIOUS
<1>4. PICK x, y : x = Packet(c)[3] /\ y = Packet(c)[4]
  OBVIOUS
<1> DEFINE o == SetPosition(list[c][i], x, y)
           m == [list[c] EXCEPT ![i] = o]
<1>5. /\ UNCHANGED <<pool, own, running>> /\ inbox' = Taken(c) /\ life' = life
      /\ list' = IF i = 0 THEN list ELSE [list EXCEPT ![c][i] = o]
  BY <1>3, <1>4 DEF netPacketProc_Sync
<1>6. Things(list[c]) /\ DOMAIN list = Clients
  BY DEF WorldInv, ClientOK
<1>7. IsSent(<<>>) /\ Route(c, <<>>, Taken(c))
  BY <1>5 DEF IsSent, Route
<1>8. CASE i = 0
  <2>1. list' = list
    BY <1>5, <1>8
  <2>2. Same(list[c], list'[c])
    BY <1>6, <2>1, SameIs
  <2>3. /\ DOMAIN list' = Clients /\ \A d \in Clients \ {c} : list'[d] = list[d]
        /\ (Shows(list[c], own[c], c) => Shows(list'[c], own[c], c))
    BY <1>6, <2>1
  <2> HIDE DEF o, m
  <2>4. UNCHANGED <<pool, own, running>>
    BY <1>5
  <2> QED BY <1>1, <1>7, <2>2, <2>3, <2>4, ChangerKeeps
<1>9. CASE i # 0
  <2>1. i \in 1 .. Len(list[c]) /\ IsSlot(list[c][i])
    BY <1>2, <1>3, <1>9, FoundIs
  <2>2. Keeps(list[c][i], o) /\ (Complete(list[c][i]) => Complete(o)) /\ ~IsEffect(list[c][i])
    BY <2>1, SetPositionKeeps, KindsDiffer
  <2>3. DOMAIN list' = Clients /\ list'[c] = m /\ \A d \in Clients \ {c} : list'[d] = list[d]
    BY <1>5, <1>6, <1>9
  <2> HIDE DEF o
  <2>4. \A w, d : IsOwn(list[c][i], w, d) => IsOwn(o, w, d)
    BY <2>2 DEF IsOwn, Keeps
  <2>5. Same(list[c], m) /\ (Shows(list[c], own[c], c) => Shows(m, own[c], c))
    BY <1>6, <2>1, <2>2, <2>4, ChangeSame
  <2> HIDE DEF m
  <2> QED BY <1>1, <1>5, <1>7, <2>3, <2>5, ChangerKeeps
<1> QED BY <1>8, <1>9

(* A list with one object less.                                               *)
LEMMA RemovedIs ==
  ASSUME NEW l, Things(l), NEW i \in 1 .. Len(l)
  PROVE  \E f : PartAt(l, (1 .. Len(l)) \ {i}, f, RemoveAt(l, i))
<1> DEFINE f == [j \in Nat |-> IF j < i THEN j ELSE j + 1]
           m == RemoveAt(l, i)
<1>1. Len(l) \in Nat
  BY SeqIs DEF Things
<1>2. PICK S : l \in Seq(S)
  BY DEF Things, IsSeq
<1>3. /\ m \in Seq(S) /\ Len(m) = Len(l) - 1
      /\ \A j \in 1 .. Len(l) - 1 : m[j] = l[IF j < i THEN j ELSE j + 1]
  BY <1>2, RemoveAtIs
<1> HIDE DEF m
<1>4. \A a \in 1 .. Len(m) : f[a] = IF a < i THEN a ELSE a + 1
  BY <1>1, <1>3
<1>5. \A v \in (1 .. Len(l)) \ {i} : \E a \in 1 .. Len(m) : f[a] = v
  <2> SUFFICES ASSUME NEW v \in (1 .. Len(l)) \ {i} PROVE \E a \in 1 .. Len(m) : f[a] = v
    OBVIOUS
  <2>1. CASE v < i
    BY <1>1, <1>3, <2>1
  <2>2. CASE v > i
    <3>1. v - 1 \in 1 .. Len(m) /\ f[v - 1] = v
      BY <1>1, <1>3, <2>2
    <3> QED BY <3>1
  <2>3. v \in Int /\ i \in Int /\ v # i
    BY <1>1
  <2>4. v < i \/ v > i
    BY <2>3
  <2> QED BY <2>1, <2>2, <2>4
<1>6. \A a \in 1 .. Len(m) : f[a] \in (1 .. Len(l)) \ {i} /\ m[a] = l[f[a]]
  BY <1>1, <1>3, <1>4
<1>7. ASSUME NEW a \in 1 .. Len(m), NEW b \in 1 .. Len(m), f[a] = f[b] PROVE a = b
  <2> HIDE DEF f
  <2>1. a \in Int /\ b \in Int /\ i \in Int
    BY <1>1, <1>3
  <2>2. (IF a < i THEN a ELSE a + 1) = (IF b < i THEN b ELSE b + 1)
    BY <1>4, <1>7
  <2> QED BY <2>1, <2>2
<1> HIDE DEF f
<1>8. IsSeq(m) /\ Len(m) \in Nat
  BY <1>3, SeqIs DEF IsSeq
<1>9. PartAt(l, (1 .. Len(l)) \ {i}, f, m)
  BY <1>5, <1>6, <1>7, <1>8 DEF PartAt, Part
<1> QED BY <1>9 DEF m

LEMMA DeleteKeeps ==
  ASSUME WorldInv, NEW c \in Clients, netPacketProc_DeleteCharacter(c)
  PROVE  WorldInv'
<1>1. /\ inbox[c] # <<>> /\ Packet(c) = Head(inbox[c]) /\ LatePacket(c, life, Head(inbox[c]))
      /\ Packet(c)[1] = 2
  BY ReceivedIs DEF netPacketProc_DeleteCharacter
<1>2. PICK id : id = Packet(c)[2]
  OBVIOUS
<1>3. id \in Clients /\ life[id] = 0
  BY <1>1, <1>2 DEF LatePacket, MoveTypes
<1>4. PICK i : i = Index(c, id)
  OBVIOUS
<1>5. /\ UNCHANGED <<own, running>> /\ inbox' = Taken(c) /\ life' = life
      /\ list' = IF i = 0 THEN list ELSE [list EXCEPT ![c] = RemoveAt(@, i)]
      /\ pool' = IF i = 0 THEN pool ELSE [pool EXCEPT ![c] = <<list[c][i]>> \o @]
  BY <1>2, <1>4 DEF netPacketProc_DeleteCharacter
<1>6. /\ Things(list[c]) /\ Slots(pool[c]) /\ Apart(list[c], pool[c]) /\ Distinct(list[c])
      /\ DOMAIN list = Clients /\ DOMAIN pool = Clients
      /\ DOMAIN own = Clients /\ DOMAIN running = Clients
  BY DEF WorldInv, ClientOK, Apart
<1>7. IsSent(<<>>) /\ Route(c, <<>>, Taken(c))
  BY <1>5 DEF IsSent, Route
<1>8. CASE i = 0
  <2>1. list' = list /\ UNCHANGED <<pool, own, running>>
    BY <1>5, <1>8
  <2>2. Same(list[c], list'[c])
    BY <1>6, <2>1, SameIs
  <2>3. /\ DOMAIN list' = Clients /\ \A d \in Clients \ {c} : list'[d] = list[d]
        /\ (Shows(list[c], own[c], c) => Shows(list'[c], own[c], c))
    BY <1>6, <2>1
  <2> QED BY <1>1, <1>7, <2>1, <2>2, <2>3, ChangerKeeps
<1>9. CASE i # 0
  <2>1. i \in 1 .. Len(list[c]) /\ IsSlot(list[c][i]) /\ list[c][i].id = id
    BY <1>3, <1>4, <1>9, FoundIs
  <2> DEFINE m == RemoveAt(list[c], i)
             o == list[c][i]
             q == <<o>> \o pool[c]
  <2>2. /\ Only(c) /\ list'[c] = m /\ pool'[c] = q
        /\ own' = own /\ running' = running
    BY <1>5, <1>6, <1>9 DEF Only
  <2>3. PICK f : PartAt(list[c], (1 .. Len(list[c])) \ {i}, f, m)
    BY <1>6, <2>1, RemovedIs
  <2>4. Part(list[c], f, m)
    BY <2>3 DEF PartAt
  <2> HIDE DEF m
  <2>5. /\ Things(m) /\ Apart(m, pool[c])
        /\ \A w : Lacks(list[c], w) => Lacks(m, w)
        /\ \A w, d : \A a \in 1 .. Len(m) : IsOwn(list[c][f[a]], w, d) => Shows(m, w, d)
    BY <1>6, <2>4, SomeKeep
  <2>6. \A a \in 1 .. Len(m) : m[a] = list[c][f[a]] /\ f[a] \in (1 .. Len(list[c])) \ {i}
    BY <2>3 DEF PartAt, Part
  <2>7. IsPlayer(o)
    BY <2>1, KindsDiffer
  <2>8. Lacks(m, o.at)
    BY <1>6, <2>1, <2>6, <2>7 DEF Lacks, Distinct
  <2>9. IsSeq(<<o>>) /\ Len(<<o>>) = 1 /\ <<o>>[1] = o
    BY OneIs
  <2>10. Slots(<<o>>)
    BY <2>1, <2>9 DEF Slots
  <2>11. Apart(m, <<o>>)
    <3>1. Distinct(m) /\ \A a \in 1 .. Len(m) : IsPlayer(m[a]) => m[a].at # o.at
      BY <2>5, <2>8 DEF Apart, Lacks
    <3> HIDE DEF o
    <3>2. \A k \in 1 .. Len(<<o>>) : k = 1
      BY <2>9
    <3> QED BY <2>9, <3>1, <3>2 DEF Apart, Distinct
  <2>12. \A a \in 1 .. Len(<<o>>), k \in 1 .. Len(pool[c]) : <<o>>[a].at # pool[c][k].at
    <3>1. \A k \in 1 .. Len(pool[c]) : o.at # pool[c][k].at
      BY <1>6, <2>1, <2>7 DEF Apart
    <3> HIDE DEF o
    <3>2. \A a \in 1 .. Len(<<o>>) : a = 1
      BY <2>9
    <3> QED BY <2>9, <3>1, <3>2
  <2> HIDE DEF o
  <2>13. Slots(q) /\ Apart(m, q) /\ Len(q) = 1 + Len(pool[c])
    BY <1>6, <2>5, <2>9, <2>10, <2>11, <2>12, SlotsJoin
  <2> HIDE DEF q
  (* A client takes its own character from the list once it is dead.          *)
  <2>14. ASSUME Shows(list[c], own[c], c)
         PROVE  Shows(m, own[c], c) \/ (life[c] = 0 /\ Lacks(m, own[c]))
    <3>1. PICK v \in 1 .. Len(list[c]) : IsOwn(list[c][v], own[c], c)
      BY <2>14 DEF Shows
    <3>2. CASE v = i
      <4>1. life[c] = 0 /\ own[c] = o.at
        BY <1>3, <2>1, <3>1, <3>2 DEF IsOwn, o
      <4> QED BY <2>8, <4>1
    <3>3. CASE v # i
      <4>1. PICK a \in 1 .. Len(m) : f[a] = v
        BY <2>3, <3>3 DEF PartAt
      <4> QED BY <2>5, <3>1, <4>1
    <3> QED BY <3>2, <3>3
  <2>15. Things(list'[c]) /\ Slots(pool'[c]) /\ Apart(list'[c], pool'[c])
    BY <2>2, <2>5, <2>13
  <2>16. 1 \in Nat /\ Len(pool'[c]) = 1 + Len(pool[c])
    BY <2>2, <2>13
  <2>17. \A w : Lacks(list[c], w) => Lacks(list'[c], w)
    BY <2>2, <2>5
  <2>18. own[c] # 0 /\ Shows(list[c], own[c], c) =>
            Shows(list'[c], own[c], c) \/ (life[c] = 0 /\ Lacks(list'[c], own[c]))
    BY <2>2, <2>14
  <2> QED BY <1>1, <1>7, <2>2, <2>15, <2>16, <2>17, <2>18, HandlerKeeps
<1> QED BY <1>8, <1>9

(* A character is added at the end of the list.                               *)
LEMMA OneAdded ==
  ASSUME NEW l, Things(l), NEW q, Apart(l, q), NEW o, IsSlot(o), Lacks(l, o.at),
         \A k \in 1 .. Len(q) : q[k].at # o.at
  PROVE  /\ Things(Append(l, o)) /\ Apart(Append(l, o), q)
         /\ \A w, c : Shows(l, w, c) => Shows(Append(l, o), w, c)
         /\ \A w, c : IsOwn(o, w, c) => Shows(Append(l, o), w, c)
<1> DEFINE m == Append(l, o)
<1>1. /\ IsSeq(m) /\ Len(m) = Len(l) + 1 /\ Len(l) \in Nat /\ m[Len(l) + 1] = o
      /\ \A i \in 1 .. Len(l) : m[i] = l[i]
  BY AppendIs DEF Things
<1> HIDE DEF m
<1>2. \A i \in 1 .. Len(m) : (i \in 1 .. Len(l) /\ m[i] = l[i]) \/ (i = Len(m) /\ m[i] = o)
  BY <1>1
<1>3. \A i \in 1 .. Len(l) : i \in 1 .. Len(m) /\ m[i] = l[i]
  BY <1>1
<1>4. Len(m) \in 1 .. Len(m) /\ m[Len(m)] = o
  BY <1>1
<1>5. Things(m)
  BY <1>1, <1>2 DEF Things
<1>6. Distinct(m)
  BY <1>2 DEF Apart, Distinct, Lacks
<1>7. Apart(m, q)
  BY <1>2, <1>6 DEF Apart
<1>8. \A w, c : Shows(l, w, c) => Shows(m, w, c)
  BY <1>3 DEF Shows
<1>9. \A w, c : IsOwn(o, w, c) => Shows(m, w, c)
  BY <1>4 DEF Shows
<1> QED BY <1>5, <1>7, <1>8, <1>9 DEF m

(* The rest of the pool after its first slot was taken.                       *)
LEMMA TailSlots ==
  ASSUME NEW q, Slots(q), q # <<>>, NEW l, Apart(l, q)
  PROVE  /\ Slots(Tail(q)) /\ Apart(l, Tail(q)) /\ IsSlot(Head(q)) /\ Len(Tail(q)) = Len(q) - 1
         /\ Lacks(l, Head(q).at) /\ \A k \in 1 .. Len(Tail(q)) : Tail(q)[k].at # Head(q).at
<1> DEFINE m == Tail(q)
           h == Head(q)
<1>1. /\ IsSeq(m) /\ Len(m) = Len(q) - 1 /\ Len(q) \in Nat \ {0} /\ h = q[1]
      /\ \A i \in 1 .. Len(q) - 1 : m[i] = q[i + 1]
  BY TailIs DEF Slots
<1> HIDE DEF m, h
<1>2. \A i \in 1 .. Len(m) : i + 1 \in 2 .. Len(q) /\ i + 1 \in 1 .. Len(q) /\ m[i] = q[i + 1]
  BY <1>1
<1>3. 1 \in 1 .. Len(q) /\ \A i \in 2 .. Len(q) : i # 1
  BY <1>1
<1>4. \A i \in 1 .. Len(q) : IsSlot(q[i]) /\ IsPlayer(q[i])
  BY KindsDiffer DEF Slots
<1>5. Slots(m) /\ IsSlot(h)
  BY <1>1, <1>2, <1>3, <1>4 DEF Slots
<1>6. \A i, j \in 1 .. Len(q) : q[i].at = q[j].at => i = j
  BY <1>4 DEF Apart, Distinct
<1>7. Distinct(m)
  BY <1>2, <1>6 DEF Distinct
<1>8. Apart(l, m)
  BY <1>2, <1>7 DEF Apart
<1>9. Lacks(l, h.at)
  BY <1>1, <1>3 DEF Apart, Lacks
<1>10. \A k \in 1 .. Len(m) : m[k].at # h.at
  BY <1>1, <1>2, <1>3, <1>6
<1> QED BY <1>1, <1>5, <1>8, <1>9, <1>10 DEF m, h

(* The new character stands in the first free slot and has no attack to       *)
(* complete, whatever its slot was used for.                                  *)
LEMMA CreatedIs ==
  ASSUME NEW slot, IsSlot(slot), NEW p, NEW mine \in BOOLEAN, NEW o,
         o = [SetHP(Placed(NewPlayer(slot, p[2]), p), p[6]) EXCEPT !.mine = mine]
  PROVE  /\ IsSlot(InputActionProc(o, STAND)) /\ InputActionProc(o, STAND).at = slot.at
         /\ mine => IsOwn(InputActionProc(o, STAND), slot.at, p[2])
<1>1. PICK id : id = p[2]
  OBVIOUS
<1>2. PICK a : a = NewPlayer(slot, id)
  OBVIOUS
<1>3. IsSlot(a) /\ Complete(a) /\ ~InAttack(a) /\ a.at = slot.at /\ a.id = id
  BY <1>2, NewPlayerIs
<1>4. PICK b : b = Placed(a, p)
  OBVIOUS
<1>5. Keeps(a, b) /\ Complete(b)
  BY <1>3, <1>4, PlacedKeeps
<1>6. PICK hp : hp = p[6]
  OBVIOUS
<1>7. PICK d : d = SetHP(b, hp)
  OBVIOUS
<1>8. Keeps(b, d) /\ Complete(d)
  BY <1>5, <1>7, SetHPKeeps DEF Keeps
<1>9. o = [d EXCEPT !.mine = mine]
  BY <1>1, <1>2, <1>4, <1>6, <1>7
<1>10. IsSlot(d) /\ d.at = slot.at /\ d.id = id
  BY <1>3, <1>5, <1>8 DEF Keeps
<1>11. /\ DOMAIN o = DOMAIN d /\ o.type = d.type /\ o.right = d.right /\ o.anim = d.anim
       /\ o.cur = d.cur /\ o.action = d.action /\ o.at = d.at /\ o.id = d.id /\ o.mine = mine
  BY <1>9, <1>10 DEF IsSlot
<1>12. IsSlot(o) /\ Complete(o)
  BY <1>8, <1>10, <1>11 DEF IsSlot, Complete, InAttack
<1>13. STAND \in Actions
  BY DEF Actions, STAND
<1>14. /\ Keeps(o, InputActionProc(o, STAND))
       /\ mine => Complete(InputActionProc(o, STAND))
  BY <1>11, <1>12, <1>13, InputKeeps
<1>15. mine => IsOwn(InputActionProc(o, STAND), slot.at, id)
  BY <1>10, <1>11, <1>14 DEF Keeps, IsOwn
<1> QED BY <1>1, <1>10, <1>11, <1>14, <1>15 DEF Keeps

LEMMA CreateKeeps ==
  ASSUME WorldInv, NEW c \in Clients, NEW type \in {0, 1}, Receives(c, {type}),
         NEW mine \in BOOLEAN, mine <=> type = 0, Create(c, mine),
         IF type = 0 THEN own' = [own EXCEPT ![c] = Head(pool[c]).at] ELSE own' = own
  PROVE  WorldInv'
<1>1. inbox[c] # <<>> /\ running[c]
  BY ReceivedIs
<1>2. PICK p : p = Head(inbox[c])
  OBVIOUS
<1>3. p[1] = type
  BY <1>2, ReceivedIs
<1>4. /\ Things(list[c]) /\ Slots(pool[c]) /\ Apart(list[c], pool[c])
      /\ Mail(c, inbox[c], pool[c], life)
      /\ Knows(c, list[c], own[c], running[c], inbox[c], life[c])
      /\ life \in [Clients -> Nat] /\ DOMAIN inbox = Clients
      /\ DOMAIN list = Clients /\ DOMAIN pool = Clients
      /\ DOMAIN own = Clients /\ DOMAIN running = Clients
      /\ \A d \in Clients : IsSeq(inbox[d])
  BY DEF WorldInv, ClientOK, Mail
<1>5. Len(pool[c]) \in Nat
  BY <1>4, SeqIs DEF Slots
<1>6. ~LatePacket(c, life, p)
  BY <1>3 DEF LatePacket, MoveTypes
<1>7. FirstPacket(c, p) /\ Len(pool[c]) # 0
  BY <1>1, <1>2, <1>4, <1>5, <1>6, MailTaken
<1>8. pool[c] # <<>>
  BY <1>7, NoneIs
<1> DEFINE slot == Head(pool[c])
           q == Tail(pool[c])
<1>9. /\ Slots(q) /\ Apart(list[c], q) /\ IsSlot(slot) /\ Len(q) = Len(pool[c]) - 1
      /\ Lacks(list[c], slot.at) /\ \A k \in 1 .. Len(q) : q[k].at # slot.at
  BY <1>4, <1>8, TailSlots
<1>10. PICK new : new = [SetHP(Placed(NewPlayer(slot, p[2]), p), p[6]) EXCEPT !.mine = mine]
  OBVIOUS
<1> DEFINE o == InputActionProc(new, STAND)
           m == Append(list[c], o)
<1>11. /\ list' = [list EXCEPT ![c] = Append(@, o)] /\ pool' = [pool EXCEPT ![c] = q]
       /\ Route(c, Announcement(new, STAND), Taken(c)) /\ running' = running
  BY <1>2, <1>10 DEF Create, Packet
<1> HIDE DEF slot, q
<1>12. IsSlot(o) /\ o.at = slot.at /\ (mine => IsOwn(o, slot.at, p[2]))
  BY <1>9, <1>10, CreatedIs
<1> HIDE DEF o
<1>13. /\ Things(m) /\ Apart(m, q)
       /\ \A w, d : Shows(list[c], w, d) => Shows(m, w, d)
       /\ \A w, d : IsOwn(o, w, d) => Shows(m, w, d)
  BY <1>4, <1>9, <1>12, OneAdded
<1> HIDE DEF m
<1>14. list'[c] = m /\ pool'[c] = q /\ running'[c] = running[c] /\ Only(c)
  BY <1>4, <1>11 DEF Only, m
<1>15. IF type = 0 THEN own'[c] = slot.at ELSE own'[c] = own[c]
  BY <1>4 DEF slot
<1>16. IsSent(Announcement(new, STAND))
  BY SaysIs DEF Actions, STAND
<1>17. /\ DOMAIN Taken(c) = Clients /\ Taken(c)[c] = Tail(inbox[c])
       /\ \A d \in Clients \ {c} : Taken(c)[d] = inbox[d]
  BY <1>4 DEF Taken
<1>18. IsSeq(Tail(inbox[c]))
  BY <1>1, <1>4, TailIs
<1>19. \A d \in Clients : IsSeq(Taken(c)[d])
  BY <1>4, <1>17, <1>18
<1>20. PICK rest, sent : rest = Taken(c) /\ sent = Announcement(new, STAND)
  OBVIOUS
<1>21. /\ life' \in [Clients -> Nat] /\ DOMAIN inbox' = Clients /\ StayDead(life, life')
       /\ \A d \in Clients : Grows(d, rest[d], inbox'[d], life')
  <2>1. DOMAIN rest = Clients /\ (\A d \in Clients : IsSeq(rest[d])) /\ IsSent(sent)
        /\ Route(c, sent, rest)
    BY <1>11, <1>16, <1>17, <1>19, <1>20
  <2> QED BY <1>4, <2>1, RouteKeeps
<1>22. \A d \in Clients \ {c} : Grows(d, inbox[d], inbox'[d], life')
  BY <1>17, <1>20, <1>21
<1>23. Grows(c, Tail(inbox[c]), inbox'[c], life')
  BY <1>17, <1>20, <1>21
<1>24. Mail(c, Tail(inbox[c]), q, life)
  BY <1>1, <1>4, <1>5, <1>9, MailTaken
<1>25. Len(q) \in Nat /\ Len(q) = 0 + Len(q) /\ 0 \in Nat
  BY <1>5, <1>7, <1>9
<1>26. Mail(c, inbox'[c], q, life')
  BY <1>21, <1>23, <1>24, <1>25, MailGrows
<1>27. ~NoFirst(c, inbox[c])
  <2>1. Len(inbox[c]) \in Nat \ {0} /\ inbox[c][1] = p
    BY <1>1, <1>2, <1>4, TailIs
  <2>2. 1 \in 1 .. Len(inbox[c])
    BY <2>1
  <2> QED BY <1>7, <2>1, <2>2 DEF NoFirst
<1>28. Knows(c, m, own'[c], running[c], inbox'[c], life'[c])
  <2>1. CASE type = 0
    <3>1. p[2] = c
      BY <1>3, <1>7, <2>1 DEF FirstPacket
    <3>2. Shows(m, slot.at, c)
      BY <1>12, <1>13, <2>1, <3>1
    <3> QED BY <1>15, <2>1, <3>2 DEF Knows
  <2>2. CASE type = 1
    <3>1. own'[c] = own[c]
      BY <1>15, <2>2
    <3>2. own[c] # 0 => Shows(list[c], own[c], c)
      BY <1>1, <1>4, <1>27 DEF Knows
    <3> QED BY <1>13, <3>1, <3>2 DEF Knows
  <2> QED BY <2>1, <2>2
<1>29. ClientOK(c, list'[c], pool'[c], own'[c], running'[c], inbox'[c], life')
  BY <1>9, <1>13, <1>14, <1>26, <1>28 DEF ClientOK
<1> QED BY <1>14, <1>21, <1>22, <1>29, WorldStep

LEMMA NextKeeps ==
  ASSUME WorldInv, [Next]_vars
  PROVE  WorldInv'
<1>1. CASE Next
  <2>1. PICK c \in Clients :
          RunCycle(c) \/ PacketProc(c) \/ ActivateApp(c) \/ \E k \in Keys : PressKey(c, k)
    BY <1>1 DEF Next
  <2>2. CASE RunCycle(c)
    BY <2>2, RunCycleKeeps
  <2>3. CASE netPacketProc_CreateMyCharacter(c)
    <3>1. Receives(c, {0}) /\ Create(c, TRUE) /\ own' = [own EXCEPT ![c] = Head(pool[c]).at]
      BY <2>3 DEF netPacketProc_CreateMyCharacter
    <3>2. 0 \in {0, 1} /\ TRUE \in BOOLEAN /\ (TRUE <=> 0 = 0)
          /\ IF 0 = 0 THEN own' = [own EXCEPT ![c] = Head(pool[c]).at] ELSE own' = own
      BY <3>1
    <3> QED BY <3>1, <3>2, CreateKeeps
  <2>4. CASE netPacketProc_CreateOtherCharacter(c)
    <3>1. Receives(c, {1}) /\ Create(c, FALSE) /\ own' = own
      BY <2>4 DEF netPacketProc_CreateOtherCharacter
    <3>2. 1 \in {0, 1} /\ FALSE \in BOOLEAN /\ (FALSE <=> 1 = 0)
          /\ IF 1 = 0 THEN own' = [own EXCEPT ![c] = Head(pool[c]).at] ELSE own' = own
      BY <3>1
    <3> QED BY <3>1, <3>2, CreateKeeps
  <2>5. CASE netPacketProc_DeleteCharacter(c)
    BY <2>5, DeleteKeeps
  <2>6. CASE netPacketProc_MoveStart(c)
    BY <2>6, MoveStartKeeps
  <2>7. CASE netPacketProc_MoveStop(c)
    BY <2>7, MoveStopKeeps
  <2>8. CASE netPacketProc_Attack(c)
    BY <2>8, AttackKeeps
  <2>9. CASE netPacketProc_Damage(c)
    BY <2>9, DamageKeeps
  <2>10. CASE netPacketProc_Sync(c)
    BY <2>10, SyncKeeps
  <2>11. CASE ActivateApp(c)
    BY <2>11 DEF ActivateApp, WorldInv
  <2>12. CASE \E k \in Keys : PressKey(c, k)
    BY <2>12 DEF PressKey, WorldInv
  <2> QED BY <2>1, <2>2, <2>3, <2>4, <2>5, <2>6, <2>7, <2>8, <2>9, <2>10, <2>11, <2>12
          DEF PacketProc
<1>2. CASE UNCHANGED vars
  BY <1>2 DEF vars, WorldInv
<1> QED BY <1>1, <1>2
-----------------------------------------------------------------------------
LEMMA SetToSeqIs ==
  ASSUME NEW S, IsFiniteSet(S)
  PROVE  /\ IsSeq(SetToSeq(S)) /\ Len(SetToSeq(S)) = Cardinality(S) /\ Cardinality(S) \in Nat
         /\ \A i \in 1 .. Cardinality(S) : SetToSeq(S)[i] \in S
<1> DEFINE n == Cardinality(S)
           s == SetToSeq(S)
<1>1. n \in Nat /\ \E f \in [1 .. n -> S] : IsInjective(f)
  BY FS_CardinalityType DEF ExistsBijection, Bijection, Injection
<1>2. s = CHOOSE f \in [1 .. n -> S] : IsInjective(f)
  BY DEF SetToSeq
<1> HIDE DEF n, s
<1>3. s \in [1 .. n -> S]
  BY <1>1, <1>2
<1>4. s = [i \in 1 .. n |-> s[i]]
  BY <1>3
<1>5. IsSeq(s) /\ Len(s) = n
  BY <1>1, <1>4, MadeSeq
<1> QED BY <1>1, <1>3, <1>5 DEF n, s

LEMMA InitWorld ==
  ASSUME Init
  PROVE  WorldInv
<1> DEFINE N == Cardinality(Clients)
<1>1. N \in Nat
  BY ClientsAssumption, FS_CardinalityType
<1>2. ASSUME NEW c \in Clients
      PROVE  ClientOK(c, list[c], pool[c], own[c], running[c], inbox[c], life)
  <2>1. list[c] = <<>> /\ own[c] = 0
    BY DEF Init
  <2> DEFINE q == [k \in 1 .. N |-> FreshSlot(k)]
  <2>2. pool[c] = q
    BY DEF Init
  <2>3. IsSeq(q) /\ Len(q) = N
    <3>1. q = [k \in 1 .. N |-> q[k]]
      OBVIOUS
    <3> HIDE DEF q, N
    <3> QED BY <1>1, <3>1, MadeSeq
  <2>4. \A k \in 1 .. N : IsSlot(q[k]) /\ q[k].at = k
    <3> HIDE DEF N
    <3> QED BY DEF FreshSlot, IsSlot
  <2> HIDE DEF q, N
  <2>5. Slots(q) /\ Distinct(q)
    BY <2>3, <2>4 DEF Slots, Distinct
  <2>6. Things(list[c]) /\ Apart(list[c], q)
    BY <2>1, <2>5, NoneIs DEF Things, Apart, Distinct
  <2> DEFINE S == {Meet(d) : d \in Clients \ {c}}
  <2>7. inbox[c] = <<Join(c)>> \o SetToSeq(S)
    BY DEF Init
  <2>8. IsFiniteSet(S) /\ Cardinality(S) + 1 <= N
    <3> DEFINE g == [d \in Clients \ {c} |-> Meet(d)]
    <3>1. IsFiniteSet(Clients \ {c}) /\ Cardinality(Clients \ {c}) = N - 1
      BY ClientsAssumption, FS_RemoveElement DEF N
    <3>2. g \in Surjection(Clients \ {c}, S)
      BY DEF Surjection
    <3>3. IsFiniteSet(S) /\ Cardinality(S) <= Cardinality(Clients \ {c})
      <4> HIDE DEF g, S
      <4> QED BY <3>1, <3>2, FS_Surjection
    <3>4. Cardinality(S) \in Nat
      BY <3>3, FS_CardinalityType
    <3> HIDE DEF S
    <3> QED BY <1>1, <3>1, <3>3, <3>4
  <2>9. \A p \in S : FirstPacket(c, p)
    BY DEF FirstPacket, Meet, mpCreateOtherCharacter
  <2>10. FirstPacket(c, Join(c))
    BY DEF FirstPacket, Join, mpCreateMyCharacter
  <2> HIDE DEF S
  <2> DEFINE first == <<Join(c)>>
             others == SetToSeq(S)
  <2>11. IsSeq(first) /\ Len(first) = 1 /\ first[1] = Join(c)
    <3>1. PICK j : j = Join(c)
      OBVIOUS
    <3> QED BY <3>1, OneIs
  <2>12. /\ IsSeq(others) /\ Len(others) = Cardinality(S) /\ Cardinality(S) \in Nat
         /\ \A i \in 1 .. Len(others) : others[i] \in S
    BY <2>8, SetToSeqIs
  <2> HIDE DEF first, others
  <2> DEFINE box == first \o others
  <2>13. /\ IsSeq(box) /\ Len(box) = Len(first) + Len(others)
         /\ \A k \in 1 .. Len(first) + Len(others) :
              \/ k \in 1 .. Len(first) /\ box[k] = first[k]
              \/ k - Len(first) \in 1 .. Len(others) /\ box[k] = others[k - Len(first)]
    BY <2>11, <2>12, JoinedIs
  <2>14. box = inbox[c]
    BY <2>7 DEF first, others
  <2> HIDE DEF box
  <2>15. IsSeq(box) /\ Len(box) \in Nat /\ Len(box) <= N
    BY <2>8, <2>11, <2>12, <2>13
  <2>16. \A k \in 1 .. Len(box) : FirstPacket(c, box[k])
    <3> SUFFICES ASSUME NEW k \in 1 .. Len(box) PROVE FirstPacket(c, box[k])
      OBVIOUS
    <3>1. \/ k = 1 /\ box[k] = first[k]
          \/ k - 1 \in 1 .. Len(others) /\ box[k] = others[k - 1]
      BY <2>11, <2>13
    <3> QED BY <2>9, <2>10, <2>11, <2>12, <3>1
  <2>17. Mail(c, box, q, life)
    <3>1. \A k \in 1 .. Len(box) : k <= Len(q) /\ \A j \in 1 .. k : j \in 1 .. Len(box)
      BY <1>1, <2>3, <2>15
    <3> QED BY <2>15, <2>16, <3>1 DEF Mail
  <2>18. Knows(c, list[c], own[c], running[c], inbox[c], life[c])
    BY <2>1 DEF Knows
  <2> QED BY <2>2, <2>5, <2>6, <2>14, <2>17, <2>18 DEF ClientOK
<1>3. /\ life \in [Clients -> Nat]
      /\ DOMAIN list = Clients /\ DOMAIN pool = Clients /\ DOMAIN own = Clients
      /\ DOMAIN running = Clients /\ DOMAIN inbox = Clients
  BY StartHPAssumption DEF Init
<1> QED BY <1>2, <1>3 DEF WorldInv

LEMMA WorldAlways ==
  Spec => []WorldInv
<1>1. Init => WorldInv
  BY InitWorld
<1>2. WorldInv /\ [Next]_vars => WorldInv'
  BY NextKeeps
<1> QED BY <1>1, <1>2, PTL DEF Spec

(* The character a client knows as its own, if it is on the list, is the one  *)
(* created for it.                                                            *)
LEMMA OwnIndexIs ==
  ASSUME WorldInv, NEW c \in Clients
  PROVE  /\ OwnIndex(c) # 0 => IsOwn(list[c][OwnIndex(c)], own[c], c)
         /\ running[c] /\ own[c] # 0 /\ life[c] > 0 => OwnIndex(c) # 0
<1>1. /\ Things(list[c]) /\ Distinct(list[c]) /\ life[c] \in Nat
      /\ Knows(c, list[c], own[c], running[c], inbox[c], life[c])
  BY DEF WorldInv, ClientOK, Apart
<1>2. PICK w : w = own[c]
  OBVIOUS
<1>3. PICK i : i = OwnIndex(c)
  OBVIOUS
<1>4. w # 0 => i = ListAt(c, w)
  BY <1>2, <1>3 DEF OwnIndex
<1>5. Len(list[c]) \in Nat
  BY <1>1, SeqIs DEF Things
<1>6. /\ ListAt(c, w) \in 0 .. Len(list[c])
      /\ ListAt(c, w) # 0 => IsPlayer(list[c][ListAt(c, w)]) /\ list[c][ListAt(c, w)].at = w
      /\ \A j \in 1 .. Len(list[c]) : IsPlayer(list[c][j]) /\ list[c][j].at = w => ListAt(c, w) # 0
  BY <1>5, ListAtIs
<1>7. i # 0 => w # 0
  BY <1>2, <1>3 DEF OwnIndex
<1>8. ASSUME i # 0 PROVE IsOwn(list[c][i], w, c)
  <2>1. i \in 1 .. Len(list[c]) /\ IsPlayer(list[c][i]) /\ list[c][i].at = w
    BY <1>4, <1>5, <1>6, <1>7, <1>8
  <2>2. ~Lacks(list[c], w)
    BY <2>1 DEF Lacks
  <2>3. Shows(list[c], w, c)
    BY <1>1, <1>2, <1>7, <1>8, <2>2 DEF Knows
  <2> QED BY <1>1, <2>1, <2>3, OwnIsAt
<1>9. ASSUME running[c], w # 0, life[c] > 0 PROVE i # 0
  <2>1. Shows(list[c], w, c)
    BY <1>1, <1>2, <1>9 DEF Knows
  <2>2. PICK j \in 1 .. Len(list[c]) : IsOwn(list[c][j], w, c)
    BY <2>1 DEF Shows
  <2>3. IsPlayer(list[c][j]) /\ list[c][j].at = w
    BY <2>2, KindsDiffer DEF IsOwn
  <2> QED BY <1>4, <1>6, <1>9, <2>3
<1> QED BY <1>2, <1>3, <1>8, <1>9

(* While the server counts a character among the living, the pointer its      *)
(* client keeps to it is to the object on the list, for any number of         *)
(* clients, whatever the players press and in whatever order the packets and  *)
(* the turns come (GameMgr.cpp:357, ObjectMgr.cpp:115-148).                   *)
THEOREM PointerAlwaysLive ==
  Spec => []PointerLive
<1>1. WorldInv => PointerLive
  BY OwnIndexIs DEF PointerLive, IsOwn
<1> QED BY <1>1, WorldAlways, PTL

(* An attack of the player's own character leaves nothing behind for the next *)
(* one (PlayerObject.cpp:84-95), whatever reached the client meanwhile.       *)
THEOREM OwnAttackAlwaysComplete ==
  Spec => []OwnAttackComplete
<1>1. WorldInv => OwnAttackComplete
  BY OwnIndexIs DEF OwnAttackComplete, IsOwn, Complete
<1> QED BY <1>1, WorldAlways, PTL
-----------------------------------------------------------------------------
(* Copies of a character: what the clients show of one another.               *)
(*                                                                            *)
(* On the map; what a packet on its way to c says.                            *)
OnMap(x, y) == x \in 0 .. Right - 1 /\ y \in 0 .. Bottom - 1
Letter(c, p) ==
  /\ p[1] = 0 => p = Join(c)
  /\ p[1] = 1 => \E e \in Clients \ {c} : p = Meet(e)
  /\ p[1] \in MoveTypes => /\ p[2] \in Clients \ {c} /\ OnMap(p[4], p[5])
                           /\ p[1] = 11 => p[3] \in Moves
  /\ p[1] = 251 => p[2] \in Clients \ {c} /\ OnMap(p[3], p[4])

(* A character on the list of client c: it is on the map, is the player's own *)
(* only if it has the client's number, and an attack plays as it is directed. *)
(* A slot is somewhere, which a pointer to nothing is not.                    *)
Turned(o) == o.action \in Attacks => o.cur = <<o.action, o.right>>
Citizen(c, o) == o.at # 0 /\ OnMap(o.x, o.y) /\ (o.mine => o.id = c) /\ Turned(o)

(* Nothing attacks before the player's own character is there.                *)
Calm(o) == o.action \notin Attacks
Joins(box) == {k \in 1 .. Len(box) : box[k][1] = 0}
Newcomer(l, q, w, box) ==
  IF w = 0 THEN /\ \E k \in Joins(box) : Joins(box) = {k}
                /\ \A i \in 1 .. Len(l) : IsPlayer(l[i]) => Calm(l[i])
                /\ \A k \in 1 .. Len(q) : Calm(q[k])
           ELSE Joins(box) = {}

(* A correction of a position is followed by the stop it is about.            *)
Corrects(p, r) == r[1] = 13 /\ r[2] = p[2] /\ r[4] = p[3] /\ r[5] = p[4]
SyncsFollowed(box) ==
  \A k \in 1 .. Len(box) : box[k][1] = 251 => k + 1 <= Len(box) /\ Corrects(box[k], box[k + 1])

Crowd(c, l) == \A i \in 1 .. Len(l) : IsPlayer(l[i]) => Citizen(c, l[i])
Vacant(q) == \A k \in 1 .. Len(q) : q[k].at # 0 /\ OnMap(q[k].x, q[k].y)
Post(c, box) == SyncsFollowed(box) /\ \A k \in 1 .. Len(box) : Letter(c, box[k])

Local(c, l, q, w, box) == Crowd(c, l) /\ Vacant(q) /\ Post(c, box) /\ Newcomer(l, q, w, box)

(* Where a character that rests is and which way it looks; the same of what a *)
(* packet says it is to be.                                                   *)
Walking == <<>>
Looks(p) == p[3] # LL
Sit(o) == IF o.action \in Moves THEN Walking ELSE <<o.x, o.y, o.right>>
Said(p) == IF p[1] = 11 THEN Walking ELSE <<p[4], p[5], Looks(p)>>
Follows(u, v) == u # Walking /\ v # Walking => u = v

(* Of the packets about character c: the last of the first n, if there is     *)
(* one; what its copy is to be when they are dealt with.                      *)
About(p, c) == p[1] \in MoveTypes /\ p[2] = c
Quiet(box, c, a, b) == \A k \in a .. b : ~About(box[k], c)
Copies(l, c) == {j \in 1 .. Len(l) : l[j].id = c}
Meets(box, c) == {k \in 1 .. Len(box) : box[k] = Meet(c)}
Becomes(l, box, c, n, v) ==
  \/ \E m \in 1 .. n : About(box[m], c) /\ Quiet(box, c, m + 1, n) /\ v = Said(box[m])
  \/ /\ Quiet(box, c, 1, n)
     /\ \/ \E j \in Copies(l, c) : v = Sit(l[j])
        \/ Meets(box, c) # {} /\ v = Said(Meet(c))

(* A character has one copy or is about to have one, and the packets about a  *)
(* character that rests follow one another where it is.                       *)
Once(l, box, c) ==
  /\ \A i, j \in Copies(l, c) : i = j
  /\ \A i, j \in Meets(box, c) : i = j
  /\ Meets(box, c) # {} => Copies(l, c) = {}
Chained(l, box, c) ==
  \A m \in 1 .. Len(box) : About(box[m], c) =>
    \A v : Becomes(l, box, c, m - 1, v) => Follows(v, Said(box[m]))
Trail(l, box, c) == Once(l, box, c) /\ Chained(l, box, c)

(* Where the character itself is.                                             *)
IsAt(c, l, w, v) ==
  IF w = 0 THEN v = Said(Meet(c))
  ELSE \E i \in 1 .. Len(l) : IsOwn(l[i], w, c) /\ v = Sit(l[i])

Linked(c, l, w, m, box) ==
  \A u, v : IsAt(c, l, w, u) /\ Becomes(m, box, c, Len(box), v) => u = v

CopyInv ==
  /\ \A c \in Clients : Local(c, list[c], pool[c], own[c], inbox[c])
  /\ \A d \in Clients : \A c \in Clients \ {d} :
       /\ Trail(list[d], inbox[d], c)
       /\ running[c] /\ life[c] > 0 => Linked(c, list[c], own[c], list[d], inbox[d])
-----------------------------------------------------------------------------
(* What a character does by itself, or being hit or dead, does not move one   *)
(* that rests.                                                                *)
Like(o, p) ==
  /\ OnMap(o.x, o.y) => OnMap(p.x, p.y) /\ Sit(o) = Sit(p)
  /\ (Turned(o) => Turned(p)) /\ (Calm(o) => Calm(p))

(* Nobody has to hear of a change that leaves the character where it is, with  *)
(* the action it has.                                                          *)
LEMMA LikeIs ==
  ASSUME NEW o, NEW p, p.x = o.x, p.y = o.y, p.right = o.right, p.action = o.action, p.cur = o.cur
  PROVE  Like(o, p)
BY DEF Like, Sit, Turned, Calm

LEMMA LikeThen ==
  ASSUME NEW o, NEW p, NEW q, Like(o, p), Like(p, q)
  PROVE  Like(o, q)
BY DEF Like

LEMMA SetHPLike ==
  ASSUME NEW o, IsSlot(o), NEW hp
  PROVE  Like(o, SetHP(o, hp))
<1>1. /\ SetHP(o, hp).x = o.x /\ SetHP(o, hp).y = o.y /\ SetHP(o, hp).right = o.right
      /\ SetHP(o, hp).action = o.action /\ SetHP(o, hp).cur = o.cur
  BY DEF SetHP, IsSlot
<1> QED BY <1>1, LikeIs

LEMMA SetHitEffectLike ==
  ASSUME NEW o, IsSlot(o), NEW pos
  PROVE  Like(o, SetHitEffect(o, pos))
<1> DEFINE p == SetHitEffect(o, pos)
<1>1. p.x = o.x /\ p.y = o.y /\ p.right = o.right /\ p.action = o.action /\ p.cur = o.cur
  BY DEF SetHitEffect, IsSlot
<1> HIDE DEF p
<1>2. Like(o, p)
  BY <1>1, LikeIs
<1> QED BY <1>2 DEF p

LEMMA LoopResetLike ==
  ASSUME NEW o, IsSlot(o)
  PROVE  /\ Like(o, LoopResetFrame(o)) /\ LoopResetFrame(o).x = o.x /\ LoopResetFrame(o).y = o.y
         /\ LoopResetFrame(o).right = o.right /\ LoopResetFrame(o).action = o.action
         /\ LoopResetFrame(o).cur = o.cur
<1> DEFINE p == LoopResetFrame(o)
<1>1. p.x = o.x /\ p.y = o.y /\ p.right = o.right /\ p.action = o.action /\ p.cur = o.cur
  BY DEF LoopResetFrame, IsSlot
<1> HIDE DEF p
<1>2. Like(o, p)
  BY <1>1, LikeIs
<1> QED BY <1>1, <1>2 DEF p

(* A step stays on the map, and only who walks takes one.                     *)
LEMMA WalkIs ==
  ASSUME NEW m, NEW x, NEW y, OnMap(x, y)
  PROVE  /\ OnMap(Clamp(WalkX(m, x, y), Right), Clamp(WalkY(m, x, y), Bottom))
         /\ m \notin Moves => /\ Clamp(WalkX(m, x, y), Right) = x
                              /\ Clamp(WalkY(m, x, y), Bottom) = y
<1>1. /\ x \in 0 .. Right - 1 /\ y \in 0 .. Bottom - 1
      /\ Right \in Nat \ {0} /\ Bottom \in Nat \ {0}
      /\ XSpeed \in Nat /\ YSpeed \in Nat
  BY RangeAssumption, SpeedAssumption DEF OnMap
<1>2. MoveX(m, x) \in Int /\ MoveY(m, y) \in Int
  BY <1>1 DEF MoveX, MoveY
<1>3. WalkX(m, x, y) \in Int
  <2> HIDE DEF MoveX
  <2> QED BY <1>1, <1>2 DEF WalkX
<1>4. WalkY(m, x, y) \in Int
  BY <1>1, <1>2 DEF WalkY
<1>5. \A v \in Int, limit \in Nat \ {0} : Clamp(v, limit) \in 0 .. limit - 1
  BY DEF Clamp
<1>6. ASSUME m \notin Moves
      PROVE  Clamp(WalkX(m, x, y), Right) = x /\ Clamp(WalkY(m, x, y), Bottom) = y
  <2>1. ~Leftwards(m) /\ ~Rightwards(m) /\ ~Upwards(m) /\ ~Downwards(m) /\ ~Diagonal(m)
    BY <1>6 DEF Moves, Leftwards, Rightwards, Upwards, Downwards, Diagonal,
                LL, LU, UU, RU, RR, RD, DD, LD
  <2>2. WalkX(m, x, y) = x
    BY <2>1 DEF WalkX, PastX, MoveX
  <2>3. WalkY(m, x, y) = y
    BY <2>1 DEF WalkY, PastY, MoveY
  <2> QED BY <1>1, <2>2, <2>3 DEF Clamp
<1> QED BY <1>1, <1>3, <1>4, <1>5, <1>6 DEF OnMap

(* A turn changes nothing of this: who walks stays on the map.                 *)
LEMMA RunLike ==
  ASSUME NEW o, IsSlot(o)
  PROVE  Like(o, RunObject(o))
<1> DEFINE a == NextFrame(o)
<1>1. RunObject(o) = ActionProc(a)
  BY DEF RunObject, RunPlayer, IsPlayer, IsSlot
<1>2. IsSlot(a)
  BY NextFrameKeeps DEF Keeps
<1>3. Like(o, a)
  <2>1. a.x = o.x /\ a.y = o.y /\ a.right = o.right /\ a.action = o.action /\ a.cur = o.cur
    <3>1. CASE ~InAttack(o) \/ o.anim[o.cur].end
      BY <3>1 DEF NextFrame
    <3>2. CASE ~(~InAttack(o) \/ o.anim[o.cur].end)
      <4>1. PICK f : a = [o EXCEPT !.anim = [o.anim EXCEPT ![o.cur] = f]]
        BY <3>2 DEF NextFrame
      <4> HIDE DEF a
      <4> QED BY <4>1 DEF IsSlot
    <3> QED BY <3>1, <3>2
  <2> HIDE DEF a
  <2> QED BY <2>1, LikeIs
<1> HIDE DEF a
<1> DEFINE p == ActionProc(a)
           over == a.action \in Attacks /\ IsEndFrame(a)
           action == IF over THEN STAND ELSE a.action
           right == (a.right \/ Rightwards(a.action)) /\ ~Leftwards(a.action)
           x == Clamp(WalkX(a.action, a.x, a.y), Right)
           y == Clamp(WalkY(a.action, a.x, a.y), Bottom)
<1>4. /\ p.x = x /\ p.y = y /\ p.right = right /\ p.action = action
      /\ p.cur = AnimationOf(action, right)
  <2> HIDE DEF over, action, right, x, y
  <2>1. p = [a EXCEPT !.x = x, !.y = y, !.right = right, !.action = action,
                      !.cur = AnimationOf(action, right),
                      !.anim = IF over THEN [a.anim EXCEPT ![a.cur] = ResetFrame] ELSE a.anim]
    BY DEF ActionProc, over, action, right, x, y
  <2> HIDE DEF p
  <2> QED BY <1>2, <2>1 DEF IsSlot
<1> HIDE DEF p
<1>5. /\ action \in Attacks => a.action \in Attacks
      /\ (action \notin Moves) = (a.action \notin Moves)
  BY DEF Attacks, STAND, Moves, LL, LD
<1>6. a.action \notin Moves => right = a.right
  BY <1>2 DEF Moves, Leftwards, Rightwards, LL, LU, LD, RR, RU, RD, IsSlot
<1> HIDE DEF action, right
<1>7. Calm(a) => Calm(p)
  BY <1>4, <1>5 DEF Calm
<1>8. Turned(p)
  <2>1. action \in Attacks => action \notin Moves
    BY DEF Attacks, Moves, LL, LD
  <2> QED BY <1>4, <2>1 DEF Turned, AnimationOf
<1>9. ASSUME OnMap(a.x, a.y) PROVE OnMap(p.x, p.y) /\ Sit(a) = Sit(p)
  <2>1. OnMap(x, y) /\ (a.action \notin Moves => x = a.x /\ y = a.y)
    BY <1>9, WalkIs
  <2> HIDE DEF x, y
  <2> QED BY <1>4, <1>5, <1>6, <2>1 DEF Sit
<1>10. Like(a, p)
  BY <1>7, <1>8, <1>9 DEF Like
<1> QED BY <1>1, <1>3, <1>10, LikeThen DEF p

(* What the keys or a packet make of a character.                             *)
IsInput(o, action, p) ==
  /\ p.x = o.x /\ p.y = o.y /\ p.right = o.right /\ (Ignored(o, action) => p = o)
  /\ ~Ignored(o, action) => p.action = action /\ p.cur = AnimationOf(action, o.right)

LEMMA InputPose ==
  ASSUME NEW o, IsSlot(o), NEW action, NEW p, p = InputActionProc(o, action)
  PROVE  IsInput(o, action, p)
<1>1. CASE Ignored(o, action)
  BY <1>1 DEF InputActionProc, IsInput
<1>2. CASE ~Ignored(o, action)
  <2> DEFINE q == IF o.mine /\ o.action \in Attacks THEN LoopResetFrame(o) ELSE o
             z == [q EXCEPT !.action = action]
  <2>1. p = SetAnimation(z)
    BY <1>2 DEF InputActionProc
  <2>2. IsSlot(q) /\ q.x = o.x /\ q.y = o.y /\ q.right = o.right
    BY LoopResetKeeps, LoopResetLike DEF Keeps
  <2> HIDE DEF q
  <2>3. z.action = action /\ z.x = o.x /\ z.y = o.y /\ z.right = o.right /\ DOMAIN z = DOMAIN q
    BY <2>2 DEF IsSlot
  <2> HIDE DEF z
  <2>4. p = [z EXCEPT !.cur = AnimationOf(action, o.right)] /\ DOMAIN z = DOMAIN q
    BY <2>1, <2>3 DEF SetAnimation
  <2>5. /\ p.x = o.x /\ p.y = o.y /\ p.right = o.right
        /\ p.action = action /\ p.cur = AnimationOf(action, o.right)
    BY <2>2, <2>3, <2>4 DEF IsSlot
  <2> QED BY <1>2, <2>5 DEF IsInput
<1> QED BY <1>1, <1>2

(* What the others are told of it.                                            *)
Relayed(b, p) == mpMove(p[1], b, p[2], p[3], p[4])
WellSent(p) == Sent(p) /\ OnMap(p[3], p[4]) /\ (p[1] = 10 => p[2] \in Moves)

LEMMA RelayedIs ==
  ASSUME NEW b, NEW p, Sent(p), NEW r, r = Relayed(b, p)
  PROVE  /\ r[1] = p[1] + 1 /\ r[2] = b /\ r[3] = p[2] /\ r[4] = p[3] /\ r[5] = p[4]
         /\ r[1] \in MoveTypes /\ \A c : About(r, c) <=> c = b
BY DEF Relayed, mpMove, Sent, MoveTypes, About

ToldOthers(b, o, p, sent) ==
  /\ sent = <<>> \/ \E s : sent = <<s>> /\ WellSent(s)
  /\ sent = <<>> => Sit(p) = Sit(o)
  /\ sent # <<>> => Said(Relayed(b, sent[1])) = Sit(p) /\ Follows(Sit(o), Sit(p))

(* What a key does to the player's own character, the packet sent says of it   *)
(* (PlayerObject.cpp:97-240).                                                  *)
LEMMA InputTold ==
  ASSUME NEW o, IsSlot(o), OnMap(o.x, o.y), NEW action \in Actions, NEW b,
         NEW p, p = InputActionProc(o, action), o.mine \/ Ignored(o, action),
         NEW sent, sent = Announcement(o, action)
  PROVE  /\ OnMap(p.x, p.y) /\ (Turned(o) => Turned(p)) /\ ToldOthers(b, o, p, sent)
<1>1. IsInput(o, action, p)
  BY InputPose
<1>2. CASE Ignored(o, action)
  <2>1. sent = <<>> /\ p = o
    BY <1>1, <1>2 DEF Announcement, IsInput
  <2> QED BY <2>1 DEF ToldOthers
<1>3. CASE ~Ignored(o, action)
  <2> DEFINE dir == IF action \in Moves THEN action ELSE Facing(o.right)
             s == <<CS(action), dir, o.x, o.y>>
             r == Relayed(b, s)
  <2>1. sent = <<s>>
    BY <1>3 DEF Announcement, SendAction
  <2>2. /\ CS(action) \in {10, 12, 20, 22, 24} /\ (CS(action) = 10 <=> action \in Moves)
        /\ dir \in Actions /\ (CS(action) = 10 => dir \in Moves)
    BY DEF CS, Actions, Moves, STAND, LL, LD, Facing, RR
  <2>3. action \notin Moves => (dir # LL) = o.right
    BY DEF Facing, RR, LL, IsSlot
  <2> HIDE DEF dir
  <2>4. WellSent(s)
    BY <2>2 DEF WellSent, Sent
  <2>5. r[1] = CS(action) + 1 /\ r[3] = dir /\ r[4] = o.x /\ r[5] = o.y
    BY DEF Relayed, mpMove
  <2>6. r[1] = 11 <=> action \in Moves
    BY <2>2, <2>5
  <2> HIDE DEF r
  <2>7. p.action = action /\ p.x = o.x /\ p.y = o.y /\ p.right = o.right
        /\ p.cur = AnimationOf(action, o.right)
    BY <1>1, <1>3 DEF IsInput
  <2>8. Said(r) = Sit(p)
    <3>1. CASE action \in Moves
      BY <2>6, <2>7, <3>1 DEF Said, Sit
    <3>2. CASE action \notin Moves
      <4>1. Looks(r) = o.right
        BY <2>3, <2>5, <3>2 DEF Looks
      <4> QED BY <2>5, <2>6, <2>7, <3>2, <4>1 DEF Said, Sit
    <3> QED BY <3>1, <3>2
  <2>9. Follows(Sit(o), Sit(p))
    BY <2>7 DEF Follows, Sit
  <2>10. Turned(p)
    <3>1. action \in Attacks => action \notin Moves
      BY DEF Attacks, Moves, LL, LD
    <3> QED BY <2>7, <3>1 DEF Turned, AnimationOf
  <2>11. OnMap(p.x, p.y)
    BY <2>7
  <2>12. sent # <<>> /\ sent[1] = s
    <3> HIDE DEF s
    <3> QED BY <2>1
  <2> HIDE DEF s
  <2> QED BY <2>1, <2>4, <2>8, <2>9, <2>10, <2>11, <2>12 DEF r, ToldOthers
<1> QED BY <1>2, <1>3

(* What a packet about a character makes of its copy.                         *)
Told(o, p, q) ==
  /\ OnMap(p[4], p[5]) => OnMap(q.x, q.y)
  /\ Said(p) = Sit(q)
  /\ Turned(o) /\ Follows(Sit(o), Said(p)) => Turned(q)

IsPlaced(o, p, q) ==
  /\ IsSlot(q) /\ q.id = o.id /\ q.mine = o.mine /\ q.x = p[4] /\ q.y = p[5] /\ q.right = Looks(p)
  /\ q.action = o.action /\ q.cur = o.cur

LEMMA PlacedIs ==
  ASSUME NEW o, IsSlot(o), NEW p, NEW q, q = Placed(o, p)
  PROVE  IsPlaced(o, p, q)
<1>1. /\ IsSlot(q) /\ q.id = o.id /\ q.mine = o.mine /\ q.x = p[4] /\ q.y = p[5]
      /\ q.action = o.action /\ q.cur = o.cur
  BY DEF Placed, SetPosition, IsSlot
<1>2. q.right = Looks(p)
  BY DEF Placed, SetPosition, IsSlot, Looks
<1> QED BY <1>1, <1>2 DEF IsPlaced

(* The copy becomes what the packet says: a walk, a stop, an attack.           *)
LEMMA MoveStartTold ==
  ASSUME NEW o, IsSlot(o), ~o.mine, NEW p, p[1] = 11, p[3] \in Moves,
         NEW q, q = SetPosition(InputActionProc(o, p[3]), p[4], p[5])
  PROVE  Told(o, p, q)
<1>1. PICK a : a = InputActionProc(o, p[3])
  OBVIOUS
<1>2. IsSlot(a)
  <2>1. p[3] \in Actions
    BY DEF Moves, Actions, LL, LD, STAND
  <2> QED BY <1>1, <2>1, InputKeeps DEF Keeps
<1>3. a.action = p[3]
  <2>1. IsInput(o, p[3], a)
    BY <1>1, InputPose
  <2> QED BY <2>1 DEF IsInput, Ignored
<1>4. q.x = p[4] /\ q.y = p[5] /\ q.action = p[3]
  BY <1>1, <1>2, <1>3 DEF SetPosition, IsSlot
<1>5. q.action \in Moves /\ q.action \notin Attacks
  BY <1>4 DEF Moves, Attacks, LL, LD
<1> QED BY <1>4, <1>5 DEF Told, Said, Sit, Turned

LEMMA MoveStopTold ==
  ASSUME NEW o, IsSlot(o), ~o.mine, NEW p, p[1] = 13,
         NEW q, q = InputActionProc(Placed(o, p), STAND)
  PROVE  Told(o, p, q)
<1>1. PICK a : a = Placed(o, p)
  OBVIOUS
<1>2. IsPlaced(o, p, a)
  BY <1>1, PlacedIs
<1>3. IsSlot(a) /\ (Ignored(a, STAND) => a.action = STAND)
  BY <1>2 DEF Ignored, IsPlaced
<1>4. IsInput(a, STAND, q)
  BY <1>1, <1>3, InputPose
<1>5. q.x = p[4] /\ q.y = p[5] /\ q.right = Looks(p) /\ q.action = STAND
  BY <1>2, <1>3, <1>4 DEF IsPlaced, IsInput
<1>6. q.action \notin Moves /\ q.action \notin Attacks
  BY <1>5 DEF Moves, Attacks, LL, LD, STAND
<1> QED BY <1>5, <1>6 DEF Told, Said, Sit, Turned

LEMMA AttackTold ==
  ASSUME NEW o, IsSlot(o), ~o.mine, NEW p, p[1] \in {21, 23, 25}, NEW action,
         action = (p[1] - 5) \div 2,
         NEW q, q = LoopResetFrame(InputActionProc(Placed(o, p), action))
  PROVE  /\ Told(o, p, q)
         /\ Turned(o) /\ Follows(Sit(o), Said(p)) =>
              q.cur = <<action, Looks(p)>> /\ q.anim[q.cur] = ResetFrame
<1>1. PICK a : a = Placed(o, p)
  OBVIOUS
<1>2. IsPlaced(o, p, a)
  BY <1>1, PlacedIs
<1>3. action \in Attacks
  <2>1. p[1] - 5 \in {16, 18, 20}
    OBVIOUS
  <2> QED BY <2>1 DEF Attacks
<1>4. action \notin Moves /\ action \in Actions
  BY <1>3 DEF Attacks, Moves, Actions, LL, LD, STAND
<1>5. PICK z : z = InputActionProc(a, action)
  OBVIOUS
<1>6. IsSlot(a) /\ (Ignored(a, action) <=> a.action = action)
  BY <1>2 DEF Ignored, IsPlaced
<1>7. IsInput(a, action, z) /\ IsSlot(z)
  BY <1>4, <1>5, <1>6, InputPose, InputKeeps DEF Keeps
<1>8. /\ z.x = p[4] /\ z.y = p[5] /\ z.right = Looks(p) /\ z.action = action
      /\ (o.action = action => z.cur = o.cur)
      /\ (o.action # action => z.cur = <<action, Looks(p)>>)
  BY <1>2, <1>4, <1>6, <1>7 DEF IsPlaced, IsInput, AnimationOf
<1>9. /\ q.x = z.x /\ q.y = z.y /\ q.right = z.right /\ q.action = z.action /\ q.cur = z.cur
      /\ q = LoopResetFrame(z)
  BY <1>1, <1>5, <1>7, LoopResetLike
<1>10. ASSUME Turned(o), Follows(Sit(o), Said(p)) PROVE q.cur = <<action, Looks(p)>>
  <2>1. CASE o.action = action
    <3>1. o.cur = <<action, o.right>> /\ Sit(o) = <<o.x, o.y, o.right>>
      BY <1>3, <1>4, <1>10, <2>1 DEF Turned, Sit
    <3>2. Said(p) = <<p[4], p[5], Looks(p)>>
      BY DEF Said
    <3>3. <<o.x, o.y, o.right>> = <<p[4], p[5], Looks(p)>>
      BY <1>10, <3>1, <3>2 DEF Follows, Walking
    <3>4. o.right = Looks(p)
      BY <3>3
    <3> QED BY <1>8, <1>9, <2>1, <3>1, <3>4
  <2>2. CASE o.action # action
    BY <1>8, <1>9, <2>2
  <2> QED BY <2>1, <2>2
<1>11. ASSUME q.cur = <<action, Looks(p)>> PROVE q.anim[q.cur] = ResetFrame
  <2>1. z.cur = <<action, Looks(p)>> /\ Looks(p) \in BOOLEAN
    BY <1>9, <1>11 DEF Looks
  <2>2. InAttack(z) /\ z.cur \in Attacks \X BOOLEAN
    BY <1>3, <2>1 DEF InAttack
  <2>3. q = [z EXCEPT !.anim = [z.anim EXCEPT ![z.cur] = ResetFrame]]
    BY <1>9, <2>2 DEF LoopResetFrame
  <2>4. q.anim = [z.anim EXCEPT ![z.cur] = ResetFrame]
    BY <1>7, <2>3 DEF IsSlot
  <2> QED BY <1>7, <1>9, <2>2, <2>4 DEF IsSlot
<1>12. Told(o, p, q)
  <2>1. Said(p) = Sit(q)
    BY <1>4, <1>8, <1>9 DEF Said, Sit
  <2>2. OnMap(p[4], p[5]) => OnMap(q.x, q.y)
    BY <1>8, <1>9
  <2>3. Turned(o) /\ Follows(Sit(o), Said(p)) => Turned(q)
    BY <1>8, <1>9, <1>10 DEF Turned
  <2> QED BY <2>1, <2>2, <2>3 DEF Told
<1> QED BY <1>10, <1>11, <1>12

(* A correction of where a copy rests confirms it.                            *)
LEMMA SyncLike ==
  ASSUME NEW o, IsSlot(o), NEW x, NEW y, OnMap(x, y),
         o.action \notin Moves => o.x = x /\ o.y = y
  PROVE  Like(o, SetPosition(o, x, y))
<1> DEFINE p == SetPosition(o, x, y)
<1>1. p.x = x /\ p.y = y /\ p.right = o.right /\ p.action = o.action /\ p.cur = o.cur
  BY DEF SetPosition, IsSlot
<1> HIDE DEF p
<1>2. Like(o, p)
  BY <1>1 DEF Like, Sit, Turned, Calm
<1> QED BY <1>2 DEF p

(* A new character stands where its packet says.                              *)
IsNew(slot, p, mine, o) ==
  o = [SetHP(Placed(NewPlayer(slot, p[2]), p), p[6]) EXCEPT !.mine = mine]
Stands(q, p) == q.action = STAND /\ q.x = p[4] /\ q.y = p[5] /\ q.right = Looks(p) /\ q.id = p[2]

LEMMA CreatedStands ==
  ASSUME NEW slot, IsSlot(slot), NEW p, NEW mine \in BOOLEAN, mine => Calm(slot), NEW o,
         IsNew(slot, p, mine, o), NEW q, q = InputActionProc(o, STAND)
  PROVE  IsSlot(o) /\ o.x = p[4] /\ o.y = p[5] /\ o.mine = mine /\ Stands(q, p) /\ q.mine = mine
<1>0. STAND \in Actions
  BY DEF Actions, STAND
<1>1. PICK a : a = NewPlayer(slot, p[2])
  OBVIOUS
<1>2. IsSlot(a) /\ a.id = p[2] /\ a.action = slot.action
  <2>1. a.action = slot.action
    BY <1>1 DEF NewPlayer, IsSlot
  <2> QED BY <1>1, <2>1, NewPlayerIs
<1>3. PICK b : b = Placed(a, p)
  OBVIOUS
<1>4. IsPlaced(a, p, b)
  BY <1>2, <1>3, PlacedIs
<1>5. PICK d : d = SetHP(b, p[6])
  OBVIOUS
<1>6. IsSlot(b)
  BY <1>4 DEF IsPlaced
<1>7. /\ IsSlot(d) /\ d.x = b.x /\ d.y = b.y /\ d.right = b.right /\ d.id = b.id
      /\ d.action = b.action
  BY <1>5, <1>6 DEF SetHP, IsSlot
<1>8. o = [d EXCEPT !.mine = mine]
  BY <1>1, <1>3, <1>5 DEF IsNew
<1>9. /\ IsSlot(o) /\ o.x = d.x /\ o.y = d.y /\ o.right = d.right /\ o.id = d.id
      /\ o.action = d.action /\ o.mine = mine
  BY <1>7, <1>8 DEF IsSlot
<1>10. o.action = slot.action /\ o.x = p[4] /\ o.y = p[5] /\ o.right = Looks(p) /\ o.id = p[2]
  BY <1>2, <1>4, <1>7, <1>9 DEF IsPlaced
<1>11. Ignored(o, STAND) => o.action = STAND
  BY <1>9, <1>10 DEF Ignored, Calm
<1>12. IsInput(o, STAND, q)
  BY <1>9, InputPose
<1>13. q.action = STAND /\ q.x = o.x /\ q.y = o.y /\ q.right = o.right
  BY <1>11, <1>12 DEF IsInput
<1>14. q.id = o.id /\ q.mine = o.mine
  <2>1. Keeps(o, q)
    BY <1>0, <1>9, InputKeeps
  <2> QED BY <2>1 DEF Keeps
<1> QED BY <1>9, <1>10, <1>13, <1>14 DEF Stands
-----------------------------------------------------------------------------
(* A box with more at its end.                                                *)
Extends(s, t) ==
  /\ IsSeq(s) /\ IsSeq(t) /\ Len(s) \in Nat /\ Len(t) \in Nat /\ Len(s) <= Len(t)
  /\ \A i \in 1 .. Len(s) : t[i] = s[i]

(* Packets that leave a character as it is, and one that tells what it does,  *)
(* perhaps with a correction ahead of it.                                     *)
Dull(m) == IsSeq(m) /\ \A i \in 1 .. Len(m) : m[i][1] \in {2, 30}
Silent(s, t) ==
  /\ Extends(s, t)
  /\ \A k \in 1 .. Len(t) : k > Len(s) => t[k][1] \in {2, 30}
Leads(p, q) == p[1] = 251 /\ Corrects(p, q)
TellsAt(s, t, q, r) ==
  /\ r \in 1 .. Len(t) /\ r > Len(s) /\ t[r] = q
  /\ \A k \in 1 .. Len(t) :
       k > Len(s) /\ k # r => t[k][1] \in {2, 30} \/ (k + 1 = r /\ Leads(t[k], q))
Tells(s, t, q) == Extends(s, t) /\ \E r : TellsAt(s, t, q, r)

LEMMA ExtendsMore ==
  ASSUME NEW s, NEW t, Extends(s, t), NEW m, IsSeq(m)
  PROVE  /\ Extends(s, t \o m)
         /\ \A k \in 1 .. Len(t) : k \in 1 .. Len(t \o m) /\ (t \o m)[k] = t[k]
         /\ \A k \in 1 .. Len(t \o m) : \/ k \in 1 .. Len(t)
                                        \/ \E i \in 1 .. Len(m) : (t \o m)[k] = m[i]
<1> DEFINE z == t \o m
<1>1. /\ IsSeq(s) /\ IsSeq(t) /\ Len(s) \in Nat /\ Len(t) \in Nat /\ Len(s) <= Len(t)
      /\ \A i \in 1 .. Len(s) : t[i] = s[i]
  BY DEF Extends
<1>2. /\ IsSeq(z) /\ Len(z) = Len(t) + Len(m) /\ Len(m) \in Nat
      /\ \A i \in 1 .. Len(t) : z[i] = t[i]
      /\ \A k \in 1 .. Len(t) + Len(m) :
           \/ k \in 1 .. Len(t) /\ z[k] = t[k]
           \/ k - Len(t) \in 1 .. Len(m) /\ z[k] = m[k - Len(t)]
  BY <1>1, JoinedIs
<1> HIDE DEF z
<1>3. Extends(s, z)
  BY <1>1, <1>2 DEF Extends
<1>4. \A k \in 1 .. Len(t) : k \in 1 .. Len(z) /\ z[k] = t[k]
  BY <1>1, <1>2
<1>5. \A k \in 1 .. Len(z) : k \in 1 .. Len(t) \/ \E i \in 1 .. Len(m) : z[k] = m[i]
  BY <1>2
<1> QED BY <1>3, <1>4, <1>5 DEF z

LEMMA SilentMore ==
  ASSUME NEW s, NEW t, NEW m, Dull(m)
  PROVE  /\ Silent(s, t) => Silent(s, t \o m)
         /\ \A q : Tells(s, t, q) => Tells(s, t \o m, q)
<1> DEFINE z == t \o m
<1>1. ASSUME Extends(s, t)
      PROVE  /\ Extends(s, z)
             /\ \A k \in 1 .. Len(t) : k \in 1 .. Len(z) /\ z[k] = t[k]
             /\ \A k \in 1 .. Len(z) : k \in 1 .. Len(t) \/ z[k][1] \in {2, 30}
  <2>1. /\ Extends(s, z)
        /\ \A k \in 1 .. Len(t) : k \in 1 .. Len(z) /\ z[k] = t[k]
        /\ \A k \in 1 .. Len(z) : k \in 1 .. Len(t) \/ \E i \in 1 .. Len(m) : z[k] = m[i]
    BY <1>1, ExtendsMore DEF Dull
  <2> HIDE DEF z
  <2> QED BY <2>1 DEF Dull
<1> HIDE DEF z
<1>2. ASSUME Silent(s, t) PROVE Silent(s, z)
  BY <1>1, <1>2 DEF Silent
<1>3. ASSUME NEW q, Tells(s, t, q) PROVE Tells(s, z, q)
  <2>1. PICK r : TellsAt(s, t, q, r)
    BY <1>3 DEF Tells
  <2>2. TellsAt(s, z, q, r)
    BY <1>1, <1>3, <2>1 DEF Tells, TellsAt
  <2> QED BY <1>1, <1>3, <2>2 DEF Tells
<1> QED BY <1>2, <1>3 DEF z

Led(sync, p, q) == sync = <<>> \/ (sync = <<p>> /\ Leads(p, q))

(* A packet passed on arrives behind all that was under way, with its          *)
(* correction, if any, just before it.                                         *)
LEMMA TellsNow ==
  ASSUME NEW s, IsSeq(s), NEW q, NEW p, NEW sync, Led(sync, p, q)
  PROVE  Tells(s, s \o Append(sync, q), q)
<1>1. /\ IsSeq(sync)
      /\ Len(sync) = 0 \/ (Len(sync) = 1 /\ sync[1] = p /\ Leads(p, q))
  <2>1. CASE sync = <<>>
    BY <2>1, NoneIs
  <2>2. CASE sync = <<p>> /\ Leads(p, q)
    BY <2>2, OneIs
  <2> QED BY <2>1, <2>2 DEF Led
<1> DEFINE m == Append(sync, q)
<1>2. /\ IsSeq(m) /\ Len(m) = Len(sync) + 1 /\ Len(sync) \in Nat /\ m[Len(sync) + 1] = q
      /\ \A i \in 1 .. Len(sync) : m[i] = sync[i]
  BY <1>1, AppendIs
<1> HIDE DEF m
<1> DEFINE z == s \o m
<1>3. /\ IsSeq(z) /\ Len(z) = Len(s) + Len(m) /\ Len(s) \in Nat
      /\ \A i \in 1 .. Len(s) : z[i] = s[i]
      /\ \A i \in 1 .. Len(m) : z[Len(s) + i] = m[i]
  <2>1. /\ IsSeq(z) /\ Len(z) = Len(s) + Len(m) /\ Len(s) \in Nat /\ Len(m) \in Nat
        /\ \A i \in 1 .. Len(s) : z[i] = s[i]
        /\ \A k \in 1 .. Len(s) + Len(m) :
             \/ k \in 1 .. Len(s) /\ z[k] = s[k]
             \/ k - Len(s) \in 1 .. Len(m) /\ z[k] = m[k - Len(s)]
    BY <1>2, JoinedIs
  <2> HIDE DEF z
  <2>2. ASSUME NEW i \in 1 .. Len(m) PROVE z[Len(s) + i] = m[i]
    <3>1. Len(s) + i \in 1 .. Len(s) + Len(m) /\ Len(s) + i \notin 1 .. Len(s)
          /\ (Len(s) + i) - Len(s) = i
      BY <2>1
    <3> QED BY <2>1, <3>1
  <2> QED BY <2>1, <2>2
<1> HIDE DEF z
<1>4. Extends(s, z)
  BY <1>2, <1>3 DEF Extends
<1>5. Len(z) = Len(s) + Len(sync) + 1 /\ z[Len(s) + (Len(sync) + 1)] = q
  BY <1>2, <1>3
<1>6. TellsAt(s, z, q, Len(z))
  <2>1. CASE Len(sync) = 0
    BY <1>3, <1>5, <2>1 DEF TellsAt
  <2>2. CASE Len(sync) = 1 /\ sync[1] = p /\ Leads(p, q)
    <3>1. z[Len(s) + 1] = p
      BY <1>2, <1>3, <2>2
    <3>2. Len(z) = Len(s) + 2 /\ z[Len(z)] = q
      BY <1>3, <1>5, <2>2
    <3>3. \A k \in 1 .. Len(z) : k > Len(s) /\ k # Len(z) => k = Len(s) + 1 /\ k + 1 = Len(z)
      BY <1>3, <3>2
    <3>4. Len(z) \in 1 .. Len(z) /\ Len(z) > Len(s)
      BY <1>3, <3>2
    <3> QED BY <2>2, <3>1, <3>2, <3>3, <3>4 DEF TellsAt
  <2> QED BY <1>1, <2>1, <2>2
<1> QED BY <1>4, <1>6 DEF Tells, z, m

(* What the server makes of what a client sends.                              *)
Passed(b, d, sent, s, t) ==
  IF d = b \/ sent = <<>> \/ life[b] = 0 THEN Silent(s, t)
  ELSE Tells(s, t, Relayed(b, sent[1]))

WellSaid(sent) == sent = <<>> \/ \E p : sent = <<p>> /\ WellSent(p)

LEMMA RouteTells ==
  ASSUME NEW b \in Clients, NEW sent, life[b] = 0 \/ WellSaid(sent),
         NEW rest, \A d \in Clients : IsSeq(rest[d]), Route(b, sent, rest)
  PROVE  \A d \in Clients : Passed(b, d, sent, rest[d], inbox'[d])
<1>1. \A d \in Clients : Silent(rest[d], rest[d])
  BY SeqIs DEF Silent, Extends
<1>2. CASE sent = <<>> \/ life[b] = 0
  <2>1. inbox' = rest
    BY <1>2 DEF Route
  <2> QED BY <1>1, <1>2, <2>1 DEF Passed
<1>3. CASE ~(sent = <<>> \/ life[b] = 0)
  <2> DEFINE p == sent[1]
             q == mpMove(p[1], b, p[2], p[3], p[4])
  <2>1. WellSent(p)
    <3>1. PICK x : sent = <<x>> /\ WellSent(x)
      BY <1>3 DEF WellSaid
    <3> QED BY <3>1
  <2>2. PICK sync \in (IF p[1] = 12 THEN {<<>>, <<mpSync(b, p[3], p[4])>>} ELSE {<<>>}),
             victim \in (IF p[1] >= 20 THEN {d \in Clients \ {b} : life[d] > 0} \cup {b} ELSE {b}) :
            LET hp == life[victim] - 1
                hit == IF victim = b THEN <<>> ELSE <<mpDamage(b, victim, hp)>>
                death == IF victim # b /\ hp = 0 THEN <<mpDeleteCharacter(victim)>> ELSE <<>>
            IN \E last \in {<<>>, death} :
                 /\ inbox' = [d \in Clients |->
                      rest[d] \o (IF d = b THEN <<>> ELSE Append(sync, q))
                              \o hit \o (IF d = victim THEN last ELSE death)]
                 /\ life' = IF victim = b THEN life ELSE [life EXCEPT ![victim] = hp]
    BY <1>3 DEF Route
  <2> DEFINE hp == life[victim] - 1
             hit == IF victim = b THEN <<>> ELSE <<mpDamage(b, victim, hp)>>
             death == IF victim # b /\ hp = 0 THEN <<mpDeleteCharacter(victim)>> ELSE <<>>
  <2>3. PICK last \in {<<>>, death} :
          inbox' = [d \in Clients |->
               rest[d] \o (IF d = b THEN <<>> ELSE Append(sync, q))
                       \o hit \o (IF d = victim THEN last ELSE death)]
    BY <2>2
  <2>4. Dull(<<>>)
    BY NoneIs DEF Dull
  <2>5. \A x : x[1] \in {2, 30} => Dull(<<x>>)
    <3> SUFFICES ASSUME NEW x, x[1] \in {2, 30} PROVE Dull(<<x>>)
      OBVIOUS
    <3>1. IsSeq(<<x>>) /\ Len(<<x>>) = 1 /\ <<x>>[1] = x
      BY OneIs
    <3> QED BY <3>1 DEF Dull
  <2>6. Dull(hit)
    <3>1. mpDamage(b, victim, hp)[1] \in {2, 30}
      BY DEF mpDamage
    <3> QED BY <2>4, <2>5, <3>1
  <2>7. Dull(death)
    <3>1. mpDeleteCharacter(victim)[1] \in {2, 30}
      BY DEF mpDeleteCharacter
    <3> QED BY <2>4, <2>5, <3>1
  <2> HIDE DEF death, hit
  <2>8. Dull(last)
    BY <2>3, <2>4, <2>7
  <2> DEFINE x == mpSync(b, p[3], p[4])
  <2>9. Led(sync, x, q)
    <3>1. sync = <<>> \/ (sync = <<x>> /\ p[1] = 12)
      <4> HIDE DEF p
      <4> QED BY <2>2
    <3>2. p[1] = 12 => Leads(x, q)
      BY DEF Leads, Corrects, mpSync, mpMove
    <3> QED BY <3>1, <3>2 DEF Led
  <2>10. q = Relayed(b, p)
    BY DEF Relayed
  <2> HIDE DEF q, x, p
  <2>11. ASSUME NEW d \in Clients PROVE Passed(b, d, sent, rest[d], inbox'[d])
    <3> DEFINE m1 == IF d = b THEN <<>> ELSE Append(sync, q)
               m3 == IF d = victim THEN last ELSE death
    <3>1. inbox'[d] = rest[d] \o m1 \o hit \o m3
      BY <2>3
    <3>2. Dull(m3)
      BY <2>7, <2>8
    <3> HIDE DEF m3
    <3>3. CASE d = b
      <4>1. Silent(rest[d], rest[d] \o m1)
        BY <1>1, <2>4, <3>3, SilentMore
      <4> HIDE DEF m1
      <4>2. Silent(rest[d], rest[d] \o m1 \o hit)
        BY <2>6, <4>1, SilentMore
      <4>3. Silent(rest[d], rest[d] \o m1 \o hit \o m3)
        BY <3>2, <4>2, SilentMore
      <4> QED BY <3>1, <3>3, <4>3 DEF Passed
    <3>4. CASE d # b
      <4>1. Tells(rest[d], rest[d] \o m1, q)
        BY <2>9, <3>4, TellsNow
      <4> HIDE DEF m1
      <4>2. Tells(rest[d], rest[d] \o m1 \o hit, q)
        BY <2>6, <4>1, SilentMore
      <4>3. Tells(rest[d], rest[d] \o m1 \o hit \o m3, q)
        BY <3>2, <4>2, SilentMore
      <4> QED BY <1>3, <2>10, <3>1, <3>4, <4>3 DEF Passed, p
    <3> QED BY <3>3, <3>4
  <2> QED BY <2>11
<1> QED BY <1>2, <1>3

(* What a longer box has of what copies go by.                                *)
SameFirsts(s, t) == Joins(t) = Joins(s) /\ \A c : Meets(t, c) = Meets(s, c)

LEMMA ExtendedFirsts ==
  ASSUME NEW s, NEW t, Extends(s, t), \A k \in 1 .. Len(t) : k > Len(s) => t[k][1] \notin {0, 1}
  PROVE  SameFirsts(s, t)
<1>1. /\ Len(s) \in Nat /\ Len(t) \in Nat /\ Len(s) <= Len(t)
      /\ \A i \in 1 .. Len(s) : t[i] = s[i]
  BY DEF Extends
<1>2. \A k : k \in 1 .. Len(t) /\ t[k][1] \in {0, 1} <=> k \in 1 .. Len(s) /\ s[k][1] \in {0, 1}
  BY <1>1
<1>3. Joins(t) = Joins(s)
  BY <1>1, <1>2 DEF Joins
<1>4. ASSUME NEW c PROVE Meets(t, c) = Meets(s, c)
  <2>1. Meet(c)[1] = 1
    BY DEF Meet, mpCreateOtherCharacter
  <2> QED BY <1>1, <1>2, <2>1 DEF Meets
<1> QED BY <1>3, <1>4 DEF SameFirsts

LEMMA SilentPost ==
  ASSUME NEW d, NEW s, Post(d, s), NEW t, Silent(s, t)
  PROVE  Post(d, t) /\ SameFirsts(s, t)
<1>1. /\ Len(s) \in Nat /\ Len(t) \in Nat /\ Len(s) <= Len(t)
      /\ \A i \in 1 .. Len(s) : t[i] = s[i]
      /\ \A k \in 1 .. Len(t) : k > Len(s) => t[k][1] \in {2, 30}
  BY DEF Silent, Extends
<1>2. \A k \in 1 .. Len(t) : t[k][1] \in {2, 30} => Letter(d, t[k]) /\ t[k][1] # 251
  BY DEF Letter, MoveTypes
<1>3. \A k \in 1 .. Len(t) : Letter(d, t[k])
  BY <1>1, <1>2 DEF Post
<1>4. ASSUME NEW k \in 1 .. Len(t), t[k][1] = 251
      PROVE  k + 1 <= Len(t) /\ Corrects(t[k], t[k + 1])
  <2>1. k \in 1 .. Len(s)
    BY <1>1, <1>4
  <2>2. k + 1 <= Len(s) /\ Corrects(s[k], s[k + 1])
    BY <1>1, <1>4, <2>1 DEF Post, SyncsFollowed
  <2>3. k + 1 \in 1 .. Len(s)
    BY <1>1, <2>2
  <2> QED BY <1>1, <2>1, <2>2, <2>3
<1>5. SameFirsts(s, t)
  <2>1. \A k \in 1 .. Len(t) : k > Len(s) => t[k][1] \notin {0, 1}
    BY <1>1
  <2> QED BY <2>1, ExtendedFirsts DEF Silent
<1> QED BY <1>3, <1>4, <1>5 DEF Post, SyncsFollowed

LEMMA TellsPost ==
  ASSUME NEW d, NEW s, Post(d, s), NEW q, q[1] \in MoveTypes, Letter(d, q), NEW t, Tells(s, t, q)
  PROVE  Post(d, t) /\ SameFirsts(s, t)
<1>1. /\ Len(s) \in Nat /\ Len(t) \in Nat /\ Len(s) <= Len(t)
      /\ \A i \in 1 .. Len(s) : t[i] = s[i]
  BY DEF Tells, Extends
<1>2. PICK r : TellsAt(s, t, q, r)
  BY DEF Tells
<1>3. /\ r \in 1 .. Len(t) /\ r > Len(s) /\ t[r] = q
      /\ \A k \in 1 .. Len(t) :
           k > Len(s) /\ k # r => t[k][1] \in {2, 30} \/ (k + 1 = r /\ Leads(t[k], q))
  BY <1>2 DEF TellsAt
<1>4. \A x : /\ x[1] \in {2, 30} => Letter(d, x) /\ x[1] # 251 /\ x[1] \notin {0, 1}
             /\ Leads(x, q) => Letter(d, x) /\ Corrects(x, q) /\ x[1] \notin {0, 1}
  BY DEF Letter, MoveTypes, Leads, Corrects
<1>5. q[1] # 251 /\ q[1] \notin {0, 1}
  BY DEF MoveTypes
<1>6. \A k \in 1 .. Len(t) : Letter(d, t[k])
  BY <1>1, <1>3, <1>4 DEF Post
<1>7. ASSUME NEW k \in 1 .. Len(t), t[k][1] = 251
      PROVE  k + 1 <= Len(t) /\ Corrects(t[k], t[k + 1])
  <2>1. CASE k \in 1 .. Len(s)
    <3>1. k + 1 <= Len(s) /\ Corrects(s[k], s[k + 1])
      BY <1>1, <1>7, <2>1 DEF Post, SyncsFollowed
    <3>2. k + 1 \in 1 .. Len(s)
      BY <1>1, <3>1
    <3> QED BY <1>1, <2>1, <3>1, <3>2
  <2>2. CASE k > Len(s)
    <3>1. k + 1 = r /\ Leads(t[k], q)
      BY <1>3, <1>4, <1>5, <1>7, <2>2
    <3> QED BY <1>1, <1>3, <1>4, <3>1
  <2> QED BY <1>1, <2>1, <2>2
<1>8. SameFirsts(s, t)
  <2>1. \A k \in 1 .. Len(t) : k > Len(s) => t[k][1] \notin {0, 1}
    BY <1>1, <1>3, <1>4, <1>5
  <2> QED BY <2>1, ExtendedFirsts DEF Tells
<1> QED BY <1>6, <1>7, <1>8 DEF Post, SyncsFollowed

(* What the copy of c becomes depends on no packet that comes later.          *)
LEMMA BecomesPrefix ==
  ASSUME NEW s, NEW t, Extends(s, t), NEW c, Meets(t, c) = Meets(s, c), NEW l,
         NEW n \in 0 .. Len(s), NEW v
  PROVE  Becomes(l, t, c, n, v) <=> Becomes(l, s, c, n, v)
<1>1. Len(s) \in Nat /\ \A i \in 1 .. n : i \in 1 .. Len(s) /\ t[i] = s[i]
  BY DEF Extends
<1>2. \A a \in 1 .. n + 1 : Quiet(t, c, a, n) <=> Quiet(s, c, a, n)
  BY <1>1 DEF Quiet
<1>3. \A m \in 1 .. n : m + 1 \in 1 .. n + 1
  BY <1>1
<1>4. 1 \in 1 .. n + 1
  BY <1>1
<1> QED BY <1>1, <1>2, <1>3, <1>4 DEF Becomes

(* m and t come from l and s, and the copy of c becomes nothing else.         *)
Faithful(l, s, m, t, c) ==
  /\ Trail(m, t, c)
  /\ \A v : Becomes(m, t, c, Len(t), v) => Becomes(l, s, c, Len(s), v)

LEMMA HushedTrail ==
  ASSUME NEW l, NEW s, NEW c, Trail(l, s, c), NEW t, Extends(s, t), Meets(t, c) = Meets(s, c),
         \A k \in 1 .. Len(t) : k > Len(s) => ~About(t[k], c)
  PROVE  Faithful(l, s, l, t, c)
<1>1. Len(s) \in Nat /\ Len(t) \in Nat /\ Len(s) <= Len(t) /\ \A i \in 1 .. Len(s) : t[i] = s[i]
  BY DEF Extends
<1>2. Once(l, t, c)
  BY DEF Trail, Once
<1>3. Chained(l, t, c)
  <2> SUFFICES ASSUME NEW m \in 1 .. Len(t), About(t[m], c), NEW v, Becomes(l, t, c, m - 1, v)
               PROVE  Follows(v, Said(t[m]))
    BY DEF Chained
  <2>1. m \in 1 .. Len(s) /\ m - 1 \in 0 .. Len(s) /\ t[m] = s[m]
    BY <1>1
  <2>2. Becomes(l, s, c, m - 1, v)
    BY <2>1, BecomesPrefix
  <2> QED BY <2>1, <2>2 DEF Trail, Chained
<1>4. ASSUME NEW v, Becomes(l, t, c, Len(t), v) PROVE Becomes(l, s, c, Len(s), v)
  <2>1. CASE \E m \in 1 .. Len(t) :
               About(t[m], c) /\ Quiet(t, c, m + 1, Len(t)) /\ v = Said(t[m])
    <3>1. PICK m \in 1 .. Len(t) : About(t[m], c) /\ Quiet(t, c, m + 1, Len(t)) /\ v = Said(t[m])
      BY <2>1
    <3>2. m \in 1 .. Len(s) /\ t[m] = s[m]
      BY <1>1, <3>1
    <3>3. Quiet(s, c, m + 1, Len(s))
      BY <1>1, <3>1, <3>2 DEF Quiet
    <3> QED BY <3>1, <3>2, <3>3 DEF Becomes
  <2>2. CASE ~\E m \in 1 .. Len(t) :
               About(t[m], c) /\ Quiet(t, c, m + 1, Len(t)) /\ v = Said(t[m])
    <3>1. /\ Quiet(t, c, 1, Len(t))
          /\ (\E j \in Copies(l, c) : v = Sit(l[j])) \/ (Meets(t, c) # {} /\ v = Said(Meet(c)))
      BY <1>4, <2>2 DEF Becomes
    <3>2. Quiet(s, c, 1, Len(s))
      BY <1>1, <3>1 DEF Quiet
    <3> QED BY <3>1, <3>2 DEF Becomes
  <2> QED BY <2>1, <2>2
<1> QED BY <1>2, <1>3, <1>4 DEF Faithful, Trail

(* A packet passed on leads the copy on to where the character now is.         *)
LEMMA ToldTrail ==
  ASSUME NEW l, NEW s, NEW c, Trail(l, s, c), NEW t, NEW q, Tells(s, t, q), About(q, c),
         Meets(t, c) = Meets(s, c), \A v : Becomes(l, s, c, Len(s), v) => Follows(v, Said(q))
  PROVE  Trail(l, t, c) /\ \A v : Becomes(l, t, c, Len(t), v) => v = Said(q)
<1>1. /\ Len(s) \in Nat /\ Len(t) \in Nat /\ Len(s) <= Len(t)
      /\ \A i \in 1 .. Len(s) : t[i] = s[i]
  BY DEF Tells, Extends
<1>2. PICK r : TellsAt(s, t, q, r)
  BY DEF Tells
<1>3. /\ r \in 1 .. Len(t) /\ r > Len(s) /\ t[r] = q
      /\ \A k \in 1 .. Len(t) : k > Len(s) /\ k # r => t[k][1] \in {2, 30} \/ t[k][1] = 251
  BY <1>2 DEF TellsAt, Leads
<1>4. \A k \in 1 .. Len(t) : k > Len(s) /\ k # r => ~About(t[k], c)
  BY <1>3 DEF About, MoveTypes
<1>5. Once(l, t, c)
  BY DEF Trail, Once
<1>6. ASSUME NEW v, Becomes(l, t, c, r - 1, v) PROVE Becomes(l, s, c, Len(s), v)
  <2>1. CASE \E m \in 1 .. r - 1 :
               About(t[m], c) /\ Quiet(t, c, m + 1, r - 1) /\ v = Said(t[m])
    <3>1. PICK m \in 1 .. r - 1 : About(t[m], c) /\ Quiet(t, c, m + 1, r - 1) /\ v = Said(t[m])
      BY <2>1
    <3>2. m \in 1 .. Len(t) /\ m # r
      BY <1>1, <1>3
    <3>3. m \in 1 .. Len(s)
      BY <1>1, <1>4, <3>1, <3>2
    <3>4. t[m] = s[m]
      BY <1>1, <3>3
    <3>5. Quiet(s, c, m + 1, Len(s))
      <4> SUFFICES ASSUME NEW k \in m + 1 .. Len(s) PROVE ~About(s[k], c)
        BY DEF Quiet
      <4>1. k \in m + 1 .. r - 1 /\ k \in 1 .. Len(s)
        BY <1>1, <1>3, <3>3
      <4> QED BY <1>1, <3>1, <4>1 DEF Quiet
    <3> QED BY <3>1, <3>3, <3>4, <3>5 DEF Becomes
  <2>2. CASE ~\E m \in 1 .. r - 1 :
               About(t[m], c) /\ Quiet(t, c, m + 1, r - 1) /\ v = Said(t[m])
    <3>1. /\ Quiet(t, c, 1, r - 1)
          /\ (\E j \in Copies(l, c) : v = Sit(l[j])) \/ (Meets(t, c) # {} /\ v = Said(Meet(c)))
      BY <1>6, <2>2 DEF Becomes
    <3>2. Quiet(s, c, 1, Len(s))
      <4> SUFFICES ASSUME NEW k \in 1 .. Len(s) PROVE ~About(s[k], c)
        BY DEF Quiet
      <4>1. k \in 1 .. r - 1
        BY <1>1, <1>3
      <4> QED BY <1>1, <3>1, <4>1 DEF Quiet
    <3> QED BY <3>1, <3>2 DEF Becomes
  <2> QED BY <2>1, <2>2
<1>7. Chained(l, t, c)
  <2> SUFFICES ASSUME NEW m \in 1 .. Len(t), About(t[m], c), NEW v, Becomes(l, t, c, m - 1, v)
               PROVE  Follows(v, Said(t[m]))
    BY DEF Chained
  <2>1. CASE m = r
    BY <1>3, <1>6, <2>1
  <2>2. CASE m # r
    <3>1. m \in 1 .. Len(s) /\ m - 1 \in 0 .. Len(s) /\ t[m] = s[m]
      BY <1>1, <1>4, <2>2
    <3>2. Becomes(l, s, c, m - 1, v)
      BY <3>1, BecomesPrefix DEF Tells
    <3> QED BY <3>1, <3>2 DEF Trail, Chained
  <2> QED BY <2>1, <2>2
<1>8. ASSUME NEW v, Becomes(l, t, c, Len(t), v) PROVE v = Said(q)
  <2>1. ~Quiet(t, c, 1, Len(t))
    BY <1>3 DEF Quiet
  <2>2. PICK m \in 1 .. Len(t) : About(t[m], c) /\ Quiet(t, c, m + 1, Len(t)) /\ v = Said(t[m])
    BY <1>8, <2>1 DEF Becomes
  <2>3. m >= r
    <3>1. r \notin m + 1 .. Len(t)
      BY <1>3, <2>2 DEF Quiet
    <3> QED BY <1>1, <1>3, <3>1
  <2>4. m = r
    BY <1>1, <1>3, <1>4, <2>2, <2>3
  <2> QED BY <1>3, <2>2, <2>4
<1> QED BY <1>5, <1>7, <1>8 DEF Trail

(* The copies of c on m are those on l, where they were.                      *)
Single(l, c) == \A i, j \in Copies(l, c) : i = j
Redrawn(l, m, c) ==
  Single(m, c) /\ \A j \in Copies(m, c) : \E i \in Copies(l, c) : Sit(m[j]) = Sit(l[i])

(* The copy is still to become what it was to become before: after a turn, and *)
(* after each kind of packet that is taken from the box.                       *)
LEMMA FaithfulSame ==
  ASSUME NEW l, NEW s, NEW c, Trail(l, s, c), NEW m, Redrawn(l, m, c)
  PROVE  Faithful(l, s, m, s, c)
<1>1. \A n, v : Becomes(m, s, c, n, v) => Becomes(l, s, c, n, v)
  BY DEF Becomes, Redrawn
<1>2. Once(m, s, c)
  BY DEF Trail, Once, Redrawn, Single
<1>3. Chained(m, s, c)
  BY <1>1 DEF Trail, Chained
<1> QED BY <1>1, <1>2, <1>3 DEF Faithful, Trail

LEMMA FaithfulShift ==
  ASSUME NEW l, NEW s, NEW c, Trail(l, s, c), IsSeq(s), s # <<>>, NEW m, NEW t, t = Tail(s),
         Single(m, c), Meets(t, c) # {} => Copies(m, c) = {},
         \A n \in 0 .. Len(t) : \A v : Becomes(m, t, c, n, v) => Becomes(l, s, c, n + 1, v)
  PROVE  Faithful(l, s, m, t, c)
<1>1. /\ Len(t) = Len(s) - 1 /\ Len(s) \in Nat \ {0}
      /\ Head(s) = s[1] /\ \A i \in 1 .. Len(s) - 1 : t[i] = s[i + 1]
  BY TailIs
<1>2. \A i \in 1 .. Len(t) : i + 1 \in 1 .. Len(s) /\ t[i] = s[i + 1]
  BY <1>1
<1>3. Once(m, t, c)
  <2>1. ASSUME NEW i \in Meets(t, c), NEW j \in Meets(t, c) PROVE i = j
    <3>1. i \in 1 .. Len(t) /\ j \in 1 .. Len(t) /\ t[i] = Meet(c) /\ t[j] = Meet(c)
      BY DEF Meets
    <3>2. i + 1 \in Meets(s, c) /\ j + 1 \in Meets(s, c)
      BY <1>2, <3>1 DEF Meets
    <3>3. i + 1 = j + 1
      BY <3>2 DEF Trail, Once
    <3> QED BY <1>1, <3>1, <3>3
  <2> QED BY <2>1 DEF Once, Single
<1>4. Chained(m, t, c)
  <2> SUFFICES ASSUME NEW k \in 1 .. Len(t), About(t[k], c), NEW v, Becomes(m, t, c, k - 1, v)
               PROVE  Follows(v, Said(t[k]))
    BY DEF Chained
  <2>1. k - 1 \in 0 .. Len(t) /\ (k - 1) + 1 = k /\ (k + 1) - 1 = k
    BY <1>1
  <2>2. Becomes(l, s, c, (k + 1) - 1, v)
    BY <2>1
  <2> QED BY <1>2, <2>2 DEF Trail, Chained
<1>5. ASSUME NEW v, Becomes(m, t, c, Len(t), v) PROVE Becomes(l, s, c, Len(s), v)
  <2>1. Len(t) \in 0 .. Len(t) /\ Len(t) + 1 = Len(s)
    BY <1>1
  <2>2. Becomes(l, s, c, Len(t) + 1, v)
    BY <1>5, <2>1
  <2> QED BY <2>1, <2>2
<1> QED BY <1>3, <1>4, <1>5 DEF Faithful, Trail

(* Of a box whose head is taken: what the rest says of c.                     *)
LEMMA QuietShift ==
  ASSUME NEW s, IsSeq(s), s # <<>>, NEW t, t = Tail(s), NEW c, NEW l, NEW n \in 0 .. Len(t), NEW v
  PROVE  /\ (\E m \in 1 .. n : About(t[m], c) /\ Quiet(t, c, m + 1, n) /\ v = Said(t[m]))
              => Becomes(l, s, c, n + 1, v)
         /\ Quiet(t, c, 1, n) => Quiet(s, c, 2, n + 1)
         /\ Quiet(t, c, 1, n) /\ ~About(Head(s), c) => Quiet(s, c, 1, n + 1)
         /\ \A i \in Meets(t, c) : i + 1 \in Meets(s, c) /\ i \in 1 .. Len(t)
         /\ n \in Nat /\ Head(s) = s[1]
<1>1. /\ Len(t) = Len(s) - 1 /\ Len(s) \in Nat \ {0}
      /\ Head(s) = s[1] /\ \A i \in 1 .. Len(s) - 1 : t[i] = s[i + 1]
  BY TailIs
<1>2. \A i \in 1 .. Len(t) : i + 1 \in 1 .. Len(s) /\ t[i] = s[i + 1]
  BY <1>1
<1>3. n \in Nat /\ n <= Len(t)
  BY <1>1
<1>4. \A a \in 1 .. n + 1 : Quiet(t, c, a, n) => Quiet(s, c, a + 1, n + 1)
  <2> SUFFICES ASSUME NEW a \in 1 .. n + 1, Quiet(t, c, a, n), NEW k \in a + 1 .. n + 1
               PROVE  ~About(s[k], c)
    BY DEF Quiet
  <2>1. k - 1 \in a .. n /\ k - 1 \in 1 .. Len(t) /\ (k - 1) + 1 = k
    BY <1>1, <1>3
  <2> QED BY <1>2, <2>1 DEF Quiet
<1>5. 1 \in 1 .. n + 1 /\ 1 + 1 = 2
  BY <1>3
<1>6. Quiet(t, c, 1, n) => Quiet(s, c, 2, n + 1)
  BY <1>4, <1>5
<1>7. Quiet(t, c, 1, n) /\ ~About(Head(s), c) => Quiet(s, c, 1, n + 1)
  <2>1. \A k \in 1 .. n + 1 : k = 1 \/ k \in 2 .. n + 1
    BY <1>3
  <2> QED BY <1>1, <1>6, <2>1 DEF Quiet
<1>8. \A i \in Meets(t, c) : i + 1 \in Meets(s, c) /\ i \in 1 .. Len(t)
  BY <1>2 DEF Meets
<1>9. ASSUME NEW m \in 1 .. n, About(t[m], c), Quiet(t, c, m + 1, n), v = Said(t[m])
      PROVE  Becomes(l, s, c, n + 1, v)
  <2>1. m + 1 \in 1 .. n + 1 /\ m \in 1 .. Len(t)
    BY <1>3
  <2>2. Quiet(s, c, (m + 1) + 1, n + 1)
    BY <1>4, <1>9, <2>1
  <2>3. About(s[m + 1], c) /\ v = Said(s[m + 1])
    BY <1>2, <1>9, <2>1
  <2> QED BY <2>1, <2>2, <2>3 DEF Becomes
<1> QED BY <1>1, <1>3, <1>6, <1>7, <1>8, <1>9

LEMMA FaithfulTail ==
  ASSUME NEW l, NEW s, NEW c, Trail(l, s, c), IsSeq(s), s # <<>>, NEW m, NEW t, t = Tail(s),
         ~About(Head(s), c), Redrawn(l, m, c)
  PROVE  Faithful(l, s, m, t, c)
<1>1. ASSUME NEW n \in 0 .. Len(t), NEW v, Becomes(m, t, c, n, v)
      PROVE  Becomes(l, s, c, n + 1, v)
  <2>1. CASE \E k \in 1 .. n : About(t[k], c) /\ Quiet(t, c, k + 1, n) /\ v = Said(t[k])
    BY <2>1, QuietShift
  <2>2. CASE ~\E k \in 1 .. n : About(t[k], c) /\ Quiet(t, c, k + 1, n) /\ v = Said(t[k])
    <3>1. /\ Quiet(t, c, 1, n)
          /\ (\E j \in Copies(m, c) : v = Sit(m[j])) \/ (Meets(t, c) # {} /\ v = Said(Meet(c)))
      BY <1>1, <2>2 DEF Becomes
    <3>2. Quiet(s, c, 1, n + 1) /\ (Meets(t, c) # {} => Meets(s, c) # {})
      BY <3>1, QuietShift
    <3>3. (\E j \in Copies(l, c) : v = Sit(l[j])) \/ (Meets(s, c) # {} /\ v = Said(Meet(c)))
      BY <3>1, <3>2 DEF Redrawn
    <3> QED BY <3>2, <3>3 DEF Becomes
  <2> QED BY <2>1, <2>2
<1>2. Meets(t, c) # {} => Copies(m, c) = {}
  <2>1. Meets(t, c) # {} => Meets(s, c) # {}
    <3>1. \A n \in 0 .. Len(t) : \A i \in Meets(t, c) : i + 1 \in Meets(s, c)
      BY QuietShift
    <3>2. 0 \in 0 .. Len(t)
      BY TailIs
    <3> QED BY <3>1, <3>2
  <2> QED BY <2>1 DEF Trail, Once, Redrawn
<1> QED BY <1>1, <1>2, FaithfulShift DEF Redrawn

(* A packet about c is dealt with: its copy, if there is one, does as told.   *)
LEMMA FaithfulHead ==
  ASSUME NEW l, NEW s, NEW c, Trail(l, s, c), IsSeq(s), s # <<>>, NEW m, NEW t, t = Tail(s),
         About(Head(s), c), Meets(t, c) = {}, Single(m, c),
         \A j \in Copies(m, c) : Sit(m[j]) = Said(Head(s))
  PROVE  Faithful(l, s, m, t, c)
<1>1. ASSUME NEW n \in 0 .. Len(t), NEW v, Becomes(m, t, c, n, v)
      PROVE  Becomes(l, s, c, n + 1, v)
  <2>1. CASE \E k \in 1 .. n : About(t[k], c) /\ Quiet(t, c, k + 1, n) /\ v = Said(t[k])
    BY <2>1, QuietShift
  <2>2. CASE ~\E k \in 1 .. n : About(t[k], c) /\ Quiet(t, c, k + 1, n) /\ v = Said(t[k])
    <3>1. Quiet(t, c, 1, n) /\ v = Said(Head(s))
      BY <1>1, <2>2 DEF Becomes
    <3>2. Quiet(s, c, 2, n + 1) /\ n \in Nat /\ Head(s) = s[1]
      BY <3>1, QuietShift
    <3>3. 1 \in 1 .. n + 1 /\ 1 + 1 = 2
      BY <3>2
    <3>4. About(s[1], c) /\ Quiet(s, c, 1 + 1, n + 1) /\ v = Said(s[1])
      BY <3>1, <3>2, <3>3
    <3> QED BY <3>3, <3>4 DEF Becomes
  <2> QED BY <2>1, <2>2
<1> QED BY <1>1, FaithfulShift

(* The packet that makes a copy of c is dealt with.                           *)
LEMMA FaithfulMeet ==
  ASSUME NEW l, NEW s, NEW c, Trail(l, s, c), IsSeq(s), s # <<>>, NEW m, NEW t, t = Tail(s),
         Head(s) = Meet(c), Single(m, c), \A j \in Copies(m, c) : Sit(m[j]) = Said(Meet(c))
  PROVE  Faithful(l, s, m, t, c)
<1>0. /\ Len(t) = Len(s) - 1 /\ Len(s) \in Nat \ {0} /\ Head(s) = s[1]
  BY TailIs
<1>1. 1 \in Meets(s, c)
  BY <1>0 DEF Meets
<1>2. Meets(t, c) = {}
  <2> SUFFICES ASSUME NEW i \in Meets(t, c) PROVE FALSE
    OBVIOUS
  <2>1. 0 \in 0 .. Len(t)
    BY <1>0
  <2>2. i + 1 \in Meets(s, c) /\ i \in 1 .. Len(t)
    BY <2>1, QuietShift
  <2>3. i + 1 = 1
    BY <1>1, <2>2 DEF Trail, Once
  <2> QED BY <1>0, <2>2, <2>3
<1>3. ~About(Head(s), c)
  BY DEF Meet, mpCreateOtherCharacter, About, MoveTypes
<1>4. ASSUME NEW n \in 0 .. Len(t), NEW v, Becomes(m, t, c, n, v)
      PROVE  Becomes(l, s, c, n + 1, v)
  <2>1. CASE \E k \in 1 .. n : About(t[k], c) /\ Quiet(t, c, k + 1, n) /\ v = Said(t[k])
    BY <2>1, QuietShift
  <2>2. CASE ~\E k \in 1 .. n : About(t[k], c) /\ Quiet(t, c, k + 1, n) /\ v = Said(t[k])
    <3>1. Quiet(t, c, 1, n) /\ v = Said(Meet(c))
      BY <1>2, <1>4, <2>2 DEF Becomes
    <3>2. Quiet(s, c, 1, n + 1)
      BY <1>3, <3>1, QuietShift
    <3> QED BY <1>1, <3>1, <3>2 DEF Becomes
  <2> QED BY <2>1, <2>2
<1> QED BY <1>2, <1>4, FaithfulShift
-----------------------------------------------------------------------------
LEMMA RelayedLetter ==
  ASSUME NEW b \in Clients, NEW sent, WellSaid(sent), sent # <<>>, NEW q, q = Relayed(b, sent[1])
  PROVE  /\ q[1] \in MoveTypes /\ \A c : About(q, c) <=> c = b
         /\ \A d \in Clients \ {b} : Letter(d, q)
<1>1. PICK p : sent = <<p>> /\ WellSent(p)
  BY DEF WellSaid
<1>2. q = Relayed(b, p) /\ Sent(p)
  BY <1>1 DEF WellSent
<1>3. /\ q[1] = p[1] + 1 /\ q[2] = b /\ q[3] = p[2] /\ q[4] = p[3] /\ q[5] = p[4]
      /\ q[1] \in MoveTypes /\ \A c : About(q, c) <=> c = b
  BY <1>2, RelayedIs
<1>4. OnMap(q[4], q[5]) /\ (q[1] = 11 => q[3] \in Moves) /\ q[1] \notin {0, 1, 251}
  BY <1>1, <1>3 DEF WellSent, Sent
<1> QED BY <1>3, <1>4 DEF Letter

LEMMA PassedPost ==
  ASSUME NEW b \in Clients, NEW sent, life[b] = 0 \/ WellSaid(sent), NEW d \in Clients,
         NEW s, Post(d, s),
         NEW t, Passed(b, d, sent, s, t)
  PROVE  Post(d, t) /\ SameFirsts(s, t)
<1>1. CASE d = b \/ sent = <<>> \/ life[b] = 0
  BY <1>1, SilentPost DEF Passed
<1>2. CASE ~(d = b \/ sent = <<>> \/ life[b] = 0)
  BY <1>2, RelayedLetter, TellsPost DEF Passed
<1> QED BY <1>1, <1>2

LEMMA PassedHush ==
  ASSUME NEW b \in Clients, NEW sent, life[b] = 0 \/ WellSaid(sent), NEW d \in Clients, NEW s,
         NEW t, Passed(b, d, sent, s, t), SameFirsts(s, t), NEW l, NEW c, Trail(l, s, c),
         c # b \/ d = b \/ sent = <<>> \/ life[b] = 0
  PROVE  Faithful(l, s, l, t, c)
<1>1. \A p : p[1] \in {2, 30} \/ p[1] = 251 => ~About(p, c)
  BY DEF About, MoveTypes
<1>2. CASE d = b \/ sent = <<>> \/ life[b] = 0
  <2>1. Silent(s, t)
    BY <1>2 DEF Passed
  <2>2. Extends(s, t) /\ \A k \in 1 .. Len(t) : k > Len(s) => ~About(t[k], c)
    BY <1>1, <2>1 DEF Silent
  <2> QED BY <2>2, HushedTrail DEF SameFirsts
<1>3. CASE ~(d = b \/ sent = <<>> \/ life[b] = 0)
  <2> DEFINE q == Relayed(b, sent[1])
  <2>1. ~About(q, c)
    BY <1>3, RelayedLetter
  <2>2. Tells(s, t, q)
    BY <1>3 DEF Passed
  <2> HIDE DEF q
  <2>3. PICK r : TellsAt(s, t, q, r)
    BY <2>2 DEF Tells
  <2>4. \A k \in 1 .. Len(t) : k > Len(s) => ~About(t[k], c)
    BY <1>1, <2>1, <2>3 DEF TellsAt, Leads
  <2> QED BY <2>2, <2>4, HushedTrail DEF SameFirsts, Tells
<1> QED BY <1>2, <1>3

(* What client b sends goes on from where its character was to where it is.   *)
Heard(b, sent) ==
  /\ IsSent(sent) /\ (life[b] = 0 \/ WellSaid(sent))
  /\ sent # <<>> /\ life[b] > 0 =>
       \E u : IsAt(b, list[b], own[b], u) /\ Follows(u, Said(Relayed(b, sent[1])))
  /\ running'[b] /\ life[b] > 0 =>
       \A u : IsAt(b, list'[b], own'[b], u) =>
                IF sent = <<>> THEN IsAt(b, list[b], own[b], u)
                               ELSE u = Said(Relayed(b, sent[1]))

(* A step of client b, whose box was rest after what it took from it.         *)
LEMMA TurnStep ==
  ASSUME WorldInv, CopyInv, NEW b \in Clients, Only(b), running[b],
         NEW rest, DOMAIN rest = Clients, \A d \in Clients : IsSeq(rest[d]),
         \A d \in Clients \ {b} : rest[d] = inbox[d],
         NEW sent, Heard(b, sent), Route(b, sent, rest),
         Local(b, list'[b], pool'[b], own'[b], rest[b]),
         \A c \in Clients \ {b} : Faithful(list[b], inbox[b], list'[b], rest[b], c)
  PROVE  CopyInv'
<1>1. IsSent(sent) /\ (life[b] = 0 \/ WellSaid(sent))
  BY DEF Heard
<1>2. \A d \in Clients : Passed(b, d, sent, rest[d], inbox'[d])
  BY <1>1, RouteTells
<1>3. life \in [Clients -> Nat] /\ life' \in [Clients -> Nat] /\ StayDead(life, life')
  <2>1. life \in [Clients -> Nat]
    BY DEF WorldInv
  <2> QED BY <1>1, <2>1, RouteKeeps
<1>4. \A d \in Clients \ {b} : /\ list'[d] = list[d] /\ pool'[d] = pool[d]
                               /\ own'[d] = own[d] /\ running'[d] = running[d]
  BY DEF Only
<1>5. \A d \in Clients : Local(d, list'[d], pool'[d], own'[d], rest[d])
  BY <1>4 DEF CopyInv
<1>6. \A d \in Clients : Post(d, inbox'[d]) /\ SameFirsts(rest[d], inbox'[d])
  BY <1>1, <1>2, <1>5, PassedPost DEF Local
<1>7. ASSUME NEW d \in Clients PROVE Local(d, list'[d], pool'[d], own'[d], inbox'[d])
  <2>1. Joins(inbox'[d]) = Joins(rest[d])
    BY <1>6 DEF SameFirsts
  <2>2. Newcomer(list'[d], pool'[d], own'[d], inbox'[d])
    BY <1>5, <2>1 DEF Local, Newcomer
  <2> QED BY <1>5, <1>6, <2>2 DEF Local
<1>8. \A d \in Clients : \A c \in Clients \ {d} : Trail(list'[d], rest[d], c)
  BY <1>4 DEF CopyInv, Faithful
<1>9. \A d \in Clients : \A c \in Clients \ {d} :
        c # b \/ d = b \/ sent = <<>> \/ life[b] = 0 =>
          Faithful(list'[d], rest[d], list'[d], inbox'[d], c)
  BY <1>1, <1>2, <1>6, <1>8, PassedHush
<1>10. ASSUME NEW d \in Clients \ {b}, sent # <<>>, life[b] # 0
       PROVE  /\ Trail(list'[d], inbox'[d], b)
              /\ \A v : Becomes(list'[d], inbox'[d], b, Len(inbox'[d]), v) =>
                          v = Said(Relayed(b, sent[1]))
  <2> DEFINE q == Relayed(b, sent[1])
  <2>1. Tells(rest[d], inbox'[d], q)
    BY <1>2, <1>10 DEF Passed
  <2>2. About(q, b)
    BY <1>1, <1>10, RelayedLetter
  <2>3. PICK u : IsAt(b, list[b], own[b], u) /\ Follows(u, Said(q))
    BY <1>3, <1>10 DEF Heard
  <2> HIDE DEF q
  <2>4. Linked(b, list[b], own[b], list[d], inbox[d])
    BY <1>3, <1>10 DEF CopyInv
  <2>5. \A v : Becomes(list'[d], rest[d], b, Len(rest[d]), v) => Follows(v, Said(q))
    BY <1>4, <2>3, <2>4 DEF Linked
  <2>6. Meets(inbox'[d], b) = Meets(rest[d], b)
    BY <1>6 DEF SameFirsts
  <2>7. Trail(list'[d], rest[d], b)
    BY <1>8
  <2>8. /\ Trail(list'[d], inbox'[d], b)
        /\ \A v : Becomes(list'[d], inbox'[d], b, Len(inbox'[d]), v) => v = Said(q)
    BY <2>1, <2>2, <2>5, <2>6, <2>7, ToldTrail
  <2> QED BY <2>8 DEF q
<1>11. ASSUME NEW d \in Clients, NEW c \in Clients \ {d} PROVE Trail(list'[d], inbox'[d], c)
  <2>1. CASE c # b \/ d = b \/ sent = <<>> \/ life[b] = 0
    BY <1>9, <2>1 DEF Faithful
  <2>2. CASE ~(c # b \/ d = b \/ sent = <<>> \/ life[b] = 0)
    BY <1>10, <2>2
  <2> QED BY <2>1, <2>2
<1>12. ASSUME NEW d \in Clients, NEW c \in Clients \ {d}, running'[c], life'[c] > 0
       PROVE  Linked(c, list'[c], own'[c], list'[d], inbox'[d])
  <2> SUFFICES ASSUME NEW u, NEW v, IsAt(c, list'[c], own'[c], u),
                      Becomes(list'[d], inbox'[d], c, Len(inbox'[d]), v)
               PROVE  u = v
    BY DEF Linked
  <2>1. life[c] > 0 /\ life[c] # 0 /\ running[c]
    BY <1>3, <1>4, <1>12 DEF StayDead
  <2>2. Linked(c, list[c], own[c], list[d], inbox[d])
    BY <2>1 DEF CopyInv
  <2>3. CASE c # b
    <3>1. Becomes(list'[d], rest[d], c, Len(rest[d]), v)
      BY <1>9, <2>3 DEF Faithful
    <3>2. Becomes(list[d], inbox[d], c, Len(inbox[d]), v)
      BY <1>4, <2>3, <3>1 DEF Faithful
    <3> QED BY <1>4, <2>2, <2>3, <3>2 DEF Linked
  <2>4. CASE c = b /\ sent = <<>>
    <3>1. Becomes(list'[d], rest[d], c, Len(rest[d]), v)
      BY <1>9, <2>4 DEF Faithful
    <3>2. Becomes(list[d], inbox[d], c, Len(inbox[d]), v)
      BY <1>4, <2>4, <3>1
    <3>3. IsAt(c, list[c], own[c], u)
      BY <1>12, <2>1, <2>4 DEF Heard
    <3> QED BY <2>2, <3>2, <3>3 DEF Linked
  <2>5. CASE c = b /\ sent # <<>>
    <3>1. v = Said(Relayed(b, sent[1]))
      BY <1>10, <2>1, <2>5
    <3>2. u = Said(Relayed(b, sent[1]))
      BY <1>12, <2>1, <2>5 DEF Heard
    <3> QED BY <3>1, <3>2
  <2> QED BY <2>3, <2>4, <2>5
<1> QED BY <1>7, <1>11, <1>12 DEF CopyInv

(* Of a box whose head is taken.                                              *)
LEMMA PostTail ==
  ASSUME NEW d, NEW s, IsSeq(s), s # <<>>, Post(d, s), NEW t, t = Tail(s)
  PROVE  /\ Post(d, t) /\ Letter(d, Head(s))
         /\ Head(s)[1] = 251 => t # <<>> /\ Corrects(Head(s), Head(t)) /\ Letter(d, Head(t))
<1>1. /\ IsSeq(t) /\ Len(t) = Len(s) - 1 /\ Len(s) \in Nat \ {0}
      /\ Head(s) = s[1] /\ \A i \in 1 .. Len(s) - 1 : t[i] = s[i + 1]
  BY TailIs
<1>2. \A i \in 1 .. Len(t) : i + 1 \in 1 .. Len(s) /\ t[i] = s[i + 1]
  BY <1>1
<1>3. \A i \in 1 .. Len(t) : Letter(d, t[i])
  BY <1>2 DEF Post
<1>4. Letter(d, Head(s))
  <2>1. 1 \in 1 .. Len(s)
    BY <1>1
  <2> QED BY <1>1, <2>1 DEF Post
<1>5. ASSUME NEW k \in 1 .. Len(t), t[k][1] = 251
      PROVE  k + 1 <= Len(t) /\ Corrects(t[k], t[k + 1])
  <2>1. (k + 1) + 1 <= Len(s) /\ Corrects(s[k + 1], s[(k + 1) + 1])
    BY <1>2, <1>5 DEF Post, SyncsFollowed
  <2>2. k + 1 <= Len(t)
    BY <1>1, <2>1
  <2>3. k + 1 \in 1 .. Len(t)
    BY <1>1, <2>2
  <2> QED BY <1>2, <2>1, <2>2, <2>3
<1>6. ASSUME Head(s)[1] = 251
      PROVE  t # <<>> /\ Corrects(Head(s), Head(t)) /\ Letter(d, Head(t))
  <2>1. 1 \in 1 .. Len(s)
    BY <1>1
  <2>2. 1 + 1 <= Len(s) /\ Corrects(s[1], s[1 + 1])
    BY <1>1, <1>6, <2>1 DEF Post, SyncsFollowed
  <2>3. 1 \in 1 .. Len(t) /\ Len(t) # 0
    BY <1>1, <2>2
  <2>4. t # <<>>
    BY <2>3, NoneIs
  <2>5. Head(t) = t[1]
    BY <1>1, <2>4, TailIs
  <2> QED BY <1>1, <1>2, <1>3, <2>2, <2>3, <2>4, <2>5
<1> QED BY <1>3, <1>4, <1>5, <1>6 DEF Post, SyncsFollowed

LEMMA NewcomerTail ==
  ASSUME NEW s, IsSeq(s), s # <<>>, NEW t, t = Tail(s), NEW l, NEW q, NEW w,
         Newcomer(l, q, w, s)
  PROVE  /\ Head(s)[1] # 0 => Newcomer(l, q, w, t)
         /\ Head(s)[1] = 0 => w = 0 /\ Joins(t) = {}
<1>1. /\ Len(t) = Len(s) - 1 /\ Len(s) \in Nat \ {0}
      /\ Head(s) = s[1] /\ \A i \in 1 .. Len(s) - 1 : t[i] = s[i + 1]
  BY TailIs
<1>2. /\ 1 \in 1 .. Len(s)
      /\ \A i \in 1 .. Len(t) : i + 1 \in 1 .. Len(s) /\ t[i] = s[i + 1] /\ i + 1 # 1
      /\ \A k \in 1 .. Len(s) : k = 1 \/ (k - 1 \in 1 .. Len(t) /\ (k - 1) + 1 = k)
  BY <1>1
<1>3. \A i \in Joins(t) : i + 1 \in Joins(s) /\ i \in 1 .. Len(t)
  BY <1>2 DEF Joins
<1>4. CASE w # 0
  <2>1. Joins(s) = {}
    BY <1>4 DEF Newcomer
  <2>2. 1 \notin Joins(s) /\ Joins(t) = {}
    BY <1>3, <2>1
  <2> QED BY <1>1, <1>2, <1>4, <2>2 DEF Newcomer, Joins
<1>5. CASE w = 0
  <2>1. PICK k \in Joins(s) : Joins(s) = {k}
    BY <1>5 DEF Newcomer
  <2>2. k \in 1 .. Len(s) /\ s[k][1] = 0
    BY DEF Joins
  <2>3. ASSUME Head(s)[1] = 0 PROVE Joins(t) = {}
    <3>1. k = 1
      BY <1>1, <1>2, <2>1, <2>3 DEF Joins
    <3> QED BY <1>2, <1>3, <2>1, <3>1
  <2>4. ASSUME Head(s)[1] # 0 PROVE \E j \in Joins(t) : Joins(t) = {j}
    <3>1. k - 1 \in 1 .. Len(t) /\ (k - 1) + 1 = k
      BY <1>1, <1>2, <2>2, <2>4
    <3>2. k - 1 \in Joins(t)
      BY <1>2, <2>2, <3>1 DEF Joins
    <3>3. \A i \in Joins(t) : i = k - 1
      <4> SUFFICES ASSUME NEW i \in Joins(t) PROVE i = k - 1
        OBVIOUS
      <4>1. i \in 1 .. Len(t) /\ i + 1 = k
        BY <1>3, <2>1
      <4> QED BY <1>1, <2>2, <4>1
    <3> QED BY <3>2, <3>3
  <2> QED BY <1>5, <2>3, <2>4 DEF Newcomer
<1> QED BY <1>4, <1>5

LEMMA TakenIs ==
  ASSUME WorldInv, NEW c \in Clients, inbox[c] # <<>>, NEW rest, rest = Taken(c)
  PROVE  /\ DOMAIN rest = Clients /\ \A d \in Clients : IsSeq(rest[d])
         /\ rest[c] = Tail(inbox[c]) /\ IsSeq(inbox[c])
         /\ \A d \in Clients \ {c} : rest[d] = inbox[d]
<1>1. DOMAIN inbox = Clients /\ \A d \in Clients : IsSeq(inbox[d])
  BY DEF WorldInv, ClientOK, Mail
<1>2. /\ DOMAIN rest = Clients /\ rest[c] = Tail(inbox[c])
      /\ \A d \in Clients \ {c} : rest[d] = inbox[d]
  BY <1>1 DEF Taken
<1>3. IsSeq(Tail(inbox[c]))
  BY <1>1, TailIs
<1> QED BY <1>1, <1>2, <1>3

(* Who deals with what others do is there himself, and so are they.           *)
LEMMA LateIn ==
  ASSUME WorldInv, CopyInv, NEW c \in Clients, NEW types, Receives(c, types),
         types \cap {0, 1} = {}
  PROVE  /\ own[c] # 0 /\ \A e : Meets(Tail(inbox[c]), e) = {}
         /\ Newcomer(list[c], pool[c], own[c], Tail(inbox[c]))
         /\ Joins(Tail(inbox[c])) = {}
<1>1. inbox[c] # <<>> /\ LatePacket(c, life, Head(inbox[c]))
  BY ReceivedIs
<1>2. Mail(c, inbox[c], pool[c], life) /\ Len(pool[c]) \in Nat /\ IsSeq(inbox[c])
  BY SeqIs DEF WorldInv, ClientOK, Slots, Mail
<1>3. NoFirst(c, inbox[c]) /\ NoFirst(c, Tail(inbox[c]))
  BY <1>1, <1>2, MailTaken
<1>4. Local(c, list[c], pool[c], own[c], inbox[c])
  BY DEF CopyInv
<1>5. Joins(inbox[c]) = {}
  <2> SUFFICES ASSUME NEW k \in Joins(inbox[c]) PROVE FALSE
    OBVIOUS
  <2>1. k \in 1 .. Len(inbox[c]) /\ inbox[c][k][1] = 0
    BY DEF Joins
  <2>2. inbox[c][k] = Join(c)
    BY <1>4, <2>1 DEF Local, Post, Letter
  <2>3. FirstPacket(c, inbox[c][k])
    BY <2>2 DEF Join, mpCreateMyCharacter, FirstPacket
  <2> QED BY <1>3, <2>1, <2>3 DEF NoFirst
<1>6. own[c] # 0
  BY <1>4, <1>5 DEF Local, Newcomer
<1>7. Newcomer(list[c], pool[c], own[c], Tail(inbox[c])) /\ Head(inbox[c])[1] # 0
  <2>1. Newcomer(list[c], pool[c], own[c], inbox[c])
    BY <1>4 DEF Local
  <2> QED BY <1>1, <1>2, <1>6, <2>1, NewcomerTail
<1>8. \A e : Meets(Tail(inbox[c]), e) = {}
  <2> SUFFICES ASSUME NEW e, NEW k \in Meets(Tail(inbox[c]), e) PROVE FALSE
    OBVIOUS
  <2>1. FirstPacket(c, Meet(e))
    BY DEF Meet, mpCreateOtherCharacter, FirstPacket
  <2> QED BY <1>3, <2>1 DEF NoFirst, Meets
<1>9. Joins(Tail(inbox[c])) = {}
  BY <1>6, <1>7 DEF Newcomer
<1> QED BY <1>6, <1>7, <1>8, <1>9

(* A handler that leaves the player's own character where it is.              *)
LEMMA LateStep ==
  ASSUME WorldInv, CopyInv, NEW c \in Clients, NEW types, Receives(c, types),
         types \cap {0, 1} = {}, Only(c), own' = own,
         Route(c, <<>>, Taken(c)), Crowd(c, list'[c]), Vacant(pool'[c]),
         \A u : IsAt(c, list'[c], own[c], u) => IsAt(c, list[c], own[c], u),
         \A e \in Clients \ {c} :
            IF About(Packet(c), e)
            THEN Single(list'[c], e) /\ \A j \in Copies(list'[c], e) :
                                          Sit(list'[c][j]) = Said(Packet(c))
            ELSE Redrawn(list[c], list'[c], e)
  PROVE  CopyInv'
<1>1. running[c] /\ inbox[c] # <<>> /\ Packet(c) = Head(inbox[c])
  BY ReceivedIs
<1>2. PICK rest, sent : rest = Taken(c) /\ sent = <<>>
  OBVIOUS
<1>3. /\ DOMAIN rest = Clients /\ (\A d \in Clients : IsSeq(rest[d]))
      /\ rest[c] = Tail(inbox[c]) /\ IsSeq(inbox[c])
      /\ \A d \in Clients \ {c} : rest[d] = inbox[d]
  BY <1>1, <1>2, TakenIs
<1>4. /\ own[c] # 0 /\ Joins(rest[c]) = {} /\ \A e : Meets(rest[c], e) = {}
  BY <1>3, LateIn
<1>5. Post(c, rest[c])
  <2>1. Post(c, inbox[c])
    BY DEF CopyInv, Local
  <2> QED BY <1>1, <1>3, <2>1, PostTail
<1>6. Local(c, list'[c], pool'[c], own'[c], rest[c])
  BY <1>4, <1>5 DEF Local, Newcomer
<1>7. Heard(c, sent) /\ Route(c, sent, rest)
  BY <1>2 DEF Heard, IsSent, WellSaid
<1>8. ASSUME NEW e \in Clients \ {c} PROVE Faithful(list[c], inbox[c], list'[c], rest[c], e)
  <2>1. Trail(list[c], inbox[c], e)
    BY DEF CopyInv
  <2>2. CASE About(Packet(c), e)
    BY <1>1, <1>3, <1>4, <2>1, <2>2, FaithfulHead
  <2>3. CASE ~About(Packet(c), e)
    BY <1>1, <1>3, <2>1, <2>3, FaithfulTail
  <2> QED BY <2>2, <2>3
<1> QED BY <1>1, <1>3, <1>6, <1>7, <1>8, TurnStep

(* Whatever is at the player's pointer while it is to his character is it.    *)
LEMMA OwnThere ==
  ASSUME WorldInv, NEW c \in Clients, own[c] # 0, NEW i \in 1 .. Len(list[c]),
         IsPlayer(list[c][i]), list[c][i].at = own[c]
  PROVE  IsOwn(list[c][i], own[c], c)
<1>1. Things(list[c]) /\ Distinct(list[c])
      /\ Knows(c, list[c], own[c], running[c], inbox[c], life[c])
  BY DEF WorldInv, ClientOK, Apart
<1>2. ~Lacks(list[c], own[c])
  BY DEF Lacks
<1>3. Shows(list[c], own[c], c)
  BY <1>1, <1>2 DEF Knows
<1> QED BY <1>1, <1>3, OwnIsAt

LEMMA IsAtStays ==
  ASSUME WorldInv, NEW c \in Clients, NEW m,
         \A j \in 1 .. Len(m) : IsSlot(m[j]) /\ m[j].at = own[c] /\ m[j].id = c =>
           \E i \in 1 .. Len(list[c]) : /\ IsPlayer(list[c][i]) /\ list[c][i].at = own[c]
                                        /\ Sit(m[j]) = Sit(list[c][i])
  PROVE  \A u : IsAt(c, m, own[c], u) => IsAt(c, list[c], own[c], u)
<1>1. CASE own[c] = 0
  BY <1>1 DEF IsAt
<1>2. CASE own[c] # 0
  <2> SUFFICES ASSUME NEW u, IsAt(c, m, own[c], u) PROVE IsAt(c, list[c], own[c], u)
    OBVIOUS
  <2>1. PICK j \in 1 .. Len(m) : IsOwn(m[j], own[c], c) /\ u = Sit(m[j])
    BY <1>2 DEF IsAt
  <2>2. PICK i \in 1 .. Len(list[c]) : /\ IsPlayer(list[c][i]) /\ list[c][i].at = own[c]
                                       /\ Sit(m[j]) = Sit(list[c][i])
    BY <2>1 DEF IsOwn
  <2>3. IsOwn(list[c][i], own[c], c)
    BY <1>2, <2>2, OwnThere
  <2> QED BY <1>2, <2>1, <2>2, <2>3 DEF IsAt
<1> QED BY <1>1, <1>2

(* q is o after packet p.                                                     *)
Does(p, o, q) ==
  OnMap(o.x, o.y) /\ Turned(o) =>
    /\ OnMap(q.x, q.y) /\ Turned(q)
    /\ Sit(q) = IF About(p, o.id) THEN Said(p) ELSE Sit(o)

LEMMA CopiesAre ==
  ASSUME NEW l, Things(l), NEW e \in Clients
  PROVE  \A j \in Copies(l, e) : j \in 1 .. Len(l) /\ IsSlot(l[j]) /\ l[j].id = e
<1>1. e # -1
  BY ClientsAssumption
<1> QED BY <1>1 DEF Copies, Things, IsEffect

(* The handlers that change objects of the list and nothing else.             *)
LEMMA ChangerStep ==
  ASSUME WorldInv, CopyInv, NEW c \in Clients, NEW types, Receives(c, types),
         types \cap {0, 1} = {}, DOMAIN list' = Clients,
         \A d \in Clients \ {c} : list'[d] = list[d], UNCHANGED <<pool, own, running>>,
         Route(c, <<>>, Taken(c)), Same(list[c], list'[c]),
         \A j \in 1 .. Len(list[c]) : IsSlot(list[c][j]) => Does(Packet(c), list[c][j], list'[c][j])
  PROVE  CopyInv'
<1> DEFINE l == list[c]
           m == list'[c]
           p == Packet(c)
<1>1. Things(l) /\ DOMAIN pool = Clients /\ DOMAIN own = Clients /\ DOMAIN running = Clients
  BY DEF WorldInv, ClientOK
<1>2. Crowd(c, l) /\ Vacant(pool[c])
  BY DEF CopyInv, Local
<1>3. Letter(c, p)
  <2>1. inbox[c] # <<>> /\ p = Head(inbox[c])
    BY ReceivedIs
  <2>2. Post(c, inbox[c]) /\ IsSeq(inbox[c])
    BY DEF CopyInv, Local, WorldInv, ClientOK, Mail
  <2>3. Letter(c, Head(inbox[c]))
    BY <2>1, <2>2, PostTail
  <2> QED BY <2>1, <2>3
<1>4. ~About(p, c)
  BY <1>3 DEF Letter, About
<1> HIDE DEF p
<1>5. /\ Things(m) /\ Len(m) = Len(l)
      /\ \A j \in 1 .. Len(l) : /\ IsSlot(l[j]) => Keeps(l[j], m[j])
                                /\ IsEffect(l[j]) => IsEffect(m[j])
  BY <1>1, SameKeeps DEF Same
<1>6. \A j \in 1 .. Len(l) : IsSlot(m[j]) => IsSlot(l[j])
  BY <1>1, <1>5, KindsDiffer DEF Things
<1>7. \A j \in 1 .. Len(l) : IsSlot(l[j]) /\ Does(p, l[j], m[j])
                               => Citizen(c, m[j])
                                  /\ Sit(m[j]) = IF About(p, l[j].id) THEN Said(p) ELSE Sit(l[j])
  <2> SUFFICES ASSUME NEW j \in 1 .. Len(l), IsSlot(l[j]), Does(p, l[j], m[j])
               PROVE  /\ Citizen(c, m[j])
                      /\ Sit(m[j]) = IF About(p, l[j].id) THEN Said(p) ELSE Sit(l[j])
    OBVIOUS
  <2>1. Citizen(c, l[j])
    BY <1>2, KindsDiffer DEF Crowd
  <2>2. Keeps(l[j], m[j])
    BY <1>5
  <2> QED BY <2>1, <2>2 DEF Citizen, Keeps, Does
<1>8. \A j \in 1 .. Len(l) : IsSlot(l[j]) =>
        Citizen(c, m[j]) /\ Sit(m[j]) = IF About(p, l[j].id) THEN Said(p) ELSE Sit(l[j])
  BY <1>7 DEF p
<1>9. Crowd(c, m)
  <2> SUFFICES ASSUME NEW j \in 1 .. Len(m), IsPlayer(m[j]) PROVE Citizen(c, m[j])
    BY DEF Crowd
  <2>1. IsSlot(l[j])
    BY <1>5, <1>6, KindsDiffer DEF Things
  <2> QED BY <1>5, <1>8, <2>1
<1>10. \A u : IsAt(c, m, own[c], u) => IsAt(c, l, own[c], u)
  <2>1. ASSUME NEW j \in 1 .. Len(m), IsSlot(m[j]), m[j].at = own[c], m[j].id = c
        PROVE  j \in 1 .. Len(l) /\ IsPlayer(l[j]) /\ l[j].at = own[c] /\ Sit(m[j]) = Sit(l[j])
    <3>1. j \in 1 .. Len(l) /\ IsSlot(l[j]) /\ Keeps(l[j], m[j])
      BY <1>5, <1>6, <2>1
    <3>2. l[j].id = c /\ l[j].at = own[c] /\ IsPlayer(l[j])
      BY <2>1, <3>1, KindsDiffer DEF Keeps
    <3> QED BY <1>4, <1>8, <3>1, <3>2
  <2> HIDE DEF m
  <2>2. \A j \in 1 .. Len(m) : IsSlot(m[j]) /\ m[j].at = own[c] /\ m[j].id = c =>
           \E i \in 1 .. Len(list[c]) : /\ IsPlayer(list[c][i]) /\ list[c][i].at = own[c]
                                        /\ Sit(m[j]) = Sit(list[c][i])
    BY <2>1
  <2> QED BY <2>2, IsAtStays
<1>11. ASSUME NEW e \in Clients \ {c}
       PROVE  IF About(p, e)
              THEN Single(m, e) /\ \A j \in Copies(m, e) : Sit(m[j]) = Said(p)
              ELSE Redrawn(l, m, e)
  <2>1. \A i, j \in Copies(l, e) : i = j
    BY DEF CopyInv, Trail, Once
  <2>2. \A j \in Copies(m, e) : j \in Copies(l, e)
        /\ IsSlot(l[j]) /\ j \in 1 .. Len(l) /\ l[j].id = e
    <3> SUFFICES ASSUME NEW j \in Copies(m, e)
                 PROVE  j \in Copies(l, e) /\ IsSlot(l[j]) /\ j \in 1 .. Len(l) /\ l[j].id = e
      OBVIOUS
    <3>1. j \in 1 .. Len(l) /\ IsSlot(m[j]) /\ m[j].id = e
      BY <1>5, CopiesAre
    <3>2. IsSlot(l[j]) /\ l[j].id = e
      BY <1>5, <1>6, <3>1 DEF Keeps
    <3> QED BY <3>1, <3>2 DEF Copies
  <2>3. Single(m, e)
    BY <2>1, <2>2 DEF Single
  <2>4. \A j \in Copies(m, e) : Sit(m[j]) = IF About(p, e) THEN Said(p) ELSE Sit(l[j])
    BY <1>8, <2>2
  <2> QED BY <2>2, <2>3, <2>4 DEF Redrawn
<1>12. Only(c) /\ Vacant(pool'[c]) /\ own' = own
  BY <1>1, <1>2 DEF Only
<1> QED BY <1>9, <1>10, <1>11, <1>12, LateStep DEF p

(* A list of which one object changed.                                        *)
LEMMA ChangedOne ==
  ASSUME NEW l, Things(l), NEW i \in 1 .. Len(l), IsSlot(l[i]), NEW o, Keeps(l[i], o), NEW m,
         m = [l EXCEPT ![i] = o]
  PROVE  Same(l, m) /\ \A j \in 1 .. Len(l) : m[j] = IF j = i THEN o ELSE l[j]
<1>1. ~IsEffect(l[i])
  BY KindsDiffer
<1>2. Same(l, [l EXCEPT ![i] = o])
  BY <1>1, ChangeSame
<1>3. DOMAIN l = 1 .. Len(l)
  BY SeqIs DEF Things
<1> QED BY <1>2, <1>3

LEMMA NothingDone ==
  ASSUME NEW p, NEW o, ~About(p, o.id)
  PROVE  Does(p, o, o)
BY DEF Does

LEMMA LikeDone ==
  ASSUME NEW p, NEW o, NEW q, ~About(p, o.id), Like(o, q)
  PROVE  Does(p, o, q)
BY DEF Does, Like

(* A packet about a character follows what its copy does.                     *)
LEMMA CopyFollows ==
  ASSUME WorldInv, CopyInv, NEW c \in Clients, inbox[c] # <<>>, NEW p, p = Head(inbox[c]),
         NEW e \in Clients \ {c}, About(p, e), NEW j \in Copies(list[c], e)
  PROVE  Follows(Sit(list[c][j]), Said(p))
<1>1. Len(inbox[c]) \in Nat \ {0} /\ Head(inbox[c]) = inbox[c][1]
  BY TailIs DEF WorldInv, ClientOK, Mail
<1>2. 1 \in 1 .. Len(inbox[c]) /\ About(inbox[c][1], e) /\ 1 - 1 = 0
  BY <1>1
<1>3. Becomes(list[c], inbox[c], e, 0, Sit(list[c][j]))
  BY DEF Becomes, Quiet
<1>4. Chained(list[c], inbox[c], e)
  BY DEF CopyInv, Trail
<1>5. Becomes(list[c], inbox[c], e, 1 - 1, Sit(list[c][j]))
  BY <1>2, <1>3
<1> QED BY <1>1, <1>2, <1>4, <1>5 DEF Chained

(* What the client of a character finds of another one.                       *)
LEMMA FoundOther ==
  ASSUME WorldInv, CopyInv, NEW c \in Clients, NEW types, Receives(c, types),
         types \subseteq MoveTypes, NEW i, i = Index(c, Packet(c)[2]), i # 0
  PROVE  /\ i \in 1 .. Len(list[c]) /\ IsSlot(list[c][i]) /\ list[c][i].id = Packet(c)[2]
         /\ list[c][i].mine = FALSE /\ Citizen(c, list[c][i])
         /\ Follows(Sit(list[c][i]), Said(Packet(c)))
<1>1. /\ inbox[c] # <<>> /\ Packet(c) = Head(inbox[c]) /\ LatePacket(c, life, Head(inbox[c]))
      /\ Packet(c)[1] \in MoveTypes
  <2>1. types \cap {0, 1} = {}
    BY DEF MoveTypes
  <2> QED BY <2>1, ReceivedIs
<1>2. Packet(c)[2] \in Clients \ {c}
  BY <1>1 DEF LatePacket, MoveTypes
<1>3. PICK p, e : p = Packet(c) /\ e = p[2]
  OBVIOUS
<1>4. i \in 1 .. Len(list[c]) /\ IsSlot(list[c][i]) /\ list[c][i].id = e
  BY <1>2, <1>3, FoundIs
<1>5. Crowd(c, list[c])
  BY DEF CopyInv, Local
<1>6. Citizen(c, list[c][i]) /\ list[c][i].mine = FALSE
  <2>1. Citizen(c, list[c][i])
    BY <1>4, <1>5, KindsDiffer DEF Crowd
  <2> QED BY <1>2, <1>3, <1>4, <2>1 DEF Citizen, IsSlot
<1>7. About(p, e) /\ i \in Copies(list[c], e)
  BY <1>1, <1>3, <1>4 DEF About, Copies
<1>8. Follows(Sit(list[c][i]), Said(p))
  BY <1>1, <1>2, <1>3, <1>7, CopyFollows
<1> QED BY <1>3, <1>4, <1>6, <1>8

(* What a handler that lets a character act may rely on, and does.            *)
Obeys(c, before, after) ==
  IsSlot(Found(c)) /\ ~Found(c).mine =>
    before.mine = FALSE /\ Keeps(Found(c), after) /\ Told(Found(c), Packet(c), after)

(* The handlers that make a copy act: start to walk, stop, attack              *)
(* (PacketProc.cpp:98-266).                                                    *)
LEMMA ActStep ==
  ASSUME WorldInv, CopyInv, NEW c \in Clients, NEW types, Receives(c, types),
         types \subseteq MoveTypes, NEW before, NEW action, NEW after,
         Act(c, before, action, after),
         Obeys(c, before, after)
  PROVE  CopyInv'
<1>1. PICK i : i = Index(c, Packet(c)[2])
  OBVIOUS
<1>2. types \cap {0, 1} = {}
  BY DEF MoveTypes
<1>3. Things(list[c]) /\ DOMAIN list = Clients
  BY DEF WorldInv, ClientOK
<1>4. /\ UNCHANGED <<pool, own, running>>
      /\ i = 0 => list' = list /\ Route(c, <<>>, Taken(c))
      /\ i # 0 => /\ list' = [list EXCEPT ![c][i] = after]
                  /\ Route(c, Announcement(before, action), Taken(c))
  BY <1>1 DEF Act
<1>5. CASE i = 0
  <2>1. Same(list[c], list'[c])
    BY <1>3, <1>4, <1>5, SameIs
  <2>2. \A j \in 1 .. Len(list[c]) : ~About(Packet(c), list[c][j].id)
    <3>1. Len(list[c]) \in Nat
      BY <1>3, SeqIs DEF Things
    <3> QED BY <1>1, <1>5, <3>1, IndexIs DEF About
  <2>3. \A j \in 1 .. Len(list[c]) : Does(Packet(c), list[c][j], list'[c][j])
    BY <1>4, <1>5, <2>2, NothingDone
  <2>4. DOMAIN list' = Clients /\ \A d \in Clients \ {c} : list'[d] = list[d]
    BY <1>3, <1>4, <1>5
  <2> QED BY <1>2, <1>4, <1>5, <2>1, <2>3, <2>4, ChangerStep
<1>6. CASE i # 0
  <2>1. /\ i \in 1 .. Len(list[c]) /\ IsSlot(list[c][i]) /\ list[c][i].id = Packet(c)[2]
        /\ list[c][i].mine = FALSE /\ Citizen(c, list[c][i])
        /\ Follows(Sit(list[c][i]), Said(Packet(c)))
    BY <1>1, <1>6, FoundOther
  <2>2. /\ before.mine = FALSE /\ Keeps(list[c][i], after)
        /\ Told(list[c][i], Packet(c), after)
    BY <1>1, <2>1 DEF Found, Obeys
  <2>3. Route(c, <<>>, Taken(c))
    <3>1. Announcement(before, action) = <<>>
      BY <2>2 DEF Announcement
    <3> QED BY <1>4, <1>6, <3>1
  <2> DEFINE m == [list[c] EXCEPT ![i] = after]
  <2>4. DOMAIN list' = Clients /\ list'[c] = m /\ \A d \in Clients \ {c} : list'[d] = list[d]
    BY <1>3, <1>4, <1>6
  <2>5. Same(list[c], m) /\ \A j \in 1 .. Len(list[c]) : m[j] = IF j = i THEN after ELSE list[c][j]
    BY <1>3, <2>1, <2>2, ChangedOne
  <2> HIDE DEF m
  <2>6. Does(Packet(c), list[c][i], after)
    <3>1. Letter(c, Packet(c)) /\ Packet(c)[1] \in MoveTypes
      <4>1. inbox[c] # <<>> /\ Packet(c) = Head(inbox[c]) /\ Packet(c)[1] \in types
        BY ReceivedIs
      <4>2. Post(c, inbox[c]) /\ IsSeq(inbox[c])
        BY DEF CopyInv, Local, WorldInv, ClientOK, Mail
      <4>3. Letter(c, Head(inbox[c]))
        BY <4>1, <4>2, PostTail
      <4> QED BY <4>1, <4>3
    <3>2. OnMap(Packet(c)[4], Packet(c)[5]) /\ About(Packet(c), list[c][i].id)
      BY <2>1, <3>1 DEF Letter, About
    <3> QED BY <2>1, <2>2, <3>2 DEF Does, Told
  <2>7. \A j \in 1 .. Len(list[c]) :
          IsSlot(list[c][j]) => Does(Packet(c), list[c][j], list'[c][j])
    <3> SUFFICES ASSUME NEW j \in 1 .. Len(list[c]), IsSlot(list[c][j])
                 PROVE  Does(Packet(c), list[c][j], list'[c][j])
      OBVIOUS
    <3>1. CASE j = i
      BY <2>4, <2>5, <2>6, <3>1
    <3>2. CASE j # i
      <4>1. list'[c][j] = list[c][j]
        BY <2>4, <2>5, <3>2
      <4>2. Packet(c)[2] \in Clients \ {c}
        BY ReceivedIs DEF LatePacket, MoveTypes
      <4>3. \A a, b \in Copies(list[c], Packet(c)[2]) : a = b
        BY <4>2 DEF CopyInv, Trail, Once
      <4>4. list[c][j].id # Packet(c)[2]
        BY <2>1, <3>2, <4>3 DEF Copies
      <4> QED BY <4>1, <4>4, NothingDone DEF About
    <3> QED BY <3>1, <3>2
  <2> QED BY <1>2, <1>4, <2>3, <2>4, <2>5, <2>7, ChangerStep
<1> QED BY <1>5, <1>6

LEMMA MoveStartStep ==
  ASSUME WorldInv, CopyInv, NEW c \in Clients, netPacketProc_MoveStart(c)
  PROVE  CopyInv'
<1>1. Receives(c, {11}) /\ {11} \subseteq MoveTypes
  BY DEF netPacketProc_MoveStart, MoveTypes
<1>2. PICK p, o : p = Packet(c) /\ o = Found(c)
  OBVIOUS
<1>3. p[1] = 11 /\ p[3] \in Moves
  <2>1. inbox[c] # <<>> /\ Packet(c) = Head(inbox[c]) /\ Packet(c)[1] \in {11}
    BY <1>1, ReceivedIs
  <2>2. Post(c, inbox[c]) /\ IsSeq(inbox[c])
    BY DEF CopyInv, Local, WorldInv, ClientOK, Mail
  <2>3. Letter(c, Head(inbox[c]))
    BY <2>1, <2>2, PostTail
  <2> QED BY <1>2, <2>1, <2>3 DEF Letter, MoveTypes
<1> DEFINE moved == InputActionProc(o, p[3])
           after == SetPosition(moved, p[4], p[5])
<1>4. Act(c, o, p[3], after)
  BY <1>2 DEF netPacketProc_MoveStart
<1>5. ASSUME IsSlot(o), ~o.mine
      PROVE  o.mine = FALSE /\ Keeps(o, after) /\ Told(o, p, after)
  <2>1. p[3] \in Actions
    BY <1>3 DEF Moves, Actions, LL, LD, STAND
  <2>2. Keeps(o, moved)
    BY <1>5, <2>1, InputKeeps
  <2>3. IsSlot(moved) => Keeps(moved, after)
    <3> HIDE DEF moved
    <3> QED BY SetPositionKeeps
  <2>4. Told(o, p, after)
    BY <1>3, <1>5, MoveStartTold
  <2> HIDE DEF moved, after
  <2> QED BY <1>5, <2>2, <2>3, <2>4 DEF Keeps
<1> HIDE DEF moved, after
<1>6. /\ Act(c, Found(c), p[3], after)
      /\ Obeys(c, Found(c), after)
  BY <1>2, <1>4, <1>5 DEF Obeys
<1> QED BY <1>1, <1>6, ActStep

LEMMA MoveStopStep ==
  ASSUME WorldInv, CopyInv, NEW c \in Clients, netPacketProc_MoveStop(c)
  PROVE  CopyInv'
<1>1. Receives(c, {13}) /\ {13} \subseteq MoveTypes
  BY DEF netPacketProc_MoveStop, MoveTypes
<1>2. PICK p, o : p = Packet(c) /\ o = Found(c)
  OBVIOUS
<1>3. p[1] = 13
  BY <1>1, <1>2, ReceivedIs
<1> DEFINE a == Placed(o, p)
           after == InputActionProc(a, STAND)
<1>4. Act(c, a, STAND, after)
  BY <1>2 DEF netPacketProc_MoveStop
<1>5. ASSUME IsSlot(o), ~o.mine
      PROVE  a.mine = FALSE /\ Keeps(o, after) /\ Told(o, p, after)
  <2>1. STAND \in Actions
    BY DEF Actions, STAND
  <2>2. Keeps(o, a)
    BY <1>5, PlacedKeeps
  <2>3. Told(o, p, after)
    BY <1>3, <1>5, MoveStopTold
  <2>4. IsSlot(a) => Keeps(a, after)
    <3> HIDE DEF a
    <3> QED BY <2>1, InputKeeps
  <2> HIDE DEF a, after
  <2> QED BY <1>5, <2>2, <2>3, <2>4 DEF Keeps
<1> HIDE DEF a, after
<1>6. Obeys(c, a, after)
  BY <1>2, <1>5 DEF Obeys
<1> QED BY <1>1, <1>4, <1>6, ActStep

(* What an attack received makes of the copy it is about.                     *)
AttackDone(p, o, after) ==
  /\ Keeps(o, after) /\ Told(o, p, after)
  /\ Turned(o) /\ Follows(Sit(o), Said(p)) =>
       after.cur = <<(p[1] - 5) \div 2, Looks(p)>> /\ after.anim[after.cur] = ResetFrame

LEMMA AttackIs ==
  ASSUME NEW c, NEW o, IsSlot(o), ~o.mine, NEW p, p = Packet(c), p[1] \in {21, 23, 25},
         NEW after, after = LoopResetFrame(InputActionProc(Placed(o, p), AttackOf(c)))
  PROVE  Placed(o, p).mine = FALSE /\ AttackDone(p, o, after)
<1> DEFINE a == Placed(o, p)
           acted == InputActionProc(a, AttackOf(c))
<1>1. AttackOf(c) \in Actions
  <2>1. p[1] - 5 \in {16, 18, 20}
    OBVIOUS
  <2>2. AttackOf(c) \in {8, 9, 10}
    BY <2>1 DEF AttackOf
  <2> QED BY <2>2 DEF Actions, STAND
<1>2. Keeps(o, a)
  BY PlacedKeeps
<1>3. AttackOf(c) = (p[1] - 5) \div 2
  BY DEF AttackOf
<1>4. /\ Told(o, p, after)
      /\ Turned(o) /\ Follows(Sit(o), Said(p)) =>
           after.cur = <<AttackOf(c), Looks(p)>> /\ after.anim[after.cur] = ResetFrame
  <2> HIDE DEF acted
  <2>1. PICK action : action = AttackOf(c)
    OBVIOUS
  <2>2. action = (p[1] - 5) \div 2 /\ after = LoopResetFrame(InputActionProc(Placed(o, p), action))
    BY <1>3, <2>1
  <2>3. /\ Told(o, p, after)
        /\ Turned(o) /\ Follows(Sit(o), Said(p)) =>
             after.cur = <<action, Looks(p)>> /\ after.anim[after.cur] = ResetFrame
    BY <2>2, AttackTold
  <2> QED BY <2>1, <2>3
<1>5. IsSlot(a) => Keeps(a, acted)
  <2> HIDE DEF a
  <2> QED BY <1>1, InputKeeps
<1>6. IsSlot(acted) => Keeps(acted, after)
  <2> HIDE DEF acted
  <2>1. after = LoopResetFrame(acted)
    BY DEF acted
  <2> QED BY <2>1, LoopResetKeeps
<1> HIDE DEF acted
<1>7. Keeps(o, after) /\ a.mine = FALSE
  BY <1>2, <1>5, <1>6 DEF Keeps, IsSlot
<1> QED BY <1>3, <1>4, <1>7 DEF AttackDone

LEMMA AttackStep ==
  ASSUME WorldInv, CopyInv, NEW c \in Clients, netPacketProc_Attack(c)
  PROVE  CopyInv'
<1>1. Receives(c, {21, 23, 25}) /\ {21, 23, 25} \subseteq MoveTypes
  BY DEF netPacketProc_Attack, MoveTypes
<1>2. PICK p, o : p = Packet(c) /\ o = Found(c)
  OBVIOUS
<1>3. p[1] \in {21, 23, 25}
  BY <1>1, <1>2, ReceivedIs
<1> DEFINE a == Placed(o, p)
           after == LoopResetFrame(InputActionProc(a, AttackOf(c)))
<1>4. Act(c, a, AttackOf(c), after)
  BY <1>2 DEF netPacketProc_Attack
<1>5. IsSlot(o) /\ ~o.mine => a.mine = FALSE /\ AttackDone(p, o, after)
  BY <1>2, <1>3, AttackIs
<1> HIDE DEF a, after
<1>6. Obeys(c, a, after)
  BY <1>2, <1>5 DEF AttackDone, Obeys
<1> QED BY <1>1, <1>4, <1>6, ActStep

(* A correction puts the copy elsewhere; the stop it came with, which follows, *)
(* says the same place (PacketProc.cpp:295-313).                               *)
LEMMA SyncStep ==
  ASSUME WorldInv, CopyInv, NEW c \in Clients, netPacketProc_Sync(c)
  PROVE  CopyInv'
<1>1. Receives(c, {251}) /\ {251} \cap {0, 1} = {}
  BY DEF netPacketProc_Sync
<1>2. PICK p, x, y : p = Packet(c) /\ x = p[3] /\ y = p[4]
  OBVIOUS
<1>3. inbox[c] # <<>> /\ p = Head(inbox[c]) /\ p[1] = 251
  BY <1>1, <1>2, ReceivedIs
<1>4. Post(c, inbox[c]) /\ IsSeq(inbox[c])
  BY DEF CopyInv, Local, WorldInv, ClientOK, Mail
<1>5. PICK t : t = Tail(inbox[c])
  OBVIOUS
<1>6. Letter(c, p) /\ t # <<>> /\ Corrects(p, Head(t))
  BY <1>3, <1>4, <1>5, PostTail
<1>7. p[2] \in Clients \ {c} /\ OnMap(x, y)
  BY <1>2, <1>3, <1>6 DEF Letter
<1>8. PICK i : i = Index(c, p[2])
  OBVIOUS
<1> DEFINE o == SetPosition(list[c][i], x, y)
           m == [list[c] EXCEPT ![i] = o]
<1>9. /\ UNCHANGED <<pool, own, running>> /\ inbox' = Taken(c) /\ life' = life
      /\ list' = IF i = 0 THEN list ELSE [list EXCEPT ![c][i] = o]
  BY <1>2, <1>8 DEF netPacketProc_Sync
<1>10. Things(list[c]) /\ DOMAIN list = Clients
  BY DEF WorldInv, ClientOK
<1>11. Route(c, <<>>, Taken(c))
  BY <1>9 DEF Route
<1>12. \A e : ~About(p, e)
  BY <1>3 DEF About, MoveTypes
<1>13. CASE i = 0
  <2>1. list' = list
    BY <1>9, <1>13
  <2> HIDE DEF o, m
  <2>2. Same(list[c], list'[c])
    BY <1>10, <2>1, SameIs
  <2>3. \A j \in 1 .. Len(list[c]) : Does(p, list[c][j], list'[c][j])
    BY <1>12, <2>1, NothingDone
  <2> QED BY <1>1, <1>2, <1>9, <1>10, <1>11, <2>1, <2>2, <2>3, ChangerStep
<1>14. CASE i # 0
  <2>1. i \in 1 .. Len(list[c]) /\ IsSlot(list[c][i]) /\ list[c][i].id = p[2]
    BY <1>7, <1>8, <1>14, FoundIs
  <2>2. Keeps(list[c][i], o)
    BY <2>1, SetPositionKeeps
  (* The stop that comes next says where the character is; a copy that rests   *)
  (* is there already.                                                         *)
  <2>3. list[c][i].action \notin Moves => list[c][i].x = x /\ list[c][i].y = y
    <3> DEFINE q == Head(t)
    <3>1. q[1] = 13 /\ q[2] = p[2] /\ q[4] = x /\ q[5] = y
      BY <1>2, <1>6 DEF Corrects
    <3>2. Said(q) = <<x, y, Looks(q)>>
      BY <3>1 DEF Said
    <3> HIDE DEF q
    <3>3. About(q, p[2]) /\ i \in Copies(list[c], p[2])
      BY <2>1, <3>1 DEF About, MoveTypes, Copies
    <3>4. /\ Len(t) = Len(inbox[c]) - 1 /\ Len(inbox[c]) \in Nat \ {0} /\ inbox[c][1] = p
          /\ \A k \in 1 .. Len(inbox[c]) - 1 : t[k] = inbox[c][k + 1]
      BY <1>3, <1>4, <1>5, TailIs
    <3>5. IsSeq(t) /\ Len(t) \in Nat \ {0} /\ q = t[1]
      BY <1>3, <1>4, <1>5, <1>6, TailIs DEF q
    <3>6. 2 \in 1 .. Len(inbox[c]) /\ inbox[c][2] = q /\ 2 - 1 = 1
      <4>0. Len(t) \in Nat /\ Len(t) >= 1
        BY <3>5
      <4>1. Len(inbox[c]) - 1 = Len(t) /\ 1 \in 1 .. Len(t)
        BY <3>4, <4>0
      <4>2. t[1] = inbox[c][1 + 1]
        BY <3>4, <4>1
      <4>3. Len(inbox[c]) = Len(t) + 1
        BY <3>4, <4>0, <4>1
      <4> QED BY <3>5, <4>0, <4>2, <4>3
    <3>7. Quiet(inbox[c], p[2], 1, 1)
      <4>1. \A k \in 1 .. 1 : k = 1
        OBVIOUS
      <4> QED BY <1>12, <3>4, <4>1 DEF Quiet
    <3>8. Becomes(list[c], inbox[c], p[2], 2 - 1, Sit(list[c][i]))
      BY <3>3, <3>6, <3>7 DEF Becomes
    <3>9. Follows(Sit(list[c][i]), Said(q))
      <4>1. Chained(list[c], inbox[c], p[2])
        BY <1>7 DEF CopyInv, Trail
      <4> QED BY <3>3, <3>6, <3>8, <4>1 DEF Chained
    <3> SUFFICES ASSUME list[c][i].action \notin Moves
                 PROVE  list[c][i].x = x /\ list[c][i].y = y
      OBVIOUS
    <3>10. Sit(list[c][i]) = <<list[c][i].x, list[c][i].y, list[c][i].right>>
      BY DEF Sit
    <3>11. Sit(list[c][i]) # Walking /\ Said(q) # Walking
      BY <3>2, <3>10 DEF Walking
    <3>12. <<list[c][i].x, list[c][i].y, list[c][i].right>> = <<x, y, Looks(q)>>
      BY <3>2, <3>9, <3>10, <3>11 DEF Follows
    <3> QED BY <3>12
  <2>4. Like(list[c][i], o)
    BY <1>7, <2>1, <2>3, SyncLike
  <2>5. DOMAIN list' = Clients /\ list'[c] = m /\ \A d \in Clients \ {c} : list'[d] = list[d]
    BY <1>9, <1>10, <1>14
  <2> HIDE DEF o
  <2>6. Same(list[c], m) /\ \A j \in 1 .. Len(list[c]) : m[j] = IF j = i THEN o ELSE list[c][j]
    BY <1>10, <2>1, <2>2, ChangedOne
  <2> HIDE DEF m
  <2>7. \A j \in 1 .. Len(list[c]) : Does(p, list[c][j], list'[c][j])
    BY <1>12, <2>4, <2>5, <2>6, NothingDone, LikeDone
  <2> QED BY <1>1, <1>2, <1>9, <1>11, <2>5, <2>6, <2>7, ChangerStep
<1> QED BY <1>13, <1>14

(* A hit changes an effect to come and the lives, never a place                *)
(* (PacketProc.cpp:268-293).                                                   *)
LEMMA DamageStep ==
  ASSUME WorldInv, CopyInv, NEW c \in Clients, netPacketProc_Damage(c)
  PROVE  CopyInv'
<1>1. Receives(c, {30}) /\ {30} \cap {0, 1} = {}
  BY DEF netPacketProc_Damage
<1>2. /\ Packet(c)[1] = 30 /\ LatePacket(c, life, Packet(c))
  BY <1>1, ReceivedIs
<1>3. Packet(c)[2] \in Clients /\ Packet(c)[3] \in Clients
  BY <1>2 DEF LatePacket, MoveTypes
<1>4. PICK i, j, hp, p : /\ p = Packet(c) /\ i = Index(c, p[2]) /\ j = Index(c, p[3]) /\ hp = p[4]
  OBVIOUS
<1> DEFINE l == list[c]
           hitAt == <<l[j].x, l[j].y - Lift>>
           o == SetHitEffect(l[i], hitAt)
           m == [l EXCEPT ![i] = o]
           o2 == SetHP(m[j], hp)
           m2 == [m EXCEPT ![j] = o2]
<1>5. /\ UNCHANGED <<pool, own, running>> /\ inbox' = Taken(c) /\ life' = life
      /\ list' = IF i = 0 \/ j = 0 THEN list
                 ELSE [[list EXCEPT ![c][i] = SetHitEffect(@, hitAt)] EXCEPT ![c][j] = SetHP(@, hp)]
  BY <1>4 DEF netPacketProc_Damage
<1>6. Things(list[c]) /\ DOMAIN list = Clients
  BY DEF WorldInv, ClientOK
<1>7. Route(c, <<>>, Taken(c))
  BY <1>5 DEF Route
<1>8. \A e : ~About(p, e)
  BY <1>2, <1>4 DEF About, MoveTypes
<1>9. CASE i = 0 \/ j = 0
  <2>1. list' = list
    BY <1>5, <1>9
  <2> HIDE DEF hitAt, o, m, o2, m2
  <2>2. Same(list[c], list'[c])
    BY <1>6, <2>1, SameIs
  <2>3. \A k \in 1 .. Len(list[c]) : Does(p, list[c][k], list'[c][k])
    BY <1>8, <2>1, NothingDone
  <2> QED BY <1>1, <1>4, <1>5, <1>6, <1>7, <2>1, <2>2, <2>3, ChangerStep DEF l
<1>10. CASE ~(i = 0 \/ j = 0)
  <2>1. i \in 1 .. Len(l) /\ IsSlot(l[i]) /\ j \in 1 .. Len(l) /\ IsSlot(l[j])
    BY <1>3, <1>4, <1>10, FoundIs
  <2>2. DOMAIN list' = Clients /\ list'[c] = m2 /\ \A d \in Clients \ {c} : list'[d] = list[d]
    <3> HIDE DEF hitAt
    <3>1. list' = [[list EXCEPT ![c][i] = SetHitEffect(@, hitAt)] EXCEPT ![c][j] = SetHP(@, hp)]
      BY <1>5, <1>10
    <3>2. list' = [[list EXCEPT ![c] = m] EXCEPT ![c][j] = SetHP(@, hp)]
      BY <1>6, <3>1
    <3> HIDE DEF m
    <3> QED BY <1>6, <3>2
  <2>3. Things(l)
    BY <1>6
  <2> HIDE DEF hitAt, l
  <2>4. Keeps(l[i], o) /\ Like(l[i], o)
    BY <2>1, SetHitEffectKeeps, SetHitEffectLike
  <2> HIDE DEF o
  <2>5. Same(l, m) /\ \A k \in 1 .. Len(l) : m[k] = IF k = i THEN o ELSE l[k]
    BY <2>1, <2>3, <2>4, ChangedOne
  <2> HIDE DEF m
  <2>6. Things(m) /\ j \in 1 .. Len(m) /\ IsSlot(m[j]) /\ Len(m) = Len(l)
    BY <2>1, <2>3, <2>5, SameKeeps DEF Same, Keeps
  <2>7. Keeps(m[j], o2) /\ Like(m[j], o2)
    BY <2>6, SetHPKeeps, SetHPLike
  <2> HIDE DEF o2
  <2>8. Same(m, m2) /\ \A k \in 1 .. Len(m) : m2[k] = IF k = j THEN o2 ELSE m[k]
    BY <2>6, <2>7, ChangedOne
  <2> HIDE DEF m2
  <2>9. Same(l, m2)
    BY <2>3, <2>5, <2>8 DEF Same, Keeps, Things
  <2>10. \A k \in 1 .. Len(l) : Like(l[k], m2[k])
    <3>1. \A x : Like(x, x)
      BY DEF Like
    <3>2. \A k \in 1 .. Len(l) : Like(l[k], m[k]) /\ Like(m[k], m2[k])
      BY <2>4, <2>5, <2>6, <2>7, <2>8, <3>1
    <3> QED BY <3>2, LikeThen
  <2>11. \A k \in 1 .. Len(l) : Does(p, l[k], m2[k])
    BY <1>8, <2>10, LikeDone
  <2>12. Same(list[c], list'[c]) /\ \A k \in 1 .. Len(list[c]) : Does(p, list[c][k], list'[c][k])
    BY <2>2, <2>9, <2>11 DEF l
  <2> QED BY <1>1, <1>4, <1>5, <1>7, <2>2, <2>12, ChangerStep
<1> QED BY <1>9, <1>10

(* A character deleted leaves the list, and nothing is to become of its copy   *)
(* (PacketProc.cpp:85-97).                                                     *)
LEMMA DeleteStep ==
  ASSUME WorldInv, CopyInv, NEW c \in Clients, netPacketProc_DeleteCharacter(c)
  PROVE  CopyInv'
<1>1. Receives(c, {2}) /\ {2} \cap {0, 1} = {}
  BY DEF netPacketProc_DeleteCharacter
<1>2. PICK id, p : p = Packet(c) /\ id = p[2]
  OBVIOUS
<1>3. p[1] = 2 /\ LatePacket(c, life, p)
  BY <1>1, <1>2, ReceivedIs
<1>4. id \in Clients /\ \A e : ~About(p, e)
  BY <1>2, <1>3 DEF LatePacket, MoveTypes, About
<1>5. PICK i : i = Index(c, id)
  OBVIOUS
<1>6. /\ UNCHANGED <<own, running>> /\ inbox' = Taken(c) /\ life' = life
      /\ list' = IF i = 0 THEN list ELSE [list EXCEPT ![c] = RemoveAt(@, i)]
      /\ pool' = IF i = 0 THEN pool ELSE [pool EXCEPT ![c] = <<list[c][i]>> \o @]
  BY <1>2, <1>5 DEF netPacketProc_DeleteCharacter
<1>7. /\ Things(list[c]) /\ Slots(pool[c])
      /\ DOMAIN list = Clients /\ DOMAIN pool = Clients
      /\ DOMAIN own = Clients /\ DOMAIN running = Clients
  BY DEF WorldInv, ClientOK
<1>8. Route(c, <<>>, Taken(c))
  BY <1>6 DEF Route
<1>9. CASE i = 0
  <2>1. list' = list /\ UNCHANGED <<pool, own, running>>
    BY <1>6, <1>9
  <2>2. Same(list[c], list'[c])
    BY <1>7, <2>1, SameIs
  <2>3. \A k \in 1 .. Len(list[c]) : Does(p, list[c][k], list'[c][k])
    BY <1>4, <2>1, NothingDone
  <2> QED BY <1>1, <1>2, <1>7, <1>8, <2>1, <2>2, <2>3, ChangerStep
<1>10. CASE i # 0
  <2> DEFINE l == list[c]
             m == RemoveAt(l, i)
             o == l[i]
             q == <<o>> \o pool[c]
  <2>1. i \in 1 .. Len(l) /\ IsSlot(o)
    BY <1>4, <1>5, <1>10, FoundIs
  <2>2. Only(c) /\ list'[c] = m /\ pool'[c] = q /\ own' = own
    BY <1>6, <1>7, <1>10 DEF Only
  <2>3. PICK f : PartAt(l, (1 .. Len(l)) \ {i}, f, m)
    BY <1>7, <2>1, RemovedIs
  <2>4. /\ \A a \in 1 .. Len(m) : f[a] \in 1 .. Len(l) /\ m[a] = l[f[a]]
        /\ \A a, b \in 1 .. Len(m) : f[a] = f[b] => a = b
    BY <2>3 DEF PartAt, Part
  <2> HIDE DEF m, o
  <2>5. Crowd(c, l) /\ Vacant(pool[c])
    BY DEF CopyInv, Local
  <2>6. Crowd(c, m)
    BY <2>4, <2>5 DEF Crowd
  <2>7. Vacant(q)
    <3>1. o.at # 0 /\ OnMap(o.x, o.y)
      BY <2>1, <2>5, KindsDiffer DEF Crowd, Citizen, o
    <3>2. IsSeq(<<o>>) /\ Len(<<o>>) = 1 /\ <<o>>[1] = o
      BY OneIs
    <3>3. IsSeq(pool[c])
      BY <1>7 DEF Slots
    <3>4. /\ Len(q) = Len(<<o>>) + Len(pool[c]) /\ Len(pool[c]) \in Nat
          /\ \A k \in 1 .. Len(<<o>>) + Len(pool[c]) :
               \/ k \in 1 .. Len(<<o>>) /\ q[k] = <<o>>[k]
               \/ k - Len(<<o>>) \in 1 .. Len(pool[c]) /\ q[k] = pool[c][k - Len(<<o>>)]
      BY <3>2, <3>3, JoinedIs
    <3> HIDE DEF q
    <3>5. \A k \in 1 .. Len(q) : q[k] = o \/ \E n \in 1 .. Len(pool[c]) : q[k] = pool[c][n]
      <4>1. \A k \in 1 .. 1 : k = 1
        OBVIOUS
      <4> QED BY <3>2, <3>4, <4>1
    <3> QED BY <2>5, <3>1, <3>5 DEF Vacant
  <2>8. \A u : IsAt(c, m, own[c], u) => IsAt(c, list[c], own[c], u)
    <3>1. \A j \in 1 .. Len(m) : IsSlot(m[j]) /\ m[j].at = own[c] /\ m[j].id = c =>
           \E k \in 1 .. Len(list[c]) : /\ IsPlayer(list[c][k]) /\ list[c][k].at = own[c]
                                        /\ Sit(m[j]) = Sit(list[c][k])
      BY <2>4, KindsDiffer
    <3> QED BY <3>1, IsAtStays
  <2>9. ASSUME NEW e \in Clients \ {c} PROVE Redrawn(l, m, e)
    <3>1. \A a, b \in Copies(l, e) : a = b
      BY DEF CopyInv, Trail, Once
    <3>2. \A a \in Copies(m, e) : a \in 1 .. Len(m) /\ f[a] \in Copies(l, e) /\ m[a] = l[f[a]]
      BY <2>4 DEF Copies
    <3>3. Single(m, e)
      BY <2>4, <3>1, <3>2 DEF Single
    <3> QED BY <3>2, <3>3 DEF Redrawn
  <2> HIDE DEF q
  <2> QED BY <1>1, <1>2, <1>4, <1>8, <2>2, <2>6, <2>7, <2>8, <2>9, LateStep
<1> QED BY <1>9, <1>10

(* A client makes a character: its own, or the copy of another's.             *)
LEMMA CreateStep ==
  ASSUME WorldInv, CopyInv, NEW c \in Clients, NEW type \in {0, 1}, Receives(c, {type}),
         NEW mine \in BOOLEAN, mine <=> type = 0, Create(c, mine),
         IF type = 0 THEN own' = [own EXCEPT ![c] = Head(pool[c]).at] ELSE own' = own
  PROVE  CopyInv'
<1>1. inbox[c] # <<>> /\ running[c]
  BY ReceivedIs
<1>2. PICK p : p = Head(inbox[c])
  OBVIOUS
<1>3. p[1] = type
  BY <1>2, ReceivedIs
<1>4. /\ Things(list[c]) /\ Slots(pool[c]) /\ Apart(list[c], pool[c])
      /\ Mail(c, inbox[c], pool[c], life) /\ IsSeq(inbox[c])
      /\ DOMAIN list = Clients /\ DOMAIN pool = Clients
      /\ DOMAIN own = Clients /\ DOMAIN running = Clients
  BY DEF WorldInv, ClientOK, Mail
<1>5. Len(pool[c]) \in Nat
  BY <1>4, SeqIs DEF Slots
<1>6. pool[c] # <<>>
  <2>1. ~LatePacket(c, life, p)
    BY <1>3 DEF LatePacket, MoveTypes
  <2>2. Len(pool[c]) # 0
    BY <1>1, <1>2, <1>4, <1>5, <2>1, MailTaken
  <2> QED BY <2>2, NoneIs
<1>7. /\ Crowd(c, list[c]) /\ Vacant(pool[c]) /\ Post(c, inbox[c])
      /\ Newcomer(list[c], pool[c], own[c], inbox[c])
  BY DEF CopyInv, Local
<1>8. PICK rest, t : rest = Taken(c) /\ t = Tail(inbox[c])
  OBVIOUS
<1>9. /\ DOMAIN rest = Clients /\ (\A d \in Clients : IsSeq(rest[d])) /\ rest[c] = t
      /\ \A d \in Clients \ {c} : rest[d] = inbox[d]
  BY <1>1, <1>8, TakenIs
<1>10. Post(c, t) /\ Letter(c, p)
  BY <1>1, <1>2, <1>4, <1>7, <1>8, PostTail
<1>11. /\ type = 1 => Newcomer(list[c], pool[c], own[c], t)
       /\ type = 0 => own[c] = 0 /\ Joins(t) = {}
  <2>1. /\ Head(inbox[c])[1] # 0 => Newcomer(list[c], pool[c], own[c], t)
        /\ Head(inbox[c])[1] = 0 => own[c] = 0 /\ Joins(t) = {}
    BY <1>1, <1>4, <1>7, <1>8, NewcomerTail
  <2> QED BY <1>2, <1>3, <2>1
<1>12. /\ type = 0 => p = Join(c)
       /\ type = 1 => \E e \in Clients \ {c} : p = Meet(e)
  BY <1>3, <1>10 DEF Letter
<1>13. p[2] \in Clients /\ (type = 0 => p[2] = c) /\ (type = 1 => p[2] # c /\ p = Meet(p[2]))
  BY <1>12 DEF Join, Meet, mpCreateMyCharacter, mpCreateOtherCharacter
<1>14. Start[p[2]][1] \in 0 .. Right - 1 /\ Start[p[2]][2] \in 0 .. Bottom - 1
  BY <1>13, StartAssumption
<1>15. p[4] = Start[p[2]][1] /\ p[5] = Start[p[2]][2] /\ p[3] = LL
  BY <1>12, <1>13 DEF Join, Meet, mpCreateMyCharacter, mpCreateOtherCharacter
<1>16. OnMap(p[4], p[5])
  BY <1>14, <1>15 DEF OnMap
<1>17. Said(Meet(p[2])) = <<p[4], p[5], Looks(p)>>
  BY <1>13, <1>15 DEF Said, Meet, mpCreateOtherCharacter, Looks
<1> DEFINE slot == Head(pool[c])
           q == Tail(pool[c])
<1>18. /\ IsSlot(slot) /\ Len(q) = Len(pool[c]) - 1 /\ slot = pool[c][1]
       /\ Lacks(list[c], slot.at) /\ \A k \in 1 .. Len(q) : q[k] = pool[c][k + 1]
  <2>1. IsSlot(slot) /\ Lacks(list[c], slot.at)
    BY <1>4, <1>6, TailSlots
  <2>2. /\ Len(q) = Len(pool[c]) - 1 /\ slot = pool[c][1]
        /\ \A k \in 1 .. Len(pool[c]) - 1 : q[k] = pool[c][k + 1]
    BY <1>4, <1>6, TailIs DEF Slots
  <2> QED BY <2>1, <2>2
<1>19. PICK new : new = [SetHP(Placed(NewPlayer(slot, p[2]), p), p[6]) EXCEPT !.mine = mine]
  OBVIOUS
<1> DEFINE o == InputActionProc(new, STAND)
           m == Append(list[c], o)
<1>20. PICK sent : sent = Announcement(new, STAND)
  OBVIOUS
<1>21. /\ list' = [list EXCEPT ![c] = Append(@, o)] /\ pool' = [pool EXCEPT ![c] = q]
       /\ Route(c, sent, rest) /\ running' = running
  BY <1>2, <1>8, <1>19, <1>20 DEF Create, Packet
<1> HIDE DEF q
<1>22. /\ Only(c) /\ list'[c] = m /\ pool'[c] = q
       /\ own'[c] = IF type = 0 THEN slot.at ELSE own[c]
  BY <1>4, <1>21 DEF Only
<1> HIDE DEF slot
<1>23. 1 \in 1 .. Len(pool[c]) /\ \A k \in 1 .. Len(q) : k + 1 \in 1 .. Len(pool[c])
  <2>1. Len(pool[c]) # 0
    BY <1>4, <1>6, TailIs DEF Slots
  <2> QED BY <1>5, <1>18, <2>1
<1>24. slot.at # 0 /\ Vacant(q)
  BY <1>7, <1>18, <1>23 DEF Vacant
<1>25. mine => Calm(slot)
  BY <1>7, <1>11, <1>18, <1>23 DEF Newcomer
<1>26. /\ IsSlot(new) /\ new.x = p[4] /\ new.y = p[5] /\ new.mine = mine
       /\ Stands(o, p) /\ o.mine = mine
  <2>1. IsNew(slot, p, mine, new)
    BY <1>19 DEF IsNew
  <2> HIDE DEF o
  <2>2. PICK z : z = o
    OBVIOUS
  <2> QED BY <1>18, <1>25, <2>1, <2>2, CreatedStands DEF o
<1>27. IsSlot(o) /\ o.at = slot.at
  BY <1>18, <1>19, CreatedIs
<1>28. /\ type = 0 => ToldOthers(c, new, o, sent)
       /\ type = 1 => sent = <<>>
  <2>1. STAND \in Actions
    BY DEF Actions, STAND
  <2>2. PICK z : z = o
    OBVIOUS
  <2>3. ASSUME type = 0 PROVE ToldOthers(c, new, z, sent)
    BY <1>16, <1>20, <1>26, <2>1, <2>2, <2>3, InputTold
  <2>4. type = 1 => sent = <<>>
    BY <1>20, <1>26 DEF Announcement
  <2> QED BY <2>2, <2>3, <2>4
<1> HIDE DEF o
<1>29. Sit(o) = <<p[4], p[5], Looks(p)>> /\ o.action = STAND /\ o.id = p[2]
  <2>1. o.x = p[4] /\ o.y = p[5] /\ o.right = Looks(p) /\ o.action = STAND /\ o.id = p[2]
    BY <1>26 DEF Stands
  <2> QED BY <2>1 DEF Sit, STAND, Moves, LL, LD
<1>30. Citizen(c, o) /\ Calm(o)
  <2>1. o.x = p[4] /\ o.y = p[5]
    BY <1>26 DEF Stands
  <2>2. o.action \notin Attacks
    BY <1>29 DEF STAND, Attacks
  <2>3. o.mine => o.id = c
    BY <1>13, <1>26, <1>29
  <2> QED BY <1>16, <1>24, <1>27, <2>1, <2>2, <2>3 DEF Citizen, Turned, Calm
<1>31. /\ Len(m) = Len(list[c]) + 1 /\ Len(list[c]) \in Nat
       /\ m[Len(list[c]) + 1] = o /\ \A i \in 1 .. Len(list[c]) : m[i] = list[c][i]
  BY <1>4, AppendIs DEF Things
<1> HIDE DEF m
<1>32. \A i \in 1 .. Len(m) : (i \in 1 .. Len(list[c]) /\ m[i] = list[c][i])
          \/ (i = Len(m) /\ m[i] = o)
  BY <1>31
<1>33. Len(m) \in 1 .. Len(m) /\ m[Len(m)] = o
  BY <1>31
<1>34. Crowd(c, m)
  BY <1>7, <1>30, <1>32 DEF Crowd
<1>35. Local(c, list'[c], pool'[c], own'[c], rest[c])
  <2>1. Newcomer(m, q, own'[c], t)
    <3>1. CASE type = 0
      BY <1>11, <1>22, <1>24, <3>1 DEF Newcomer
    <3>2. CASE type = 1
      <4>1. Newcomer(list[c], pool[c], own[c], t) /\ own'[c] = own[c]
        BY <1>11, <1>22, <3>2
      <4>2. CASE own[c] # 0
        BY <4>1, <4>2 DEF Newcomer
      <4>3. CASE own[c] = 0
        <5>1. \A i \in 1 .. Len(m) : IsPlayer(m[i]) => Calm(m[i])
          BY <1>30, <1>32, <4>1, <4>3 DEF Newcomer
        <5>2. \A k \in 1 .. Len(q) : Calm(q[k])
          BY <1>18, <1>23, <4>1, <4>3 DEF Newcomer
        <5> QED BY <4>1, <4>3, <5>1, <5>2 DEF Newcomer
      <4> QED BY <4>2, <4>3
    <3> QED BY <3>1, <3>2
  <2> QED BY <1>9, <1>10, <1>22, <1>24, <1>34, <2>1 DEF Local
<1>36. Heard(c, sent)
  <2>1. CASE type = 0
    <3>1. /\ sent = <<>> \/ \E s : sent = <<s>> /\ WellSent(s)
          /\ sent # <<>> => Said(Relayed(c, sent[1])) = Sit(o)
      BY <1>28, <2>1 DEF ToldOthers
    <3>2. IsSent(sent) /\ WellSaid(sent)
      BY <3>1 DEF IsSent, WellSaid, WellSent
    <3>3. Said(Meet(c)) = Sit(o)
      BY <1>13, <1>17, <1>29, <2>1
    <3>4. IsAt(c, list[c], own[c], Sit(o)) /\ \A u : IsAt(c, list[c], own[c], u) <=> u = Sit(o)
      BY <1>11, <2>1, <3>3 DEF IsAt
    <3>5. \A u : IsAt(c, list'[c], own'[c], u) => u = Sit(o)
      <4> SUFFICES ASSUME NEW u, IsAt(c, list'[c], own'[c], u) PROVE u = Sit(o)
        OBVIOUS
      <4>1. PICK i \in 1 .. Len(m) : IsOwn(m[i], slot.at, c) /\ u = Sit(m[i])
        BY <1>22, <1>24, <2>1 DEF IsAt
      <4>2. i \notin 1 .. Len(list[c]) \/ m[i] # list[c][i]
        BY <1>18, <4>1, KindsDiffer DEF Lacks, IsOwn
      <4> QED BY <1>32, <4>1, <4>2
    <3> QED BY <3>1, <3>2, <3>4, <3>5 DEF Heard, Follows
  <2>2. CASE type = 1
    <3>1. sent = <<>> /\ own'[c] = own[c]
      BY <1>22, <1>28, <2>2
    <3>2. \A j \in 1 .. Len(m) : IsSlot(m[j]) /\ m[j].at = own[c] /\ m[j].id = c =>
           \E i \in 1 .. Len(list[c]) : /\ IsPlayer(list[c][i]) /\ list[c][i].at = own[c]
                                        /\ Sit(m[j]) = Sit(list[c][i])
      BY <1>13, <1>29, <1>32, <2>2, KindsDiffer
    <3>3. \A u : IsAt(c, m, own[c], u) => IsAt(c, list[c], own[c], u)
      BY <3>2, IsAtStays
    <3> QED BY <1>22, <3>1, <3>3 DEF Heard, IsSent, WellSaid
  <2> QED BY <2>1, <2>2
<1>37. ASSUME NEW e \in Clients \ {c} PROVE Faithful(list[c], inbox[c], list'[c], rest[c], e)
  <2>1. Trail(list[c], inbox[c], e)
    BY DEF CopyInv
  <2>2. \A a, b \in Copies(list[c], e) : a = b
    BY <2>1 DEF Trail, Once
  <2>3. ~About(Head(inbox[c]), e)
    BY <1>2, <1>3 DEF About, MoveTypes
  <2>4. CASE type = 1 /\ p[2] = e
    <3>1. Head(inbox[c]) = Meet(e)
      BY <1>2, <1>13, <2>4
    <3>2. Copies(list[c], e) = {}
      <4>1. 1 \in 1 .. Len(inbox[c]) /\ inbox[c][1] = Head(inbox[c])
        <5>1. Len(inbox[c]) \in Nat \ {0} /\ inbox[c][1] = Head(inbox[c])
          BY <1>1, <1>4, TailIs
        <5> QED BY <5>1
      <4>2. 1 \in Meets(inbox[c], e)
        BY <3>1, <4>1 DEF Meets
      <4> QED BY <2>1, <4>2 DEF Trail, Once
    <3>3. \A j \in Copies(m, e) : j = Len(m) /\ m[j] = o
      BY <1>32, <3>2 DEF Copies
    <3>4. Single(m, e) /\ \A j \in Copies(m, e) : Sit(m[j]) = Said(Meet(e))
      BY <1>17, <1>29, <2>4, <3>3 DEF Single
    <3> QED BY <1>1, <1>4, <1>8, <1>9, <1>22, <2>1, <3>1, <3>4, FaithfulMeet
  <2>5. CASE ~(type = 1 /\ p[2] = e)
    <3>1. o.id # e
      BY <1>13, <1>29, <2>5
    <3>2. \A j \in Copies(m, e) : j \in Copies(list[c], e) /\ m[j] = list[c][j]
      BY <1>32, <3>1 DEF Copies
    <3>3. Redrawn(list[c], m, e)
      BY <2>2, <3>2 DEF Redrawn, Single
    <3> QED BY <1>1, <1>4, <1>8, <1>9, <1>22, <2>1, <2>3, <3>3, FaithfulTail
  <2> QED BY <2>4, <2>5
<1> QED BY <1>1, <1>9, <1>21, <1>22, <1>35, <1>36, <1>37, TurnStep
-----------------------------------------------------------------------------
(* The characters of m were those of l at f, and stay like them.              *)
Drawn(l, f, m) ==
  /\ \A a \in 1 .. Len(m) : IsPlayer(m[a]) =>
       /\ f[a] \in 1 .. Len(l) /\ IsPlayer(l[f[a]]) /\ Like(l[f[a]], m[a])
       /\ m[a].at = l[f[a]].at /\ m[a].id = l[f[a]].id /\ m[a].mine = l[f[a]].mine
  /\ \A a, b \in 1 .. Len(m) : IsPlayer(m[a]) /\ IsPlayer(m[b]) /\ f[a] = f[b] => a = b
FreedFrom(l, s) == /\ IsSeq(s)
                   /\ \A k \in 1 .. Len(s) : \E i \in 1 .. Len(l) : IsPlayer(l[i]) /\ s[k] = l[i]

(* The pass over the objects and the sort, as seen by the others: each         *)
(* character left is one there was before, and is drawn where it was, unless   *)
(* it walked (ObjectMgr.cpp:115-174).                                          *)
LEMMA PassDraws ==
  ASSUME NEW l, Things(l)
  PROVE  (\E f : Drawn(l, f, RunPass(l).objects)) /\ FreedFrom(l, RunPass(l).freed)
<1> DEFINE n == Len(l)
           stop == SelectInSeq(l, LAMBDA o : o.dead /\ IsPlayer(o) /\ o.mine)
           reached == 1 .. IF stop = 0 THEN n ELSE stop
           gone == {i \in reached : l[i].dead}
           ran == [i \in 1 .. n |-> IF i \in reached \ gone THEN RunObject(l[i]) ELSE l[i]]
           hits == Picked(l, {i \in reached \ gone : IsPlayer(l[i]) /\ HitNow(l[i])})
           made == [i \in DOMAIN hits |-> NewEffect(hits[i].anim[hits[i].cur].hit)]
           kept == Picked(ran, (1 .. n) \ gone)
           added == IF stop = 0 THEN [i \in DOMAIN made |-> RunEffect(made[i])] ELSE made
           left == Picked(l, {i \in gone : IsPlayer(l[i])})
           freed == Reverse(left)
           run == RunPass(l)
           objects == run.objects
<1>1. objects = kept \o added /\ run.freed = freed
  BY DEF RunPass
<1>2. n \in Nat
  BY SeqIs DEF Things
<1>3. stop \in 0 .. n
  <2> DEFINE I == {i \in 1 .. n : l[i].dead /\ IsPlayer(l[i]) /\ l[i].mine}
  <2>1. stop = IF I # {} THEN Min(I) ELSE 0
    BY DEF SelectInSeq
  <2>2. I \in SUBSET (1 .. n)
    OBVIOUS
  <2> HIDE DEF I, stop
  <2> QED BY <1>2, <2>1, <2>2, FoundFirst
<1>4. reached \in SUBSET (1 .. n) /\ gone \in SUBSET (1 .. n)
  <2> HIDE DEF stop
  <2>1. CASE stop = 0
    BY <2>1
  <2>2. CASE stop # 0
    BY <1>2, <1>3, <2>2
  <2> QED BY <2>1, <2>2
<1>5. Same(l, ran) /\ \A i \in 1 .. n : IsSlot(l[i]) => Like(l[i], ran[i])
  <2>1. IsSeq(ran) /\ Len(ran) = n
    <3>1. ran = [i \in 1 .. n |-> ran[i]]
      OBVIOUS
    <3> HIDE DEF ran
    <3> QED BY <1>2, <3>1, MadeSeq
  <2>2. \A i \in 1 .. n : ran[i] = RunObject(l[i]) \/ ran[i] = l[i]
    OBVIOUS
  <2> HIDE DEF ran
  <2>3. ASSUME NEW i \in 1 .. n
        PROVE  /\ IsSlot(l[i]) => Keeps(l[i], ran[i]) /\ Like(l[i], ran[i])
               /\ IsEffect(l[i]) => IsEffect(ran[i])
    BY <2>2, RunKeeps, RunLike, LikeIs DEF Keeps
  <2> QED BY <2>1, <2>3 DEF Same
<1>6. Things(ran) /\ Len(ran) = n
  <2> HIDE DEF ran, n
  <2>1. Same(l, ran)
    BY <1>5
  <2> QED BY <2>1, SameKeeps DEF Same, n
<1>7. IsSeq(added) /\ \A i \in 1 .. Len(added) : IsEffect(added[i])
  <2>1. PICK m \in Nat : DOMAIN hits = 1 .. m
    <3>1. {i \in reached \ gone : IsPlayer(l[i]) /\ HitNow(l[i])} \in SUBSET (1 .. n)
      BY <1>4
    <3> HIDE DEF reached, gone
    <3>2. PICK f : Part(l, f, hits)
      BY <3>1, PickedPart DEF PartAt
    <3>3. IsSeq(hits)
      BY <3>2 DEF Part
    <3> QED BY <3>3, SeqIs
  <2> HIDE DEF hits
  <2>2. added = [i \in 1 .. m |-> added[i]]
    BY <2>1
  <2>3. \A i \in 1 .. m : \E pos : added[i] = NewEffect(pos) \/ added[i] = RunEffect(NewEffect(pos))
    BY <2>1
  <2> HIDE DEF added
  <2>4. IsSeq(added) /\ Len(added) = m
    BY <2>2, MadeSeq
  <2> QED BY <2>3, <2>4, NewEffectIs, RunKeeps
<1> HIDE DEF reached, added, hits, made, ran, stop
<1>8. PICK f : PartAt(ran, (1 .. n) \ gone, f, kept)
  <2>1. (1 .. n) \ gone \in SUBSET (1 .. Len(ran))
    BY <1>6
  <2> HIDE DEF n, gone
  <2> QED BY <1>6, <2>1, PickedPart
<1>9. PICK g : PartAt(l, {i \in gone : IsPlayer(l[i])}, g, left)
  <2>1. {i \in gone : IsPlayer(l[i])} \in SUBSET (1 .. Len(l))
    BY <1>4
  <2> HIDE DEF gone
  <2> QED BY <2>1, PickedPart
<1> HIDE DEF n, gone, kept, left, run
<1>10. FreedFrom(l, freed)
  <2>1. /\ IsSeq(left) /\ \A a \in 1 .. Len(left) :
             g[a] \in 1 .. Len(l) /\ IsPlayer(l[g[a]]) /\ left[a] = l[g[a]]
    BY <1>9 DEF PartAt, Part
  <2>2. /\ IsSeq(freed) /\ Len(freed) = Len(left)
        /\ \A k \in 1 .. Len(left) : /\ Len(left) - k + 1 \in 1 .. Len(left)
                                     /\ freed[k] = left[Len(left) - k + 1]
    BY <2>1, ReverseIs
  <2> HIDE DEF freed
  <2>3. \A k \in 1 .. Len(freed) : \E a \in 1 .. Len(left) : freed[k] = left[a]
    BY <2>2
  <2>4. ASSUME NEW k \in 1 .. Len(freed)
      PROVE \E i \in 1 .. Len(l) : IsPlayer(l[i]) /\ freed[k] = l[i]
    <3>1. PICK a \in 1 .. Len(left) : freed[k] = left[a]
      BY <2>3
    <3> QED BY <2>1, <3>1
  <2> QED BY <2>2, <2>4 DEF FreedFrom
<1>11. /\ IsSeq(kept) /\ Len(kept) \in Nat
       /\ \A a \in 1 .. Len(kept) : f[a] \in 1 .. n /\ kept[a] = ran[f[a]]
       /\ \A a, b \in 1 .. Len(kept) : f[a] = f[b] => a = b
  BY <1>6, <1>8 DEF PartAt, Part
<1>12. /\ Len(kept \o added) = Len(kept) + Len(added)
       /\ \A k \in 1 .. Len(kept) + Len(added) :
              \/ k \in 1 .. Len(kept) /\ (kept \o added)[k] = kept[k]
              \/ k - Len(kept) \in 1 .. Len(added) /\ (kept \o added)[k] = added[k - Len(kept)]
  BY <1>7, <1>11, JoinedIs
<1> HIDE DEF objects
<1>13. \A k \in 1 .. Len(objects) : IsPlayer(objects[k]) =>
         k \in 1 .. Len(kept) /\ objects[k] = ran[f[k]] /\ f[k] \in 1 .. n
  <2> SUFFICES ASSUME NEW k \in 1 .. Len(objects), IsPlayer(objects[k])
               PROVE  k \in 1 .. Len(kept) /\ objects[k] = ran[f[k]] /\ f[k] \in 1 .. n
    OBVIOUS
  <2>1. ~(k - Len(kept) \in 1 .. Len(added) /\ objects[k] = added[k - Len(kept)])
    BY <1>7, KindsDiffer
  <2>2. k \in 1 .. Len(kept) /\ objects[k] = kept[k]
    BY <1>1, <1>12, <2>1
  <2> QED BY <1>11, <2>2
<1>14. \A i \in 1 .. n : IsPlayer(ran[i]) => IsPlayer(l[i])
        /\ Like(l[i], ran[i]) /\ Keeps(l[i], ran[i])
  BY <1>5, KindsDiffer DEF Same, Things, n
<1>15. Drawn(l, f, objects)
  <2>1. ASSUME NEW k \in 1 .. Len(objects), IsPlayer(objects[k])
        PROVE  /\ f[k] \in 1 .. Len(l) /\ IsPlayer(l[f[k]]) /\ Like(l[f[k]], objects[k])
               /\ objects[k].at = l[f[k]].at /\ objects[k].id = l[f[k]].id
               /\ objects[k].mine = l[f[k]].mine
    <3>1. objects[k] = ran[f[k]] /\ f[k] \in 1 .. n
      BY <1>13, <2>1
    <3>2. IsPlayer(l[f[k]]) /\ Like(l[f[k]], ran[f[k]]) /\ Keeps(l[f[k]], ran[f[k]])
      BY <1>14, <2>1, <3>1
    <3> QED BY <3>1, <3>2 DEF Keeps, n
  <2>2. \A a, b \in 1 .. Len(objects) :
          IsPlayer(objects[a]) /\ IsPlayer(objects[b]) /\ f[a] = f[b] => a = b
    BY <1>11, <1>13
  <2> QED BY <2>1, <2>2 DEF Drawn
<1> QED BY <1>1, <1>10, <1>15 DEF run, objects

LEMMA SortDraws ==
  ASSUME NEW l, NEW m, Things(m), NEW f, Drawn(l, f, m)
  PROVE  \E g : Drawn(l, g, YSort(m))
<1>1. Len(m) \in Nat
  BY SeqIs DEF Things
<1>2. PICK p : Perm(p, Len(m)) /\ YSort(m) = [i \in 1 .. Len(m) |-> m[p[i]]]
  BY <1>1, SortMoves
<1> DEFINE z == YSort(m)
           g == [i \in 1 .. Len(m) |-> f[p[i]]]
<1>3. /\ \A a \in 1 .. Len(m) : p[a] \in 1 .. Len(m) /\ z[a] = m[p[a]] /\ g[a] = f[p[a]]
      /\ \A a, b \in 1 .. Len(m) : p[a] = p[b] => a = b
  BY <1>2 DEF Perm
<1>4. Len(z) = Len(m)
  <2>1. z = [i \in 1 .. Len(m) |-> z[i]]
    BY <1>2
  <2> HIDE DEF z
  <2> QED BY <1>1, <2>1, MadeSeq
<1> HIDE DEF z, g
<1>5. /\ \A a \in 1 .. Len(m) : IsPlayer(m[a]) =>
           /\ f[a] \in 1 .. Len(l) /\ IsPlayer(l[f[a]]) /\ Like(l[f[a]], m[a])
           /\ m[a].at = l[f[a]].at /\ m[a].id = l[f[a]].id /\ m[a].mine = l[f[a]].mine
      /\ \A a, b \in 1 .. Len(m) : IsPlayer(m[a]) /\ IsPlayer(m[b]) /\ f[a] = f[b] => a = b
  BY DEF Drawn
<1>6. ASSUME NEW a \in 1 .. Len(z), IsPlayer(z[a])
      PROVE  /\ g[a] \in 1 .. Len(l) /\ IsPlayer(l[g[a]]) /\ Like(l[g[a]], z[a])
             /\ z[a].at = l[g[a]].at /\ z[a].id = l[g[a]].id /\ z[a].mine = l[g[a]].mine
  <2>1. p[a] \in 1 .. Len(m) /\ z[a] = m[p[a]] /\ g[a] = f[p[a]]
    BY <1>3, <1>4
  <2> QED BY <1>5, <1>6, <2>1
<1>7. \A a, b \in 1 .. Len(z) : IsPlayer(z[a]) /\ IsPlayer(z[b]) /\ g[a] = g[b] => a = b
  BY <1>3, <1>4, <1>5
<1>8. Drawn(l, g, z)
  BY <1>6, <1>7 DEF Drawn
<1> QED BY <1>8 DEF z

(* What the keys make of the list of client c: no character but its own does  *)
(* anything, and the others are told what that one does.                      *)
Pressed(c, in) ==
  /\ \A i \in 1 .. Len(in.objects) : IsPlayer(in.objects[i]) =>
       /\ i \in 1 .. Len(list[c]) /\ IsPlayer(list[c][i])
       /\ in.objects[i].at = list[c][i].at /\ in.objects[i].id = list[c][i].id
       /\ Citizen(c, in.objects[i])
       /\ IF own[c] # 0 /\ list[c][i].at = own[c]
          THEN ToldOthers(c, list[c][i], in.objects[i], in.sent)
          ELSE in.objects[i] = list[c][i]
  /\ Vacant(in.slots)
  /\ own[c] = 0 => in.slots = pool[c] /\ in.sent = <<>>
  /\ life[c] = 0 \/ WellSaid(in.sent)
  /\ in.sent # <<>> /\ life[c] # 0 =>
       \E i \in 1 .. Len(in.objects) :
         own[c] # 0 /\ IsPlayer(in.objects[i]) /\ list[c][i].at = own[c]

LEMMA NothingPressed ==
  ASSUME NEW c \in Clients, CopyInv, NEW in,
         in = [objects |-> list[c], slots |-> pool[c], sent |-> <<>>]
  PROVE  Pressed(c, in)
<1>1. in.objects = list[c] /\ in.slots = pool[c] /\ in.sent = <<>>
  OBVIOUS
<1>2. Crowd(c, list[c]) /\ Vacant(pool[c])
  BY DEF CopyInv, Local
<1>3. \A o : ToldOthers(c, o, o, <<>>)
  BY DEF ToldOthers
<1> QED BY <1>1, <1>2, <1>3 DEF Pressed, Crowd, WellSaid

LEMMA OwnPressed ==
  ASSUME NEW c \in Clients, WorldInv, CopyInv, NEW in, own[c] # 0, NEW act \in Actions,
         NEW i \in 1 .. Len(list[c]), IsPlayer(list[c][i]), list[c][i].at = own[c],
         in = [objects |-> ReplaceAt(list[c], i, InputActionProc(list[c][i], act)),
               slots |-> pool[c], sent |-> Announcement(list[c][i], act)]
  PROVE  Pressed(c, in)
<1>1. PICK o, p, sent : /\ o = list[c][i] /\ p = InputActionProc(o, act)
                        /\ sent = Announcement(o, act)
  OBVIOUS
<1>2. Things(list[c]) /\ Distinct(list[c]) /\ DOMAIN list[c] = 1 .. Len(list[c])
  BY SeqIs DEF WorldInv, ClientOK, Apart, Things
<1>3. Crowd(c, list[c]) /\ Vacant(pool[c])
  BY DEF CopyInv, Local
<1>4. IsOwn(o, own[c], c) /\ Citizen(c, o) /\ IsSlot(o) /\ o.mine
  <2>1. IsOwn(list[c][i], own[c], c)
    BY OwnThere
  <2> QED BY <1>1, <1>3, <2>1 DEF IsOwn, Crowd
<1>5. OnMap(o.x, o.y) /\ Turned(o)
  BY <1>4 DEF Citizen
<1>6. OnMap(p.x, p.y) /\ (Turned(o) => Turned(p)) /\ ToldOthers(c, o, p, sent)
  BY <1>1, <1>4, <1>5, InputTold
<1>7. Keeps(o, p)
  BY <1>1, <1>4, InputKeeps
<1>8. Citizen(c, p) /\ p.at = o.at /\ p.id = o.id /\ IsPlayer(p)
  BY <1>4, <1>5, <1>6, <1>7, KindsDiffer DEF Citizen, Keeps
<1> DEFINE m == [list[c] EXCEPT ![i] = p]
<1>9. Same(list[c], m) /\ \A j \in 1 .. Len(list[c]) : m[j] = IF j = i THEN p ELSE list[c][j]
  BY <1>1, <1>2, <1>4, <1>7, ChangedOne
<1>10. in.objects = m /\ in.slots = pool[c] /\ in.sent = sent
  BY <1>1 DEF ReplaceAt
<1> HIDE DEF m
<1>11. Len(m) = Len(list[c])
  BY <1>9 DEF Same
<1>12. ASSUME NEW j \in 1 .. Len(m), IsPlayer(m[j])
       PROVE  /\ j \in 1 .. Len(list[c]) /\ IsPlayer(list[c][j])
              /\ m[j].at = list[c][j].at /\ m[j].id = list[c][j].id /\ Citizen(c, m[j])
              /\ IF own[c] # 0 /\ list[c][j].at = own[c]
                 THEN ToldOthers(c, list[c][j], m[j], sent) ELSE m[j] = list[c][j]
  <2>1. CASE j = i
    BY <1>1, <1>6, <1>8, <1>9, <1>11, <2>1
  <2>2. CASE j # i
    <3>1. m[j] = list[c][j] /\ j \in 1 .. Len(list[c])
      BY <1>9, <1>11, <2>2
    <3>2. list[c][j].at # own[c]
      BY <1>2, <1>12, <2>2, <3>1 DEF Distinct
    <3> QED BY <1>3, <1>12, <3>1, <3>2 DEF Crowd
  <2> QED BY <2>1, <2>2
<1>13. WellSaid(sent)
  BY <1>6 DEF ToldOthers, WellSaid
<1>14. i \in 1 .. Len(m) /\ IsPlayer(m[i])
  BY <1>8, <1>9, <1>11
<1> QED BY <1>3, <1>10, <1>12, <1>13, <1>14 DEF Pressed

LEMMA SlotChanged ==
  ASSUME NEW q, Slots(q), Vacant(q), NEW k \in 1 .. Len(q), NEW p, Keeps(q[k], p),
         p.at # 0, OnMap(p.x, p.y)
  PROVE  Vacant([q EXCEPT ![k] = p])
<1>1. DOMAIN q = 1 .. Len(q)
  BY SeqIs DEF Slots
<1> DEFINE m == [q EXCEPT ![k] = p]
<1>2. k \in 1 .. Len(q) /\ Keeps(q[k], p)
  OBVIOUS
<1>3. Things(q) /\ IsSlot(q[k])
  BY DEF Things, Slots
<1>4. Same(q, m) /\ \A j \in 1 .. Len(q) : m[j] = IF j = k THEN p ELSE q[j]
  BY <1>2, <1>3, ChangedOne
<1> HIDE DEF m
<1>5. Vacant(m)
  BY <1>4 DEF Same, Vacant
<1> QED BY <1>5 DEF m

LEMMA FreedPressed ==
  ASSUME NEW c \in Clients, WorldInv, CopyInv, running[c], NEW in, own[c] # 0,
         Lacks(list[c], own[c]),
         NEW k \in 0 .. Len(pool[c]), NEW freed, k # 0 => Keeps(pool[c][k], freed),
         k # 0 => freed.x = pool[c][k].x /\ freed.y = pool[c][k].y, NEW act \in Actions,
         in.objects = list[c], in.slots = [pool[c] EXCEPT ![k] = InputActionProc(freed, act)]
  PROVE  Pressed(c, in)
<1>1. Slots(pool[c]) /\ Knows(c, list[c], own[c], running[c], inbox[c], life[c])
  BY DEF WorldInv, ClientOK
<1>2. Crowd(c, list[c]) /\ Vacant(pool[c])
  BY DEF CopyInv, Local
<1>3. life[c] = 0
  <2>1. ~Shows(list[c], own[c], c)
    BY KindsDiffer DEF Lacks, Shows, IsOwn
  <2> QED BY <1>1, <2>1 DEF Knows
<1>4. Vacant(in.slots)
  <2>1. CASE k = 0
    BY <1>1, <1>2, <2>1, NoneReplaced DEF Slots
  <2>2. CASE k # 0
    <3>1. PICK o, p : o = pool[c][k] /\ p = InputActionProc(freed, act)
      OBVIOUS
    <3>2. IsSlot(freed) /\ freed.at = o.at /\ freed.x = o.x /\ freed.y = o.y
          /\ k \in 1 .. Len(pool[c])
      BY <2>2, <3>1 DEF Keeps
    <3>3. IsInput(freed, act, p) /\ Keeps(freed, p)
      BY <3>1, <3>2, InputPose, InputKeeps
    <3>4. p.at = o.at /\ p.x = o.x /\ p.y = o.y
      BY <3>2, <3>3 DEF IsInput, Keeps
    <3>5. p.at # 0 /\ OnMap(p.x, p.y)
      BY <1>2, <3>1, <3>2, <3>4 DEF Vacant
    <3>6. Keeps(pool[c][k], p)
      <4>1. Keeps(pool[c][k], freed)
        BY <2>2
      <4> QED BY <3>3, <4>1 DEF Keeps
    <3>7. Vacant([pool[c] EXCEPT ![k] = p])
      BY <1>1, <1>2, <3>2, <3>5, <3>6, SlotChanged
    <3> QED BY <3>1, <3>7
  <2> QED BY <2>1, <2>2
<1>5. ASSUME NEW i \in 1 .. Len(list[c]), IsPlayer(list[c][i])
      PROVE  Citizen(c, list[c][i]) /\ list[c][i].at # own[c]
  BY <1>2, <1>5 DEF Crowd, Lacks
<1> QED BY <1>3, <1>4, <1>5 DEF Pressed

(* What the keys do before the pass: nothing, a change of the player's own     *)
(* character, or of its slot when it is dead (GameMgr.cpp:259-331).            *)
LEMMA InputPressed ==
  ASSUME NEW c \in Clients, WorldInv, CopyInv, running[c], NEW ended, NEW in, in = Input(c, ended)
  PROVE  Pressed(c, in)
<1> DEFINE i == ListAt(c, own[c])
           k == SelectInSeq(pool[c], LAMBDA s : s.at = own[c])
           freed == IF InAttack(pool[c][k])
                    THEN [pool[c][k] EXCEPT !.anim[pool[c][k].cur].end = ended]
                    ELSE pool[c][k]
           act == ReadAction(held[c])
<1>1. \/ in = [objects |-> list[c], slots |-> pool[c], sent |-> <<>>]
      \/ own[c] # 0 /\ i > 0 /\
         in = [objects |-> ReplaceAt(list[c], i, InputActionProc(list[c][i], act)),
               slots |-> pool[c], sent |-> Announcement(list[c][i], act)]
      \/ own[c] # 0 /\ ~(i > 0) /\
         in = [objects |-> list[c], slots |-> ReplaceAt(pool[c], k, InputActionProc(freed, act)),
               sent |-> Announcement(freed, act)]
  BY DEF Input
<1>2. act \in Actions /\ Len(list[c]) \in Nat /\ Len(pool[c]) \in Nat /\ Slots(pool[c])
  BY ReadActionIs, SeqIs DEF Things, Slots, WorldInv, ClientOK
<1>3. /\ i \in 0 .. Len(list[c]) /\ (i # 0 => IsPlayer(list[c][i]) /\ list[c][i].at = own[c])
      /\ \A j \in 1 .. Len(list[c]) : IsPlayer(list[c][j]) /\ list[c][j].at = own[c] => i # 0
  BY <1>2, ListAtIs
<1> HIDE DEF act, i, k, freed
<1>4. CASE in = [objects |-> list[c], slots |-> pool[c], sent |-> <<>>]
  BY <1>4, NothingPressed
<1>5. CASE own[c] # 0 /\ i > 0 /\
           in = [objects |-> ReplaceAt(list[c], i, InputActionProc(list[c][i], act)),
                 slots |-> pool[c], sent |-> Announcement(list[c][i], act)]
  <2>1. i \in 1 .. Len(list[c]) /\ IsPlayer(list[c][i]) /\ list[c][i].at = own[c]
    BY <1>2, <1>3, <1>5
  <2> QED BY <1>2, <1>5, <2>1, OwnPressed
<1>6. CASE own[c] # 0 /\ ~(i > 0) /\
           in = [objects |-> list[c], slots |-> ReplaceAt(pool[c], k, InputActionProc(freed, act)),
                 sent |-> Announcement(freed, act)]
  <2>1. k \in 0 .. Len(pool[c])
    <3> DEFINE I == {j \in 1 .. Len(pool[c]) : pool[c][j].at = own[c]}
    <3>1. k = IF I # {} THEN Min(I) ELSE 0
      BY DEF SelectInSeq, k
    <3>2. I \in SUBSET (1 .. Len(pool[c]))
      OBVIOUS
    <3> HIDE DEF I
    <3> QED BY <1>2, <3>1, <3>2, FoundFirst
  <2>2. in.objects = list[c] /\ in.slots = [pool[c] EXCEPT ![k] = InputActionProc(freed, act)]
    BY <1>6 DEF ReplaceAt
  <2>3. k # 0 => Keeps(pool[c][k], freed) /\ freed.x = pool[c][k].x /\ freed.y = pool[c][k].y
    <3> SUFFICES ASSUME k # 0
                 PROVE  Keeps(pool[c][k], freed) /\ freed.x = pool[c][k].x /\ freed.y = pool[c][k].y
      OBVIOUS
    <3>1. IsSlot(pool[c][k])
      BY <1>2, <2>1 DEF Slots
    <3> QED BY <3>1 DEF Keeps, IsSlot, freed
  <2>4. Lacks(list[c], own[c])
    <3>1. i = 0
      <4>1. i \in 0 .. Len(list[c]) /\ Len(list[c]) \in Nat /\ ~(i > 0)
        BY <1>2, <1>3, <1>6
      <4> QED BY <4>1
    <3> QED BY <1>3, <3>1 DEF Lacks
  <2> QED BY <1>2, <1>6, <2>1, <2>2, <2>3, <2>4, FreedPressed
<1> QED BY <1>1, <1>4, <1>5, <1>6

(* The list of client c and its free slots after a turn.                      *)
Turns(c, in, m, q) ==
  /\ Things(m) /\ Distinct(m) /\ Pressed(c, in)
  /\ \E f : Drawn(in.objects, f, m)
  /\ \E s : FreedFrom(in.objects, s) /\ q = s \o in.slots /\ IsSeq(in.slots)

LEMMA TurnFreed ==
  ASSUME NEW c \in Clients, CopyInv, NEW in, NEW m, NEW q, Turns(c, in, m, q)
  PROVE  Vacant(q) /\ Newcomer(m, q, own[c], inbox[c])
<1>1. Pressed(c, in)
  BY DEF Turns
<1>2. PICK f : Drawn(in.objects, f, m)
  BY DEF Turns
<1>3. PICK s : FreedFrom(in.objects, s) /\ q = s \o in.slots /\ IsSeq(in.slots)
  BY DEF Turns
<1>4. Newcomer(list[c], pool[c], own[c], inbox[c])
  BY DEF CopyInv, Local
<1>5. /\ Len(q) = Len(s) + Len(in.slots)
      /\ \A k \in 1 .. Len(s) + Len(in.slots) :
           \/ k \in 1 .. Len(s) /\ q[k] = s[k]
           \/ k - Len(s) \in 1 .. Len(in.slots) /\ q[k] = in.slots[k - Len(s)]
  BY <1>3, JoinedIs DEF FreedFrom
<1>6. \A k \in 1 .. Len(q) :
        \/ \E i \in 1 .. Len(in.objects) : IsPlayer(in.objects[i]) /\ q[k] = in.objects[i]
        \/ \E j \in 1 .. Len(in.slots) : q[k] = in.slots[j]
  <2> SUFFICES ASSUME NEW k \in 1 .. Len(q),
                      ~\E j \in 1 .. Len(in.slots) : q[k] = in.slots[j]
               PROVE  \E i \in 1 .. Len(in.objects) :
                        IsPlayer(in.objects[i]) /\ q[k] = in.objects[i]
    OBVIOUS
  <2>1. k \in 1 .. Len(s) /\ q[k] = s[k]
    BY <1>5
  <2> QED BY <1>3, <2>1 DEF FreedFrom
<1>7. Vacant(q)
  <2>1. \A i \in 1 .. Len(in.objects) : IsPlayer(in.objects[i]) => Citizen(c, in.objects[i])
    BY <1>1 DEF Pressed
  <2>2. Vacant(in.slots)
    BY <1>1 DEF Pressed
  <2> QED BY <1>6, <2>1, <2>2 DEF Vacant, Citizen
<1>8. CASE own[c] # 0
  BY <1>4, <1>7, <1>8 DEF Newcomer
<1>9. CASE own[c] = 0
  <2>1. \A i \in 1 .. Len(in.objects) : IsPlayer(in.objects[i]) => Calm(in.objects[i])
    BY <1>1, <1>4, <1>9 DEF Pressed, Newcomer
  <2>2. in.slots = pool[c]
    BY <1>1, <1>9 DEF Pressed
  <2>3. \A k \in 1 .. Len(q) : Calm(q[k])
    BY <1>4, <1>6, <1>9, <2>1, <2>2 DEF Newcomer
  <2>4. \A i \in 1 .. Len(m) : IsPlayer(m[i]) => Calm(m[i])
    BY <1>2, <2>1 DEF Drawn, Like
  <2> QED BY <1>4, <1>7, <1>9, <2>3, <2>4 DEF Newcomer
<1> QED BY <1>8, <1>9

(* What the characters of the list after a turn were before it.               *)
Was(c, in, m, a, i) ==
  /\ i \in 1 .. Len(list[c]) /\ IsPlayer(list[c][i]) /\ Citizen(c, m[a])
  /\ m[a].at = list[c][i].at /\ m[a].id = list[c][i].id /\ Sit(m[a]) = Sit(in.objects[i])
  /\ IF own[c] # 0 /\ list[c][i].at = own[c]
     THEN ToldOthers(c, list[c][i], in.objects[i], in.sent)
     ELSE Sit(in.objects[i]) = Sit(list[c][i])

LEMMA TurnWas ==
  ASSUME NEW c \in Clients, NEW in, NEW m, NEW q, Turns(c, in, m, q)
  PROVE  \E f : /\ \A a \in 1 .. Len(m) : IsPlayer(m[a]) => Was(c, in, m, a, f[a])
                /\ \A a, b \in 1 .. Len(m) : IsPlayer(m[a]) /\ IsPlayer(m[b]) /\ f[a] = f[b]
                      => a = b
<1>1. Pressed(c, in)
  BY DEF Turns
<1>2. PICK f : Drawn(in.objects, f, m)
  BY DEF Turns
<1>3. ASSUME NEW a \in 1 .. Len(m), IsPlayer(m[a]) PROVE Was(c, in, m, a, f[a])
  <2>1. PICK i, o, p : i = f[a] /\ o = in.objects[i] /\ p = m[a]
    OBVIOUS
  <2>2. /\ i \in 1 .. Len(in.objects) /\ IsPlayer(o) /\ Like(o, p)
        /\ p.at = o.at /\ p.id = o.id /\ p.mine = o.mine
    BY <1>2, <1>3, <2>1 DEF Drawn
  <2>3. /\ i \in 1 .. Len(list[c]) /\ IsPlayer(list[c][i])
        /\ o.at = list[c][i].at /\ o.id = list[c][i].id /\ Citizen(c, o)
        /\ IF own[c] # 0 /\ list[c][i].at = own[c]
           THEN ToldOthers(c, list[c][i], o, in.sent) ELSE o = list[c][i]
    BY <1>1, <2>1, <2>2 DEF Pressed
  <2>4. Citizen(c, p) /\ Sit(o) = Sit(p)
    BY <2>2, <2>3 DEF Citizen, Like
  <2> QED BY <2>1, <2>2, <2>3, <2>4 DEF Was
<1>4. \A a, b \in 1 .. Len(m) : IsPlayer(m[a]) /\ IsPlayer(m[b]) /\ f[a] = f[b] => a = b
  BY <1>2 DEF Drawn
<1> QED BY <1>3, <1>4

LEMMA TurnRedraws ==
  ASSUME NEW c \in Clients, WorldInv, CopyInv, NEW in, NEW m, NEW q, Turns(c, in, m, q),
         NEW e \in Clients \ {c}
  PROVE  Redrawn(list[c], m, e)
<1>1. PICK f : /\ \A a \in 1 .. Len(m) : IsPlayer(m[a]) => Was(c, in, m, a, f[a])
               /\ \A a, b \in 1 .. Len(m) : IsPlayer(m[a]) /\ IsPlayer(m[b]) /\ f[a] = f[b] => a = b
  BY TurnWas
<1>2. ASSUME NEW a \in Copies(m, e)
      PROVE  /\ a \in 1 .. Len(m) /\ IsPlayer(m[a]) /\ f[a] \in Copies(list[c], e)
             /\ Sit(m[a]) = Sit(list[c][f[a]])
  <2>1. a \in 1 .. Len(m) /\ IsPlayer(m[a]) /\ m[a].id = e
    BY CopiesAre, KindsDiffer DEF Turns
  <2>2. Was(c, in, m, a, f[a])
    BY <1>1, <2>1
  <2>3. ~(own[c] # 0 /\ list[c][f[a]].at = own[c])
    <3>1. f[a] \in 1 .. Len(list[c]) /\ IsPlayer(list[c][f[a]]) /\ list[c][f[a]].id = e
      BY <2>1, <2>2 DEF Was
    <3> QED BY <3>1, OwnThere DEF IsOwn
  <2> QED BY <2>1, <2>2, <2>3 DEF Was, Copies
<1>3. \A a, b \in Copies(list[c], e) : a = b
  BY DEF CopyInv, Trail, Once
<1>4. Single(m, e)
  BY <1>1, <1>2, <1>3 DEF Single
<1> QED BY <1>2, <1>4 DEF Redrawn

LEMMA TurnHeard ==
  ASSUME NEW c \in Clients, WorldInv, CopyInv, NEW in, NEW m, NEW q, Turns(c, in, m, q),
         IsSent(in.sent), list'[c] = m, own'[c] = own[c]
  PROVE  Heard(c, in.sent)
<1>1. PICK f : /\ \A a \in 1 .. Len(m) : IsPlayer(m[a]) => Was(c, in, m, a, f[a])
               /\ \A a, b \in 1 .. Len(m) : IsPlayer(m[a]) /\ IsPlayer(m[b]) /\ f[a] = f[b] => a = b
  BY TurnWas
<1>2. Pressed(c, in)
  BY DEF Turns
<1>3. life[c] \in Nat
  BY DEF WorldInv
<1>4. ASSUME in.sent # <<>>, life[c] > 0
      PROVE  \E u : IsAt(c, list[c], own[c], u) /\ Follows(u, Said(Relayed(c, in.sent[1])))
  <2>1. PICK i \in 1 .. Len(in.objects) :
          own[c] # 0 /\ IsPlayer(in.objects[i]) /\ list[c][i].at = own[c]
    BY <1>2, <1>3, <1>4 DEF Pressed
  <2>2. /\ i \in 1 .. Len(list[c]) /\ IsPlayer(list[c][i])
        /\ ToldOthers(c, list[c][i], in.objects[i], in.sent)
    BY <1>2, <2>1 DEF Pressed
  <2>3. IsOwn(list[c][i], own[c], c)
    BY <2>1, <2>2, OwnThere
  <2>4. IsAt(c, list[c], own[c], Sit(list[c][i]))
    BY <2>1, <2>2, <2>3 DEF IsAt
  <2>5. Follows(Sit(list[c][i]), Said(Relayed(c, in.sent[1])))
    BY <1>4, <2>2 DEF ToldOthers
  <2> QED BY <2>4, <2>5
<1>5. ASSUME NEW u, IsAt(c, m, own[c], u)
      PROVE  IF in.sent = <<>> THEN IsAt(c, list[c], own[c], u)
             ELSE u = Said(Relayed(c, in.sent[1]))
  <2>1. CASE own[c] = 0
    BY <1>2, <1>5, <2>1 DEF Pressed, IsAt
  <2>2. CASE own[c] # 0
    <3>1. PICK a \in 1 .. Len(m) : IsOwn(m[a], own[c], c) /\ u = Sit(m[a])
      BY <1>5, <2>2 DEF IsAt
    <3>2. Was(c, in, m, a, f[a]) /\ m[a].at = own[c]
      BY <1>1, <3>1, KindsDiffer DEF IsOwn
    <3>3. PICK i, o : i = f[a] /\ o = list[c][i]
      OBVIOUS
    <3>4. /\ i \in 1 .. Len(list[c]) /\ IsPlayer(o) /\ o.at = own[c] /\ u = Sit(in.objects[i])
          /\ ToldOthers(c, o, in.objects[i], in.sent)
      BY <2>2, <3>1, <3>2, <3>3 DEF Was
    <3>5. IsOwn(o, own[c], c)
      BY <2>2, <3>3, <3>4, OwnThere
    <3>6. IsAt(c, list[c], own[c], Sit(o))
      BY <2>2, <3>3, <3>4, <3>5 DEF IsAt
    <3> QED BY <3>4, <3>6 DEF ToldOthers
  <2> QED BY <2>1, <2>2
<1>6. life[c] = 0 \/ WellSaid(in.sent)
  BY <1>2 DEF Pressed
<1> QED BY <1>4, <1>5, <1>6 DEF Heard

(* A whole turn (GameMgr.cpp:239-257): the keys and the packet sent, the pass, *)
(* the slots freed and the sort.                                               *)
LEMMA RunCycleStep ==
  ASSUME WorldInv, CopyInv, NEW c \in Clients, RunCycle(c)
  PROVE  CopyInv'
<1>1. running[c] /\ own' = own
  BY DEF RunCycle
<1>2. PICK ended \in BOOLEAN : \E run \in {RunPass(Input(c, ended).objects)} :
         /\ list' = [list EXCEPT ![c] = YSort(run.objects)]
         /\ pool' = [pool EXCEPT ![c] = run.freed \o Input(c, ended).slots]
         /\ running' = [running EXCEPT ![c] = run.ok]
         /\ Route(c, Input(c, ended).sent, inbox)
  BY DEF RunCycle
<1>3. PICK in : in = Input(c, ended)
  OBVIOUS
<1>4. PICK run, m, q : run = RunPass(in.objects) /\ m = YSort(run.objects)
          /\ q = run.freed \o in.slots
  OBVIOUS
<1>5. /\ list' = [list EXCEPT ![c] = m] /\ pool' = [pool EXCEPT ![c] = q]
      /\ running' = [running EXCEPT ![c] = run.ok] /\ Route(c, in.sent, inbox)
  BY <1>2, <1>3, <1>4
<1>6. /\ Things(list[c]) /\ Slots(pool[c]) /\ Apart(list[c], pool[c])
      /\ DOMAIN list = Clients /\ DOMAIN pool = Clients
      /\ DOMAIN own = Clients /\ DOMAIN running = Clients /\ DOMAIN inbox = Clients
      /\ \A d \in Clients : IsSeq(inbox[d])
  BY DEF WorldInv, ClientOK, Mail
<1>7. list'[c] = m /\ pool'[c] = q /\ own'[c] = own[c] /\ Only(c)
  BY <1>1, <1>5, <1>6 DEF Only
<1>8. Things(in.objects) /\ IsSent(in.sent) /\ Slots(in.slots)
  BY <1>3, <1>6, InputIs
<1>9. Things(m) /\ Distinct(m)
  <2>1. WorldInv'
    BY RunCycleKeeps
  <2>2. Things(list'[c]) /\ Distinct(list'[c])
    BY <2>1 DEF WorldInv, ClientOK, Apart
  <2> QED BY <1>7, <2>2
<1>10. Turns(c, in, m, q)
  <2>1. Pressed(c, in)
    BY <1>1, <1>3, InputPressed
  <2>2. (\E f : Drawn(in.objects, f, run.objects)) /\ FreedFrom(in.objects, run.freed)
    BY <1>4, <1>8, PassDraws
  <2>3. Things(run.objects)
    <3>1. Apart(in.objects, in.slots)
      BY <1>3, <1>6, InputIs
    <3> QED BY <1>4, <1>8, <3>1, PassKeeps
  <2>4. \E f : Drawn(in.objects, f, m)
    BY <1>4, <2>2, <2>3, SortDraws
  <2>5. \E s : FreedFrom(in.objects, s) /\ q = s \o in.slots /\ IsSeq(in.slots)
    BY <1>4, <1>8, <2>2 DEF Slots
  <2> QED BY <1>9, <2>1, <2>4, <2>5 DEF Turns
<1>11. Heard(c, in.sent)
  BY <1>7, <1>8, <1>10, TurnHeard
<1>12. Local(c, list'[c], pool'[c], own'[c], inbox[c])
  <2>1. Vacant(q) /\ Newcomer(m, q, own[c], inbox[c])
    BY <1>10, TurnFreed
  <2>2. Crowd(c, m)
    <3>1. PICK f : \A a \in 1 .. Len(m) : IsPlayer(m[a]) => Was(c, in, m, a, f[a])
      BY <1>10, TurnWas
    <3> QED BY <3>1 DEF Crowd, Was
  <2>3. Post(c, inbox[c])
    BY DEF CopyInv, Local
  <2> QED BY <1>7, <2>1, <2>2, <2>3 DEF Local
<1>13. ASSUME NEW e \in Clients \ {c} PROVE Faithful(list[c], inbox[c], list'[c], inbox[c], e)
  <2>1. Trail(list[c], inbox[c], e)
    BY DEF CopyInv
  <2>2. Redrawn(list[c], m, e)
    BY <1>10, TurnRedraws
  <2> QED BY <1>7, <2>1, <2>2, FaithfulSame
<1>14. PICK rest, sent : rest = inbox /\ sent = in.sent
  OBVIOUS
<1>15. /\ DOMAIN rest = Clients /\ (\A d \in Clients : IsSeq(rest[d]))
       /\ (\A d \in Clients \ {c} : rest[d] = inbox[d]) /\ Heard(c, sent) /\ Route(c, sent, rest)
       /\ Local(c, list'[c], pool'[c], own'[c], rest[c])
       /\ \A e \in Clients \ {c} : Faithful(list[c], inbox[c], list'[c], rest[c], e)
  BY <1>5, <1>6, <1>11, <1>12, <1>13, <1>14
<1> QED BY <1>1, <1>7, <1>15, TurnStep
-----------------------------------------------------------------------------
(* Nothing is twice in a sequence made of a set.                              *)
LEMMA SetToSeqOnce ==
  ASSUME NEW S, IsFiniteSet(S)
  PROVE  \A i, j \in 1 .. Cardinality(S) : SetToSeq(S)[i] = SetToSeq(S)[j] => i = j
<1> DEFINE n == Cardinality(S)
           s == SetToSeq(S)
<1>1. \E f \in [1 .. n -> S] : IsInjective(f)
  BY FS_CardinalityType DEF ExistsBijection, Bijection, Injection
<1>2. s = CHOOSE f \in [1 .. n -> S] : IsInjective(f)
  BY DEF SetToSeq
<1> HIDE DEF n, s
<1>3. s \in [1 .. n -> S] /\ IsInjective(s)
  BY <1>1, <1>2
<1>4. \A i, j \in 1 .. n : s[i] = s[j] => i = j
  BY <1>3 DEF IsInjective
<1> QED BY <1>4 DEF n, s

(* The first packets of client c: its own character, then each of the others. *)
Welcome(c, box) ==
  /\ 1 \in 1 .. Len(box) /\ box[1] = Join(c)
  /\ \A k \in 1 .. Len(box) : k # 1 => \E e \in Clients \ {c} : box[k] = Meet(e)
  /\ \A j, k \in 1 .. Len(box) : box[j] = box[k] => j = k

LEMMA FirstsAre ==
  \A c : Join(c)[1] = 0 /\ Meet(c)[1] = 1
BY DEF Join, Meet, mpCreateMyCharacter, mpCreateOtherCharacter

(* The packets every client finds at the start: its own character, then each   *)
(* other once.                                                                 *)
LEMMA InitBox ==
  ASSUME Init, NEW c \in Clients
  PROVE  Welcome(c, inbox[c])
<1> DEFINE S == {Meet(d) : d \in Clients \ {c}}
<1>1. inbox[c] = <<Join(c)>> \o SetToSeq(S)
  BY DEF Init
<1>2. IsFiniteSet(S)
  <2> DEFINE g == [d \in Clients \ {c} |-> Meet(d)]
  <2>1. IsFiniteSet(Clients \ {c})
    BY ClientsAssumption, FS_RemoveElement
  <2>2. g \in Surjection(Clients \ {c}, S)
    BY DEF Surjection
  <2> HIDE DEF g, S
  <2> QED BY <2>1, <2>2, FS_Surjection
<1>3. \A p \in S : \E e \in Clients \ {c} : p = Meet(e)
  OBVIOUS
<1>4. \A p \in S : p # Join(c)
  BY <1>3, FirstsAre
<1> HIDE DEF S
<1> DEFINE first == <<Join(c)>>
           others == SetToSeq(S)
<1>5. IsSeq(first) /\ Len(first) = 1 /\ first[1] = Join(c)
  <2>1. PICK j : j = Join(c)
    OBVIOUS
  <2> QED BY <2>1, OneIs
<1>6. /\ IsSeq(others) /\ Len(others) \in Nat
      /\ \A i \in 1 .. Len(others) : others[i] \in S
      /\ \A i, j \in 1 .. Len(others) : others[i] = others[j] => i = j
  BY <1>2, SetToSeqIs, SetToSeqOnce
<1> HIDE DEF first, others
<1> DEFINE box == first \o others
<1>7. /\ Len(box) = Len(first) + Len(others)
      /\ \A k \in 1 .. Len(first) + Len(others) :
           \/ k \in 1 .. Len(first) /\ box[k] = first[k]
           \/ k - Len(first) \in 1 .. Len(others) /\ box[k] = others[k - Len(first)]
  BY <1>5, <1>6, JoinedIs
<1>8. box = inbox[c]
  BY <1>1 DEF first, others
<1> HIDE DEF box
<1>9. \A k \in 1 .. Len(box) : \/ k = 1 /\ box[k] = Join(c)
                               \/ k # 1 /\ k - 1 \in 1 .. Len(others) /\ box[k] = others[k - 1]
  <2> SUFFICES ASSUME NEW k \in 1 .. Len(box), ~(k = 1 /\ box[k] = Join(c))
               PROVE  k # 1 /\ k - 1 \in 1 .. Len(others) /\ box[k] = others[k - 1]
    OBVIOUS
  <2>1. ~(k \in 1 .. Len(first) /\ box[k] = first[k])
    BY <1>5
  <2>2. k - 1 \in 1 .. Len(others) /\ box[k] = others[k - 1]
    BY <1>5, <1>7, <2>1
  <2> QED BY <2>2
<1>10. 1 \in 1 .. Len(box) /\ box[1] = Join(c)
  <2>1. 1 \in 1 .. Len(box)
    BY <1>5, <1>6, <1>7
  <2> QED BY <1>9, <2>1
<1>11. \A k \in 1 .. Len(box) : k # 1 => \E e \in Clients \ {c} : box[k] = Meet(e)
  BY <1>3, <1>6, <1>9
<1>12. ASSUME NEW j \in 1 .. Len(box), NEW k \in 1 .. Len(box), box[j] = box[k] PROVE j = k
  <2>1. CASE j = 1 \/ k = 1
    BY <1>4, <1>6, <1>9, <1>12, <2>1
  <2>2. CASE j # 1 /\ k # 1
    <3>1. j - 1 = k - 1
      BY <1>6, <1>9, <1>12, <2>2
    <3> QED BY <3>1
  <2> QED BY <2>1, <2>2
<1> QED BY <1>8, <1>10, <1>11, <1>12 DEF Welcome

LEMMA WelcomeIs ==
  ASSUME NEW c \in Clients, NEW box, Welcome(c, box)
  PROVE  /\ Post(c, box) /\ Joins(box) = {1}
         /\ \A e \in Clients \ {c} :
              /\ \A k \in 1 .. Len(box) : ~About(box[k], e)
              /\ \A i, j \in Meets(box, e) : i = j
<1>1. /\ 1 \in 1 .. Len(box) /\ box[1] = Join(c)
      /\ \A k \in 1 .. Len(box) : k # 1 => \E e \in Clients \ {c} : box[k] = Meet(e)
      /\ \A j, k \in 1 .. Len(box) : box[j] = box[k] => j = k
  BY DEF Welcome
<1>2. \A k \in 1 .. Len(box) : box[k][1] \in {0, 1} /\ (box[k][1] = 0 <=> k = 1)
  BY <1>1, FirstsAre
<1>3. ASSUME NEW k \in 1 .. Len(box) PROVE Letter(c, box[k])
  <2>1. box[k][1] \notin MoveTypes /\ box[k][1] # 251
    BY <1>2 DEF MoveTypes
  <2>2. CASE k = 1
    BY <1>1, <2>1, <2>2, FirstsAre DEF Letter
  <2>3. CASE k # 1
    BY <1>1, <1>2, <2>1, <2>3 DEF Letter
  <2> QED BY <2>2, <2>3
<1>4. SyncsFollowed(box)
  BY <1>2 DEF SyncsFollowed
<1>5. Joins(box) = {1}
  BY <1>1, <1>2 DEF Joins
<1>6. \A e : \A k \in 1 .. Len(box) : ~About(box[k], e)
  BY <1>2 DEF About, MoveTypes
<1>7. \A e : \A i, j \in Meets(box, e) : i = j
  BY <1>1 DEF Meets
<1> QED BY <1>3, <1>4, <1>5, <1>6, <1>7 DEF Post

(* At the start the lists are empty and the boxes say where everyone is.       *)
LEMMA InitCopy ==
  ASSUME Init
  PROVE  CopyInv
<1>1. ASSUME NEW c \in Clients PROVE Local(c, list[c], pool[c], own[c], inbox[c])
  <2>1. list[c] = <<>> /\ own[c] = 0 /\ Len(list[c]) = 0
    BY NoneIs DEF Init
  <2>2. Post(c, inbox[c]) /\ Joins(inbox[c]) = {1}
    BY InitBox, WelcomeIs
  <2> DEFINE N == Cardinality(Clients)
             q == [k \in 1 .. N |-> FreshSlot(k)]
  <2>3. pool[c] = q
    BY DEF Init
  <2>4. N \in Nat
    BY ClientsAssumption, FS_CardinalityType
  <2>5. Len(q) = N /\ \A k \in 1 .. N : q[k] = FreshSlot(k) /\ k # 0
    <3>1. q = [k \in 1 .. N |-> q[k]] /\ \A k \in 1 .. N : q[k] = FreshSlot(k) /\ k # 0
      OBVIOUS
    <3> HIDE DEF q, N
    <3> QED BY <2>4, <3>1, MadeSeq
  <2> HIDE DEF q, N
  <2>6. \A k : LET s == FreshSlot(k) IN s.at = k /\ OnMap(s.x, s.y) /\ Calm(s)
    <3>1. OnMap(0, 0)
      BY RangeAssumption DEF OnMap
    <3>2. LL \notin Attacks
      BY DEF LL, Attacks
    <3> QED BY <3>1, <3>2 DEF FreshSlot, Calm
  <2>7. Vacant(q) /\ \A k \in 1 .. Len(q) : Calm(q[k])
    BY <2>5, <2>6 DEF Vacant
  <2>8. Crowd(c, list[c])
    BY <2>1 DEF Crowd
  <2>9. Newcomer(list[c], pool[c], own[c], inbox[c])
    BY <2>1, <2>2, <2>3, <2>7 DEF Newcomer
  <2> QED BY <2>2, <2>3, <2>7, <2>8, <2>9 DEF Local
<1>2. ASSUME NEW d \in Clients, NEW c \in Clients \ {d}
      PROVE  Trail(list[d], inbox[d], c) /\ Linked(c, list[c], own[c], list[d], inbox[d])
  <2>1. list[d] = <<>> /\ own[c] = 0 /\ Len(list[d]) = 0
    BY NoneIs DEF Init
  <2>2. Copies(list[d], c) = {}
    BY <2>1 DEF Copies
  <2>3. /\ \A k \in 1 .. Len(inbox[d]) : ~About(inbox[d][k], c)
        /\ \A i, j \in Meets(inbox[d], c) : i = j
    BY InitBox, WelcomeIs
  <2>4. Trail(list[d], inbox[d], c)
    BY <2>2, <2>3 DEF Trail, Once, Chained
  <2>5. Linked(c, list[c], own[c], list[d], inbox[d])
    BY <2>1, <2>2, <2>3 DEF Linked, IsAt, Becomes
  <2> QED BY <2>4, <2>5
<1> QED BY <1>1, <1>2 DEF CopyInv

(* Every step preserves CopyInv, given WorldInv: one lemma to an action.       *)
LEMMA NextCopies ==
  ASSUME WorldInv, CopyInv, [Next]_vars
  PROVE  CopyInv'
<1>1. CASE UNCHANGED <<list, pool, own, running, inbox, life>>
  BY <1>1 DEF CopyInv
<1>2. CASE Next
  <2>1. PICK c \in Clients :
          RunCycle(c) \/ PacketProc(c) \/ ActivateApp(c) \/ \E k \in Keys : PressKey(c, k)
    BY <1>2 DEF Next
  <2>2. CASE RunCycle(c)
    BY <2>2, RunCycleStep
  <2>3. CASE netPacketProc_CreateMyCharacter(c)
    <3>1. Receives(c, {0}) /\ Create(c, TRUE) /\ own' = [own EXCEPT ![c] = Head(pool[c]).at]
      BY <2>3 DEF netPacketProc_CreateMyCharacter
    <3>2. 0 \in {0, 1} /\ TRUE \in BOOLEAN /\ (TRUE <=> 0 = 0)
          /\ IF 0 = 0 THEN own' = [own EXCEPT ![c] = Head(pool[c]).at] ELSE own' = own
      BY <3>1
    <3> QED BY <3>1, <3>2, CreateStep
  <2>4. CASE netPacketProc_CreateOtherCharacter(c)
    <3>1. Receives(c, {1}) /\ Create(c, FALSE) /\ own' = own
      BY <2>4 DEF netPacketProc_CreateOtherCharacter
    <3>2. 1 \in {0, 1} /\ FALSE \in BOOLEAN /\ (FALSE <=> 1 = 0)
          /\ IF 1 = 0 THEN own' = [own EXCEPT ![c] = Head(pool[c]).at] ELSE own' = own
      BY <3>1
    <3> QED BY <3>1, <3>2, CreateStep
  <2>5. CASE netPacketProc_DeleteCharacter(c)
    BY <2>5, DeleteStep
  <2>6. CASE netPacketProc_MoveStart(c)
    BY <2>6, MoveStartStep
  <2>7. CASE netPacketProc_MoveStop(c)
    BY <2>7, MoveStopStep
  <2>8. CASE netPacketProc_Attack(c)
    BY <2>8, AttackStep
  <2>9. CASE netPacketProc_Damage(c)
    BY <2>9, DamageStep
  <2>10. CASE netPacketProc_Sync(c)
    BY <2>10, SyncStep
  <2>11. CASE ActivateApp(c)
    BY <1>1, <2>11 DEF ActivateApp
  <2>12. CASE \E k \in Keys : PressKey(c, k)
    BY <1>1, <2>12 DEF PressKey
  <2> QED BY <2>1, <2>2, <2>3, <2>4, <2>5, <2>6, <2>7, <2>8, <2>9, <2>10, <2>11, <2>12
          DEF PacketProc
<1>3. CASE UNCHANGED vars
  BY <1>1, <1>3 DEF vars
<1> QED BY <1>2, <1>3

(* Both hold in every state.                                                   *)
LEMMA CopiesAlways ==
  Spec => [](WorldInv /\ CopyInv)
<1>1. Init => WorldInv /\ CopyInv
  BY InitWorld, InitCopy
<1>2. WorldInv /\ CopyInv /\ [Next]_vars => (WorldInv /\ CopyInv)'
  BY NextKeeps, NextCopies
<1> QED BY <1>1, <1>2, PTL DEF Spec

(* With nothing under way, what the copy is to become is what it is.           *)
LEMMA CopiesAgree ==
  ASSUME WorldInv, CopyInv
  PROVE  CopyAgrees
<1> SUFFICES ASSUME NEW c \in Clients, NEW d \in Clients, NEW i, i = OwnIndex(c),
                    NEW j, j = Index(d, c), c # d, running[c], i # 0, j # 0, inbox[d] = <<>>,
                    life[c] > 0, list[c][i].action = STAND, list[d][j].action = STAND
             PROVE  <<list[c][i].x, list[c][i].y, list[c][i].right>>
                      = <<list[d][j].x, list[d][j].y, list[d][j].right>>
  BY DEF CopyAgrees
<1>1. PICK o, p : o = list[c][i] /\ p = list[d][j]
  OBVIOUS
<1>2. Len(list[c]) \in Nat /\ Len(list[d]) \in Nat
  BY SeqIs DEF WorldInv, ClientOK, Things
<1>3. own[c] # 0 /\ i = ListAt(c, own[c])
  BY DEF OwnIndex
<1>4. i \in 0 .. Len(list[c])
  BY <1>2, <1>3, ListAtIs
<1>5. i \in 1 .. Len(list[c]) /\ IsOwn(o, own[c], c)
  BY <1>1, <1>2, <1>4, OwnIndexIs
<1>6. IsAt(c, list[c], own[c], Sit(o))
  BY <1>1, <1>3, <1>5 DEF IsAt
<1>7. j \in 0 .. Len(list[d]) /\ p.id = c
  BY <1>1, <1>2, IndexIs
<1>8. j \in Copies(list[d], c)
  BY <1>1, <1>2, <1>7 DEF Copies
<1>9. Becomes(list[d], inbox[d], c, Len(inbox[d]), Sit(p))
  <2>1. Len(inbox[d]) = 0
    BY NoneIs
  <2> QED BY <1>1, <1>8, <2>1 DEF Becomes, Quiet
<1>10. Sit(o) = Sit(p)
  BY <1>6, <1>9 DEF CopyInv, Linked
<1>11. STAND \notin Moves
  BY DEF STAND, Moves, LL, LD
<1> QED BY <1>1, <1>10, <1>11 DEF Sit

(* Once nothing is on its way to a client, its copy of a character that        *)
(* stands, if it stands too, is where that character is and looks where it     *)
(* looks (PlayerObject.cpp:238): the packets about a character, with the       *)
(* corrections the server adds, leave the copies where the original is.        *)
THEOREM CopiesAlwaysAgree ==
  Spec => []CopyAgrees
<1>1. WorldInv /\ CopyInv => CopyAgrees
  BY CopiesAgree
<1> QED BY <1>1, CopiesAlways, PTL

(* An attack that is dealt with turns the copy and starts its animation anew.  *)
LEMMA ShownStep ==
  ASSUME WorldInv, CopyInv, NEW c \in Clients, netPacketProc_Attack(c),
         NEW i, i = Index(c, Packet(c)[2]), i # 0, NEW cur,
         cur = <<(Packet(c)[1] - 5) \div 2, Packet(c)[3] # LL>>
  PROVE  list'[c][i].cur = cur /\ list'[c][i].anim[cur] = ResetFrame
<1>1. Receives(c, {21, 23, 25}) /\ {21, 23, 25} \subseteq MoveTypes
  BY DEF netPacketProc_Attack, MoveTypes
<1>2. PICK p, o : p = Packet(c) /\ o = Found(c)
  OBVIOUS
<1>3. p[1] \in {21, 23, 25}
  BY <1>1, <1>2, ReceivedIs
<1> DEFINE a == Placed(o, p)
           after == LoopResetFrame(InputActionProc(a, AttackOf(c)))
<1>4. Act(c, a, AttackOf(c), after)
  BY <1>2 DEF netPacketProc_Attack
<1>5. IsSlot(o) /\ ~o.mine => AttackDone(p, o, after)
  BY <1>2, <1>3, AttackIs
<1> HIDE DEF a, after
<1>6. list' = [list EXCEPT ![c][i] = after]
  BY <1>4 DEF Act
<1>7. /\ i \in 1 .. Len(list[c]) /\ IsSlot(o) /\ o.mine = FALSE /\ Citizen(c, o)
      /\ Follows(Sit(o), Said(p))
  BY <1>1, <1>2, FoundOther DEF Found
<1>8. list'[c][i] = after
  <2>1. Things(list[c]) /\ DOMAIN list = Clients
    BY DEF WorldInv, ClientOK
  <2>2. i \in DOMAIN list[c]
    BY <1>7, <2>1, SeqIs DEF Things
  <2> QED BY <1>6, <2>1, <2>2
<1>9. AttackDone(p, o, after) /\ Turned(o)
  BY <1>5, <1>7 DEF Citizen
<1>10. after.cur = <<(p[1] - 5) \div 2, Looks(p)>> /\ after.anim[after.cur] = ResetFrame
  BY <1>7, <1>9 DEF AttackDone
<1>11. Looks(p) = (Packet(c)[3] # LL)
  BY <1>2 DEF Looks
<1> QED BY <1>2, <1>8, <1>10, <1>11

(* An attack received is shown from its first frame, in the direction it was  *)
(* announced with, whatever the copy was doing (PacketProc.cpp:178-206).      *)
THEOREM AttacksAlwaysShown ==
  Spec => AttackShown
<1> DEFINE Shown1 == \A c \in Clients :
       LET i == Index(c, Packet(c)[2])
           cur == <<(Packet(c)[1] - 5) \div 2, Packet(c)[3] # LL>>
       IN netPacketProc_Attack(c) /\ i # 0 =>
            list'[c][i].cur = cur /\ list'[c][i].anim[cur] = ResetFrame
<1>1. WorldInv /\ CopyInv /\ [Next]_vars => [Shown1]_vars
  BY ShownStep
<1>2. AttackShown <=> [][Shown1]_vars
  BY DEF AttackShown
<1> HIDE DEF Shown1
<1> QED BY <1>1, <1>2, CopiesAlways, PTL DEF Spec

(* Characters have heights, and the turn ends with the sort by them.           *)
LEMMA SortedStep ==
  ASSUME WorldInv, CopyInv, NEW c \in Clients, RunCycle(c),
         \A i \in 1 .. Len(list'[c]) : IsPlayer(list'[c][i])
  PROVE  \A i \in 1 .. Len(list'[c]) - 1 : list'[c][i].y <= list'[c][i + 1].y
<1>1. PICK ended \in BOOLEAN : \E run \in {RunPass(Input(c, ended).objects)} :
         list' = [list EXCEPT ![c] = YSort(run.objects)]
  BY DEF RunCycle
<1>2. PICK s : s = RunPass(Input(c, ended).objects).objects
  OBVIOUS
<1>3. list'[c] = YSort(s)
  <2>1. DOMAIN list = Clients
    BY DEF WorldInv
  <2> QED BY <1>1, <1>2, <2>1
<1>4. Len(s) \in Nat
  <2>1. PICK in : in = Input(c, ended)
    OBVIOUS
  <2>2. Things(list[c]) /\ Slots(pool[c]) /\ Apart(list[c], pool[c])
    BY DEF WorldInv, ClientOK
  <2>3. Things(in.objects) /\ Slots(in.slots) /\ Apart(in.objects, in.slots)
    BY <2>1, <2>2, InputIs
  <2>4. PICK run : run = RunPass(in.objects)
    OBVIOUS
  <2>5. Things(run.objects)
    BY <2>3, <2>4, PassKeeps
  <2> QED BY <1>2, <2>1, <2>4, <2>5, SeqIs DEF Things
<1>5. PICK p : Perm(p, Len(s)) /\ YSort(s) = [i \in 1 .. Len(s) |-> s[p[i]]]
  BY <1>4, SortMoves
<1>6. PICK m : m = YSort(s)
  OBVIOUS
<1>7. /\ \A a \in 1 .. Len(s) : m[a] = s[p[a]]
      /\ \A v \in 1 .. Len(s) : \E a \in 1 .. Len(s) : p[a] = v
  BY <1>5, <1>6 DEF Perm
<1>8. Len(m) = Len(s)
  <2>1. m = [i \in 1 .. Len(s) |-> m[i]]
    BY <1>5, <1>6
  <2> QED BY <1>4, <2>1, MadeSeq
<1>9. \A a \in 1 .. Len(m) : IsPlayer(m[a]) /\ m[a].y \in Int
  <2>1. CopyInv'
    BY RunCycleStep
  <2>2. Crowd(c, m)
    BY <1>3, <1>6, <2>1 DEF CopyInv, Local
  <2>3. \A a \in 1 .. Len(m) : IsPlayer(m[a])
    BY <1>3, <1>6
  <2>4. \A x, y : OnMap(x, y) => y \in Int
    BY RangeAssumption DEF OnMap
  <2> QED BY <2>2, <2>3, <2>4 DEF Crowd, Citizen
<1>10. Heights(s, Len(s))
  <2> SUFFICES ASSUME NEW v \in 1 .. Len(s) PROVE IsPlayer(s[v]) /\ s[v].y \in Int
    BY DEF Heights
  <2>1. PICK a \in 1 .. Len(s) : p[a] = v
    BY <1>7
  <2> QED BY <1>7, <1>8, <1>9, <2>1
<1>11. \A i, j \in 1 .. Len(s) : i < j => m[i].y <= m[j].y
  BY <1>4, <1>6, <1>10, SortSorts
<1>12. ASSUME NEW i \in 1 .. Len(m) - 1 PROVE m[i].y <= m[i + 1].y
  <2>1. i \in 1 .. Len(s) /\ i + 1 \in 1 .. Len(s) /\ i < i + 1
    BY <1>4, <1>8
  <2> QED BY <1>11, <2>1
<1> QED BY <1>3, <1>6, <1>12

(* After a turn the characters, if no effect is among them, are drawn from the *)
(* back to the front (ObjectMgr.cpp:151-174).                                  *)
THEOREM AlwaysSortedWithoutEffects ==
  Spec => SortedWithoutEffects
<1> DEFINE Sorted1 == \A c \in Clients :
       RunCycle(c) /\ (\A i \in 1 .. Len(list'[c]) : IsPlayer(list'[c][i])) =>
         \A i \in 1 .. Len(list'[c]) - 1 : list'[c][i].y <= list'[c][i + 1].y
<1>1. WorldInv /\ CopyInv /\ [Next]_vars => [Sorted1]_vars
  BY SortedStep
<1>2. SortedWithoutEffects <=> [][Sorted1]_vars
  BY DEF SortedWithoutEffects
<1> HIDE DEF Sorted1
<1> QED BY <1>1, <1>2, CopiesAlways, PTL DEF Spec
=============================================================================
