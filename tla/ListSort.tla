------------------------------ MODULE ListSort ------------------------------
(***************************************************************************)
(* CList::quick_sort (src/cpp-project/2DGame/Lib/List.h:173-272), which    *)
(* exchanges the values of the nodes between two iterators.  After(a, b)   *)
(* is the comparison: cmpFunc(a, b), or a >= b without one.                *)
(***************************************************************************)
EXTENDS Integers, Sequences

CONSTANT After(_, _)

Swap(p, i, j) == [p EXCEPT ![i] = p[j], ![j] = p[i]]

(* Where the two scans of a round stop: the left one at the first value that  *)
(* is not to stay left of the pivot, or at right; the right one at the last   *)
(* value that is not to stay right of it, or just before the left one.        *)
ScanLeft(s, pivot, left, right) ==
  CHOOSE i \in left .. right :
    /\ i = right \/ ~After(s[pivot], s[i])
    /\ \A j \in left .. i - 1 : After(s[pivot], s[j])

ScanRight(s, pivot, left, right) ==
  CHOOSE i \in left - 1 .. right :
    /\ i = left - 1 \/ ~After(s[i], s[pivot])
    /\ \A j \in i + 1 .. right : After(s[j], s[pivot])

(* The call of quick_sort for the nodes from first up to last, last excluded, *)
(* if it has anything to do, and its scans at the start of a round.           *)
Call(first, last) ==
  IF last - first <= 1 THEN <<>>
  ELSE <<[first |-> first, last |-> last, left |-> first + 1, right |-> last - 1]>>

Calls(n) == [first : 1 .. n, last : 2 .. n + 1, left : 2 .. n, right : 1 .. n]

(* One round of the innermost call: calls holds it and then those that wait,  *)
(* order says which value of s is where.                                      *)
Round(s, st) ==
  LET p == st.order
      t == [i \in DOMAIN p |-> s[p[i]]]
      g == Head(st.calls)
      l == ScanLeft(t, g.first, g.left, g.right)
      r == ScanRight(t, g.first, l, g.right)
  IN IF st.calls = <<>> THEN st
     ELSE IF r <= l
     THEN [order |-> Swap(p, r, g.first),
           calls |-> Call(g.first, l) \o Call(l, g.last) \o Tail(st.calls)]
     ELSE [order |-> Swap(p, l, r),
           calls |-> <<[g EXCEPT !.left = l, !.right = r]>> \o Tail(st.calls)]

(* n * n rounds are enough: each moves a scan or splits the nodes of a call.  *)
QuickSort(s) ==
  LET n == Len(s)
      State == [order : Seq(1 .. n), calls : Seq(Calls(n))]
      next[st \in State] == Round(s, st)
      after[k \in 0 .. n * n] ==
        IF k = 0 THEN [order |-> [i \in 1 .. n |-> i], calls |-> Call(1, n + 1)]
        ELSE next[after[k - 1]]
  IN [i \in 1 .. n |-> s[after[n * n].order[i]]]
=============================================================================
