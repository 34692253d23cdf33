------------------------------- MODULE Deque -------------------------------
(***************************************************************************)
(* What CList promises its callers (src/cpp-project/2DGame/Lib/List.h): a  *)
(* sequence of values with insertion and removal at both ends, removal at  *)
(* an iterator, and removal by value.                                      *)
(***************************************************************************)
EXTENDS Naturals, Sequences, SequencesExt

CONSTANT Value

VARIABLES q,     \* the values, front first
          size,  \* what size() returns
          got    \* the last call, and the value it returned if it returned one

Does(op, new) == got' = <<op>> /\ size' = Len(new) /\ q' = new
Returns(op, i, new) == /\ got' = IF i \in DOMAIN q THEN <<op, q[i]>> ELSE <<op>>
                       /\ size' = Len(new) /\ q' = new

Next ==
  \/ \E v \in Value : \/ Does("push_front", <<v>> \o q)
                      \/ Does("push_back", Append(q, v))
                      \/ Does("remove", SelectSeq(q, LAMBDA w : w # v))
                      \/ Does("remove_one", RemoveFirst(q, v))
  \/ Returns("pop_front", 1, IF q = <<>> THEN q ELSE Tail(q))
  \/ Returns("pop_back", Len(q), IF q = <<>> THEN q ELSE Front(q))
  \/ \E i \in DOMAIN q : Does("erase", RemoveAt(q, i))
  \/ \E i \in 1 .. Len(q) + 1 : Returns("at", i, q)
  \/ q = <<>> /\ Does("clear", q)

Spec == q = <<>> /\ size = 0 /\ got = <<>> /\ [][Next]_<<q, size, got>>
=============================================================================
