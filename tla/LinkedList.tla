----------------------------- MODULE LinkedList -----------------------------
(***************************************************************************)
(* CList (src/cpp-project/2DGame/Lib/List.h): a doubly linked list between *)
(* two sentinel nodes, and a second one between two more for nodes that    *)
(* can be reused.  ListSort.tla models quick_sort.                         *)
(***************************************************************************)
EXTENDS Naturals, Sequences, SequencesExt

CONSTANTS ListNode,    \* bound: addresses new can return
          ListValue    \* values stored

ASSUME ListAssumption == {"head", "tail", "freeHead", "freeTail"} \cap ListNode = {}

VARIABLES link,        \* _Next and _Prev of every node
          datum,       \* _data; what a free node still holds is left out
          listSize,    \* _size
          allocated,   \* nodes obtained with new and not deleted
          result       \* the last call, and the value it returned if it returned one

listVars == <<link, datum, listSize, allocated, result>>

Anchors == {"head", "tail", "freeHead", "freeTail"}

(* b comes after a. *)
Join2(l, a, b) == [l EXCEPT !.next[a] = b, !.prev[b] = a]


Unlink(l, n) == Join2(l, l.prev[n], l.next[n])

Between(l, a, n, b) == Join2(Join2(l, n, b), a, n)

free_push_front(l, n) == Between(l, "freeHead", n, l.next["freeHead"])

(* The nodes from the first one on, at most one per address. *)
Walk(l) ==
  LET to[k \in 0 .. Cardinality(ListNode)] ==
        IF k = 0 THEN <<>>
        ELSE LET ns == to[k - 1]
                 n == l.next[IF ns = <<>> THEN "head" ELSE Last(ns)]
             IN IF n \in ListNode THEN Append(ns, n) ELSE ns
  IN to[Cardinality(ListNode)]

Cleared == CHOOSE v \in ListValue : TRUE

ListInit ==
  /\ link = LET Nil == [n \in ListNode \cup Anchors |-> "null"]
            IN [next |-> [Nil EXCEPT !["head"] = "tail", !["freeHead"] = "freeTail"],
                prev |-> [Nil EXCEPT !["tail"] = "head", !["freeTail"] = "freeHead"]]
  /\ datum = [n \in ListNode |-> Cleared]
  /\ listSize = 0 /\ allocated = {} /\ result = <<>>

(* The links once free_pop_front has taken its node, if there is one.         *)
Spare == IF link.prev["freeTail"] = "freeHead" THEN link
         ELSE Join2(link, "freeHead", link.next[link.next["freeHead"]])

HasSpare == link.prev["freeTail"] # "freeHead"
Fresh == CHOOSE n \in ListNode \ allocated : TRUE

(* The node of free_pop_front, or else a new one; which address new returns   *)
(* makes no difference.                                                       *)
Node == IF HasSpare THEN link.next["freeHead"] ELSE Fresh

Push(op, v, a, b) ==
  /\ HasSpare \/ allocated # ListNode
  /\ link' = Between(Spare, a, Node, b)
  /\ allocated' = allocated \cup {Node}
  /\ datum' = [datum EXCEPT ![Node] = v]
  /\ listSize' = listSize + 1
  /\ result' = <<op>>

push_front(v) == Push("push_front", v, "head", Spare.next["head"])
push_back(v) == Push("push_back", v, Spare.prev["tail"], "tail")

(* One end of the list; empty if the first node is the tail. *)
PopEnd(op, n, l) ==
  /\ UNCHANGED allocated
  /\ IF link.next["head"] = "tail"
       THEN result' = <<op>> /\ UNCHANGED <<link, datum, listSize>>
       ELSE /\ result' = <<op, datum[n]>>
            /\ link' = free_push_front(l, n)
            /\ datum' = [datum EXCEPT ![n] = Cleared]
            /\ listSize' = listSize - 1

pop_front == LET n == link.next["head"]
             IN PopEnd("pop_front", n, Join2(link, "head", link.next[n]))
pop_back == LET n == link.prev["tail"]
            IN PopEnd("pop_back", n, Join2(link, link.prev[n], "tail"))

(* The nodes of ns leave the list one by one. *)
RemoveNodes(op, ns) ==
  /\ link' = FoldLeft(LAMBDA l, n : free_push_front(Unlink(l, n), n), link, ns)
  /\ datum' = [n \in ListNode |-> IF Contains(ns, n) THEN Cleared ELSE datum[n]]
  /\ listSize' = listSize - Len(ns)
  /\ result' = <<op>>
  /\ UNCHANGED allocated

Holding(v) == SelectSeq(Walk(link), LAMBDA n : datum[n] = v)

erase(n) == RemoveNodes("erase", <<n>>)
remove(v) == RemoveNodes("remove", Holding(v))
remove_one(v) == LET ns == Holding(v)
                 IN RemoveNodes("remove_one", IF ns = <<>> THEN <<>> ELSE <<Head(ns)>>)

(* A node for the free list in advance. *)
allocFreeNode == /\ allocated # ListNode
                 /\ link' = free_push_front(link, Fresh)
                 /\ allocated' = allocated \cup {Fresh}
                 /\ UNCHANGED <<datum, listSize, result>>

Values == LET ns == Walk(link) IN [i \in DOMAIN ns |-> datum[ns[i]]]

at(idx) == /\ result' = IF idx < listSize THEN <<"at", Values[idx + 1]>> ELSE <<"at">>
           /\ UNCHANGED <<link, datum, listSize, allocated>>

(* Every caller empties the list first: on any other clear() walks into the   *)
(* free list and does not return, or deletes the tail.                        *)
clear == /\ link.next["head"] = "tail"
         /\ link' = Join2(link, "freeHead", "freeTail")
         /\ allocated' = {}
         /\ listSize' = 0
         /\ result' = <<"clear">>
         /\ UNCHANGED datum

ListNext == \/ \E v \in ListValue : push_front(v) \/ push_back(v) \/ remove(v) \/ remove_one(v)
            \/ pop_front \/ pop_back \/ allocFreeNode \/ clear
            \/ \E i \in DOMAIN Walk(link) : erase(Walk(link)[i])
            \/ \E i \in 0 .. listSize : at(i)

ListSpec == ListInit /\ [][ListNext]_listVars
-----------------------------------------------------------------------------
(* However pushes, pops, removals and reuse of nodes follow each other, the   *)
(* list is the sequence of values its callers think it is and its size is     *)
(* right (List.h:302-490).                                                    *)
AsDeque == INSTANCE Deque WITH q <- Values, size <- listSize, got <- result, Value <- ListValue
=============================================================================
