----------------------------- MODULE ValueQueue -----------------------------
(***************************************************************************)
(* What a queue promises to the threads that share it: an atomic first-in  *)
(* first-out list.  LockFreeQueue.tla implements this module as long as no *)
(* address comes back while an Enqueue still holds it.                     *)
(***************************************************************************)
EXTENDS Sequences

CONSTANTS Threads,   \* the threads that share the queue
          Values,    \* the values it stores
          NoValue    \* what a thread holds before its first Dequeue

VARIABLES items,     \* the queue, oldest first
          got        \* the value each thread's last Dequeue handed out

vars == <<items, got>>

Init == items = <<>> /\ got = [t \in Threads |-> NoValue]

Enqueue(v) == items' = Append(items, v) /\ UNCHANGED got

Dequeue(t) == /\ items # <<>>
              /\ items' = Tail(items)
              /\ got' = [got EXCEPT ![t] = Head(items)]

Next == \/ \E v \in Values : Enqueue(v)
        \/ \E t \in Threads : Dequeue(t)

Spec == Init /\ [][Next]_vars
==============================================================================
