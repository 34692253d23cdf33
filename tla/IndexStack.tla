---------------------------- MODULE IndexStack ----------------------------
(***************************************************************************)
(* What LockFreeStack<T> (src/Library/lock_free_stack.h) promises to the   *)
(* threads that share it: an atomic last-in first-out stack.  A Push makes *)
(* its value the top in one instant, a Pop that succeeds takes the value   *)
(* that is on top in one instant and hands exactly that value out.         *)
(* LockFreeStack.tla implements this module.                               *)
(***************************************************************************)
EXTENDS Sequences

CONSTANTS Threads,   \* the threads that share the stack
          Values,    \* the values it stores
          NoValue    \* what a thread holds before its first Pop

VARIABLES items,     \* the stack, top first
          got        \* the value each thread's last Pop handed out

vars == <<items, got>>

Init == /\ items = <<>>
        /\ got = [t \in Threads |-> NoValue]

Push(v) == /\ items' = <<v>> \o items
           /\ UNCHANGED got

Pop(t) == /\ items # <<>>
          /\ items' = Tail(items)
          /\ got' = [got EXCEPT ![t] = Head(items)]

Next == \/ \E v \in Values : Push(v)
        \/ \E t \in Threads : Pop(t)

Spec == Init /\ [][Next]_vars
===========================================================================
