----------------------------- MODULE MemoryLog -----------------------------
(***************************************************************************)
(* The allocation log of src/cpp-project/2DGame/Lib/MemoryAllocMgr.cpp:    *)
(* operators new and delete that note every allocation in a table, so that *)
(* what is left in it at the end is what leaked.  One thread; the text of  *)
(* the log is left out, and an array of objects with destructors has a     *)
(* word (the cookie) before the address its delete gets.                   *)
(***************************************************************************)
EXTENDS Naturals, FiniteSets, Functions

CONSTANTS Address,      \* bound: what malloc can return
          MaxAlloc      \* MAX_ALLOC: entries of the table

ASSUME MaxAllocAssumption == MaxAlloc \in Nat

VARIABLES table,        \* the used entries of m_AllocArr: [address, array]
          heap,         \* malloced and not freed
          unlogged,     \* those of heap no entry was left for
          stored,       \* pointers the program got, with what it asked for
          wrongFree     \* free was called with an address not malloced

memVars == <<table, heap, unlogged, stored, wrongFree>>

Slots == 1 .. MaxAlloc
MemInit == /\ table = << >>
           /\ heap = {} /\ unlogged = {} /\ stored = {} /\ wrongFree = FALSE

FirstIn(S) == CHOOSE i \in S : \A j \in S : i <= j
Unused == Slots \ DOMAIN table
Entries(a) == {i \in DOMAIN table : table[i].address = a}

(* new and new[]; with a full table the memory is not logged.*)
New(a, array, cookie) ==
  /\ a \in Address \ heap
  /\ heap' = heap \cup {a}
  /\ IF Unused = {}
       THEN unlogged' = unlogged \cup {a} /\ UNCHANGED <<table, stored>>
       ELSE /\ table' = [i \in DOMAIN table \cup {FirstIn(Unused)} |->
                           IF i \in DOMAIN table THEN table[i]
                           ELSE [address |-> a, array |-> array]]
            /\ stored' = stored \cup {[address |-> a, array |-> array, cookie |-> cookie]}
            /\ UNCHANGED unlogged
  /\ UNCHANGED wrongFree

(* Faulty variant: the entry stays in the table. *)
FreedNotReleased(a) ==
  /\ heap' = heap \ {a}
  /\ wrongFree' = (wrongFree \/ a \notin heap)
  /\ UNCHANGED table

(* free, then ReleaseAlloc. *)
Freed(a) ==
  /\ heap' = heap \ {a}
  /\ wrongFree' = (wrongFree \/ a \notin heap)
  /\ table' = Restrict(table, DOMAIN table \ {FirstIn(Entries(a))})

(* delete and delete[] of a pointer p the program has or had.  A delete of an *)
(* array with a cookie gets the address behind the cookie, which is logged    *)
(* and freed all the same; any other wrong delete is only logged.             *)
Delete(p, array) ==
  LET behind == p.cookie /\ ~array
      found == Entries(p.address)
      e == table[FirstIn(found)]
  IN /\ UNCHANGED <<stored, unlogged>>
     /\ IF found # {} /\ IF behind THEN e.array ELSE e.array = array
          THEN Freed(p.address)
          ELSE UNCHANGED <<table, heap, wrongFree>>

MemNext == \/ \E a \in Address : \E cookie \in BOOLEAN : New(a, TRUE, cookie)
           \/ \E a \in Address : New(a, FALSE, FALSE)
           \/ \E p \in stored, array \in BOOLEAN : Delete(p, array)

MemSpec == MemInit /\ [][MemNext]_memVars
-----------------------------------------------------------------------------
(* Whatever the program deletes, twice or with the wrong delete too, free     *)
(* gets only addresses malloc returned, the table has exactly one entry for   *)
(* each allocation that is still there, so that what LeakCheck writes at the  *)
(* end is what leaked; only allocations of a full table have none             *)
(* (MemoryAllocMgr.cpp:77-162, 260-290).                                      *)
LogTrue == /\ ~wrongFree
           /\ \A a \in Address : Cardinality(Entries(a)) = IF a \in heap \ unlogged THEN 1 ELSE 0
=============================================================================
