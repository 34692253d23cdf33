------------------------------ MODULE Profiler ------------------------------
(***************************************************************************)
(* CProfilerManager and CProfiler of                                       *)
(* src/cpp-project/2DGame/Lib/Profiler.cpp.  Each thread measures sections *)
(* of code under tags, in records of its own; anyone may reset the records *)
(* of all threads at any moment.  Each call holds the lock of the records  *)
(* it touches, so it is one step for each thread's records.                *)
(***************************************************************************)
EXTENDS Integers, FiniteSets, SequencesExt

CONSTANTS ProfThread, Tag,
          MaxThread,       \* MAX_THREAD_CNT: entries of m_pProfilerArr
          MaxProfile,      \* MAX_PROFILE: tags of a thread
          Ellapse,         \* ticks a section can take
          MaxCalls         \* bound: measured calls of a tag

ASSUME ProfileAssumption == MaxThread \in Nat /\ MaxProfile \in Nat /\ Ellapse \subseteq Nat

VARIABLES record,        \* the used m_ProfileArr entries of each thread
          resetting,     \* the threads a ProfileReset has still to visit
          open,          \* the sections each thread is in, the innermost last
          times,         \* what was measured since the last reset, in order
          profCrashed    \* a deliberate null dereference was reached

profVars == <<record, resetting, open, times, profCrashed>>

FreshRecord == [started |-> FALSE, isReset |-> FALSE, total |-> 0,
          min |-> <<0, 0>>, max |-> <<0, 0>>, calls |-> 0]

ProfInit == /\ record = [t \in ProfThread |-> <<>>]
            /\ resetting = {}
            /\ open = [t \in ProfThread |-> <<>>]
            /\ times = [t \in ProfThread |-> [g \in Tag |-> <<>>]]
            /\ profCrashed = FALSE

Known(t) == DOMAIN record[t]

(* The threads with an entry of m_pProfilerArr: their first Begin claims it,  *)
(* and it is never given back.                                                *)
Registered == {t \in ProfThread : Known(t) # {}}

(* No entry is left for a new tag, or for the thread's profiler. *)
NoEntry(t, g) == /\ g \notin Known(t)
                 /\ \/ t \notin Registered /\ Cardinality(Registered) = MaxThread
                    \/ Cardinality(Known(t)) = MaxProfile

Put(t, g, r) == record' = [record EXCEPT ![t] = [h \in DOMAIN @ \cup {g} |-> IF h = g THEN r ELSE @[h]]]

(* A new thread and a new tag take a free entry each; with none left, or if   *)
(* the tag is running already, the program is ended.                          *)
Begin(t, g) ==
  LET r == IF g \in Known(t) THEN record[t][g] ELSE FreshRecord
  IN /\ open' = [open EXCEPT ![t] = Append(@, g)]
     /\ IF r.started \/ NoEntry(t, g)
          THEN profCrashed' = TRUE /\ UNCHANGED record
          ELSE Put(t, g, [r EXCEPT !.started = TRUE, !.isReset = FALSE]) /\ UNCHANGED profCrashed
     /\ UNCHANGED <<resetting, times>>

(* The largest two and the smallest two, 0 for none. *)
Larger(m, e) == IF m[1] < e THEN <<e, m[1]>> ELSE IF m[2] < e THEN <<m[1], e>> ELSE m
Smaller(m, e) == IF m[1] = 0 \/ m[1] > e THEN <<e, m[1]>>
                 ELSE IF m[2] = 0 \/ m[2] > e THEN <<m[1], e>>
                 ELSE m

Measured(r, e) == [r EXCEPT !.started = FALSE, !.total = @ + e, !.calls = @ + 1,
                            !.max = Larger(@, e), !.min = Smaller(@, e)]

(* Faulty variant: a section a reset fell into is an error. *)
EndIgnoresReset(t, g, e) ==
  LET r == record[t][g]
  IN /\ open[t] # <<>> /\ g = Last(open[t])
     /\ open' = [open EXCEPT ![t] = Front(@)]
     /\ IF r.started
          THEN /\ Put(t, g, Measured(r, e))
               /\ times' = [times EXCEPT ![t][g] = Append(@, e)]
               /\ UNCHANGED profCrashed
          ELSE profCrashed' = TRUE /\ UNCHANGED <<record, times>>
     /\ UNCHANGED resetting

(* A reset inside the section discards it. *)
End(t, g, e) ==
  LET r == record[t][g]
  IN /\ open[t] # <<>> /\ g = Last(open[t])
     /\ open' = [open EXCEPT ![t] = Front(@)]
     /\ IF r.isReset
          THEN Put(t, g, [r EXCEPT !.isReset = FALSE]) /\ UNCHANGED <<times, profCrashed>>
          ELSE IF r.started
          THEN /\ Put(t, g, Measured(r, e))
               /\ times' = [times EXCEPT ![t][g] = Append(@, e)]
               /\ UNCHANGED profCrashed
          ELSE profCrashed' = TRUE /\ UNCHANGED <<record, times>>
     /\ UNCHANGED resetting

(* ProfileReset visits the threads one after the other. *)
ResetAll == /\ resetting = {} /\ resetting' = ProfThread
            /\ UNCHANGED <<record, open, times, profCrashed>>

ResetThread(t) ==
  /\ t \in resetting /\ resetting' = resetting \ {t}
  /\ record' = [record EXCEPT ![t] = [g \in DOMAIN @ |-> [FreshRecord EXCEPT !.isReset = TRUE]]]
  /\ times' = [times EXCEPT ![t] = [g \in Tag |-> <<>>]]
  /\ UNCHANGED <<open, profCrashed>>

(* Sections are nested and a tag is not used inside itself (CAutoProfiling).  *)
ProfNext ==
  /\ ~profCrashed
  /\ \/ ResetAll
     \/ \E t \in ProfThread :
          \/ ResetThread(t)
          \/ \E g \in Tag :
               \/ ~Contains(open[t], g) /\ Len(times[t][g]) < MaxCalls /\ Begin(t, g)
               \/ \E e \in Ellapse : End(t, g, e)

ProfSpec == ProfInit /\ [][ProfNext]_profVars
-----------------------------------------------------------------------------
Total(s) ==
  LET upTo[i \in 0 .. Len(s)] == IF i = 0 THEN 0 ELSE upTo[i - 1] + s[i]
  IN upTo[Len(s)]

(* m is the two largest of s, or with d = -1 the two smallest; 0 for none.    *)
Extremes(m, s, d) ==
  IF s = <<>> THEN m = <<0, 0>>
  ELSE \E i \in DOMAIN s :
         /\ m[1] = s[i] /\ \A j \in DOMAIN s : d * s[j] <= d * s[i]
         /\ IF Len(s) = 1 THEN m[2] = 0
            ELSE \E k \in DOMAIN s \ {i} :
                   m[2] = s[k] /\ \A j \in DOMAIN s \ {i} : d * s[j] <= d * s[k]

(* The section a thread has just begun is one there was no entry for. *)
OutOfRoom == \E t \in ProfThread : open[t] # <<>> /\ NoEntry(t, Last(open[t]))

(* A program whose sections are nested is ended only by the Begin of a thread *)
(* or of a tag too many, never because of a reset, between Begin and End or   *)
(* at any other moment; and the times kept are those of the sections measured *)
(* since: how many, their sum, the two longest and, unless one took no time   *)
(* at all, the two shortest (Profiler.cpp:85-193, 268-284, 301-327).          *)
ProfilesTrue ==
  /\ profCrashed => OutOfRoom
  /\ \A t \in ProfThread : \A g \in Known(t) :
       LET s == times[t][g]
           r == record[t][g]
       IN /\ r.calls = Len(s)
          /\ r.total = Total(s)
          /\ Extremes(r.max, s, 1)
          /\ ~Contains(s, 0) => Extremes(r.min, s, -1)
=============================================================================
