------------------------------ MODULE FPSTimer ------------------------------
(***************************************************************************)
(* CFPSTimer::DontSkipRendering of                                         *)
(* src/cpp-project/2DGame/Lib/FPSTimer.cpp, called once per turn of the    *)
(* client's message loop: it decides whether the turn draws, and sleeps    *)
(* when the turn came early.  CheckFrame, which nothing calls, is left     *)
(* out.                                                                    *)
(***************************************************************************)
EXTENDS Integers

CONSTANTS Frame,       \* m_Frame: ticks of a frame
          Second,      \* m_freq: ticks of a second
          SleepUnit,   \* QPF2MS: ticks of a millisecond, what Sleep counts in
          MaxClock     \* bound: ticks in a behaviour

ASSUME TimerAssumption == Frame \in Nat \ {0} /\ Second \in Nat \ {0} /\ SleepUnit \in Nat \ {0}

VARIABLES clock,          \* QueryPerformanceCounter
          prev,           \* m_Prev
          accumulate,     \* m_accumulateTime
          prevSec,        \* m_PrevSec
          logicCount, renderCount,         \* frames of this second
          preLogicCount, preRenderCount,   \* and of the last one
          secCheck,       \* m_SecCheck
          draw            \* what the last call returned

timerVars == <<clock, prev, accumulate, prevSec, logicCount, renderCount,
               preLogicCount, preRenderCount, secCheck, draw>>

TimerInit == /\ clock = 0 /\ prev = 0 /\ prevSec = 0
             /\ accumulate = 0
             /\ logicCount = 0 /\ renderCount = 0
             /\ preLogicCount = 0 /\ preRenderCount = 0
             /\ secCheck = FALSE /\ draw = FALSE

Late == clock - prev

(* Sleep(ms) returns after that many milliseconds or more. *)
Slept(ticks) == (ticks \div SleepUnit) * SleepUnit

(* Faulty variant: the time a frame was late is counted whole. *)
DebtWhole == IF accumulate > Frame THEN accumulate - Frame
             ELSE IF Late >= Frame THEN accumulate + Late
             ELSE accumulate

(* m_accumulateTime after the call. *)
Debt == IF accumulate > Frame THEN accumulate - Frame
        ELSE IF Late >= Frame THEN accumulate + (Late - Frame)
        ELSE accumulate

(* The counters of a second that is over are kept and start again. *)
CountFrame(drawn) ==
  LET over == clock - prevSec >= Second
      Now(n) == IF over THEN 0 ELSE n
  IN /\ prevSec' = IF over THEN prevSec + Second * ((clock - prevSec) \div Second) ELSE prevSec
     /\ preLogicCount' = IF over THEN logicCount ELSE preLogicCount
     /\ preRenderCount' = IF over THEN renderCount ELSE preRenderCount
     /\ secCheck' = (over \/ secCheck)
     /\ logicCount' = Now(logicCount) + 1
     /\ renderCount' = Now(renderCount) + (IF drawn THEN 1 ELSE 0)

(* A turn is skipped while it is more than a frame behind. *)
DontSkipRendering ==
  /\ CountFrame(accumulate <= Frame)
  /\ prev' = prev + Frame
  /\ accumulate' = Debt
  /\ draw' = (accumulate <= Frame)
  /\ clock' = IF accumulate <= Frame /\ Late < Frame THEN clock + Slept(Frame - Late) ELSE clock

(* The rest of the turn. *)
TimePasses == /\ clock < MaxClock
              /\ clock' = clock + 1
              /\ UNCHANGED <<prev, accumulate, prevSec, logicCount, renderCount,
                             preLogicCount, preRenderCount, secCheck, draw>>

CheckSec == /\ secCheck /\ secCheck' = FALSE
            /\ UNCHANGED <<clock, prev, accumulate, prevSec, logicCount, renderCount,
                           preLogicCount, preRenderCount, draw>>

TimerNext == \/ TimePasses \/ CheckSec
             \/ clock < MaxClock /\ DontSkipRendering

TimerSpec == TimerInit /\ [][TimerNext]_timerVars
-----------------------------------------------------------------------------
(* However late turns come and however many are skipped to catch up, the game *)
(* is never more than one frame, and the rounding of one Sleep, ahead of the  *)
(* clock, and never counts more time as lost than it is behind by, up to the  *)
(* same bound (FPSTimer.cpp:143-195).                                         *)
KeepsPace == /\ prev - clock < Frame + SleepUnit
             /\ accumulate - Late < Frame + SleepUnit
=============================================================================
