---------------------------- MODULE GameObjects ----------------------------
(***************************************************************************)
(* The objects of the game client: characters (PlayerObject.cpp), the      *)
(* animations they play (Animation.cpp) and hit effects                    *)
(* (EffectObject.cpp), as records and operators on them.                   *)
(*                                                                         *)
(* Of an attack's animation the frame and the delay count are one tick     *)
(* counter; standing and walking loop for ever and keep no state that      *)
(* anything but the drawing reads.                                         *)
(***************************************************************************)
EXTENDS Integers, Sequences

CONSTANTS Right, Bottom,     \* dfRANGE_MOVE_RIGHT, dfRANGE_MOVE_BOTTOM
          XSpeed, YSpeed,    \* default_x_speed, default_y_speed
          Lift,              \* how far above its victim an effect is put
          Length, HitTick,   \* of each attack's animation, in ticks
          EffectLength       \* of the effect's animation

ASSUME RangeAssumption == Right \in Nat \ {0} /\ Bottom \in Nat \ {0}
ASSUME SpeedAssumption == XSpeed \in Nat \ {0} /\ YSpeed \in Nat \ {0}

(* dfACTION_*; the move actions are also the directions dfPACKET_MOVE_DIR_*   *)
LL == 0
LU == 1
UU == 2
RU == 3
RR == 4
RD == 5
DD == 6
LD == 7
STAND   == 11
Moves   == LL .. LD
Attacks == 8 .. 10
Actions == 0 .. STAND

Leftwards(m)  == m \in {LL, LU, LD}
Rightwards(m) == m \in {RR, RU, RD}
Upwards(m)    == m \in {UU, LU, RU}
Downwards(m)  == m \in {DD, LD, RD}
Diagonal(m)   == m \in {LU, RU, RD, LD}

MoveX(m, x) == IF Leftwards(m) THEN x - XSpeed ELSE IF Rightwards(m) THEN x + XSpeed ELSE x
MoveY(m, y) == IF Upwards(m)   THEN y - YSpeed ELSE IF Downwards(m)  THEN y + YSpeed ELSE y

PastX(m, x) == \/ Leftwards(m)  /\ MoveX(m, x) <= 0
               \/ Rightwards(m) /\ MoveX(m, x) >= Right
PastY(m, y) == \/ Upwards(m)    /\ MoveY(m, y) <= 0
               \/ Downwards(m)  /\ MoveY(m, y) >= Bottom

(* A diagonal step that would leave the map on either axis is not taken at    *)
(* all; a straight one is cut short (and on the right only by the clamping    *)
(* below).                                                                    *)
WalkX(m, x, y) ==
  CASE Diagonal(m) /\ (PastX(m, x) \/ PastY(m, y)) -> x
    [] ~Diagonal(m) /\ PastX(m, x) -> IF Leftwards(m) THEN 1 ELSE Right + 1
    [] OTHER -> MoveX(m, x)

WalkY(m, x, y) ==
  CASE Diagonal(m) /\ (PastX(m, x) \/ PastY(m, y)) -> y
    [] ~Diagonal(m) /\ PastY(m, y) -> IF Upwards(m) THEN 1 ELSE Bottom - 1
    [] OTHER -> MoveY(m, y)

Clamp(v, limit) == IF v >= limit THEN limit - 1 ELSE IF v < 0 THEN 0 ELSE v
-----------------------------------------------------------------------------
NoHit == <<>>

(* LoopResetFrame; also how a new animation starts *)
ResetFrame == [tick |-> 0, end |-> FALSE, hit |-> NoHit]

(* The animation that plays: what is done, and facing right or left.          *)
AnimationOf(action, right) == <<IF action \in Moves THEN LL ELSE action, right>>

InAttack(p) == p.cur[1] \in Attacks
IsEndFrame(p) == InAttack(p) /\ p.anim[p.cur].end
LoopResetFrame(p) == IF InAttack(p) THEN [p EXCEPT !.anim[p.cur] = ResetFrame] ELSE p
SetAnimation(p) == [p EXCEPT !.cur = AnimationOf(p.action, p.right)]
SetHitEffect(p, pos) == IF InAttack(p) THEN [p EXCEPT !.anim[p.cur].hit = pos] ELSE p
SetPosition(p, x, y) == [p EXCEPT !.x = x, !.y = y]
SetHP(p, hp) == [p EXCEPT !.hp = hp, !.dead = @ \/ hp <= 0]

(* CObjectPool hands a character a slot whose m_dwActionCur and m_bDirCur     *)
(* nobody sets: they are what the slot's last owner left.                     *)
NewPlayer(slot, id) ==
  [slot EXCEPT !.id = id, !.mine = FALSE, !.x = 0, !.y = 0, !.hp = 50, !.dead = FALSE,
               !.cur = <<STAND, FALSE>>, !.anim = [a \in Attacks \X BOOLEAN |-> ResetFrame]]

(* ActiveEffect makes an effect object in the frame the blow lands. *)
NewEffect(pos) == [type |-> "effect", id |-> -1, x |-> pos[1], y |-> pos[2], tick |-> 0, dead |-> FALSE]

HitNow(p) == /\ InAttack(p) /\ ~p.anim[p.cur].end
             /\ p.anim[p.cur].tick + 1 = HitTick[p.cur[1]]
             /\ p.anim[p.cur].hit # NoHit

NextFrame(p) ==
  IF ~InAttack(p) \/ p.anim[p.cur].end THEN p
  ELSE LET a == p.anim[p.cur]
           last == a.tick + 1 = Length[p.cur[1]]
       IN [p EXCEPT !.anim[p.cur] = [tick |-> IF last THEN 0 ELSE a.tick + 1, end |-> last,
                                     hit |-> IF HitNow(p) THEN NoHit ELSE a.hit]]

ActionProcNoReset(p) ==
  LET over   == p.action \in Attacks /\ IsEndFrame(p)
      action == IF over THEN STAND ELSE p.action
      right  == (p.right \/ Rightwards(p.action)) /\ ~Leftwards(p.action)
  IN [p EXCEPT !.x = Clamp(WalkX(p.action, @, p.y), Right),
               !.y = Clamp(WalkY(p.action, p.x, @), Bottom),
               !.right = right, !.action = action, !.cur = AnimationOf(action, right)]

(* An attack goes on to its last frame and then becomes STAND by itself.      *)
ActionProc(p) ==
  LET over   == p.action \in Attacks /\ IsEndFrame(p)
      action == IF over THEN STAND ELSE p.action
      right  == (p.right \/ Rightwards(p.action)) /\ ~Leftwards(p.action)
  IN [p EXCEPT !.x = Clamp(WalkX(p.action, @, p.y), Right),
               !.y = Clamp(WalkY(p.action, p.x, @), Bottom),
               !.right = right, !.action = action, !.cur = AnimationOf(action, right),
               !.anim = IF over THEN [@ EXCEPT ![p.cur] = ResetFrame] ELSE @]

(* Run: ActionProc on what NextFrame made *)
RunPlayer(p) == CHOOSE r \in {ActionProc(q) : q \in {NextFrame(p)}} : TRUE

RunEffect(e) == [e EXCEPT !.tick = @ + 1, !.dead = e.tick + 1 = EffectLength]
-----------------------------------------------------------------------------
(* Packets to the server: type, direction and position *)
Facing(right) == IF right THEN RR ELSE LL
CS(action) == IF action \in Moves THEN 10 ELSE IF action = STAND THEN 12 ELSE 4 + 2 * action

SendAction(p, action) ==
  <<CS(action), IF action \in Moves THEN action ELSE Facing(p.right), p.x, p.y>>

(* InputActionProc, of the player's keys and of the server's packets alike.   *)
(* The player's own attack cannot be interrupted.                             *)
Ignored(p, action) ==
  action = p.action \/ (p.mine /\ p.action \in Attacks /\ ~IsEndFrame(p))

InputActionProc(p, action) ==
  IF Ignored(p, action) THEN p
  ELSE LET q == IF p.mine /\ p.action \in Attacks THEN LoopResetFrame(p) ELSE p
       IN SetAnimation([q EXCEPT !.action = action])

AnnouncementNoStop(p, action) ==
  IF p.mine /\ ~Ignored(p, action) /\ action # STAND THEN <<SendAction(p, action)>> ELSE <<>>
Announcement(p, action) ==
  IF p.mine /\ ~Ignored(p, action) THEN <<SendAction(p, action)>> ELSE <<>>
=============================================================================
