----------------------------- MODULE GameWorld -----------------------------
(***************************************************************************)
(* Game clients that see one another: the object list (ObjectMgr.cpp), the *)
(* game cycle and the keys (GameMgr.cpp) and the packet handlers           *)
(* (PacketProc.cpp) of each, joined by a server that relays what a client  *)
(* announces to the others (packed by message_packing.cpp; the server's    *)
(* own handlers are still empty, so its decisions are external).           *)
(*                                                                         *)
(* A character's number is its client's.  inbox[c] is all that is on its   *)
(* way to client c, in order: client to server to client are two TCP       *)
(* connections.                                                            *)
(***************************************************************************)
EXTENDS GameObjects, SequencesExt

CONSTANTS Clients,    \* the clients, numbers
          Keys,       \* the keys of the keyboard, a subset of the seven the game reads
          Presses,    \* how often each client's player changes what he holds (bound)
          Start,      \* where each character appears, on the map (mmorpg_server.cpp:46)
          StartHP,    \* with how many lives
          MaxInbox    \* what may be on its way to a client before others wait (bound)

ASSUME ClientsAssumption == Clients \subseteq Nat /\ IsFiniteSet(Clients)
ASSUME StartHPAssumption == StartHP \in Nat
ASSUME PressesAssumption == Presses \in [Clients -> Nat]
ASSUME StartAssumption == Start \in [Clients -> (0 .. Right - 1) \X (0 .. Bottom - 1)]

VARIABLES list,       \* CObjectMgr::m_ObjList of each client
          pool,       \* the free slots of its CObjectPool<CPlayerObject>, first free first
          own,        \* CGameMgr::m_playerObject: a slot, or 0
          running,    \* FALSE after the message loop ended
          active,     \* m_bActiveGame
          held, presses,   \* the keys held down, and the changes still to come
          inbox, life      \* external: packets under way, lives left as the server counts them

vars == <<list, pool, own, running, active, held, presses, inbox, life>>

(* Slots come zeroed from VirtualAlloc. *)
FreshSlot(k) ==
  [type |-> "player", at |-> k, id |-> 0, mine |-> FALSE, x |-> 0, y |-> 0, right |-> FALSE,
   action |-> LL, hp |-> 0, dead |-> FALSE, cur |-> <<STAND, FALSE>>,
   anim |-> [a \in Attacks \X BOOLEAN |-> ResetFrame]]

mpCreateMyCharacter(id, dir, x, y, hp)    == <<0, id, dir, x, y, hp>>
mpCreateOtherCharacter(id, dir, x, y, hp) == <<1, id, dir, x, y, hp>>
mpDeleteCharacter(id)       == <<2, id>>
mpMove(type, id, dir, x, y) == <<type + 1, id, dir, x, y>>   \* answers type, a CS_ packet
mpDamage(attacker, victim, hp) == <<30, attacker, victim, hp>>
mpSync(id, x, y)            == <<251, id, x, y>>

Join(c) == mpCreateMyCharacter(c, LL, Start[c][1], Start[c][2], StartHP)
Meet(c) == mpCreateOtherCharacter(c, LL, Start[c][1], Start[c][2], StartHP)

Init ==
  /\ list = [c \in Clients |-> <<>>]
  /\ pool = [c \in Clients |-> [k \in 1 .. Cardinality(Clients) |-> FreshSlot(k)]]
  /\ own = [c \in Clients |-> 0]
  /\ running = [c \in Clients |-> TRUE] /\ active = [c \in Clients |-> TRUE]
  /\ held = [c \in Clients |-> {}] /\ presses = Presses
  /\ inbox = [c \in Clients |-> <<Join(c)>> \o SetToSeq({Meet(d) : d \in Clients \ {c}})]
  /\ life = [c \in Clients |-> StartHP]
-----------------------------------------------------------------------------
IsPlayer(o) == o.type = "player"
Index(c, id) == SelectInSeq(list[c], LAMBDA o : o.id = id)     \* FindByObjectID, 0 if none
ListAt(c, at) == SelectInSeq(list[c], LAMBDA o : IsPlayer(o) /\ o.at = at)

(* The comparison of YSort: an effect after everything, the others by Y. *)
YsortingFunc(l, r) ==
  IF IsPlayer(l) THEN l.y >= r.y ELSE IsPlayer(r) \/ l.y >= r.y

Sort == INSTANCE ListSort WITH After <- YsortingFunc
YSortForgotten(s) == s

YSort(s) == Sort!QuickSort(s)

(* The elements of s at the positions I, in order. *)
Picked(s, I) ==
  [k \in 1 .. Cardinality(I) |-> s[CHOOSE i \in I : Cardinality({j \in I : j <= i}) = k]]

(* CObjectMgr::Run goes through the list once: it takes out the dead and runs *)
(* the others, and the effects these make are appended and run in the same    *)
(* pass.  The player's own dead character ends the pass.                      *)
RunObject(o) == IF IsPlayer(o) THEN RunPlayer(o) ELSE RunEffect(o)

RunPassGoesOn(s) ==
  LET n == Len(s)
      stop == SelectInSeq(s, LAMBDA o : o.dead /\ IsPlayer(o) /\ o.mine)
      reached == 1 .. IF stop = 0 THEN n ELSE stop
      gone == {i \in reached : s[i].dead}
      ran == [i \in 1 .. n |-> IF i \in reached \ gone THEN RunObject(s[i]) ELSE s[i]]
      hits == Picked(s, {i \in reached \ gone : IsPlayer(s[i]) /\ HitNow(s[i])})
      made == [i \in DOMAIN hits |-> NewEffect(hits[i].anim[hits[i].cur].hit)]
  IN [objects |-> Picked(ran, (1 .. n) \ gone)
                    \o (IF stop = 0 THEN [i \in DOMAIN made |-> RunEffect(made[i])] ELSE made),
      freed |-> Reverse(Picked(s, {i \in gone : IsPlayer(s[i])})),
      ok |-> TRUE]

RunPass(s) ==
  LET n == Len(s)
      stop == SelectInSeq(s, LAMBDA o : o.dead /\ IsPlayer(o) /\ o.mine)
      reached == 1 .. IF stop = 0 THEN n ELSE stop
      gone == {i \in reached : s[i].dead}
      ran == [i \in 1 .. n |-> IF i \in reached \ gone THEN RunObject(s[i]) ELSE s[i]]
      hits == Picked(s, {i \in reached \ gone : IsPlayer(s[i]) /\ HitNow(s[i])})
      made == [i \in DOMAIN hits |-> NewEffect(hits[i].anim[hits[i].cur].hit)]
  IN [objects |-> Picked(ran, (1 .. n) \ gone)
                    \o (IF stop = 0 THEN [i \in DOMAIN made |-> RunEffect(made[i])] ELSE made),
      freed |-> Reverse(Picked(s, {i \in gone : IsPlayer(s[i])})),
      ok |-> stop = 0]

(* The action the held keys ask for: an attack first, else where the arrows   *)
(* point, LEFT before RIGHT and UP before DOWN.                               *)
ReadAction(keys) ==
  LET lr == IF "LEFT" \in keys THEN LL ELSE IF "RIGHT" \in keys THEN RR ELSE STAND
      ud == IF "UP" \in keys THEN UU ELSE IF "DOWN" \in keys THEN DD ELSE STAND
  IN CASE "Z" \in keys -> 8
       [] "Z" \notin keys /\ "X" \in keys -> 9
       [] keys \cap {"Z", "X"} = {} /\ "C" \in keys -> 10
       [] OTHER -> CASE lr = LL /\ ud = UU -> LU
                     [] lr = RR /\ ud = UU -> RU
                     [] lr = RR /\ ud = DD -> RD
                     [] lr = LL /\ ud = DD -> LD
                     [] OTHER -> IF lr # STAND THEN lr ELSE ud
-----------------------------------------------------------------------------
(* What reaches the server from c: it is relayed to the others, a stop        *)
(* perhaps with a correction of the position ahead of it; an attack may hurt  *)
(* one of the others, of which all are told, and of whose death all but       *)
(* perhaps itself are.                                                        *)
Route(c, sent, rest) ==
  IF sent = <<>> \/ life[c] = 0 THEN inbox' = rest /\ UNCHANGED life
  ELSE LET p == sent[1]
           relayed == mpMove(p[1], c, p[2], p[3], p[4])
       IN \E sync \in IF p[1] = 12 THEN {<<>>, <<mpSync(c, p[3], p[4])>>} ELSE {<<>>},
             victim \in IF p[1] >= 20 THEN {d \in Clients \ {c} : life[d] > 0} \cup {c} ELSE {c} :
            LET hp == life[victim] - 1
                hit == IF victim = c THEN <<>> ELSE <<mpDamage(c, victim, hp)>>
                death == IF victim # c /\ hp = 0 THEN <<mpDeleteCharacter(victim)>> ELSE <<>>
            IN \E last \in {<<>>, death} :
                 /\ inbox' = [d \in Clients |->
                      rest[d] \o (IF d = c THEN <<>> ELSE Append(sync, relayed))
                              \o hit \o (IF d = victim THEN last ELSE death)]
                 /\ life' = IF victim = c THEN life ELSE [life EXCEPT ![victim] = hp]
-----------------------------------------------------------------------------
(* Input works on whatever is at m_playerObject.  After a delete packet that  *)
(* is a slot on the free list, whose contents are still those of the          *)
(* character, its animations excepted.                                        *)
Input(c, ended) ==
  LET i == ListAt(c, own[c])
      k == SelectInSeq(pool[c], LAMBDA s : s.at = own[c])
      freed == IF InAttack(pool[c][k]) THEN [pool[c][k] EXCEPT !.anim[pool[c][k].cur].end = ended]
                                       ELSE pool[c][k]
      act == ReadAction(held[c])
  IN CASE ~active[c] \/ own[c] = 0 -> [objects |-> list[c], slots |-> pool[c], sent |-> <<>>]
       [] active[c] /\ own[c] # 0 /\ i > 0 ->
            [objects |-> ReplaceAt(list[c], i, InputActionProc(list[c][i], act)),
             slots |-> pool[c], sent |-> Announcement(list[c][i], act)]
       [] OTHER ->
            [objects |-> list[c], slots |-> ReplaceAt(pool[c], k, InputActionProc(freed, act)),
             sent |-> Announcement(freed, act)]

(* One turn of the message loop without a message *)
RunCycle(c) ==
  /\ running[c] /\ \A d \in Clients \ {c} : Len(inbox[d]) <= MaxInbox
  /\ \E in \in {Input(c, ended) : ended \in BOOLEAN} : \E run \in {RunPass(in.objects)} :
       /\ list' = [list EXCEPT ![c] = YSort(run.objects)]
       /\ pool' = [pool EXCEPT ![c] = run.freed \o in.slots]
       /\ running' = [running EXCEPT ![c] = run.ok]
       /\ Route(c, in.sent, inbox)
  /\ UNCHANGED <<own, active, held, presses>>

(* The player presses or releases a key, or goes to another window and back.  *)
PressKey(c, k) ==
  /\ running[c] /\ presses[c] > 0
  /\ held' = [held EXCEPT ![c] = (@ \ {k}) \cup ({k} \ @)]
  /\ presses' = [presses EXCEPT ![c] = @ - 1]
  /\ UNCHANGED <<list, pool, own, running, active, inbox, life>>

ActivateApp(c) ==
  /\ running[c] /\ presses[c] > 0
  /\ active' = [active EXCEPT ![c] = ~@]
  /\ presses' = [presses EXCEPT ![c] = @ - 1]
  /\ UNCHANGED <<list, pool, own, running, held, inbox, life>>
-----------------------------------------------------------------------------
(* The packet handlers, called by RecvEvent between two turns. *)
Packet(c) == Head(inbox[c])
Taken(c) == [inbox EXCEPT ![c] = Tail(@)]
Receives(c, types) == running[c] /\ inbox[c] # <<>> /\ Packet(c)[1] \in types

PlacedKeepsDirection(o, p) == SetPosition(o, p[4], p[5])
Placed(o, p) == [SetPosition(o, p[4], p[5]) EXCEPT !.right = p[3] # LL]

Create(c, mine) ==
  LET p == Packet(c)
      new == [SetHP(Placed(NewPlayer(Head(pool[c]), p[2]), p), p[6]) EXCEPT !.mine = mine]
  IN /\ list' = [list EXCEPT ![c] = Append(@, InputActionProc(new, STAND))]
     /\ pool' = [pool EXCEPT ![c] = Tail(@)]
     /\ Route(c, Announcement(new, STAND), Taken(c))
     /\ UNCHANGED <<running, active, held, presses>>

netPacketProc_CreateMyCharacter(c) ==
  /\ Receives(c, {0}) /\ Create(c, TRUE)
  /\ own' = [own EXCEPT ![c] = Head(pool[c]).at]

CreateOtherAsOwn(c) ==
  Receives(c, {1}) /\ Create(c, FALSE) /\ own' = [own EXCEPT ![c] = Head(pool[c]).at]

netPacketProc_CreateOtherCharacter(c) ==
  Receives(c, {1}) /\ Create(c, FALSE) /\ UNCHANGED own

netPacketProc_DeleteCharacter(c) ==
  /\ Receives(c, {2})
  /\ LET i == Index(c, Packet(c)[2])
     IN /\ list' = IF i = 0 THEN list ELSE [list EXCEPT ![c] = RemoveAt(@, i)]
        /\ pool' = IF i = 0 THEN pool ELSE [pool EXCEPT ![c] = <<list[c][i]>> \o @]
  /\ inbox' = Taken(c)
  /\ UNCHANGED <<own, running, active, held, presses, life>>

(* The handlers that change the one object they find: before is the object    *)
(* when InputActionProc(action) is called, after what they leave.             *)
Found(c) == list[c][Index(c, Packet(c)[2])]

Act(c, before, action, after) ==
  LET i == Index(c, Packet(c)[2])
  IN /\ IF i = 0 THEN UNCHANGED list /\ Route(c, <<>>, Taken(c))
         ELSE /\ list' = [list EXCEPT ![c][i] = after]
              /\ Route(c, Announcement(before, action), Taken(c))
     /\ UNCHANGED <<pool, own, running, active, held, presses>>

netPacketProc_MoveStart(c) ==
  /\ Receives(c, {11})
  /\ LET moved == InputActionProc(Found(c), Packet(c)[3])
     IN Act(c, Found(c), Packet(c)[3], SetPosition(moved, Packet(c)[4], Packet(c)[5]))

netPacketProc_MoveStop(c) ==
  /\ Receives(c, {13})
  /\ LET o == Placed(Found(c), Packet(c))
     IN Act(c, o, STAND, InputActionProc(o, STAND))

(* Of an attack packet: the action it asks for. *)
AttackOf(c) == (Packet(c)[1] - 5) \div 2

AttackNoReset(c) ==
  /\ Receives(c, {21, 23, 25})
  /\ LET o == Placed(Found(c), Packet(c))
     IN Act(c, o, AttackOf(c), InputActionProc(o, AttackOf(c)))

netPacketProc_Attack(c) ==
  /\ Receives(c, {21, 23, 25})
  /\ LET o == Placed(Found(c), Packet(c))
     IN Act(c, o, AttackOf(c), LoopResetFrame(InputActionProc(o, AttackOf(c))))

netPacketProc_Damage(c) ==
  /\ Receives(c, {30})
  /\ LET p == Packet(c)
         i == Index(c, p[2])
         j == Index(c, p[3])
     IN list' = IF i = 0 \/ j = 0 THEN list
                ELSE LET hit == [list EXCEPT ![c][i] =
                                   SetHitEffect(@, <<list[c][j].x, list[c][j].y - Lift>>)]
                     IN [hit EXCEPT ![c][j] = SetHP(@, p[4])]
  /\ inbox' = Taken(c)
  /\ UNCHANGED <<pool, own, running, active, held, presses, life>>

netPacketProc_Sync(c) ==
  /\ Receives(c, {251})
  /\ LET p == Packet(c)
         i == Index(c, p[2])
     IN list' = IF i = 0 THEN list ELSE [list EXCEPT ![c][i] = SetPosition(@, p[3], p[4])]
  /\ inbox' = Taken(c)
  /\ UNCHANGED <<pool, own, running, active, held, presses, life>>

PacketProc(c) ==
  \/ netPacketProc_CreateMyCharacter(c) \/ netPacketProc_CreateOtherCharacter(c)
  \/ netPacketProc_DeleteCharacter(c)   \/ netPacketProc_MoveStart(c)
  \/ netPacketProc_MoveStop(c)          \/ netPacketProc_Attack(c)
  \/ netPacketProc_Damage(c)            \/ netPacketProc_Sync(c)

Next == \E c \in Clients :
          \/ RunCycle(c) \/ PacketProc(c) \/ ActivateApp(c)
          \/ \E k \in Keys : PressKey(c, k)

(* The message loop of a running client goes on, and what was sent arrives.   *)
Fairness == \A c \in Clients : WF_vars(RunCycle(c)) /\ WF_vars(PacketProc(c))

Spec == Init /\ [][Next]_vars /\ Fairness
-----------------------------------------------------------------------------
OwnIndex(c) == IF own[c] = 0 THEN 0 ELSE ListAt(c, own[c])

(* While the server counts a character among the living, the pointer its      *)
(* client keeps to it (GameMgr.cpp:357) is to the object on the list.         *)
PointerLive ==
  \A c \in Clients : running[c] /\ own[c] # 0 /\ life[c] > 0 =>
    OwnIndex(c) # 0 /\ list[c][OwnIndex(c)].mine /\ list[c][OwnIndex(c)].id = c

(* When a character stands, its copies that stand are where it is and face    *)
(* where it faces, once nothing is on its way to them (PlayerObject.cpp:238). *)
CopyAgrees ==
  \A c, d \in Clients :
    LET i == OwnIndex(c)
        j == Index(d, c)
    IN /\ c # d /\ running[c] /\ i # 0 /\ j # 0 /\ inbox[d] = <<>> /\ life[c] > 0
       /\ list[c][i].action = STAND /\ list[d][j].action = STAND
       => <<list[c][i].x, list[c][i].y, list[c][i].right>>
            = <<list[d][j].x, list[d][j].y, list[d][j].right>>

(* An attack of the player's own character leaves nothing behind for the next *)
(* (PlayerObject.cpp:84-95): its animation is back at the first frame and     *)
(* owes no effect.                                                            *)
OwnAttackComplete ==
  \A c \in Clients :
    LET i == OwnIndex(c)
    IN i # 0 => \A a \in (Attacks \X BOOLEAN) \ {list[c][i].cur} : list[c][i].anim[a] = ResetFrame

(* "Find the character and let it do attack 1; if its direction differs, turn *)
(* it that way first" (PacketDefine.h:176-177): an attack received is shown   *)
(* from its first frame, in the direction announced, whatever the copy was    *)
(* doing (PacketProc.cpp:178-206).                                            *)
AttackShown ==
  [][\A c \in Clients :
       LET i == Index(c, Packet(c)[2])
           cur == <<(Packet(c)[1] - 5) \div 2, Packet(c)[3] # LL>>
       IN netPacketProc_Attack(c) /\ i # 0 =>
            list'[c][i].cur = cur /\ list'[c][i].anim[cur] = ResetFrame]_vars

(* Characters are drawn from the back to the front (ObjectMgr.cpp:151-174) as *)
(* long as no effect is among them.                                           *)
SortedWithoutEffects ==
  [][\A c \in Clients :
       RunCycle(c) /\ (\A i \in 1 .. Len(list'[c]) : IsPlayer(list'[c][i])) =>
         \A i \in 1 .. Len(list'[c]) - 1 : list'[c][i].y <= list'[c][i + 1].y]_vars

(* A client whose character died ends (ObjectMgr.cpp:126-132), unless a       *)
(* delete packet is to take the character from it first.                      *)
OwnDeathEnds ==
  \A c \in Clients :
    (/\ OwnIndex(c) # 0 /\ list[c][OwnIndex(c)].dead
     /\ \A k \in 1 .. Len(inbox[c]) : inbox[c][k] # mpDeleteCharacter(c)) ~> ~running[c]

(* When the players have let go of the keys, every client comes to show every *)
(* living character standing where its owner has it, and no dead one.         *)
Shown(c, d) ==
  LET i == OwnIndex(c)
      j == Index(d, c)
  IN running[d] => IF life[c] = 0 THEN j = 0
                   ELSE /\ i # 0 /\ j # 0 /\ list[d][j].action = STAND
                        /\ list[c][i].action = STAND
                        /\ <<list[c][i].x, list[c][i].y, list[c][i].right>>
                             = <<list[d][j].x, list[d][j].y, list[d][j].right>>

Settles ==
  <>[](\A c \in Clients : held[c] = {} /\ active[c])
    => <>[](\A c, d \in Clients : c # d => Shown(c, d))

(* After a game cycle effects are drawn over the characters: "put the effects *)
(* at the very back [of the list], sort the rest by Y" (GameMgr.cpp:339).     *)
EffectsLast ==
  [][\A c \in Clients : RunCycle(c) =>
       \A i, j \in 1 .. Len(list'[c]) :
         i < j /\ ~IsPlayer(list'[c][i]) /\ ~list'[c][i].dead => ~IsPlayer(list'[c][j])]_vars
=============================================================================
