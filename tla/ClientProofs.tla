---------------------------- MODULE ClientProofs ----------------------------
(* Proofs about the client's frame timer, renderer and send path, and about   *)
(* the cutting of a connection into packets by the client and by the server,  *)
(* for all values of their constants.                                         *)
EXTENDS FPSTimer, Renderer, ClientSend, ClientRecv, ServerRecv, RingBufferProofs,
        SequenceTheorems, WellFoundedInduction, TLAPS

(* Types of what KeepsPace is about. *)
TimerType == clock \in Int /\ prev \in Int /\ accumulate \in Int

(* Sleep sleeps less than asked for by less than one unit, and never longer.  *)
LEMMA SleepRounds ==
  ASSUME NEW n \in Int
  PROVE  Slept(n) \in Int /\ Slept(n) <= n /\ n < Slept(n) + SleepUnit
<1> DEFINE q == n \div SleepUnit
<1>1. SleepUnit \in Nat \ {0}  BY TimerAssumption
<1>2. q \in Int /\ n = q * SleepUnit + (n % SleepUnit) /\ n % SleepUnit \in 0 .. SleepUnit - 1
  BY <1>1
<1> QED BY <1>1, <1>2 DEF Slept

(* Every turn moves the game's clock on by a frame and its debt by no more    *)
(* than the turn was late, so the bounds of KeepsPace are kept by each step   *)
(* without further help.                                                      *)
THEOREM PaceAlwaysKept == TimerSpec => []KeepsPace
<1> USE TimerAssumption
<1>1. TimerInit => TimerType /\ KeepsPace
  BY DEF TimerInit, TimerType, KeepsPace, Late
<1>2. TimerType /\ KeepsPace /\ [TimerNext]_timerVars => TimerType' /\ KeepsPace'
  <2> SUFFICES ASSUME TimerType, KeepsPace, [TimerNext]_timerVars
               PROVE  TimerType' /\ KeepsPace'
    OBVIOUS
  <2>1. CASE TimePasses
    BY <2>1 DEF TimePasses, TimerType, KeepsPace, Late
  <2>2. CASE CheckSec
    BY <2>2 DEF CheckSec, TimerType, KeepsPace, Late
  <2>3. CASE DontSkipRendering
    <3>1. Late \in Int  BY DEF Late, TimerType
    <3>2. prev' = prev + Frame /\ accumulate' = Debt
      BY <2>3 DEF DontSkipRendering
    <3>3. CASE accumulate <= Frame /\ Late < Frame
      <4>1. clock' = clock + Slept(Frame - Late)
        BY <2>3, <3>3 DEF DontSkipRendering
      <4>2. Slept(Frame - Late) \in Int /\ Slept(Frame - Late) <= Frame - Late
            /\ Frame - Late < Slept(Frame - Late) + SleepUnit
        BY <3>1, SleepRounds
      <4> HIDE DEF Slept
      <4>3. accumulate' = accumulate
        BY <3>2, <3>3, <3>1 DEF Debt, TimerType
      <4> QED BY <3>1, <3>2, <3>3, <4>1, <4>2, <4>3 DEF TimerType, KeepsPace, Late
    <3>4. CASE ~(accumulate <= Frame /\ Late < Frame)
      <4>1. clock' = clock
        BY <2>3, <3>4 DEF DontSkipRendering
      <4> QED BY <3>1, <3>2, <3>4, <4>1 DEF TimerType, KeepsPace, Late, Debt
    <3> QED BY <3>3, <3>4
  <2>4. CASE UNCHANGED timerVars
    BY <2>4 DEF timerVars, TimerType, KeepsPace, Late
  <2> QED BY <2>1, <2>2, <2>3, <2>4 DEF TimerNext
<1> QED BY <1>1, <1>2, PTL DEF TimerSpec
-----------------------------------------------------------------------------
(* The loops of the drawing functions run over exactly the pixels of a sprite *)
(* of length len at d that are on the screen, if it is smaller than that.     *)
LEMMA SpanExact ==
  ASSUME NEW d \in Int, NEW len \in Int, NEW limit \in Int, 0 < len, len < limit
  PROVE  Span(d, len, limit) = {s \in 0 .. limit - 1 : s - d \in 0 .. len - 1}
<1>1. CASE d < 0
  <2>1. Span(d, len, limit) = 0 .. len + d - 1
    BY <1>1 DEF Span, ClipStart, ClipCount
  <2> QED BY <1>1, <2>1
<1>2. CASE d >= 0 /\ limit - 1 < d + len
  <2>1. Span(d, len, limit) = d .. limit - 1
    BY <1>2 DEF Span, ClipStart, ClipCount
  <2> QED BY <1>2, <2>1
<1>3. CASE d >= 0 /\ ~(limit - 1 < d + len)
  <2>1. Span(d, len, limit) = d .. d + len - 1
    BY <1>3 DEF Span, ClipStart, ClipCount
  <2> QED BY <1>3, <2>1
<1> QED BY <1>1, <1>2, <1>3

(* The pixel of the sprite that belongs there is the one that is copied.      *)
LEMMA SkipExact ==
  ASSUME NEW d \in Int, NEW s \in Int
  PROVE  s - ClipStart(d) + ClipSkip(d) = s - d
BY DEF ClipStart, ClipSkip

(* What DrawnExactly says of a sprite of w by h at (x, y). *)
DrawnAt(x, y, w, h) ==
  written' = [p \in {s \in (0 .. ScreenW - 1) \X (0 .. ScreenH - 1) :
                       s[1] - x \in 0 .. w - 1 /\ s[2] - y \in 0 .. h - 1} |->
                <<p[1] - x, p[2] - y>>]

LEMMA CopyExact ==
  ASSUME NEW x \in Int, NEW y \in Int, NEW w \in Int, NEW h \in Int,
         0 < w, w < ScreenW, 0 < h, h < ScreenH, CopyPixels(x, y, w, h)
  PROVE  DrawnAt(x, y, w, h)
<1> DEFINE X == {s \in 0 .. ScreenW - 1 : s - x \in 0 .. w - 1}
           Y == {s \in 0 .. ScreenH - 1 : s - y \in 0 .. h - 1}
           Both == {s \in (0 .. ScreenW - 1) \X (0 .. ScreenH - 1) :
                      s[1] - x \in 0 .. w - 1 /\ s[2] - y \in 0 .. h - 1}
<1>1. Span(x, w, ScreenW) = X /\ Span(y, h, ScreenH) = Y
  <2>1. ScreenW \in Int /\ ScreenH \in Int
    BY ScreenAssumption
  <2>2. Span(x, w, ScreenW) = X
    BY <2>1, SpanExact
  <2>3. Span(y, h, ScreenH) = Y
    BY <2>1, SpanExact
  <2> QED BY <2>2, <2>3
<1>2. X \X Y = Both
  OBVIOUS
<1>3. written' = [p \in X \X Y |->
                    <<p[1] - ClipStart(x) + ClipSkip(x), p[2] - ClipStart(y) + ClipSkip(y)>>]
  BY <1>1 DEF CopyPixels
<1>4. \A p \in X \X Y : /\ p[1] - ClipStart(x) + ClipSkip(x) = p[1] - x
                        /\ p[2] - ClipStart(y) + ClipSkip(y) = p[2] - y
  <2>1. \A s \in X : s \in Int
    BY ScreenAssumption
  <2>2. \A s \in Y : s \in Int
    BY ScreenAssumption
  <2>3. \A s \in X : s - ClipStart(x) + ClipSkip(x) = s - x
    BY <2>1, SkipExact
  <2>4. \A s \in Y : s - ClipStart(y) + ClipSkip(y) = s - y
    BY <2>2, SkipExact
  <2> HIDE DEF X, Y
  <2> QED BY <2>3, <2>4
<1>5. written' = [p \in X \X Y |-> <<p[1] - x, p[2] - y>>]
  BY <1>3, <1>4
<1> QED BY <1>2, <1>5 DEF DrawnAt

(* The camera of a player on the map shows only the map. *)
LEMMA CameraOnMap ==
  ASSUME NEW p \in Int, NEW size \in Nat \ {0}, NEW map \in Nat,
         size % 2 = 0, size < map, p <= map
  PROVE  Camera(p, size, map) \in 0 .. map - size
BY DEF Camera

(* What every state of the renderer satisfies. *)
RenderInv == /\ cameraX \in Int /\ cameraY \in Int
             /\ ViewCovered
             /\ DrawnExactly

(* The tiles laid from a multiple of Tile on cover a screen that begins less  *)
(* than a tile later.                                                         *)
LEMMA TilesCover ==
  ASSUME NEW c \in Int, NEW size \in Nat
  PROVE  /\ c - (c % Tile) <= c
         /\ c + size <= (c - (c % Tile)) + Tile * ((size \div Tile) + 2)
         /\ size % Tile = 0 => c + size <= (c - (c % Tile)) + Tile * ((size \div Tile) + 1)
<1> DEFINE q == size \div Tile
<1>1. Tile \in Nat \ {0}
  BY TileAssumption
<1>2. c % Tile \in 0 .. Tile - 1 /\ size % Tile \in 0 .. Tile - 1
  BY <1>1
<1>3. q \in Int /\ size = Tile * q + (size % Tile)
  BY <1>1
<1>4. Tile * (q + 1) = Tile * q + Tile /\ Tile * (q + 2) = Tile * q + 2 * Tile
  BY <1>1, <1>3
<1> QED BY <1>1, <1>2, <1>3, <1>4

LEMMA RenderTilemapKeeps ==
  ASSUME RenderInv, NEW x \in 0 .. MapRight - 1, NEW y \in 0 .. MapBottom - 1,
         RenderTilemap(x, y)
  PROVE  RenderInv'
<1>1. cameraX' \in 0 .. MapRight - ScreenW
  BY CameraOnMap, ScreenAssumption, MapAssumption DEF RenderTilemap
<1>2. cameraY' \in 0 .. MapBottom - ScreenH
  <2>1. y - Shift \in Int /\ y - Shift <= MapBottom
    BY MapAssumption, TileAssumption
  <2> QED BY <2>1, CameraOnMap, ScreenAssumption, MapAssumption DEF RenderTilemap
<1>3. cameraX' \in Int /\ cameraY' \in Int
  BY <1>1, <1>2, ScreenAssumption, MapAssumption
<1>4. fixX' <= cameraX' /\ cameraX' + ScreenW <= fixX' + Tile * ((ScreenW \div Tile) + 1)
  BY <1>3, TilesCover, ScreenAssumption, TileAssumption DEF RenderTilemap
<1>5. fixY' <= cameraY' /\ cameraY' + ScreenH <= fixY' + Tile * ((ScreenH \div Tile) + 2)
  BY <1>3, TilesCover, ScreenAssumption DEF RenderTilemap
<1>6. ViewCovered'
  BY <1>1, <1>2, <1>4, <1>5 DEF ViewCovered
<1>7. DrawnExactly'
  BY DEF RenderInv, DrawnExactly, RenderTilemap
<1> QED BY <1>3, <1>6, <1>7 DEF RenderInv

(* A sprite as wide as w, or not drawn at all. *)
LEMMA CopyKeeps ==
  ASSUME RenderInv, NEW x \in Int, NEW y \in Int, NEW w \in Int, NEW h \in Int,
         w < ScreenW, 0 < h, h < ScreenH, CopyPixels(x, y, w, h)
  PROVE  RenderInv'
<1>1. request' = [x |-> x, y |-> y, w |-> w, h |-> h]
  BY DEF CopyPixels
<1>2. UNCHANGED <<cameraX, cameraY, fixX, fixY>>
  BY DEF CopyPixels
<1>3. DrawnExactly'
  <2>1. SUFFICES ASSUME 0 < w PROVE DrawnAt(x, y, w, h)
    BY <1>1 DEF DrawnExactly, DrawnAt
  <2> QED BY <2>1, CopyExact
<1> QED BY <1>2, <1>3 DEF RenderInv, ViewCovered

(* The share of the HP bar that is drawn is no longer than the bar. *)
LEMMA ShareShorter ==
  ASSUME NEW w \in Nat, NEW percentage \in 0 .. 100
  PROVE  (w * percentage) \div 100 \in Int /\ (w * percentage) \div 100 <= w
<1> DEFINE v == w * percentage
<1>1. v \in Nat /\ v <= 100 * w
  <2>1. w * percentage <= w * 100
    OBVIOUS
  <2> QED BY <2>1
<1> HIDE DEF v
<1>2. v \div 100 \in Int /\ v \div 100 <= w
  BY <1>1
<1> QED BY <1>2 DEF v

(* Sprites are drawn at exactly their pixels that are on the screen, from     *)
(* every state, because the clipping of one axis is exact; the camera shows   *)
(* the map and the tiles cover the screen in every state because Camera       *)
(* keeps to the map for every player that does (RenderMgr.cpp:50-440).        *)
LEMMA RenderInvAlways == RenderSpec => []RenderInv
<1>1. RenderInit => RenderInv
  <2> SUFFICES ASSUME RenderInit PROVE RenderInv
    OBVIOUS
  <2>1. cameraX = 0 /\ cameraY = 0 /\ fixX = 0 /\ fixY = 0 /\ request.w = 0
    BY DEF RenderInit, NoSprite
  <2>2. 0 % Tile = 0
    BY TileAssumption
  <2>3. ScreenW <= Tile * ((ScreenW \div Tile) + 1) /\ ScreenH <= Tile * ((ScreenH \div Tile) + 2)
    BY <2>2, TilesCover, ScreenAssumption, TileAssumption
  <2> QED BY <2>1, <2>3, ScreenAssumption, MapAssumption, TileAssumption
          DEF RenderInv, ViewCovered, DrawnExactly
<1>2. RenderInv /\ [RenderNext]_renderVars => RenderInv'
  <2> SUFFICES ASSUME RenderInv, [RenderNext]_renderVars PROVE RenderInv'
    OBVIOUS
  <2>1. CASE ClearScreen
    BY <2>1 DEF ClearScreen, NoSprite, RenderInv, ViewCovered, DrawnExactly
  <2>2. CASE \E x \in 0 .. MapRight - 1, y \in 0 .. MapBottom - 1 : RenderTilemap(x, y)
    BY <2>2, RenderTilemapKeeps
  <2>3. ASSUME NEW w \in SpriteSizes, NEW h \in SpriteSizes,
               NEW x \in cameraX - w - 1 .. cameraX + ScreenW + 1,
               NEW y \in cameraY - h - 1 .. cameraY + ScreenH + 1,
               \/ \E percentage \in Percentages : Render(x, y, w, h, percentage)
               \/ Render50(x, y, w, h) \/ RenderRed(x, y, w, h)
        PROVE  RenderInv'
    <3>1. w \in Nat /\ 0 < w /\ w < ScreenW /\ h \in Int /\ 0 < h /\ h < ScreenH
      BY ScreenAssumption, SpriteAssumption
    <3>2. x - cameraX \in Int /\ y - cameraY \in Int
      BY <3>1, ScreenAssumption DEF RenderInv
    <3>3. ASSUME NEW percentage \in Percentages, Render(x, y, w, h, percentage)
          PROVE  RenderInv'
      <4> DEFINE v == (w * percentage) \div 100
      <4>1. percentage \in 0 .. 100
        BY SpriteAssumption
      <4>2. v \in Int /\ v <= w
        BY <3>1, <4>1, ShareShorter
      <4>3. CopyPixels(x - cameraX, y - cameraY, v, h)
        BY <3>3 DEF Render
      <4> HIDE DEF v
      <4>4. v < ScreenW
        BY <3>1, <4>2, ScreenAssumption
      <4> QED BY <3>1, <3>2, <4>2, <4>3, <4>4, CopyKeeps
    <3>4. CASE Render50(x, y, w, h) \/ RenderRed(x, y, w, h)
      <4>1. CopyPixels(x - cameraX, y - cameraY, w, h)
        BY <3>4 DEF Render50, RenderRed
      <4> QED BY <3>1, <3>2, <4>1, CopyKeeps
    <3> QED BY <2>3, <3>3, <3>4
  <2>4. CASE UNCHANGED renderVars
    BY <2>4 DEF renderVars, RenderInv, ViewCovered, DrawnExactly
  <2> QED BY <2>1, <2>2, <2>3, <2>4 DEF RenderNext
<1> QED BY <1>1, <1>2, PTL DEF RenderSpec

(* A sprite on, partly off or off the screen is drawn at exactly its pixels   *)
(* that are on the screen (RenderMgr.cpp:50-301), for every screen, sprite    *)
(* and map.                                                                   *)
THEOREM RenderedAlways == RenderSpec => []DrawnExactly
<1>1. RenderInv => DrawnExactly
  BY DEF RenderInv
<1> QED BY <1>1, RenderInvAlways, PTL

(* The camera shows only the map and the tiles cover the screen               *)
(* (RenderMgr.cpp:399-440), for every screen, tile and map.                   *)
THEOREM ViewAlwaysCovered == RenderSpec => []ViewCovered
<1>1. RenderInv => ViewCovered
  BY DEF RenderInv
<1> QED BY <1>1, RenderInvAlways, PTL
-----------------------------------------------------------------------------
(* A byte of a packet: which packet, and where in it. *)
Sent == Int \X Int

SendType == /\ sqFront \in Offsets /\ sqRear \in Offsets
            /\ queued \in Seq(Sent) /\ kernel \in Seq(Sent)
            /\ wire \in Seq(Sent) /\ given \in Seq(Sent)
            /\ packets \in Nat

(* What the event flags owe the bytes in the queue. *)
Owed == /\ ~isConnected => queued = <<>>
        /\ isConnected /\ ~isSendPossible => armed \/ posted
        /\ isConnected /\ sendPc = "idle" /\ queued # <<>> /\ ~sendFailed => ~isSendPossible
        /\ sendPc \in {"idle", "send", "write", "quit"}

(* The packets are somewhere between SendPacket and the wire, in order. *)
Whole == ~torn => (wire \o kernel) \o queued = given

OffsetsTrue == sendPc # "quit" => Len(queued) = GetUseSize(sqFront, sqRear)

SendInv == SendType /\ Owed /\ Whole /\ OffsetsTrue

(* Bytes taken from the front of one sequence and put at the end of another   *)
(* are still between the same bytes.                                          *)
LEMMA HandedOn ==
  ASSUME NEW s \in Seq(Sent), NEW t \in Seq(Sent), NEW n \in 0 .. Len(t)
  PROVE  /\ SubSeq(t, 1, n) \in Seq(Sent) /\ SubSeq(t, n + 1, Len(t)) \in Seq(Sent)
         /\ Len(SubSeq(t, n + 1, Len(t))) = Len(t) - n
         /\ s \o SubSeq(t, 1, n) \in Seq(Sent)
         /\ (s \o SubSeq(t, 1, n)) \o SubSeq(t, n + 1, Len(t)) = s \o t
<1> DEFINE p == SubSeq(t, 1, n)
           q == SubSeq(t, n + 1, Len(t))
<1>1. Len(t) \in Nat /\ \A i \in 1 .. Len(t) : t[i] \in Sent
  BY LenProperties, ElementOfSeq
<1>2. p \in Seq(Sent)
  <2>1. 1 \in Int /\ n \in Int /\ \A i \in 1 .. n : t[i] \in Sent
    BY <1>1
  <2> QED BY <2>1, SubSeqProperties
<1>3. q \in Seq(Sent) /\ Len(q) = Len(t) - n
  <2>1. n + 1 \in Int /\ Len(t) \in Int /\ \A i \in n + 1 .. Len(t) : t[i] \in Sent
    BY <1>1
  <2>2. q \in Seq(Sent) /\ Len(q) = IF n + 1 <= Len(t) THEN Len(t) - (n + 1) + 1 ELSE 0
    BY <2>1, SubSeqProperties
  <2> QED BY <2>2, <1>1
<1>4. p \o q = t
  <2>1. /\ 1 \in 1 .. Len(t) + 1 /\ n \in 1 - 1 .. Len(t) /\ Len(t) \in n .. Len(t)
    BY <1>1
  <2>2. p \o q = SubSeq(t, 1, Len(t))
    BY <2>1, ConcatAdjacentSubSeq
  <2> QED BY <2>2, SubSeqFull
<1> HIDE DEF p, q
<1>5. (s \o p) \o q = s \o (p \o q)
  BY <1>2, <1>3, ConcatAssociative
<1>6. s \o p \in Seq(Sent)
  BY <1>2, ConcatProperties
<1> QED BY <1>2, <1>3, <1>4, <1>5, <1>6 DEF p, q

(* A call of SendPacket queues as much of the packet as fits. *)
LEMMA SendPacketKeeps ==
  ASSUME SendInv, NEW size \in PacketSizes, SendPacket(size)
  PROVE  SendInv'
<1> DEFINE p == [j \in 1 .. size |-> <<packets + 1, j>>]
           n == EnqueueCount(sqFront, sqRear, size)
<1>1. CASE isConnected
  <2>1. /\ queued' = queued \o SubSeq(p, 1, n)
        /\ sqRear' = Wrap(sqRear + n)
        /\ given' = given \o p
        /\ torn' = (torn \/ n < size)
        /\ sendPc' = "send"
        /\ packets' = packets + 1
        /\ UNCHANGED <<sqFront, kernel, wire, isConnected, isSendPossible, armed, posted>>
        /\ sendPc = "idle"
    BY <1>1 DEF SendPacket, eventVars
  <2>2. size \in Nat /\ size > 0
    BY PacketSizesAssumption
  <2>3. p \in Seq(Sent) /\ Len(p) = size
    <3>1. p \in [1 .. size -> Sent]
      BY <2>2 DEF SendInv, SendType, Sent
    <3> QED BY <2>2, <3>1
  <2>4. n \in 0 .. GetFreeSize(sqFront, sqRear) /\ n \in 0 .. size /\ (~(n < size) => n = size)
    BY <2>2, EnqueueCopies, Sizes DEF SendInv, SendType
  <2> HIDE DEF p, n
  <2>5. sqRear' \in Offsets /\ GetUseSize(sqFront', sqRear') = GetUseSize(sqFront, sqRear) + n
    BY <2>1, <2>4, Moved DEF SendInv, SendType
  <2>6. /\ SubSeq(p, 1, n) \in Seq(Sent) /\ Len(SubSeq(p, 1, n)) = n
        /\ n = size => SubSeq(p, 1, n) = p
    <3>1. \A i \in 1 .. n : p[i] \in Sent
      BY <2>3, <2>4, ElementOfSeq
    <3>2. 1 \in Int /\ n \in Int
      BY <2>4
    <3>3. SubSeq(p, 1, n) \in Seq(Sent) /\ Len(SubSeq(p, 1, n)) = IF 1 <= n THEN n - 1 + 1 ELSE 0
      BY <3>1, <3>2, SubSeqProperties
    <3>4. Len(SubSeq(p, 1, n)) = n
      BY <3>3, <2>4
    <3>5. SubSeq(p, 1, Len(p)) = p
      BY <2>3, SubSeqFull
    <3> QED BY <3>3, <3>4, <3>5, <2>3
  <2>7. queued' \in Seq(Sent) /\ Len(queued') = Len(queued) + n
    BY <2>1, <2>6, ConcatProperties DEF SendInv, SendType
  <2>8. given' \in Seq(Sent)
    BY <2>1, <2>3, ConcatProperties DEF SendInv, SendType
  <2>9. SendType'
    BY <2>1, <2>5, <2>7, <2>8 DEF SendInv, SendType
  <2>10. Owed'
    BY <1>1, <2>1 DEF SendInv, Owed
  <2>11. OffsetsTrue'
    BY <2>1, <2>5, <2>7 DEF SendInv, OffsetsTrue
  <2>12. Whole'
    <3> SUFFICES ASSUME ~torn' PROVE ((wire \o kernel) \o queued)' = given'
      BY DEF Whole
    <3>1. ~torn /\ n = size
      BY <2>1, <2>4
    <3> DEFINE sent == wire \o kernel
    <3>2. sent \in Seq(Sent) /\ queued \in Seq(Sent) /\ p \in Seq(Sent)
      BY <2>3, ConcatProperties DEF SendInv, SendType
    <3>3. (sent \o queued) \o p = sent \o (queued \o p)
      <4> HIDE DEF sent
      <4> QED BY <3>2, ConcatAssociative
    <3>4. queued' = queued \o p
      BY <2>1, <2>6, <3>1
    <3> QED BY <2>1, <3>1, <3>3, <3>4 DEF SendInv, Whole
  <2> QED BY <2>9, <2>10, <2>11, <2>12 DEF SendInv
<1>2. CASE ~isConnected
  <2>1. /\ packets' = packets + 1
        /\ UNCHANGED <<sqFront, sqRear, queued, kernel, wire, given, torn, sendPc, sendFailed,
                       isConnected, isSendPossible, armed, posted>>
    BY <1>2 DEF SendPacket, queueVars, eventVars
  <2> QED BY <2>1 DEF SendInv, SendType, Owed, Whole, OffsetsTrue
<1> QED BY <1>1, <1>2

(* What send takes moves from the queue to the kernel. *)
LEMMA SendSomeKeeps ==
  ASSUME SendInv, NEW n \in 1 .. MaxSize, SendSome(n)
  PROVE  SendInv'
<1>1. /\ sendPc \in {"send", "write"} /\ n <= DirectDequeueSize(sqFront, sqRear)
      /\ kernel' = kernel \o SubSeq(queued, 1, n)
      /\ UNCHANGED <<sqRear, wire, given, packets, torn,
                     isConnected, isSendPossible, armed, posted>>
  BY DEF SendSome, InSendEvent, Direct, eventVars
<1>2. n \in 1 .. GetUseSize(sqFront, sqRear) /\ GetUseSize(sqFront, sqRear) = Len(queued)
  <2>1. sqFront \in Offsets /\ sqRear \in Offsets
    BY DEF SendInv, SendType
  <2>2. GetUseSize(sqFront, sqRear) = Len(queued)
    BY <1>1 DEF SendInv, OffsetsTrue
  <2>3. /\ GetUseSize(sqFront, sqRear) \in Nat
        /\ DirectDequeueSize(sqFront, sqRear) <= GetUseSize(sqFront, sqRear)
        /\ DirectDequeueSize(sqFront, sqRear) \in Int
    <3>1. DirectDequeueSize(sqFront, sqRear) \in Int
      BY <2>1, MaxSizeAssumption DEF DirectDequeueSize, Offsets, RealSize
    <3> QED BY <2>1, <3>1, Sizes
  <2>4. n \in Nat /\ 1 <= n
    BY MaxSizeAssumption
  <2> HIDE DEF SendInv
  <2> QED BY <1>1, <2>2, <2>3, <2>4
<1>4. MoveFrontOK(sqFront, sqRear, n)
  BY <1>2, MoveTests, MaxSizeAssumption DEF SendInv, SendType
<1>5. /\ sqFront' = Wrap(sqFront + n) /\ queued' = SubSeq(queued, n + 1, Len(queued))
      /\ sendPc' = sendPc
  BY <1>4 DEF SendSome
<1>3. /\ queued' \in Seq(Sent) /\ Len(queued') = Len(queued) - n
      /\ kernel' \in Seq(Sent) /\ kernel' \o queued' = kernel \o queued
  <2>1. n \in 0 .. Len(queued)
    BY <1>2
  <2> QED BY <1>1, <1>5, <2>1, HandedOn DEF SendInv, SendType
<1>6. sqFront' \in Offsets /\ GetUseSize(sqFront', sqRear') = GetUseSize(sqFront, sqRear) - n
  BY <1>1, <1>2, <1>5, Moved DEF SendInv, SendType
<1>7. SendType'
  BY <1>1, <1>3, <1>6 DEF SendInv, SendType
<1>8. Owed'
  <2>1. isConnected
    BY <1>2, EmptySeq DEF SendInv, Owed, SendType
  <2> QED BY <1>1, <1>5, <2>1 DEF SendInv, Owed
<1>9. OffsetsTrue'
  BY <1>2, <1>3, <1>6 DEF OffsetsTrue
<1>10. Whole'
  <2>1. wire \in Seq(Sent) /\ kernel \in Seq(Sent) /\ queued \in Seq(Sent)
    BY DEF SendInv, SendType
  <2>2. (wire \o kernel) \o queued = wire \o (kernel \o queued)
    BY <2>1, ConcatAssociative
  <2>3. kernel' \in Seq(Sent) /\ queued' \in Seq(Sent)
    BY <1>3
  <2>4. (wire \o kernel') \o queued' = wire \o (kernel' \o queued')
    BY <2>1, <2>3, ConcatAssociative
  <2> QED BY <1>1, <1>3, <2>2, <2>4 DEF SendInv, Whole
<1> QED BY <1>7, <1>8, <1>9, <1>10 DEF SendInv

(* The kernel's sending on leaves the bytes in order. *)
LEMMA TransmitKeeps ==
  ASSUME SendInv, Transmit
  PROVE  SendInv'
<1>1. /\ kernel # <<>> /\ wire' = Append(wire, Head(kernel)) /\ kernel' = Tail(kernel)
      /\ UNCHANGED <<sqFront, sqRear, queued, given, packets, torn, sendPc, sendFailed,
                     isConnected, isSendPossible, armed, posted>>
  BY DEF Transmit, queueVars, eventVars
<1>2. Len(kernel) \in Nat /\ Len(kernel) >= 1
  BY <1>1, EmptySeq DEF SendInv, SendType
<1>3. Head(kernel) \in Sent /\ kernel' = SubSeq(kernel, 2, Len(kernel))
  BY <1>1, HeadTailProperties, TailIsSubSeq DEF SendInv, SendType
<1>4. wire' = wire \o SubSeq(kernel, 1, 1)
  <2>1. SubSeq(kernel, 1, 1) = <<kernel[1]>> \o SubSeq(kernel, 2, 1)
    BY <1>2, SubSeqRecursiveFirst DEF SendInv, SendType
  <2>2. SubSeq(kernel, 2, 1) = <<>>
    BY SubSeqEmpty
  <2>3. Head(kernel) = kernel[1]
    BY <1>1 DEF SendInv, SendType
  <2>4. <<kernel[1]>> \in Seq(Sent)
    BY <1>3, <2>3
  <2>5. SubSeq(kernel, 1, 1) = <<Head(kernel)>>
    BY <2>1, <2>2, <2>3, <2>4, ConcatEmptySeq
  <2>6. wire' = wire \o <<Head(kernel)>>
    BY <1>1, <1>3, AppendIsConcat DEF SendInv, SendType
  <2> QED BY <2>5, <2>6
<1>5. wire' \in Seq(Sent) /\ kernel' \in Seq(Sent) /\ wire' \o kernel' = wire \o kernel
  <2>1. 1 \in 0 .. Len(kernel)
    BY <1>2
  <2>2. /\ SubSeq(kernel, 1 + 1, Len(kernel)) \in Seq(Sent)
        /\ wire \o SubSeq(kernel, 1, 1) \in Seq(Sent)
        /\ (wire \o SubSeq(kernel, 1, 1)) \o SubSeq(kernel, 1 + 1, Len(kernel)) = wire \o kernel
    BY <2>1, HandedOn DEF SendInv, SendType
  <2>3. 1 + 1 = 2
    OBVIOUS
  <2> QED BY <1>3, <1>4, <2>2, <2>3
<1>6. SendType' /\ Owed' /\ OffsetsTrue'
  BY <1>1, <1>5 DEF SendInv, SendType, Owed, OffsetsTrue
<1>7. Whole'
  BY <1>1, <1>5 DEF SendInv, Whole
<1> QED BY <1>6, <1>7 DEF SendInv

(* An empty first piece is an empty buffer. *)
LEMMA NothingDirect ==
  ASSUME NEW f \in Offsets, NEW r \in Offsets, DirectDequeueSize(f, r) = 0
  PROVE  GetUseSize(f, r) = 0
<1>1. /\ GetUseSize(f, r) \in Nat
      /\ GetUseSize(f, r) > 0 => DirectDequeueSize(f, r) > 0
  BY Sizes
<1> QED BY <1>1

(* For packets, queues and kernels of any size: bytes that stay queued are    *)
(* owed an FD_WRITE, unless a send failed in a call whose caller does not     *)
(* look, what was given to SendPacket is sent in order, and                   *)
(* MoveFront never refuses what was sent (NetworkMgr.cpp:94-117, 190-217,     *)
(* 264-275).  The flags alone do not say so: that the offsets count the bytes *)
(* makes an empty queue of `no bytes to send directly'.                       *)
THEOREM SendAlwaysOwed == SendSpec => []SendOwed
<1>1. SendInit => SendInv
  <2> SUFFICES ASSUME SendInit PROVE SendInv
    OBVIOUS
  <2>1. <<>> \in Seq(Sent) /\ Len(<<>>) = 0
    BY EmptySeq
  <2>2. (<<>> \o <<>>) \o <<>> = <<>>
    BY <2>1, ConcatEmptySeq
  <2>3. 0 \in Offsets /\ GetUseSize(0, 0) = 0
    BY MaxSizeAssumption DEF Offsets, GetUseSize
  <2> QED BY <2>1, <2>2, <2>3
          DEF SendInit, SendInv, SendType, Owed, Whole, OffsetsTrue
<1>2. SendInv /\ [SendNext]_sendVars => SendInv'
  <2> SUFFICES ASSUME SendInv, [SendNext]_sendVars PROVE SendInv'
    OBVIOUS
  <2> USE DEF SendInv, SendType, Owed, Whole, OffsetsTrue, queueVars, eventVars
  <2>1. CASE OnConnect
    BY <2>1 DEF OnConnect
  <2>2. CASE OnClose
    BY <2>2 DEF OnClose
  <2>3. CASE OnWrite
    BY <2>3 DEF OnWrite
  <2>4. CASE Transmit
    BY <2>4, TransmitKeeps
  <2>5. CASE PostWrite
    BY <2>5 DEF PostWrite
  <2>6. CASE SendDone
    <3>1. Direct = 0 => queued = <<>>
      <4>1. sqFront \in Offsets /\ sqRear \in Offsets /\ Len(queued) = GetUseSize(sqFront, sqRear)
        BY <2>6 DEF SendDone, InSendEvent
      <4>2. Direct = 0 => GetUseSize(sqFront, sqRear) = 0
        BY <4>1, NothingDirect DEF Direct
      <4> QED BY <4>1, <4>2, EmptySeq
    <3> QED BY <2>6, <3>1 DEF SendDone, InSendEvent
  <2>7. CASE SendBlocked
    BY <2>7 DEF SendBlocked, InSendEvent
  <2>8. CASE SendFailed
    BY <2>8 DEF SendFailed, InSendEvent, AfterError
  <2>9. ASSUME NEW size \in PacketSizes, SendPacket(size) PROVE SendInv'
    BY <2>9, SendPacketKeeps
  <2>10. ASSUME NEW n \in 1 .. MaxSize, SendSome(n) PROVE SendInv'
    BY <2>10, SendSomeKeeps
  <2>11. CASE UNCHANGED sendVars
    BY <2>11 DEF sendVars
  <2> QED BY <2>1, <2>2, <2>3, <2>4, <2>5, <2>6, <2>7, <2>8, <2>9, <2>10, <2>11 DEF SendNext
<1>3. SendInv => SendOwed
  BY DEF SendInv, Owed, Whole, OffsetsTrue, SendOwed
<1> QED BY <1>1, <1>2, <1>3, PTL DEF SendSpec
-----------------------------------------------------------------------------
(* The bytes of a connection. *)
Byte == Nat \X Nat

(* A packet is its bytes. *)
LEMMA PacketIs ==
  ASSUME NEW k \in Nat, NEW n \in Nat
  PROVE  /\ Packet(k, n) \in Seq(Byte) /\ Len(Packet(k, n)) = HeaderSize + n
         /\ \A j \in 1 .. HeaderSize + n : Packet(k, n)[j] = <<k, j>>
<1>1. HeaderSize + n \in Nat
  BY StreamAssumption
<1>2. \A j \in 1 .. HeaderSize + n : <<k, j>> \in Byte
  BY <1>1 DEF Byte
<1>3. Packet(k, n) \in [1 .. HeaderSize + n -> Byte]
  BY <1>2 DEF Packet
<1>4. Len(Packet(k, n)) = HeaderSize + n /\ Packet(k, n) \in Seq(Byte)
  BY <1>1, <1>3 DEF Packet
<1>5. \A j \in 1 .. HeaderSize + n : Packet(k, n)[j] = <<k, j>>
  BY DEF Packet
<1> QED BY <1>4, <1>5

(* A set of numbers that is not empty has a least one. *)
LEMMA Least ==
  ASSUME NEW S \in SUBSET Nat, S # {}
  PROVE  \E i \in S : \A j \in S : i <= j
<1>1. PICK i \in S : \A j \in S : ~(<<j, i>> \in OpToRel(<, Nat))
  BY NatLessThanWellFounded, WFMin
<1> SUFFICES ASSUME NEW j \in S PROVE i <= j
  OBVIOUS
<1>2. <<j, i>> \in Nat \X Nat
  OBVIOUS
<1>3. ~(j < i)
  BY <1>1, <1>2 DEF OpToRel
<1> QED BY <1>3

(* The recursive definition of what follows a packet has a solution: were     *)
(* there a first place, counted from the last packet, from which on it has    *)
(* none, the solution behind that place could be extended to it.              *)
LEMMA FromIs ==
  ASSUME NEW sz \in [1 .. Count -> Nat]
  PROVE  /\ BytesFrom(sz) \in [1 .. Count + 1 -> Seq(Byte)]
         /\ BytesFrom(sz)[Count + 1] = <<>>
         /\ \A k \in 1 .. Count : BytesFrom(sz)[k] = Packet(k, sz[k]) \o BytesFrom(sz)[k + 1]
<1> DEFINE Solves(f, m) ==
             /\ f \in [m .. Count + 1 -> Seq(Byte)]
             /\ f[Count + 1] = <<>>
             /\ \A k \in m .. Count : f[k] = Packet(k, sz[k]) \o f[k + 1]
           Fails == {i \in 0 .. Count : ~ \E f : Solves(f, Count + 1 - i)}
<1>1. Count \in Nat
  BY StreamAssumption
<1>2. Fails = {}
  <2> SUFFICES ASSUME Fails # {} PROVE FALSE
    OBVIOUS
  <2>1. PICK i \in Fails : \A j \in Fails : i <= j
    <3>1. Fails \in SUBSET Nat
      <4> HIDE DEF Solves
      <4> QED BY <1>1
    <3> HIDE DEF Fails
    <3> QED BY <3>1, Least
  <2> DEFINE m == Count + 1 - i
  <2>2. i \in 0 .. Count /\ ~ \E f : Solves(f, m)
    <3>1. i \in Fails
      BY <2>1
    <3> HIDE DEF Solves
    <3> QED BY <3>1
  <2>3. i # 0
    <3> SUFFICES ASSUME i = 0 PROVE FALSE
      OBVIOUS
    <3> DEFINE f == [k \in Count + 1 .. Count + 1 |-> <<>>]
    <3>1. <<>> \in Seq(Byte)
      OBVIOUS
    <3>2. Count + 1 .. Count + 1 = {Count + 1} /\ Count + 1 .. Count = {}
      BY <1>1
    <3>3. Solves(f, Count + 1)
      BY <3>1, <3>2
    <3>4. m = Count + 1
      BY <1>1
    <3> QED BY <2>2, <3>3, <3>4
  <2>4. i - 1 \in 0 .. Count /\ i - 1 \notin Fails /\ m \in 1 .. Count /\ Count + 1 - (i - 1) = m + 1
    <3>1. i \in 1 .. Count
      BY <1>1, <2>2, <2>3
    <3>2. ~(i <= i - 1)
      BY <3>1
    <3> HIDE DEF Fails
    <3> QED BY <1>1, <2>1, <3>1, <3>2
  <2>5. PICK f : Solves(f, m + 1)
    BY <2>4
  <2> DEFINE first == Packet(m, sz[m]) \o f[m + 1]
             g == [k \in m .. Count + 1 |-> IF k = m THEN first ELSE f[k]]
  <2>6. first \in Seq(Byte)
    <3>1. sz[m] \in Nat /\ m \in Nat
      BY <1>1, <2>4
    <3>2. Packet(m, sz[m]) \in Seq(Byte)
      BY <3>1, PacketIs
    <3>3. f[m + 1] \in Seq(Byte)
      BY <1>1, <2>4, <2>5
    <3> HIDE DEF m
    <3> QED BY <3>2, <3>3, ConcatProperties
  <2>7. Solves(g, m)
    <3>0. m \in 1 .. Count
      BY <2>4
    <3> HIDE DEF m
    <3>1. \A k \in m .. Count + 1 : k # m => k \in m + 1 .. Count + 1
      BY <1>1, <3>0
    <3>2. g \in [m .. Count + 1 -> Seq(Byte)]
      <4> HIDE DEF first
      <4> QED BY <2>5, <2>6, <3>1
    <3>3. g[Count + 1] = <<>>
      BY <1>1, <2>5, <3>0
    <3>4. ASSUME NEW k \in m .. Count PROVE g[k] = Packet(k, sz[k]) \o g[k + 1]
      <4>1. g[k + 1] = f[k + 1]
        BY <1>1, <3>0
      <4>2. CASE k = m
        BY <1>1, <3>0, <4>1, <4>2
      <4>3. CASE k # m
        <5>1. k \in m + 1 .. Count /\ k \in m .. Count + 1
          BY <1>1, <3>0, <4>3
        <5>2. g[k] = f[k] /\ f[k] = Packet(k, sz[k]) \o f[k + 1]
          BY <2>5, <4>3, <5>1
        <5> QED BY <4>1, <5>2
      <4> QED BY <4>2, <4>3
    <3> QED BY <3>2, <3>3, <3>4
  <2> QED BY <2>2, <2>7
<1>3. \E f : Solves(f, 1)
  <2>1. Count \in 0 .. Count /\ Count + 1 - Count = 1
    BY <1>1
  <2>2. Count \notin Fails
    BY <1>2
  <2> QED BY <2>1, <2>2
<1>4. PICK f : Solves(f, 1)
  BY <1>3
<1> DEFINE Recursive(h) ==
             h = [k \in 1 .. Count + 1 |->
                    IF k > Count THEN <<>> ELSE Packet(k, sz[k]) \o h[k + 1]]
<1>5. Recursive(f)
  <2> DEFINE g == [k \in 1 .. Count + 1 |->
                     IF k > Count THEN <<>> ELSE Packet(k, sz[k]) \o f[k + 1]]
  <2>1. \A k \in 1 .. Count + 1 : f[k] = g[k]
    <3> SUFFICES ASSUME NEW k \in 1 .. Count + 1 PROVE f[k] = g[k]
      OBVIOUS
    <3>1. CASE k = Count + 1
      BY <1>1, <1>4, <3>1
    <3>2. CASE k # Count + 1
      <4>1. k \in 1 .. Count /\ ~(k > Count)
        BY <1>1, <3>2
      <4> QED BY <1>4, <4>1
    <3> QED BY <3>1, <3>2
  <2> QED BY <1>4, <2>1
<1>6. BytesFrom(sz) = CHOOSE h : Recursive(h)
  BY DEF BytesFrom
<1>7. Recursive(BytesFrom(sz))
  <2> HIDE DEF Recursive
  <2> QED BY <1>5, <1>6
<1> DEFINE h == BytesFrom(sz)
<1>8. h = [k \in 1 .. Count + 1 |-> IF k > Count THEN <<>> ELSE Packet(k, sz[k]) \o h[k + 1]]
  BY <1>7
<1> HIDE DEF h
<1>9. h[Count + 1] = <<>> /\ \A k \in 1 .. Count : h[k] = Packet(k, sz[k]) \o h[k + 1]
  <2>1. Count + 1 \in 1 .. Count + 1 /\ Count + 1 > Count
    BY <1>1
  <2>2. \A k \in 1 .. Count : k \in 1 .. Count + 1 /\ ~(k > Count)
    BY <1>1
  <2> QED BY <1>8, <2>1, <2>2
<1>10. h \in [1 .. Count + 1 -> Seq(Byte)]
  <2> DEFINE Wrong == {i \in 0 .. Count : h[Count + 1 - i] \notin Seq(Byte)}
  <2>1. Wrong = {}
    <3> SUFFICES ASSUME Wrong # {} PROVE FALSE
      OBVIOUS
    <3>1. PICK i \in Wrong : \A j \in Wrong : i <= j
      <4>1. Wrong \in SUBSET Nat
        BY <1>1
      <4> HIDE DEF Wrong
      <4> QED BY <4>1, Least
    <3>2. i \in 0 .. Count /\ h[Count + 1 - i] \notin Seq(Byte)
      OBVIOUS
    <3>3. i # 0
      <4>1. <<>> \in Seq(Byte) /\ Count + 1 - 0 = Count + 1
        BY <1>1
      <4> QED BY <1>9, <3>2, <4>1
    <3> DEFINE k == Count + 1 - i
    <3>4. k \in 1 .. Count /\ i - 1 \in 0 .. Count /\ Count + 1 - (i - 1) = k + 1 /\ ~(i <= i - 1)
      BY <1>1, <3>2, <3>3
    <3>5. i - 1 \notin Wrong
      BY <3>1, <3>4
    <3>6. h[k + 1] \in Seq(Byte)
      BY <3>4, <3>5
    <3>7. sz[k] \in Nat /\ k \in Nat
      BY <1>1, <3>4
    <3> HIDE DEF k
    <3>8. Packet(k, sz[k]) \in Seq(Byte)
      BY <3>7, PacketIs
    <3>9. Packet(k, sz[k]) \o h[k + 1] \in Seq(Byte)
      BY <3>6, <3>8, ConcatProperties
    <3>10. h[k] \in Seq(Byte)
      BY <1>9, <3>4, <3>9
    <3> QED BY <3>2, <3>10 DEF k
  <2>2. \A k \in 1 .. Count + 1 : h[k] \in Seq(Byte)
    <3> SUFFICES ASSUME NEW k \in 1 .. Count + 1 PROVE h[k] \in Seq(Byte)
      OBVIOUS
    <3>1. Count + 1 - k \in 0 .. Count /\ Count + 1 - (Count + 1 - k) = k
      BY <1>1
    <3> QED BY <2>1, <3>1
  <2> DEFINE Rest(k) == IF k > Count THEN <<>> ELSE Packet(k, sz[k]) \o h[k + 1]
  <2>3. h = [k \in 1 .. Count + 1 |-> h[k]]
    <3>1. h = [k \in 1 .. Count + 1 |-> Rest(k)]
      BY <1>8
    <3>2. \A k \in 1 .. Count + 1 : h[k] = Rest(k)
      BY <3>1
    <3> HIDE DEF Rest
    <3> QED BY <3>1, <3>2
  <2> QED BY <2>2, <2>3
<1> QED BY <1>9, <1>10 DEF h

(* Bytes that arrive move from the stream to the buffer, nothing else.        *)
LEMMA Joined ==
  ASSUME NEW c \in Seq(Byte), NEW s \in Seq(Byte), NEW n \in 0 .. Len(s)
  PROVE  /\ c \o SubSeq(s, 1, n) \in Seq(Byte)
         /\ Len(c \o SubSeq(s, 1, n)) = Len(c) + n
         /\ SubSeq(s, n + 1, Len(s)) \in Seq(Byte)
         /\ (c \o SubSeq(s, 1, n)) \o SubSeq(s, n + 1, Len(s)) = c \o s
<1> DEFINE a == SubSeq(s, 1, n)
           b == SubSeq(s, n + 1, Len(s))
<1>1. Len(s) \in Nat /\ \A i \in 1 .. Len(s) : s[i] \in Byte
  BY LenProperties, ElementOfSeq
<1>2. a \in Seq(Byte) /\ Len(a) = n
  <2>1. 1 \in Int /\ n \in Int /\ \A i \in 1 .. n : s[i] \in Byte
    BY <1>1
  <2>2. a \in Seq(Byte) /\ Len(a) = IF 1 <= n THEN n - 1 + 1 ELSE 0
    BY <2>1, SubSeqProperties
  <2> QED BY <2>2
<1>3. b \in Seq(Byte)
  <2>1. n + 1 \in Int /\ Len(s) \in Int /\ \A i \in n + 1 .. Len(s) : s[i] \in Byte
    BY <1>1
  <2> QED BY <2>1, SubSeqProperties
<1>4. a \o b = s
  <2>1. 1 \in 1 .. Len(s) + 1 /\ n \in 1 - 1 .. Len(s) /\ Len(s) \in n .. Len(s)
    BY <1>1
  <2>2. a \o b = SubSeq(s, 1, Len(s))
    BY <2>1, ConcatAdjacentSubSeq
  <2> QED BY <2>2, SubSeqFull
<1> HIDE DEF a, b
<1>5. (c \o a) \o b = c \o (a \o b)
  BY <1>2, <1>3, ConcatAssociative
<1>6. c \o a \in Seq(Byte) /\ Len(c \o a) = Len(c) + n
  BY <1>2, ConcatProperties
<1> QED BY <1>3, <1>4, <1>5, <1>6 DEF a, b

(* Concatenation with a name, without which the provers do not instantiate    *)
(* equations between concatenations.                                          *)
Cat(a, b) == a \o b

(* c and p begin alike when they begin the same sequence.                     *)
LEMMA BeginAlike ==
  ASSUME NEW c \in Seq(Byte), NEW s \in Seq(Byte), NEW p \in Seq(Byte), NEW r \in Seq(Byte),
         Cat(c, s) = Cat(p, r)
  PROVE  \A i \in 1 .. Len(c) : i <= Len(p) => c[i] = p[i]
<1>1. /\ Len(c \o s) = Len(c) + Len(s)
      /\ \A i \in 1 .. Len(c) + Len(s) :
           (c \o s)[i] = IF i <= Len(c) THEN c[i] ELSE s[i - Len(c)]
  BY ConcatProperties
<1>2. /\ Len(p \o r) = Len(p) + Len(r)
      /\ \A i \in 1 .. Len(p) + Len(r) :
           (p \o r)[i] = IF i <= Len(p) THEN p[i] ELSE r[i - Len(p)]
  BY ConcatProperties
<1>3. Len(c) \in Nat /\ Len(s) \in Nat /\ Len(p) \in Nat /\ Len(r) \in Nat
  OBVIOUS
<1>4. Len(c) + Len(s) = Len(p) + Len(r)
  BY <1>1, <1>2 DEF Cat
<1>5. \A i \in 1 .. Len(c) + Len(s) :
        (IF i <= Len(c) THEN c[i] ELSE s[i - Len(c)]) = IF i <= Len(p) THEN p[i] ELSE r[i - Len(p)]
  BY <1>1, <1>2, <1>4 DEF Cat
<1>6. ASSUME NEW i \in 1 .. Len(c), i <= Len(p) PROVE c[i] = p[i]
  <2>1. i \in 1 .. Len(c) + Len(s) /\ i <= Len(c)
    BY <1>3
  <2> QED BY <1>5, <1>6, <2>1
<1> QED BY <1>6

(* Without p, c begins with what it has behind p.                             *)
LEMMA Without ==
  ASSUME NEW c \in Seq(Byte), NEW s \in Seq(Byte), NEW p \in Seq(Byte), NEW r \in Seq(Byte),
         Cat(c, s) = Cat(p, r), NEW d \in Seq(Byte), Len(p) + Len(d) = Len(c),
         \A i \in 1 .. Len(d) : d[i] = c[Len(p) + i]
  PROVE  Cat(d, s) = r
<1>1. /\ Len(c \o s) = Len(c) + Len(s)
      /\ \A i \in 1 .. Len(c) + Len(s) :
           (c \o s)[i] = IF i <= Len(c) THEN c[i] ELSE s[i - Len(c)]
  BY ConcatProperties
<1>2. /\ Len(p \o r) = Len(p) + Len(r)
      /\ \A i \in 1 .. Len(p) + Len(r) :
           (p \o r)[i] = IF i <= Len(p) THEN p[i] ELSE r[i - Len(p)]
  BY ConcatProperties
<1>3. Len(c) \in Nat /\ Len(s) \in Nat /\ Len(p) \in Nat /\ Len(r) \in Nat /\ Len(d) \in Nat
  OBVIOUS
<1>4. Len(c) + Len(s) = Len(p) + Len(r) /\ Len(d) = Len(c) - Len(p)
  BY <1>1, <1>2, <1>3 DEF Cat
<1>5. \A i \in 1 .. Len(c) + Len(s) :
        (IF i <= Len(c) THEN c[i] ELSE s[i - Len(c)]) = IF i <= Len(p) THEN p[i] ELSE r[i - Len(p)]
  BY <1>1, <1>2, <1>4 DEF Cat
<1>6. /\ d \o s \in Seq(Byte) /\ Len(d \o s) = Len(d) + Len(s)
      /\ \A i \in 1 .. Len(d) + Len(s) :
           (d \o s)[i] = IF i <= Len(d) THEN d[i] ELSE s[i - Len(d)]
  BY ConcatProperties
<1>7. Len(d \o s) = Len(r)
  BY <1>3, <1>4, <1>6
<1>8. ASSUME NEW i \in 1 .. Len(r) PROVE (d \o s)[i] = r[i]
  <2>1. i \in 1 .. Len(d) + Len(s) /\ Len(p) + i \in 1 .. Len(c) + Len(s)
    BY <1>3, <1>4
  <2>2. /\ ~(Len(p) + i <= Len(p)) /\ Len(p) + i - Len(p) = i
        /\ (i <= Len(d) <=> Len(p) + i <= Len(c)) /\ i - Len(d) = Len(p) + i - Len(c)
    BY <1>3, <1>4
  <2>3. r[i] = IF Len(p) + i <= Len(c) THEN c[Len(p) + i] ELSE s[Len(p) + i - Len(c)]
    BY <1>5, <2>1, <2>2
  <2>4. (d \o s)[i] = IF i <= Len(d) THEN d[i] ELSE s[i - Len(d)]
    BY <1>6, <2>1
  <2>5. CASE i <= Len(d)
    <3>1. i \in 1 .. Len(d)
      BY <1>4, <2>5
    <3>2. d[i] = c[Len(p) + i]
      BY <3>1
    <3> QED BY <2>2, <2>3, <2>4, <2>5, <3>2
  <2>6. CASE ~(i <= Len(d))
    BY <2>2, <2>3, <2>4, <2>6
  <2> QED BY <2>5, <2>6
<1>9. d \o s = r
  BY <1>6, <1>7, <1>8, SeqEqual
<1> QED BY <1>9 DEF Cat
------------------------------------------------------------------------------
(* The buffer and the kernel hold exactly what was sent behind the packets    *)
(* dispatched, and the offsets count what the buffer holds.                   *)
Coming == Len(delivered) + 1

StreamInv ==
  /\ sizes \in [1 .. Count -> Nat]
  /\ rqFront \in Offsets /\ rqRear \in Offsets
  /\ stream \in Seq(Byte) /\ content \in Seq(Byte)
  /\ delivered \in Seq(Seq(Byte)) /\ Len(delivered) \in 0 .. Count
  /\ GetUseSize(rqFront, rqRear) = Len(content)
  /\ content \o stream = BytesFrom(sizes)[Coming]

(* Bytes that fit into the buffer arrive.                                     *)
LEMMA ArriveKeeps ==
  ASSUME StreamInv, NEW n \in Nat, n <= GetFreeSize(rqFront, rqRear), n <= Len(stream), Arrive(n)
  PROVE  StreamInv' /\ Len(content') = Len(content) + n
<1> USE DEF StreamInv
<1>1. /\ content' = content \o SubSeq(stream, 1, n)
      /\ stream' = SubSeq(stream, n + 1, Len(stream))
      /\ rqRear' = Wrap(rqRear + n) /\ sizes' = sizes /\ rqFront' = rqFront /\ delivered' = delivered
  BY DEF Arrive
<1>2. n \in 0 .. Len(stream)
  BY LenProperties
<1>3. content' \in Seq(Byte) /\ Len(content') = Len(content) + n
  BY <1>1, <1>2, Joined
<1>4. stream' \in Seq(Byte) /\ content' \o stream' = content \o stream
  BY <1>1, <1>2, Joined
<1>5. rqRear' \in Offsets /\ GetUseSize(rqFront, rqRear') = Len(content) + n
  <2>1. rqFront \in Offsets /\ rqRear \in Offsets /\ GetUseSize(rqFront, rqRear) = Len(content)
    OBVIOUS
  <2> HIDE DEF StreamInv
  <2>2. n \in 0 .. GetFreeSize(rqFront, rqRear)
    BY <2>1, Sizes
  <2>3. /\ Wrap(rqRear + n) \in Offsets
        /\ GetUseSize(rqFront, Wrap(rqRear + n)) = GetUseSize(rqFront, rqRear) + n
    BY <2>1, <2>2, Moved
  <2> QED BY <1>1, <2>1, <2>3
<1>6. Coming' = Coming
  BY <1>1 DEF Coming
<1> QED BY <1>1, <1>3, <1>4, <1>5, <1>6

(* What is to come is the next packet and what follows it.                    *)
LEMMA NextIs ==
  ASSUME StreamInv
  PROVE  /\ Coming \in 1 .. Count + 1
         /\ sizes \in [1 .. Count -> Nat]
         /\ BytesFrom(sizes)[Coming] \in Seq(Byte)
         /\ Coming = Count + 1 => content = <<>> /\ stream = <<>>
         /\ Coming # Count + 1 =>
              /\ Coming \in 1 .. Count /\ Coming + 1 \in 1 .. Count + 1
              /\ sizes[Coming] \in Nat
              /\ BytesFrom(sizes)[Coming + 1] \in Seq(Byte)
              /\ Packet(Coming, sizes[Coming]) \in Seq(Byte)
              /\ Len(Packet(Coming, sizes[Coming])) = HeaderSize + sizes[Coming]
              /\ \A j \in 1 .. HeaderSize + sizes[Coming] :
                   Packet(Coming, sizes[Coming])[j] = <<Coming, j>>
              /\ content \o stream
                   = Packet(Coming, sizes[Coming]) \o BytesFrom(sizes)[Coming + 1]
<1> USE DEF StreamInv
<1>1. Count \in Nat /\ Coming \in 1 .. Count + 1
  BY StreamAssumption DEF Coming
<1>2. sizes \in [1 .. Count -> Nat]
  OBVIOUS
<1>3. /\ BytesFrom(sizes) \in [1 .. Count + 1 -> Seq(Byte)]
      /\ BytesFrom(sizes)[Count + 1] = <<>>
  BY <1>2, FromIs
<1>4. \A k \in 1 .. Count :
        BytesFrom(sizes)[k] = Packet(k, sizes[k]) \o BytesFrom(sizes)[k + 1]
  BY <1>2, FromIs
<1>5. ASSUME Coming = Count + 1 PROVE content = <<>> /\ stream = <<>>
  <2>1. content \o stream = <<>>
    BY <1>3, <1>5
  <2> QED BY <2>1, ConcatEqualIffEmpty
<1>6. ASSUME Coming # Count + 1
      PROVE  /\ Coming \in 1 .. Count /\ Coming + 1 \in 1 .. Count + 1
             /\ Coming \in Nat /\ sizes[Coming] \in Nat
  BY <1>1, <1>2, <1>6
<1>7. ASSUME Coming # Count + 1
      PROVE  /\ Packet(Coming, sizes[Coming]) \in Seq(Byte)
             /\ Len(Packet(Coming, sizes[Coming])) = HeaderSize + sizes[Coming]
             /\ \A j \in 1 .. HeaderSize + sizes[Coming] :
                  Packet(Coming, sizes[Coming])[j] = <<Coming, j>>
  BY <1>6, <1>7, PacketIs
<1>8. ASSUME Coming # Count + 1
      PROVE  /\ BytesFrom(sizes)[Coming + 1] \in Seq(Byte)
             /\ content \o stream
                  = Packet(Coming, sizes[Coming]) \o BytesFrom(sizes)[Coming + 1]
  BY <1>3, <1>4, <1>6, <1>8
<1> HIDE DEF StreamInv
<1>9. BytesFrom(sizes)[Coming] \in Seq(Byte)
  BY <1>1, <1>3
<1> QED BY <1>1, <1>2, <1>5, <1>6, <1>7, <1>8, <1>9

(* What the buffer holds of the next packet.                                  *)
LEMMA HeldBytes ==
  ASSUME StreamInv, Coming # Count + 1
  PROVE  \A i \in 1 .. Len(content) :
           i <= HeaderSize + sizes[Coming] => content[i] = <<Coming, i>>
<1> DEFINE p == Packet(Coming, sizes[Coming])
           r == BytesFrom(sizes)[Coming + 1]
<1>1. /\ p \in Seq(Byte) /\ r \in Seq(Byte) /\ Len(p) = HeaderSize + sizes[Coming]
      /\ \A j \in 1 .. HeaderSize + sizes[Coming] : p[j] = <<Coming, j>>
      /\ content \o stream = p \o r /\ sizes[Coming] \in Nat
  BY NextIs
<1>2. content \in Seq(Byte) /\ stream \in Seq(Byte)
  BY DEF StreamInv
<1> HIDE DEF p, r
<1>3. \A i \in 1 .. Len(content) : i <= Len(p) => content[i] = p[i]
  <2>1. Cat(content, stream) = Cat(p, r)
    BY <1>1 DEF Cat
  <2> QED BY <1>1, <1>2, <2>1, BeginAlike
<1> SUFFICES ASSUME NEW i \in 1 .. Len(content), i <= HeaderSize + sizes[Coming]
             PROVE  content[i] = <<Coming, i>>
  OBVIOUS
<1>4. i \in 1 .. HeaderSize + sizes[Coming]
  BY <1>1, <1>2, StreamAssumption
<1> QED BY <1>1, <1>3, <1>4

(* A buffer that holds a header begins with that of the next packet.          *)
LEMMA AtHeader ==
  ASSUME StreamInv, RecvUse >= HeaderSize
  PROVE  Coming # Count + 1 /\ HeaderValues = {sizes[Coming]}
<1>1. content \in Seq(Byte) /\ Len(content) \in Nat /\ Len(content) >= HeaderSize
  BY LenProperties DEF StreamInv, RecvUse
<1>2. HeaderSize \in Nat \ {0}
  BY StreamAssumption
<1>3. Coming # Count + 1
  <2>1. content # <<>>
    BY <1>1, <1>2
  <2> QED BY <2>1, NextIs
<1>4. sizes[Coming] \in Nat
  BY <1>3, NextIs
<1>5. \A i \in 1 .. HeaderSize : content[i] = <<Coming, i>>
  <2> SUFFICES ASSUME NEW i \in 1 .. HeaderSize PROVE content[i] = <<Coming, i>>
    OBVIOUS
  <2>1. i \in 1 .. Len(content) /\ i <= HeaderSize + sizes[Coming]
    BY <1>1, <1>2, <1>4
  <2> QED BY <1>3, <2>1, HeldBytes
<1>6. content[1][1] = Coming
  <2>1. 1 \in 1 .. HeaderSize
    BY <1>2
  <2>2. content[1] = <<Coming, 1>>
    BY <1>5, <2>1
  <2> QED BY <2>2
<1>7. First(HeaderSize) = [j \in 1 .. HeaderSize |-> <<Coming, j>>]
  <2>1. First(HeaderSize) = [j \in 1 .. HeaderSize |-> content[j]]
    BY <1>1, <1>2 DEF First
  <2> QED BY <1>5, <2>1
<1>8. HeaderValues = {sizes[Coming]}
  BY <1>6, <1>7 DEF HeaderValues
<1> QED BY <1>3, <1>8

(* The rest of a packet that is whole, behind its first `skip' bytes.         *)
LEMMA Rest ==
  ASSUME StreamInv, Coming # Count + 1, HeaderSize + sizes[Coming] <= Len(content),
         NEW skip \in Nat, NEW n \in Nat, skip + n = HeaderSize + sizes[Coming]
  PROVE  /\ SubSeq(content, skip + 1, skip + n) \in Seq(Byte)
         /\ SubSeq(content, skip + 1, skip + n) = [j \in 1 .. n |-> <<Coming, skip + j>>]
<1>1. content \in Seq(Byte) /\ Len(content) \in Nat
  BY LenProperties DEF StreamInv
<1> DEFINE d == SubSeq(content, skip + 1, skip + n)
<1>2. \A i \in skip + 1 .. skip + n : content[i] \in Byte
  BY <1>1
<1>3. /\ d \in Seq(Byte) /\ Len(d) = IF skip + 1 <= skip + n THEN skip + n - (skip + 1) + 1 ELSE 0
      /\ \A i \in 1 .. skip + n - (skip + 1) + 1 : d[i] = content[skip + 1 + i - 1]
  <2>1. skip + 1 \in Int /\ skip + n \in Int
    OBVIOUS
  <2> QED BY <1>2, <2>1, SubSeqProperties
<1>4. Len(d) = n
  BY <1>3
<1>5. ASSUME NEW i \in 1 .. n PROVE d[i] = <<Coming, skip + i>>
  <2>1. i \in 1 .. skip + n - (skip + 1) + 1 /\ skip + 1 + i - 1 = skip + i
    OBVIOUS
  <2>2. d[i] = content[skip + i]
    BY <1>3, <2>1
  <2>3. skip + i \in 1 .. Len(content) /\ skip + i <= HeaderSize + sizes[Coming]
    BY <1>1
  <2>4. content[skip + i] = <<Coming, skip + i>>
    BY <2>3, HeldBytes
  <2> QED BY <2>2, <2>4
<1> HIDE DEF d
<1>6. d = [j \in 1 .. n |-> d[j]]
  BY <1>3, <1>4, LenProperties
<1>7. d = [j \in 1 .. n |-> <<Coming, skip + j>>]
  BY <1>5, <1>6
<1> QED BY <1>3, <1>7 DEF d

(* The next packet leaves the buffer and is dispatched.                       *)
LEMMA PacketLeaves ==
  ASSUME StreamInv, Coming # Count + 1, HeaderSize + sizes[Coming] <= Len(content),
         Consume(HeaderSize + sizes[Coming]), NEW d \in Seq(Byte),
         delivered' = Append(delivered, d)
  PROVE  /\ StreamInv' /\ Coming' = Coming + 1
         /\ Len(content') = Len(content) - (HeaderSize + sizes[Coming])
<1> DEFINE n == HeaderSize + sizes[Coming]
           p == Packet(Coming, sizes[Coming])
           r == BytesFrom(sizes)[Coming + 1]
<1>1. /\ p \in Seq(Byte) /\ r \in Seq(Byte) /\ Len(p) = n /\ n \in Nat
      /\ content \o stream = p \o r /\ Coming \in 1 .. Count
  <2>1. /\ p \in Seq(Byte) /\ r \in Seq(Byte) /\ Len(p) = n /\ sizes[Coming] \in Nat
        /\ content \o stream = p \o r /\ Coming \in 1 .. Count
    BY NextIs
  <2>2. HeaderSize \in Nat
    BY StreamAssumption
  <2> QED BY <2>1, <2>2
<1>2. content \in Seq(Byte) /\ stream \in Seq(Byte)
  BY DEF StreamInv
<1>3. /\ content' = SubSeq(content, n + 1, Len(content)) /\ rqFront' = Wrap(rqFront + n)
      /\ sizes' = sizes /\ stream' = stream /\ rqRear' = rqRear
  BY DEF Consume
<1>4. n <= Len(content)
  OBVIOUS
<1> HIDE DEF n, p, r
<1>5. /\ content' \in Seq(Byte) /\ Len(content') = Len(content) - n
      /\ \A i \in 1 .. Len(content') : content'[i] = content[n + i]
  <2>1. n + 1 \in Int /\ Len(content) \in Nat /\ \A i \in n + 1 .. Len(content) : content[i] \in Byte
    BY <1>1, <1>2, LenProperties, ElementOfSeq
  <2>2. /\ content' \in Seq(Byte)
        /\ Len(content') = IF n + 1 <= Len(content) THEN Len(content) - (n + 1) + 1 ELSE 0
        /\ \A i \in 1 .. Len(content) - (n + 1) + 1 : content'[i] = content[n + 1 + i - 1]
    BY <1>3, <2>1, SubSeqProperties
  <2>3. Len(content') = Len(content) - n
    BY <1>1, <1>4, <2>1, <2>2
  <2>4. \A i \in 1 .. Len(content') : n + 1 + i - 1 = n + i /\ i \in 1 .. Len(content) - (n + 1) + 1
    BY <1>1, <2>1, <2>3
  <2> QED BY <2>2, <2>3, <2>4
<1>6. content' \o stream = r
  <2> DEFINE c == content'
  <2>1. /\ c \in Seq(Byte) /\ Len(p) + Len(c) = Len(content)
        /\ \A i \in 1 .. Len(c) : c[i] = content[Len(p) + i]
    BY <1>1, <1>2, <1>5, LenProperties
  <2> HIDE DEF c
  <2>2. content \in Seq(Byte) /\ stream \in Seq(Byte) /\ p \in Seq(Byte) /\ r \in Seq(Byte)
    BY <1>1, <1>2
  <2>3. Cat(content, stream) = Cat(p, r)
    BY <1>1 DEF Cat
  <2>4. c \in Seq(Byte) /\ Len(p) + Len(c) = Len(content)
    BY <2>1
  <2>5. \A i \in 1 .. Len(c) : c[i] = content[Len(p) + i]
    BY <2>1
  <2>6. Cat(c, stream) = r
    BY <2>2, <2>3, <2>4, <2>5, Without
  <2> QED BY <2>6 DEF c, Cat
<1>7. /\ delivered' \in Seq(Seq(Byte)) /\ Len(delivered') = Len(delivered) + 1
  BY AppendProperties DEF StreamInv
<1>8. Coming' = Coming + 1 /\ Len(delivered') \in 0 .. Count
  BY <1>1, <1>7, StreamAssumption DEF Coming, StreamInv
<1>9. rqFront' \in Offsets /\ GetUseSize(rqFront', rqRear) = Len(content) - n
  <2>1. rqFront \in Offsets /\ rqRear \in Offsets /\ GetUseSize(rqFront, rqRear) = Len(content)
    BY DEF StreamInv
  <2>2. n \in 0 .. GetUseSize(rqFront, rqRear)
    BY <1>1, <1>4, <2>1, Sizes
  <2> QED BY <1>3, <2>1, <2>2, Moved
<1>10. content' \o stream' = BytesFrom(sizes')[Coming']
  BY <1>3, <1>6, <1>8 DEF r
<1> QED BY <1>1, <1>2, <1>3, <1>5, <1>7, <1>8, <1>9, <1>10 DEF StreamInv, n

(* At the start everything is to come. *)
LEMMA InitStreamInv ==
  ASSUME NEW S \in SUBSET Nat, StreamInit(S)
  PROVE  StreamInv /\ Coming = 1 /\ Len(content) = 0 /\ Len(delivered) = 0
<1>1. sizes \in [1 .. Count -> Nat] /\ Count \in Nat
  BY StreamAssumption DEF StreamInit
<1>2. content = <<>> /\ delivered = <<>> /\ rqFront = 0 /\ rqRear = 0
  BY DEF StreamInit
<1>3. rqFront \in Offsets /\ rqRear \in Offsets /\ GetUseSize(rqFront, rqRear) = 0
  BY <1>2, MaxSizeAssumption DEF Offsets, GetUseSize
<1>4. Coming = 1 /\ Len(content) = 0 /\ Len(delivered) = 0
  BY <1>2 DEF Coming
<1>5. stream = BytesFrom(sizes)[1] /\ stream \in Seq(Byte)
  <2>1. 1 \in 1 .. Count + 1
    BY <1>1
  <2> QED BY <1>1, <2>1, FromIs DEF StreamInit
<1>6. content \o stream = stream
  BY <1>2, <1>5, ConcatEmptySeq
<1> QED BY <1>1, <1>2, <1>3, <1>4, <1>5, <1>6 DEF StreamInv

------------------------------------------------------------------------------
(* The server: no step of its parser fails, and a posted WSARecv has exactly  *)
(* the free space.                                                            *)
ServerInv ==
  /\ StreamInv /\ side = "server" /\ PacketsIntact
  /\ pc \in {"pending", "parse", "post", "closed"}
  /\ pc = "pending" => offered = GetFreeSize(rqFront, rqRear)

(* A whole packet leaves the buffer: no test fails on the way. *)
LEMMA ServerPacketStep ==
  ASSUME ServerInv, ServerParsePacket
  PROVE  ServerInv'
<1> DEFINE k == Coming
           n == sizes[Coming]
<1>1. pc = "parse" /\ RecvUse >= HeaderSize
  BY DEF ServerParsePacket
<1>2. StreamInv /\ rqFront \in Offsets /\ rqRear \in Offsets /\ RecvUse = Len(content)
      /\ RecvUse = GetUseSize(rqFront, rqRear)
  BY DEF ServerInv, StreamInv, RecvUse
<1>3. k # Count + 1 /\ HeaderValues = {n}
  BY <1>1, <1>2, AtHeader
<1>4. n \in Nat /\ k \in 1 .. Count /\ HeaderSize \in Nat \ {0} /\ RecvUse \in Nat /\ Count \in Nat
  BY <1>2, <1>3, NextIs, Sizes, StreamAssumption
<1> DEFINE f == Wrap(rqFront + HeaderSize)
<1>5. /\ ~NeedMore(n)
      /\ IF ~MoveFrontOK(rqFront, rqRear, HeaderSize)
           THEN pc' = "error"
           ELSE /\ Consume(HeaderSize + DequeueCount(f, rqRear, n))
                /\ IF DequeueCount(f, rqRear, n) = n
                     THEN Dispatch(HeaderSize, n) /\ pc' = pc
                     ELSE pc' = "error"
  <2> HIDE DEF n
  <2>1. PICK payload \in HeaderValues :
          LET m == DequeueCount(Wrap(rqFront + HeaderSize), rqRear, payload)
          IN /\ ~NeedMore(payload)
             /\ IF ~MoveFrontOK(rqFront, rqRear, HeaderSize)
                  THEN pc' = "error"
                  ELSE /\ Consume(HeaderSize + m)
                       /\ IF m = payload
                            THEN Dispatch(HeaderSize, m) /\ UNCHANGED pc
                            ELSE pc' = "error"
    BY DEF ServerParsePacket
  <2>2. payload = n
    BY <1>3
  <2> QED BY <2>1, <2>2
<1>6. HeaderSize + n <= RecvUse
  BY <1>4, <1>5 DEF NeedMore
<1>7. MoveFrontOK(rqFront, rqRear, HeaderSize)
  <2>1. HeaderSize <= GetUseSize(rqFront, rqRear) /\ GetUseSize(rqFront, rqRear) > 0
    BY <1>2, <1>4, <1>6
  <2> QED BY <1>2, <1>4, <2>1, MoveTests
<1>8. f \in Offsets /\ GetUseSize(f, rqRear) = RecvUse - HeaderSize
  <2>1. HeaderSize \in 0 .. GetUseSize(rqFront, rqRear)
    BY <1>2, <1>4, <1>6
  <2> QED BY <1>2, <2>1, Moved
<1>9. DequeueCount(f, rqRear, n) = n
  <2> HIDE DEF n, f
  <2>1. n <= GetUseSize(f, rqRear)
    BY <1>4, <1>6, <1>8
  <2> QED BY <1>2, <1>4, <1>8, <2>1, DequeueCopies
<1>10. Consume(HeaderSize + n) /\ Dispatch(HeaderSize, n) /\ pc' = pc
  BY <1>5, <1>7, <1>9
<1> DEFINE d == SubSeq(content, HeaderSize + 1, HeaderSize + n)
<1>11. d \in Seq(Byte) /\ d = [j \in 1 .. n |-> <<k, HeaderSize + j>>]
  BY <1>2, <1>3, <1>4, <1>6, Rest
<1>12. delivered' = Append(delivered, d)
  BY <1>10 DEF Dispatch
<1>13. StreamInv'
  <2> HIDE DEF d
  <2> QED BY <1>2, <1>3, <1>6, <1>10, <1>11, <1>12, PacketLeaves
<1>14. PacketsIntact'
  <2> HIDE DEF d
  <2>1. delivered \in Seq(Seq(Byte)) /\ k = Len(delivered) + 1 /\ Len(delivered) \in Nat
    BY <1>2 DEF StreamInv, Coming
  <2>2. /\ Len(delivered') = k /\ delivered'[k] = d
        /\ \A i \in 1 .. Len(delivered) : delivered'[i] = delivered[i]
    BY <1>11, <1>12, <2>1, AppendProperties
  <2>3. sizes' = sizes /\ side' = side
    BY <1>10 DEF Consume
  <2>4. side = "server" /\ \A i \in 1 .. Len(delivered) : delivered[i] = Body(i, sizes[i])
    BY DEF ServerInv, PacketsIntact
  <2>5. d = Body(k, n)
    BY <1>11 DEF Body
  <2> SUFFICES ASSUME NEW i \in 1 .. k PROVE delivered'[i] = Body(i, sizes[i])
    BY <2>2, <2>3, <2>4 DEF PacketsIntact
  <2>6. CASE i = k
    BY <2>2, <2>5, <2>6
  <2>7. CASE i # k
    <3>1. i \in 1 .. Len(delivered)
      BY <2>1, <2>7
    <3> QED BY <2>2, <2>4, <3>1
  <2> QED BY <2>6, <2>7
<1>15. side' = "server"
  BY <1>10 DEF Consume, ServerInv
<1> QED BY <1>1, <1>10, <1>13, <1>14, <1>15 DEF ServerInv

(* No step of the receive path breaks ServerInv. *)
LEMMA ServerStep ==
  ASSUME ServerInv, [ServerNext]_serverVars
  PROVE  ServerInv'
<1>1. CASE UNCHANGED streamVars /\ pc' = pc /\ offered' = offered
  BY <1>1 DEF streamVars, ServerInv, StreamInv, Coming, PacketsIntact
<1>2. CASE UNCHANGED streamVars /\ pc' \in {"post", "closed"}
  BY <1>2 DEF streamVars, ServerInv, StreamInv, Coming, PacketsIntact
<1>3. CASE Post
  <2>1. offered' = GetFreeSize(rqFront, rqRear) /\ pc' = "pending"
    BY <1>3, Sizes DEF Post, ServerInv, StreamInv
  <2>2. UNCHANGED streamVars
    BY <1>3 DEF Post
  <2> QED BY <2>1, <2>2 DEF streamVars, ServerInv, StreamInv, Coming, PacketsIntact
<1>4. ASSUME NEW n \in 1 .. MaxSize, Completion(n) PROVE ServerInv'
  <2>1. n \in Nat \ {0} /\ pc = "pending" /\ n <= GetFreeSize(rqFront, rqRear) /\ n <= Len(stream)
    BY <1>4, MaxSizeAssumption DEF Completion, ServerInv
  <2>2. rqFront \in Offsets /\ rqRear \in Offsets /\ StreamInv
    BY DEF ServerInv, StreamInv
  <2>3. MoveRearOK(rqFront, rqRear, n)
    <3>1. GetFreeSize(rqFront, rqRear) > 0
      BY <2>1, <2>2, Sizes
    <3> QED BY <2>1, <2>2, <3>1, MoveTests
  <2>4. Arrive(n) /\ pc' = "parse"
    BY <1>4, <2>3 DEF Completion
  <2>5. StreamInv'
    BY <2>1, <2>2, <2>4, ArriveKeeps
  <2>6. sizes' = sizes /\ side' = side /\ delivered' = delivered
    BY <2>4 DEF Arrive
  <2> QED BY <2>4, <2>5, <2>6 DEF ServerInv, PacketsIntact
<1>5. CASE CompletionEmpty
  BY <1>2, <1>5 DEF CompletionEmpty
<1>6. CASE ServerParseIncomplete
  BY <1>2, <1>6 DEF ServerParseIncomplete
<1>7. CASE ServerParsePacket
  BY <1>7, ServerPacketStep
<1> QED BY <1>1, <1>3, <1>4, <1>5, <1>6, <1>7 DEF ServerNext, serverVars

(* ServerInv is an invariant. *)
LEMMA ServerInvariant == ServerSpec => []ServerInv
<1>1. ServerInit => ServerInv
  <2> SUFFICES ASSUME ServerInit PROVE ServerInv
    OBVIOUS
  <2>1. StreamInit(ServerSizes) /\ pc = "post" /\ side = "server"
    BY DEF ServerInit
  <2>2. StreamInv /\ Len(delivered) = 0
    BY <2>1, ServerSizesAssumption, InitStreamInv
  <2> QED BY <2>1, <2>2 DEF ServerInv, PacketsIntact
<1>2. ServerInv /\ [ServerNext]_serverVars => ServerInv'
  BY ServerStep
<1> QED BY <1>1, <1>2, PTL DEF ServerSpec

(* Whatever sizes the packets have and however the kernel cuts the bytes up,  *)
(* OnRecv gets the packets sent, whole and in order (net_server.cpp:316-363). *)
THEOREM PacketsAlwaysIntact == ServerSpec => []PacketsIntact
<1>1. ServerInv => PacketsIntact
  BY DEF ServerInv
<1> QED BY <1>1, ServerInvariant, PTL

(* No MoveRear, MoveFront or Dequeue of the receive path is ever refused, so  *)
(* the branches that give up on a session are dead (net_server.cpp:285-290,   *)
(* 343-357).                                                                  *)
THEOREM ParserNeverFails == ServerSpec => [](pc # "error")
<1>1. ServerInv => pc # "error"
  BY DEF ServerInv
<1> QED BY <1>1, ServerInvariant, PTL
------------------------------------------------------------------------------
(* The client. *)
ToClient == side = "client" /\ sizes \in [1 .. Count -> ClientSizes]

ClientInv ==
  /\ ToClient /\ PayloadsIntact /\ pc \in {"idle", "parse", "quit"}
  /\ pc # "quit" => StreamInv

(* One turn of RecvEvent's loop: a packet that is all the buffer holds is     *)
(* dispatched; with more behind it Dequeue returns more than the payload and  *)
(* the client quits.                                                          *)
LEMMA ClientPacketStep ==
  ASSUME ToClient, StreamInv, PayloadsIntact, ClientParsePacket
  PROVE  /\ Coming # Count + 1 /\ HeaderSize + sizes[Coming] <= Len(content)
         /\ Len(content) = HeaderSize + sizes[Coming] => pc' = "parse"
         /\ \/ pc' = "quit" /\ delivered' = delivered
            \/ /\ pc' = "parse" /\ StreamInv' /\ PayloadsIntact'
               /\ Len(content') = Len(content) - (HeaderSize + sizes[Coming])
         /\ side' = side /\ sizes' = sizes
<1> DEFINE k == Coming
           n == sizes[Coming]
           f == Wrap(rqFront + HeaderSize)
           g == Wrap(f + TypeSize)
           m == DequeueCount(g, rqRear, n)
<1>1. pc = "parse" /\ RecvUse >= HeaderSize
  BY DEF ClientParsePacket
<1>2. rqFront \in Offsets /\ rqRear \in Offsets /\ RecvUse = Len(content)
      /\ RecvUse = GetUseSize(rqFront, rqRear)
  BY DEF StreamInv, RecvUse
<1>3. k # Count + 1 /\ HeaderValues = {n}
  BY <1>1, AtHeader
<1>4. /\ n \in Nat /\ k \in 1 .. Count /\ HeaderSize \in Nat \ {0} /\ RecvUse \in Nat
      /\ Count \in Nat /\ TypeSize \in Nat \ {0} /\ TypeSize <= n
  <2>1. n \in ClientSizes
    BY <1>3, NextIs DEF ToClient
  <2> QED BY <1>2, <1>3, <2>1, NextIs, Sizes, StreamAssumption, ClientRecvAssumption
<1>5. /\ HeaderSize + n <= RecvUse
      /\ IF MoveFrontOK(rqFront, rqRear, HeaderSize) /\ MoveFrontOK(f, rqRear, TypeSize)
           THEN /\ Consume(HeaderSize + TypeSize + m)
                /\ IF m = n - TypeSize
                     THEN Dispatch(HeaderSize + TypeSize, m) /\ pc' = pc
                     ELSE pc' = "quit" /\ delivered' = delivered
           ELSE pc' = "quit"
  <2>1. PICK len \in HeaderValues :
          /\ RecvUse >= HeaderSize + len
          /\ IF MoveFrontOK(rqFront, rqRear, HeaderSize) /\ MoveFrontOK(f, rqRear, TypeSize)
               THEN /\ Consume(HeaderSize + TypeSize + DequeueCount(g, rqRear, len))
                    /\ IF DequeueCount(g, rqRear, len) = len - TypeSize
                         THEN Dispatch(HeaderSize + TypeSize, DequeueCount(g, rqRear, len)) /\ pc' = pc
                         ELSE pc' = "quit" /\ delivered' = delivered
               ELSE pc' = "quit"
    <3> HIDE DEF n
    <3> QED BY DEF ClientParsePacket
  <2>2. len = n
    BY <1>3, <2>1
  <2> HIDE DEF n, f, g
  <2> QED BY <1>4, <2>1, <2>2
<1>6. MoveFrontOK(rqFront, rqRear, HeaderSize) /\ f \in Offsets /\ GetUseSize(f, rqRear) = RecvUse - HeaderSize
  <2>1. HeaderSize \in 0 .. GetUseSize(rqFront, rqRear) /\ GetUseSize(rqFront, rqRear) > 0
    BY <1>2, <1>4, <1>5
  <2>2. HeaderSize <= GetUseSize(rqFront, rqRear)
    BY <2>1
  <2>3. MoveFrontOK(rqFront, rqRear, HeaderSize)
    BY <1>2, <1>4, <2>1, <2>2, MoveTests
  <2>4. f \in Offsets /\ GetUseSize(f, rqRear) = GetUseSize(rqFront, rqRear) - HeaderSize
    BY <1>2, <2>1, Moved
  <2> QED BY <1>2, <2>3, <2>4
<1>7. /\ MoveFrontOK(f, rqRear, TypeSize) /\ g \in Offsets
      /\ GetUseSize(g, rqRear) = RecvUse - HeaderSize - TypeSize
  <2> HIDE DEF f, n
  <2>1. TypeSize \in 0 .. GetUseSize(f, rqRear) /\ GetUseSize(f, rqRear) > 0
    BY <1>4, <1>5, <1>6
  <2>2. TypeSize <= GetUseSize(f, rqRear)
    BY <2>1
  <2>3. MoveFrontOK(f, rqRear, TypeSize)
    BY <1>2, <1>4, <1>6, <2>1, <2>2, MoveTests
  <2>4. g \in Offsets /\ GetUseSize(g, rqRear) = GetUseSize(f, rqRear) - TypeSize
    BY <1>2, <1>6, <2>1, Moved
  <2> QED BY <1>4, <1>6, <2>3, <2>4
<1>8. m = IF n <= RecvUse - HeaderSize - TypeSize THEN n ELSE RecvUse - HeaderSize - TypeSize
  <2> HIDE DEF g, n
  <2> QED BY <1>2, <1>4, <1>7, DequeueCopies
<1>9. m = n - TypeSize <=> RecvUse = HeaderSize + n
  <2> HIDE DEF m, n
  <2> QED BY <1>4, <1>5, <1>8
<1>10. CASE m # n - TypeSize
  <2>1. pc' = "quit" /\ delivered' = delivered /\ sizes' = sizes /\ side' = side
    BY <1>5, <1>6, <1>7, <1>10 DEF Consume
  <2> HIDE DEF m, n
  <2>2. RecvUse # HeaderSize + n
    BY <1>9, <1>10
  <2> QED BY <1>2, <1>3, <1>5, <2>1, <2>2 DEF n
<1>11. CASE m = n - TypeSize
  <2>1. Consume(HeaderSize + TypeSize + m) /\ Dispatch(HeaderSize + TypeSize, m) /\ pc' = "parse"
    BY <1>1, <1>5, <1>6, <1>7, <1>11
  <2> HIDE DEF m, n
  <2>2. HeaderSize + TypeSize + m = HeaderSize + n /\ m \in Nat /\ HeaderSize + TypeSize \in Nat
    BY <1>4, <1>11
  <2>3. Consume(HeaderSize + n)
    BY <2>1, <2>2
  <2> DEFINE d == SubSeq(content, HeaderSize + TypeSize + 1, HeaderSize + TypeSize + m)
  <2>4. d \in Seq(Byte) /\ d = [j \in 1 .. m |-> <<k, HeaderSize + TypeSize + j>>]
    BY <1>2, <1>3, <1>5, <2>2, Rest DEF n
  <2>5. delivered' = Append(delivered, d)
    BY <2>1 DEF Dispatch
  <2> HIDE DEF d
  <2>6. StreamInv' /\ Len(content') = Len(content) - (HeaderSize + n)
    BY <1>2, <1>3, <1>5, <2>3, <2>4, <2>5, PacketLeaves DEF n
  <2>7. PayloadsIntact'
    <3>1. delivered \in Seq(Seq(Byte)) /\ k = Len(delivered) + 1 /\ Len(delivered) \in Nat
      BY DEF StreamInv, Coming
    <3>2. /\ Len(delivered') = k /\ delivered'[k] = d
          /\ \A i \in 1 .. Len(delivered) : delivered'[i] = delivered[i]
      BY <2>4, <2>5, <3>1, AppendProperties
    <3>3. sizes' = sizes /\ side' = side /\ side = "client"
      BY <2>3 DEF Consume, ToClient
    <3> DEFINE Payload(i) == [j \in 1 .. sizes[i] - TypeSize |-> <<i, HeaderSize + TypeSize + j>>]
    <3>4. \A i \in 1 .. Len(delivered) : delivered[i] = Payload(i)
      BY DEF ToClient, PayloadsIntact
    <3>5. d = Payload(k)
      BY <1>11, <2>4 DEF n
    <3> HIDE DEF Payload, k
    <3> SUFFICES ASSUME NEW i \in 1 .. k PROVE delivered'[i] = Payload(i)
      BY <3>2, <3>3 DEF PayloadsIntact, Payload
    <3>6. CASE i = k
      BY <3>2, <3>5, <3>6
    <3>7. CASE i # k
      <4>1. i \in 1 .. Len(delivered)
        BY <3>1, <3>7
      <4> QED BY <3>2, <3>4, <4>1
    <3> QED BY <3>6, <3>7
  <2>8. side' = side /\ sizes' = sizes
    BY <2>3 DEF Consume
  <2> QED BY <1>2, <1>3, <1>5, <2>1, <2>6, <2>7, <2>8 DEF n
<1> QED BY <1>10, <1>11

(* Nothing has been received at the start. *)
LEMMA ClientBegins ==
  ASSUME ClientInit
  PROVE  StreamInv /\ ToClient /\ pc = "idle" /\ Len(content) = 0 /\ Len(delivered) = 0
<1>1. ClientSizes \in SUBSET Nat
  BY ClientRecvAssumption
<1>2. StreamInit(ClientSizes) /\ pc = "idle" /\ side = "client"
  BY DEF ClientInit
<1>3. sizes \in [1 .. Count -> ClientSizes]
  BY <1>2 DEF StreamInit
<1> QED BY <1>1, <1>2, <1>3, InitStreamInv DEF ToClient

(* No step of RecvEvent breaks ClientInv. *)
LEMMA ClientStep ==
  ASSUME ClientInv, [ClientNext]_clientVars
  PROVE  ClientInv'
<1>1. CASE UNCHANGED streamVars /\ pc' \in {pc, "idle", "quit"} /\ pc # "quit"
  BY <1>1 DEF streamVars, ToClient, ClientInv, StreamInv, Coming, PayloadsIntact
<1>2. CASE UNCHANGED clientVars
  BY <1>2 DEF clientVars, streamVars, ToClient, ClientInv, StreamInv, Coming, PayloadsIntact
<1>3. ASSUME NEW n \in 0 .. MaxSize, Recv(n) PROVE ClientInv'
  <2>1. /\ pc = "idle" /\ n \in Nat /\ n <= DirectEnqueueSize(rqFront, rqRear) /\ n <= Len(stream)
        /\ StreamInv
    BY <1>3, MaxSizeAssumption DEF Recv, ClientInv
  <2>2. CASE ~MoveRearOK(rqFront, rqRear, n)
    BY <1>1, <1>3, <2>1, <2>2 DEF Recv
  <2>3. CASE MoveRearOK(rqFront, rqRear, n)
    <3>1. Arrive(n) /\ pc' = "parse"
      BY <1>3, <2>3 DEF Recv
    <3>2. n <= GetFreeSize(rqFront, rqRear)
      <4>1. AfterEnqueueSize(rqFront, rqRear) >= 0
        BY <2>1, MaxSizeAssumption DEF StreamInv, Offsets, AfterEnqueueSize
      <4>2. rqFront \in Offsets /\ rqRear \in Offsets
        BY <2>1 DEF StreamInv
      <4>3. /\ DirectEnqueueSize(rqFront, rqRear) + AfterEnqueueSize(rqFront, rqRear) = GetFreeSize(rqFront, rqRear)
            /\ GetFreeSize(rqFront, rqRear) \in Nat
        BY <4>2, Sizes
      <4>4. DirectEnqueueSize(rqFront, rqRear) \in Int /\ AfterEnqueueSize(rqFront, rqRear) \in Int
        BY <4>2, MaxSizeAssumption DEF Offsets, RealSize, DirectEnqueueSize, AfterEnqueueSize
      <4> QED BY <2>1, <4>1, <4>3, <4>4
    <3>3. StreamInv'
      BY <2>1, <3>1, <3>2, ArriveKeeps
    <3>4. side' = side /\ sizes' = sizes /\ delivered' = delivered
      BY <3>1 DEF Arrive
    <3> QED BY <3>1, <3>3, <3>4 DEF ToClient, ClientInv, PayloadsIntact
  <2> QED BY <2>2, <2>3
<1>4. CASE ClientParseIncomplete
  <2>1. pc = "parse" /\ pc' = "idle" /\ UNCHANGED streamVars
    BY <1>4 DEF ClientParseIncomplete
  <2> QED BY <1>1, <2>1
<1>5. CASE ClientParsePacket
  <2>1. pc = "parse" /\ ToClient /\ StreamInv /\ PayloadsIntact
    BY <1>5 DEF ClientParsePacket, ClientInv
  <2>2. ToClient' /\ sizes' = sizes /\ side' = side
    BY <1>5, <2>1, ClientPacketStep DEF ToClient
  <2>3. CASE pc' = "quit" /\ delivered' = delivered
    BY <2>1, <2>2, <2>3 DEF ClientInv, PayloadsIntact
  <2>4. CASE pc' = "parse" /\ StreamInv' /\ PayloadsIntact'
    BY <2>2, <2>4 DEF ClientInv
  <2> QED BY <1>5, <2>1, <2>3, <2>4, ClientPacketStep
<1> QED BY <1>2, <1>3, <1>4, <1>5 DEF ClientNext

(* Whatever sizes the packets have and however the bytes arrive, PacketProc   *)
(* is given the payloads sent and no others, in order, also when the client   *)
(* has to quit (NetworkMgr.cpp:163-178).                                      *)
THEOREM PayloadsAlwaysIntact == ClientSpec => []PayloadsIntact
<1>1. ClientInit => ClientInv
  <2> SUFFICES ASSUME ClientInit PROVE ClientInv
    OBVIOUS
  <2>1. StreamInv /\ Len(delivered) = 0 /\ pc = "idle" /\ ToClient
    BY ClientBegins
  <2> QED BY <2>1 DEF ClientInv, PayloadsIntact
<1>2. ClientInv /\ [ClientNext]_clientVars => ClientInv'
  BY ClientStep
<1>3. ClientInv => PayloadsIntact
  BY DEF ClientInv
<1> QED BY <1>1, <1>2, <1>3, PTL DEF ClientSpec

(* A recv never brings bytes of two packets, and every packet fits.           *)
OneByOne == ~Coalesce /\ \A n \in ClientSizes : HeaderSize + n <= MaxSize

(* The buffer never holds more than one packet, whole only while it is parsed. *)
AloneInv ==
  /\ StreamInv /\ ToClient /\ PayloadsIntact /\ pc \in {"idle", "parse"}
  /\ Coming # Count + 1 =>
       /\ Len(content) <= HeaderSize + sizes[Coming]
       /\ pc = "idle" => Len(content) < HeaderSize + sizes[Coming]

(* What arrives ends with the packet it belongs to.                           *)
LEMMA ArrivesAlone ==
  ASSUME StreamInv, Coming # Count + 1, Len(content) < HeaderSize + sizes[Coming],
         NEW n \in Nat, n <= Len(stream), \A i \in 1 .. n : stream[i][1] = stream[1][1]
  PROVE  Len(content) + n <= HeaderSize + sizes[Coming]
<1> DEFINE k == Coming
           z == HeaderSize + sizes[Coming]
           p == Packet(Coming, sizes[Coming])
           r == BytesFrom(sizes)[Coming + 1]
<1>1. /\ p \in Seq(Byte) /\ r \in Seq(Byte) /\ Len(p) = z /\ content \o stream = p \o r
      /\ \A j \in 1 .. z : p[j] = <<k, j>>
  BY NextIs
<1>2. content \in Seq(Byte) /\ stream \in Seq(Byte)
  BY DEF StreamInv
<1>3. /\ k \in 1 .. Count /\ Count \in Nat /\ HeaderSize \in Nat \ {0} /\ sizes[Coming] \in Nat
      /\ sizes \in [1 .. Count -> Nat]
  BY NextIs, StreamAssumption
<1>4. Len(content) \in Nat /\ Len(stream) \in Nat /\ Len(r) \in Nat /\ z \in Nat
  BY <1>1, <1>2, <1>3, LenProperties
<1>5. Len(content) < z
  OBVIOUS
<1> HIDE DEF z, p, r, k
<1> SUFFICES ASSUME Len(content) + n > z PROVE FALSE
  BY <1>4 DEF z
<1>6. /\ Len(content) + Len(stream) = Len(p) + Len(r)
      /\ \A i \in 1 .. Len(stream) : stream[i] = (p \o r)[Len(content) + i]
      /\ \A i \in 1 .. Len(p) + Len(r) : (p \o r)[i] = IF i <= Len(p) THEN p[i] ELSE r[i - Len(p)]
  <2>1. p \in Seq(Byte) /\ r \in Seq(Byte) /\ content \o stream = p \o r
    BY <1>1
  <2>2. /\ Len(content \o stream) = Len(content) + Len(stream)
        /\ \A i \in 1 .. Len(content) + Len(stream) : (content \o stream)[i]
             = IF i <= Len(content) THEN content[i] ELSE stream[i - Len(content)]
    BY <1>2, ConcatProperties
  <2>3. /\ Len(p \o r) = Len(p) + Len(r)
        /\ \A i \in 1 .. Len(p) + Len(r) : (p \o r)[i] = IF i <= Len(p) THEN p[i] ELSE r[i - Len(p)]
    BY <2>1, ConcatProperties
  <2>4. ASSUME NEW i \in 1 .. Len(stream)
        PROVE  stream[i] = (content \o stream)[Len(content) + i]
    <3>1. /\ Len(content) + i \in 1 .. Len(content) + Len(stream)
          /\ ~(Len(content) + i <= Len(content)) /\ Len(content) + i - Len(content) = i
      BY <1>4
    <3> QED BY <2>2, <3>1
  <2> QED BY <2>1, <2>2, <2>3, <2>4
<1>7. stream[1] = <<k, Len(content) + 1>>
  <2>1. /\ 1 \in 1 .. Len(stream) /\ Len(content) + 1 <= Len(p) /\ Len(content) + 1 \in 1 .. z
        /\ Len(content) + 1 \in 1 .. Len(p) + Len(r)
    BY <1>1, <1>4, <1>5
  <2> QED BY <1>1, <1>6, <2>1
<1>8. r[1] = <<k + 1, 1>>
  <2>1. r # <<>>
    <3>1. Len(r) > 0
      BY <1>1, <1>4, <1>6
    <3> QED BY <3>1
  <2>2. BytesFrom(sizes)[Count + 1] = <<>>
    BY <1>3, FromIs
  <2>3. k + 1 # Count + 1
    BY <2>1, <2>2 DEF r, k
  <2>4. k + 1 \in 1 .. Count
    BY <1>3, <2>3
  <2> DEFINE h == k + 1
             q == Packet(h, sizes[h])
             t == BytesFrom(sizes)[h + 1]
  <2>5. r = q \o t
    BY <1>3, <2>4, FromIs DEF r, k
  <2>6. sizes[h] \in Nat /\ h \in Nat
    BY <1>3, <2>4
  <2>7. t \in Seq(Byte)
    <3>1. BytesFrom(sizes) \in [1 .. Count + 1 -> Seq(Byte)]
      BY <1>3, FromIs
    <3>2. h + 1 \in 1 .. Count + 1
      BY <1>3, <2>4
    <3> QED BY <3>1, <3>2
  <2>8. q \in Seq(Byte) /\ Len(q) = HeaderSize + sizes[h] /\ q[1] = <<h, 1>>
    <3>1. 1 \in 1 .. HeaderSize + sizes[h]
      BY <1>3, <2>6
    <3> HIDE DEF h
    <3> QED BY <2>6, <3>1, PacketIs
  <2> HIDE DEF q, t, h
  <2>9. (q \o t)[1] = q[1]
    <3>1. Len(t) \in Nat /\ Len(q) \in Nat /\ Len(q) >= 1
      <4>1. HeaderSize + sizes[h] >= 1
        BY <1>3, <2>6
      <4> QED BY <2>7, <2>8, <4>1, LenProperties
    <3>2. 1 \in 1 .. Len(q) + Len(t) /\ 1 <= Len(q)
      BY <3>1
    <3> QED BY <2>7, <2>8, <3>2, ConcatProperties
  <2> QED BY <2>5, <2>8, <2>9 DEF h
<1>9. PICK i \in 1 .. n : Len(content) + i = z + 1
  <2>1. z + 1 - Len(content) \in 1 .. n /\ Len(content) + (z + 1 - Len(content)) = z + 1
    BY <1>4, <1>5
  <2> QED BY <2>1
<1>10. stream[i] = r[1]
  <2> DEFINE w == Len(content) + i
  <2>1. /\ i \in 1 .. Len(stream) /\ w \in 1 .. Len(p) + Len(r)
        /\ ~(w <= Len(p)) /\ w - Len(p) = 1
    BY <1>1, <1>4, <1>6, <1>9
  <2>2. stream[i] = (p \o r)[w]
    BY <1>6, <2>1
  <2> HIDE DEF w
  <2>3. (p \o r)[w] = IF w <= Len(p) THEN p[w] ELSE r[w - Len(p)]
    BY <1>6, <2>1
  <2> QED BY <2>1, <2>2, <2>3
<1>11. stream[i][1] = k + 1 /\ stream[1][1] = k
  BY <1>7, <1>8, <1>10
<1>12. stream[i][1] = stream[1][1]
  OBVIOUS
<1> QED BY <1>3, <1>11, <1>12

(* No step of RecvEvent breaks AloneInv. *)
LEMMA AloneStep ==
  ASSUME OneByOne, AloneInv, [ClientNext]_clientVars
  PROVE  AloneInv'
<1>1. CASE UNCHANGED clientVars
  BY <1>1 DEF clientVars, streamVars, ToClient, AloneInv, StreamInv, Coming, PayloadsIntact
<1>2. ASSUME NEW n \in 0 .. MaxSize, Recv(n) PROVE AloneInv'
  <2>1. /\ pc = "idle" /\ n \in Nat /\ n <= DirectEnqueueSize(rqFront, rqRear) /\ n <= Len(stream)
        /\ stream # <<>> /\ (n = 0 => DirectEnqueueSize(rqFront, rqRear) = 0)
        /\ \A i \in 1 .. n : stream[i][1] = stream[1][1]
    BY <1>2, MaxSizeAssumption DEF Recv, OneByOne
  <2>2. StreamInv /\ ToClient /\ PayloadsIntact
    BY DEF AloneInv
  <2>3. Coming # Count + 1
    BY <2>1, <2>2, NextIs
  <2>4. Len(content) < HeaderSize + sizes[Coming]
    BY <2>1, <2>3 DEF AloneInv
  <2>5. /\ rqFront \in Offsets /\ rqRear \in Offsets /\ GetUseSize(rqFront, rqRear) = Len(content)
        /\ Len(content) \in Nat
    BY <2>2, LenProperties DEF StreamInv
  <2>6. HeaderSize + sizes[Coming] <= MaxSize /\ HeaderSize + sizes[Coming] \in Nat
    <3>1. sizes[Coming] \in ClientSizes
      BY <2>2, <2>3, NextIs DEF ToClient
    <3>2. sizes[Coming] \in Nat /\ HeaderSize \in Nat
      BY <3>1, StreamAssumption, ClientRecvAssumption
    <3> QED BY <3>1, <3>2 DEF OneByOne
  <2>7. /\ GetUseSize(rqFront, rqRear) + GetFreeSize(rqFront, rqRear) = MaxSize
        /\ DirectEnqueueSize(rqFront, rqRear) + AfterEnqueueSize(rqFront, rqRear) = GetFreeSize(rqFront, rqRear)
        /\ GetFreeSize(rqFront, rqRear) \in Nat
    BY <2>5, Sizes
  <2>8. GetFreeSize(rqFront, rqRear) > 0
    BY <2>4, <2>5, <2>6, <2>7, MaxSizeAssumption
  <2>9. /\ DirectEnqueueSize(rqFront, rqRear) > 0 /\ AfterEnqueueSize(rqFront, rqRear) >= 0
        /\ DirectEnqueueSize(rqFront, rqRear) \in Int /\ AfterEnqueueSize(rqFront, rqRear) \in Int
    BY <2>5, <2>8, MaxSizeAssumption
       DEF Offsets, RealSize, GetFreeSize, DirectEnqueueSize, AfterEnqueueSize
  <2>10. n \in Nat \ {0} /\ n <= GetFreeSize(rqFront, rqRear)
    BY <2>1, <2>7, <2>9
  <2>11. MoveRearOK(rqFront, rqRear, n)
    BY <2>5, <2>8, <2>10, MoveTests
  <2>12. Arrive(n) /\ pc' = "parse"
    BY <1>2, <2>11 DEF Recv
  <2>13. StreamInv' /\ Len(content') = Len(content) + n
    BY <2>1, <2>2, <2>10, <2>12, ArriveKeeps
  <2>14. side' = side /\ sizes' = sizes /\ delivered' = delivered
    BY <2>12 DEF Arrive
  <2>15. Coming' = Coming
    BY <2>14 DEF Coming
  <2>16. Len(content) + n <= HeaderSize + sizes[Coming]
    BY <2>1, <2>2, <2>3, <2>4, ArrivesAlone
  <2>17. PayloadsIntact'
    BY <2>2, <2>14 DEF PayloadsIntact
  <2>18. ToClient'
    BY <2>2, <2>14 DEF ToClient
  <2> QED BY <2>12, <2>13, <2>14, <2>15, <2>16, <2>17, <2>18 DEF AloneInv
<1>3. CASE ClientParseIncomplete
  <2>1. /\ pc' = "idle" /\ UNCHANGED <<side, sizes, stream, rqFront, rqRear, content, delivered>>
        /\ RecvUse >= HeaderSize => \E len \in HeaderValues : RecvUse < HeaderSize + len
    BY <1>3 DEF ClientParseIncomplete, streamVars
  <2>2. StreamInv /\ ToClient /\ PayloadsIntact /\ RecvUse = Len(content) /\ Len(content) \in Nat
    BY LenProperties DEF AloneInv, StreamInv, RecvUse
  <2>3. Coming # Count + 1 => Len(content) < HeaderSize + sizes[Coming]
    <3> SUFFICES ASSUME Coming # Count + 1 PROVE Len(content) < HeaderSize + sizes[Coming]
      OBVIOUS
    <3>1. sizes[Coming] \in Nat /\ HeaderSize \in Nat
      BY <2>2, NextIs, StreamAssumption
    <3>2. CASE RecvUse >= HeaderSize
      BY <2>1, <2>2, <3>2, AtHeader
    <3>3. CASE ~(RecvUse >= HeaderSize)
      BY <2>2, <3>1, <3>3
    <3> QED BY <3>2, <3>3
  <2>4. StreamInv' /\ ToClient' /\ PayloadsIntact' /\ Coming' = Coming
    BY <2>1, <2>2 DEF StreamInv, ToClient, Coming, PayloadsIntact
  <2> QED BY <2>1, <2>3, <2>4 DEF AloneInv
<1>4. CASE ClientParsePacket
  <2>1. StreamInv /\ ToClient /\ PayloadsIntact
    BY DEF AloneInv
  <2>2. Coming # Count + 1 /\ Len(content) = HeaderSize + sizes[Coming]
    <3>1. Coming # Count + 1 /\ HeaderSize + sizes[Coming] <= Len(content)
      BY <1>4, <2>1, ClientPacketStep
    <3>2. Len(content) <= HeaderSize + sizes[Coming] /\ Len(content) \in Nat
      BY <3>1, LenProperties DEF AloneInv, StreamInv
    <3>3. sizes[Coming] \in Nat /\ HeaderSize \in Nat
      BY <2>1, <3>1, NextIs, StreamAssumption
    <3> QED BY <3>1, <3>2, <3>3
  <2>3. pc' = "parse" /\ StreamInv' /\ PayloadsIntact'
        /\ Len(content') = Len(content) - (HeaderSize + sizes[Coming])
    BY <1>4, <2>1, <2>2, ClientPacketStep
  <2>4. Len(content') = 0
    <3>1. Len(content) \in Nat
      BY <2>1, LenProperties DEF StreamInv
    <3> QED BY <2>2, <2>3, <3>1
  <2>5. ToClient'
    BY <1>4, <2>1, ClientPacketStep DEF ToClient
  <2>6. Coming' # Count + 1 => 0 <= HeaderSize + sizes'[Coming']
    <3> SUFFICES ASSUME Coming' # Count + 1 PROVE 0 <= HeaderSize + sizes'[Coming']
      OBVIOUS
    <3>0. Len(delivered') \in 0 .. Count /\ sizes' \in [1 .. Count -> Nat]
      BY <2>3 DEF StreamInv
    <3>1. Coming' \in 1 .. Count
      BY <3>0, StreamAssumption DEF Coming
    <3>2. sizes'[Coming'] \in Nat
      BY <3>0, <3>1
    <3>3. sizes'[Coming'] \in Nat /\ HeaderSize \in Nat
      BY <3>2, StreamAssumption
    <3> QED BY <3>3
  <2> QED BY <2>3, <2>4, <2>5, <2>6 DEF AloneInv
<1> QED BY <1>1, <1>2, <1>3, <1>4 DEF ClientNext

(* The client quits only over packets that were received together: if no recv *)
(* brings bytes of two packets and every packet fits into the buffer,         *)
(* RecvEvent never fails (NetworkMgr.cpp:125-188).                            *)
THEOREM QuitsOnlyCoalesced ==
  ASSUME OneByOne PROVE ClientSpec => []NeverQuits
<1>1. ClientInit => AloneInv
  <2> SUFFICES ASSUME ClientInit PROVE AloneInv
    OBVIOUS
  <2>1. StreamInv /\ ToClient /\ Len(delivered) = 0 /\ Len(content) = 0 /\ pc = "idle"
    BY ClientBegins
  <2>2. Coming # Count + 1 => 0 < HeaderSize + sizes[Coming] /\ 0 <= HeaderSize + sizes[Coming]
    <3>1. Coming # Count + 1 => sizes[Coming] \in Nat
      BY <2>1, NextIs
    <3>2. HeaderSize \in Nat \ {0}
      BY StreamAssumption
    <3> QED BY <3>1, <3>2
  <2> QED BY <2>1, <2>2 DEF AloneInv, PayloadsIntact
<1>2. AloneInv /\ [ClientNext]_clientVars => AloneInv'
  BY AloneStep
<1>3. AloneInv => NeverQuits
  BY DEF AloneInv, NeverQuits
<1> QED BY <1>1, <1>2, <1>3, PTL DEF ClientSpec
=============================================================================
