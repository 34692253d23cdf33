------------------------------ MODULE Renderer ------------------------------
(***************************************************************************)
(* CRenderMgr of src/cpp-project/2DGame/RenderMgr.cpp: the clipping of a   *)
(* sprite against the back buffer and the camera that RenderTilemap moves. *)
(* A drawing is the map from the pixels it writes to the pixels of the     *)
(* sprite they come from; what is done to the colours, and that white      *)
(* pixels are skipped, is left out.                                        *)
(***************************************************************************)
EXTENDS Integers

CONSTANTS ScreenW, ScreenH,      \* WINSIZE_X, WINSIZE_Y
          MapRight, MapBottom,   \* dfRANGE_MOVE_RIGHT, dfRANGE_MOVE_BOTTOM
          Tile,                  \* dfTILE_WIDTH, dfTILE_HEIGHT
          Shift,                 \* the 50 that RenderTilemap takes from y
          SpriteSizes,           \* bound: sizes of sprites
          Percentages            \* bound: the share of the HP bar that is drawn

ASSUME ScreenAssumption == /\ ScreenW \in Nat \ {0} /\ ScreenH \in Nat \ {0}
                           /\ ScreenW % 2 = 0 /\ ScreenH % 2 = 0
ASSUME MapAssumption == /\ MapRight \in Nat /\ MapBottom \in Nat
                        /\ MapRight > ScreenW /\ MapBottom > ScreenH
ASSUME TileAssumption == Tile \in Nat \ {0} /\ Shift \in Nat /\ ScreenW % Tile = 0
ASSUME SpriteAssumption == /\ SpriteSizes \subseteq 1 .. ScreenW - 1
                           /\ SpriteSizes \subseteq 1 .. ScreenH - 1
                           /\ Percentages \subseteq 0 .. 100

VARIABLES cameraX, cameraY,   \* m_cameraX, m_cameraY
          fixX, fixY,         \* where RenderTilemap began to lay tiles
          request,            \* where on the screen the last sprite was to go, and its size
          written             \* what it wrote

renderVars == <<cameraX, cameraY, fixX, fixY, request, written>>

NoSprite == [x |-> 0, y |-> 0, w |-> 0, h |-> 0]

RenderInit == /\ cameraX = 0 /\ cameraY = 0 /\ fixX = 0 /\ fixY = 0
              /\ request = NoSprite
              /\ written = <<>>

(* Each turn that draws begins with an empty buffer. *)
ClearScreen == /\ request # NoSprite
               /\ request' = NoSprite /\ written' = <<>>
               /\ UNCHANGED <<cameraX, cameraY, fixX, fixY>>

(* One axis: the first pixel on the screen, the first of the sprite, and how  *)
(* many are drawn.                                                            *)
ClipStart(d) == IF d < 0 THEN 0 ELSE d
ClipSkip(d) == IF d < 0 THEN -d ELSE 0

(* Faulty variant: a sprite that begins off the screen keeps its width. *)
ClipCountWhole(d, len, limit) == IF limit - 1 < d + len THEN limit - d ELSE len

ClipCount(d, len, limit) == IF limit - 1 < d + len THEN limit - d
                            ELSE IF d < 0 THEN len + d
                            ELSE len

Span(d, len, limit) == ClipStart(d) .. ClipStart(d) + ClipCount(d, len, limit) - 1

(* The loops of the drawing functions; bound: one sprite a turn.              *)
CopyPixels(x, y, w, h) ==
  /\ request = NoSprite
  /\ request' = [x |-> x, y |-> y, w |-> w, h |-> h]
  /\ written' = [p \in Span(x, w, ScreenW) \X Span(y, h, ScreenH) |->
                   <<p[1] - ClipStart(x) + ClipSkip(x), p[2] - ClipStart(y) + ClipSkip(y)>>]
  /\ UNCHANGED <<cameraX, cameraY, fixX, fixY>>

(* Only the left part of the sprite. *)
Render(x, y, w, h, percentage) ==
  CopyPixels(x - cameraX, y - cameraY, (w * percentage) \div 100, h)

Render50(x, y, w, h) == CopyPixels(x - cameraX, y - cameraY, w, h)
RenderRed(x, y, w, h) == CopyPixels(x - cameraX, y - cameraY, w, h)

(* Faulty variant: at the end of the map the camera follows the player.       *)
CameraPastEnd(p, size, map) == IF p < size \div 2 THEN 0 ELSE p - size \div 2

(* The camera on one axis for a player at p, and the tile it begins in.       *)
Camera(p, size, map) == IF map - size \div 2 <= p THEN map - size - 1
                        ELSE IF p < size \div 2 THEN 0
                        ELSE p - size \div 2

RenderTilemap(x, y) ==
  /\ request = NoSprite
  /\ cameraX' = Camera(x, ScreenW, MapRight)
  /\ cameraY' = Camera(y - Shift, ScreenH, MapBottom)
  /\ fixX' = cameraX' - (cameraX' % Tile)
  /\ fixY' = cameraY' - (cameraY' % Tile)
  /\ UNCHANGED <<request, written>>

RenderNext ==
  \/ ClearScreen
  \/ \E x \in 0 .. MapRight - 1, y \in 0 .. MapBottom - 1 : RenderTilemap(x, y)
  \/ \E w, h \in SpriteSizes :
       \E x \in cameraX - w - 1 .. cameraX + ScreenW + 1, y \in cameraY - h - 1 .. cameraY + ScreenH + 1 :
         \/ \E percentage \in Percentages : Render(x, y, w, h, percentage)
         \/ Render50(x, y, w, h) \/ RenderRed(x, y, w, h)

RenderSpec == RenderInit /\ [][RenderNext]_renderVars
-----------------------------------------------------------------------------
(* A sprite anywhere on, partly off or off the screen is drawn at exactly its *)
(* pixels that are on the screen, so never outside the back buffer or the     *)
(* sprite, and each from its own pixel (RenderMgr.cpp:50-301).                *)
DrawnExactly ==
  request.w > 0 =>
    written = [p \in {s \in (0 .. ScreenW - 1) \X (0 .. ScreenH - 1) :
                        /\ s[1] - request.x \in 0 .. request.w - 1
                        /\ s[2] - request.y \in 0 .. request.h - 1} |->
                 <<p[1] - request.x, p[2] - request.y>>]

(* The camera shows only the map, and the tiles laid from fixX and fixY on    *)
(* cover the screen (RenderMgr.cpp:399-440).                                  *)
ViewCovered ==
  /\ cameraX \in 0 .. MapRight - ScreenW /\ cameraY \in 0 .. MapBottom - ScreenH
  /\ fixX <= cameraX /\ cameraX + ScreenW <= fixX + Tile * (ScreenW \div Tile + 1)
  /\ fixY <= cameraY /\ cameraY + ScreenH <= fixY + Tile * (ScreenH \div Tile + 2)
=============================================================================
