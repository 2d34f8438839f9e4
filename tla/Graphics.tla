------------------------------ MODULE Graphics ------------------------------
(***************************************************************************)
(* Devices/Graphics: the framebuffer's description, the back buffer and    *)
(* what pixel, putrect and Font::Draw write into it.  A pixel is one cell   *)
(* (24 or 32 bits: its bytes stay in the cell).  Loops over pixels are one  *)
(* action: callers draw one after the other, the console under ttyLock.     *)
(***************************************************************************)
EXTENDS Integers

CONSTANTS
  ScreenWidth, ScreenHeight, Pitch,  \* of the framebuffer, in pixels
  FontWidth, FontHeight,             \* FONT_WIDTH, FONT_HEIGHT: 8
  Glyph,                             \* characters drawn, as sets of <<column, row>>
  Fore, Back, NoInk, NoGlyph

ASSUME GraphicsAssumption ==
  /\ Pitch \in Nat /\ ScreenWidth \in Nat /\ ScreenHeight \in Nat /\ Pitch >= ScreenWidth
  /\ FontWidth \in Nat \ {0} /\ FontHeight \in Nat \ {0, 1} /\ ScreenWidth > FontWidth
  /\ ScreenWidth % FontWidth = 0 /\ ScreenHeight % FontHeight = 0

VARIABLES
  framebuffer,  \* getFramebuffer(): none, empty (no address) or filled
  graphicsUp,   \* initialized
  backbuffer,   \* with the cells behind its end that a pixel can reach
  onScreen,     \* the screen shows what the back buffer holds
  stray,        \* history: a pixel was written outside its row of the buffer
  edge,         \* history: a shape reached the column or row behind the screen
  intact        \* history: glyphs that nothing should have drawn over

graphicsVars == <<framebuffer, graphicsUp, backbuffer, onScreen, stray, edge, intact>>

BufferCells == 0..(Pitch * ScreenHeight - 1)      \* what malloc returned
ReachedCells == 0..(Pitch * ScreenHeight + ScreenWidth)
TextCells == (0..(ScreenWidth \div FontWidth - 1)) \X (0..(ScreenHeight \div FontHeight - 1))

GraphicsInit ==
  /\ framebuffer = "none" /\ graphicsUp = FALSE
  /\ backbuffer = [c \in ReachedCells |-> NoInk] /\ onScreen = TRUE
  /\ stray = FALSE /\ edge = FALSE /\ intact = [t \in TextCells |-> NoGlyph]

drawVars == <<backbuffer, onScreen, stray, edge, intact>>

(* The first Framebuffer constructed, the handoff's member, is the one that  *)
(* getFramebuffer returns; the temporary made of the tag is copied into it.  *)
ConstructFramebuffer ==
  /\ framebuffer = "none" /\ framebuffer' = "empty"
  /\ UNCHANGED <<graphicsUp, drawVars>>

FillFramebuffer ==
  /\ framebuffer = "empty" /\ ~graphicsUp /\ framebuffer' = "filled"
  /\ UNCHANGED <<graphicsUp, drawVars>>

(* init: without an address nothing is ever drawn.                          *)
InitGraphics ==
  /\ framebuffer = "filled" /\ ~graphicsUp /\ graphicsUp' = TRUE
  /\ UNCHANGED <<framebuffer, drawVars>>

(***************************************************************************)
(* pixel                                                                   *)
(***************************************************************************)
(* Fault: no comparison with the size of the screen.                        *)
Unclipped(p) == Pitch * p[2] + p[1] \in ReachedCells
(* Width and height themselves pass.                                        *)
Clipped(p) == p[1] <= ScreenWidth /\ p[2] <= ScreenHeight
CellOf(p) == p[2] * Pitch + p[1]

(* All pixels of a shape, each in its colour.                               *)
Paint(shape, Colour(_)) ==
  /\ graphicsUp
  /\ backbuffer' = [c \in ReachedCells |->
       LET hit == {p \in shape : Clipped(p) /\ CellOf(p) = c}
       IN IF hit = {} THEN backbuffer[c] ELSE Colour(CHOOSE p \in hit : TRUE)]
  /\ stray' = (stray \/ \E p \in shape : Clipped(p) /\ (CellOf(p) \notin BufferCells
                                                       \/ CellOf(p) \div Pitch # p[2]))
  /\ edge' = (edge \/ \E p \in shape : p[1] = ScreenWidth \/ p[2] = ScreenHeight)
  /\ UNCHANGED <<framebuffer, graphicsUp>>

Plain(p) == Fore

(* putrect draws one row and one column more than asked for, then swaps.    *)
putrect(x, y, w, h) ==
  /\ Paint((x..(x + w)) \X (y..(y + h)), Plain)
  /\ onScreen' = TRUE /\ intact' = [t \in TextCells |-> NoGlyph]

(***************************************************************************)
(* Font::Draw                                                              *)
(***************************************************************************)
InGlyph(g, fx, fy) == fx # FontWidth /\ fy # FontHeight /\ <<fx, fy>> \in g

(* Text cells with pixels that drawing into t changes, too: its neighbours  *)
(* to the right and below and, from the last column, the first ones.        *)
DrawnOver(t) ==
  LET right == IF Pitch = ScreenWidth /\ t[1] = ScreenWidth \div FontWidth - 1
               THEN {<<0, t[2]>>, <<0, t[2] + 1>>} ELSE {}
  IN {<<t[1] + 1, t[2]>>, <<t[1], t[2] + 1>>, <<t[1] + 1, t[2] + 1>>} \cup right

DrawBack(g, t) ==
  LET x == t[1] * FontWidth
      y == t[2] * FontHeight
      Colour(p) == IF InGlyph(g, p[1] - x, p[2] - y) THEN Fore ELSE Back
  IN /\ Paint((x..(x + FontWidth)) \X (y..(y + FontHeight)), Colour)
     /\ intact' = [c \in TextCells |-> IF c = t THEN g
                                       ELSE IF c \in DrawnOver(t) THEN NoGlyph ELSE intact[c]]
     /\ onScreen' = FALSE

(* Draw without a background leaves what is there.                          *)
DrawFore(g, t) ==
  LET x == t[1] * FontWidth
      y == t[2] * FontHeight
  IN /\ Paint({p \in (x..(x + FontWidth)) \X (y..(y + FontHeight)) : InGlyph(g, p[1] - x, p[2] - y)}, Plain)
     /\ intact' = [intact EXCEPT ![t] = NoGlyph]
     /\ onScreen' = FALSE

resetDoubleBuffer ==
  /\ graphicsUp
  /\ backbuffer' = [c \in ReachedCells |-> IF c \in BufferCells THEN NoInk ELSE backbuffer[c]]
  /\ intact' = [t \in TextCells |-> NoGlyph] /\ onScreen' = FALSE
  /\ UNCHANGED <<framebuffer, graphicsUp, stray, edge>>

swap ==
  /\ graphicsUp /\ onScreen' = TRUE
  /\ UNCHANGED <<framebuffer, graphicsUp, backbuffer, stray, edge, intact>>

GraphicsNext ==
  \/ ConstructFramebuffer \/ FillFramebuffer \/ InitGraphics
  \/ \E g \in Glyph, t \in TextCells : DrawBack(g, t) \/ DrawFore(g, t)
  \/ putrect(1, 1, 0, 0) \/ putrect(0, 0, ScreenWidth, ScreenHeight)
  \/ putrect(ScreenWidth + 1, 0, 1, 1)
  \/ resetDoubleBuffer \/ swap

GraphicsSpec == GraphicsInit /\ [][GraphicsNext]_graphicsVars

(***************************************************************************)
(* Properties.                                                             *)
(***************************************************************************)
(* A character stays as it was drawn until its own cell is drawn again, or   *)
(* one whose extra row and column of background falls on it: Draw paints    *)
(* nine by nine pixels, in the last column across the end of the line.      *)
GlyphsIntact ==
  \A t \in TextCells : intact[t] # NoGlyph =>
    \A fx \in 0..(FontWidth - 1), fy \in 0..(FontHeight - 1) :
      backbuffer[CellOf(<<t[1] * FontWidth + fx, t[2] * FontHeight + fy>>)]
        = IF <<fx, fy>> \in intact[t] THEN Fore ELSE Back

(* Nothing is written behind the back buffer or into another line, unless a  *)
(* shape reached the column or the row just behind the screen, which pixel   *)
(* lets pass.                                                               *)
StrayOnlyAtEdge == stray => edge

(* Text on the screen and memory around it survive drawing, but for the one  *)
(* column and row that the code draws too much.                             *)
DrawingContained == GlyphsIntact /\ StrayOnlyAtEdge

(* "Draws a pixel at a given coordinate": every pixel written lies in its     *)
(* row of the back buffer.  One at x = width falls on the next row, and one  *)
(* at y = height behind the buffer.                                         *)
PixelsInPlace == ~stray
=============================================================================
