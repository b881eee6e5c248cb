-------------------------------- MODULE Panel --------------------------------
(***************************************************************************)
(* From a screen's drawing to the panel: the drawing primitives and the    *)
(* dirty rectangles of core/tezos_gfx.c, the letterboxing, and fbdev_flip  *)
(* of shim-linux/linux_shim.c, which writes the rows of the frame to the   *)
(* framebuffer device, mirrored, because the panel is.                     *)
(*                                                                         *)
(* Colours are left out: what is kept is which pixels of the logical frame *)
(* the display does not show as they were last drawn.                      *)
(***************************************************************************)
EXTENDS Integers, SequencesExt

CONSTANTS
    Width, Height,  \* the logical frame: TEZOS_LOGICAL_WIDTH, _HEIGHT
    Displays,       \* the resolutions a display may report, <<width, height>>
    Rectangles,     \* what is drawn, as [x, y, w, h]
    PopupMarks,     \* the rectangles the confirmation popup marks, in order
    Kinds,          \* how the screens draw: "screen", "popup" or "part"
    MaxDirty        \* TEZOS_MAX_DIRTY_RECTS

Rectangle == [x : Int, y : Int, w : Nat, h : Nat]

ASSUME PanelAssumption ==
    /\ Width \in Nat \ {0} /\ Height \in Nat \ {0} /\ MaxDirty \in Nat
    /\ Displays \subseteq Nat \X Nat
    /\ Rectangles \subseteq Rectangle /\ PopupMarks \in Seq(Rectangle)
    /\ Kinds \subseteq {"screen", "popup", "part"}

VARIABLES
    display,    \* the resolution of the display
    stale,      \* the pixels of the frame the display shows as they were before
    failed,     \* history: did a write fail since the frame was last written whole?
    lopsided    \* history: was a part not centred between the left and the right
                \* edge written since then?

panelVars == <<display, stale, failed, lopsided>>

Pixels == (0 .. Width - 1) \X (0 .. Height - 1)

-----------------------------------------------------------------------------
(* tezos_gfx.c.                                                            *)

\* The pixels a rectangle, an icon or a glyph draws: those within the frame.
Clip(r) == {p \in Pixels : p[1] \in r.x .. r.x + r.w - 1 /\ p[2] \in r.y .. r.y + r.h - 1}

\* Mutant of MarkedAll: the rectangles the table has no room for are forgotten.
MarkedAll_Forgets(marks) ==
    [rects |-> {marks[i] : i \in 1 .. Min({Len(marks), MaxDirty})}, full |-> FALSE]

\* The dirty rectangles after a drawing, each of whose rectangles was given to
\* tezos_dirty_mark: the table has room for the first ones, and with one too
\* many the whole frame is written.
MarkedAll(marks) ==
    [rects |-> {marks[i] : i \in 1 .. Min({Len(marks), MaxDirty})},
     full  |-> Len(marks) > MaxDirty]

\* tezos_fb_blit_letterboxed: the largest whole scale that fits, at least 1.
Scale == LET fit == Min({display[1] \div Width, display[2] \div Height})
         IN  IF fit < 1 THEN 1 ELSE fit

\* C division truncates: the margin of a display that is too small.
Half(n) == IF n >= 0 THEN n \div 2 ELSE -((-n) \div 2)
Offset == <<Half(display[1] - Width * Scale), Half(display[2] - Height * Scale)>>

\* The physical pixels that show p; any other is a bar.
ShownAt(p) ==
    {q \in (0 .. display[1] - 1) \X (0 .. display[2] - 1) :
        \A i \in 1 .. 2 : /\ q[i] - Offset[i] \in 0 .. <<Width, Height>>[i] * Scale - 1
                          /\ (q[i] - Offset[i]) \div Scale = p[i]}

-----------------------------------------------------------------------------
(* linux_shim.c.                                                           *)

Letterboxed == display # <<Width, Height>>

\* What fbdev_flip writes: the rectangle around all that is dirty, cut at the
\* frame's edges; or everything.
Whole == [x0 |-> 0, y0 |-> 0, x1 |-> Width, y1 |-> Height]
Around(dirty) ==
    IF dirty.full \/ dirty.rects = {} THEN Whole
    ELSE [x0 |-> Max({0, Min({r.x : r \in dirty.rects})}),
          y0 |-> Max({0, Min({r.y : r \in dirty.rects})}),
          x1 |-> Min({Width, Max({r.x + r.w : r \in dirty.rects})}),
          y1 |-> Min({Height, Max({r.y + r.h : r \in dirty.rects})})]

\* The pixels that reach the panel: a column of the device holds the mirrored
\* column of the frame, and the columns written are x0 .. x1 - 1.
Flipped(box, rows) ==
    {p \in Pixels : /\ p[2] \in box.y0 .. box.y1 - 1 /\ p[2] < rows
                    /\ Width - 1 - p[1] \in box.x0 .. box.x1 - 1}

\* The letterboxed frame is written whole.
Blitted(rows) ==
    {p \in Pixels : ShownAt(p) # {} /\ \A q \in ShownAt(p) : q[2] < rows}

\* present_frame; the rows from "rows" on are not written when a pwrite fails.
Presented(dirty, rows) ==
    IF Letterboxed THEN Blitted(rows) ELSE Flipped(Around(dirty), rows)

\* The row after the last one written.
Rows(dirty) == IF Letterboxed THEN display[2] ELSE Max({0, Around(dirty).y1})

\* The columns of the device that are written lie as far from its left edge as
\* from its right one, so that the mirror maps them onto themselves.
Centred(box) == box.x0 + box.x1 = Width

\* A render and its present_frame, as every tick ends that has something to
\* draw.  All that is drawn changes.
Draw(marks) ==
    LET dirty == MarkedAll(marks)
        part  == ~Letterboxed /\ Around(dirty) # Whole
    IN  \E rows \in 0 .. Rows(dirty) :
            /\ stale' = (stale \cup UNION {Clip(marks[i]) : i \in DOMAIN marks})
                            \ Presented(dirty, rows)
            /\ failed' = (rows < Rows(dirty) \/ (failed /\ part))
            /\ lopsided' = (part /\ (lopsided \/ ~Centred(Around(dirty))))

All == [x |-> 0, y |-> 0, w |-> Width, h |-> Height]

\* What the screens mark: every screen but one begins with the whole frame,
\* the popup leaves what is around its box; and what fbdev_flip offers
\* besides, a part drawn and written alone, wherever it is.
Drawings ==
    (IF "screen" \in Kinds THEN {<<All, r>> : r \in Rectangles} ELSE {})
      \cup (IF "popup" \in Kinds THEN {PopupMarks} ELSE {})
      \cup (IF "part" \in Kinds THEN {<<r>> : r \in Rectangles} ELSE {})

\* The display is blank until the first frame, which the splash draws.
PanelInit == display \in Displays /\ stale = Pixels /\ failed = TRUE /\ lopsided = FALSE

PanelNext == (\E marks \in Drawings : Draw(marks)) /\ UNCHANGED display

PanelSpec == PanelInit /\ [][PanelNext]_panelVars

-----------------------------------------------------------------------------
\* On a display the frame fits on, every pixel is shown as it was last drawn
\* once the frame has been written without an error, whole or in parts that
\* are centred: the table of dirty rectangles, their union, the mirror and the
\* letterbox lose nothing.
DrawnIsShown ==
    display[1] >= Width /\ display[2] >= Height /\ ~failed /\ ~lopsided => stale = {}

\* The same of any part: the mirrored write "is correct for partial dirty-rect
\* writes too, not just full-frame ones" (linux_shim.c).
PanelShowsFrame ==
    display[1] >= Width /\ display[2] >= Height /\ ~failed => stale = {}
=============================================================================
