------------------------------ MODULE AmPopover ------------------------------
(* The popover of Amaze UI: a box beside the element it explains, above it if it   *)
(* fits there, else below, else at a side.  It is placed when it opens and 50 ms     *)
(* after the window was resized; scrolling and new contents do not place it again.    *)
EXTENDS Integers

CONSTANTS
  Windows,     \* the sizes of the window, in pixels: records of w and h
  Boxes,       \* the sizes of the popover with its contents
  Spots,       \* where the element may be in the window: records of left and top
  Trigger,     \* the size of the element
  MaxPops      \* bound: what the user and the page's script do

Sizes == [w : Nat, h : Nat]

ASSUME PopoverAssumption ==
  /\ Windows \cup Boxes \cup {Trigger} \subseteq Sizes
  /\ Spots \subseteq [left : Int, top : Int]
  /\ MaxPops \in Nat

\* layout: the window, the popover's box, and the element's spot; placed: where the
\* popover is, relative to the window; popActive; sizers: the handlers of resize, one
\* for each time it was opened; sizing: their timers.  History: drifted, the window
\* was scrolled or the contents were changed since it was placed.
VARIABLES layout, placed, popActive, sizers, sizing, drifted, pops

popVars == <<layout, placed, popActive, sizers, sizing, drifted, pops>>

Places == [side : {"top", "bottom", "left", "right"}, left : Int, top : Int]

PopoverTypeOK ==
  /\ layout \in [window : Windows, box : Boxes, spot : Spots]
  /\ placed \in Places
  /\ {popActive, drifted} \subseteq BOOLEAN
  /\ sizers \in Nat /\ sizing \in 0 .. sizers
  /\ pops \in 0 .. MaxPops

-----------------------------------------------------------------------------
\* sizePopover(): above the element, below it, or in the middle beside it.
Total(g) == g.box.h + 8

Vertical(g) ==
  CASE Total(g) - 2 < g.spot.top + 2 -> "top"
    [] Total(g) - 2 >= g.spot.top + 2
       /\ Total(g) < g.window.h - g.spot.top - Trigger.h -> "bottom"
    [] OTHER -> "middle"

PopTop(g) ==
  CASE Vertical(g) = "top"    -> g.spot.top - Total(g) - 2
    [] Vertical(g) = "bottom" -> g.spot.top + Trigger.h + 8 + 2
    [] OTHER                  -> Trigger.h \div 2 + g.spot.top - g.box.h \div 2

\* Over or under the element the popover is centred, but kept from both edges.
Centred(g) ==
  LET left == Trigger.w \div 2 + g.spot.left - g.box.w \div 2
      kept == IF left < 5 THEN 5 ELSE left
  IN  IF kept + g.box.w > g.window.w THEN g.window.w - g.box.w - 20 ELSE kept

\* Beside the element it is to the left, else to the right, else at the right edge.
Beside(g) ==
  LET left  == g.spot.left - g.box.w - 8
      right == g.spot.left + Trigger.w + 8
      kept  == IF left < 5 THEN right ELSE left
  IN  IF kept + g.box.w > g.window.w
      THEN [side |-> "right", left |-> g.window.w - g.box.w - 5, top |-> PopTop(g)]
      ELSE [side |-> IF left < 5 THEN "right" ELSE "left", left |-> kept, top |-> PopTop(g)]

SizePopover(g) ==
  IF Vertical(g) = "middle" THEN Beside(g)
  ELSE [side |-> Vertical(g), left |-> Centred(g), top |-> PopTop(g)]

-----------------------------------------------------------------------------
\* init() places the popover while it is hidden.
PopoverInit ==
  /\ layout \in [window : Windows, box : Boxes, spot : Spots]
  /\ placed = SizePopover(layout)
  /\ popActive = FALSE
  /\ sizers = 0 /\ sizing = 0
  /\ drifted = FALSE
  /\ pops = 0

Pop == pops < MaxPops /\ pops' = pops + 1

Place == placed' = SizePopover(layout) /\ drifted' = FALSE

\* open(), from toggle(), the mouse or the focus, be it open or not: every time
\* another handler of resize is bound.
OpenPopover ==
  /\ Pop
  /\ Place
  /\ popActive' = TRUE
  /\ sizers' = sizers + 1
  /\ UNCHANGED <<layout, sizing>>

\* close(): the handlers it means to take away are not the ones that were bound.
ClosePopover ==
  /\ Pop
  /\ popActive' = FALSE
  /\ UNCHANGED <<layout, placed, sizers, sizing, drifted>>

\* setContent() called by the page's script.
SetContent ==
  /\ Pop
  /\ \E box \in Boxes : layout' = [layout EXCEPT !.box = box]
  /\ drifted' = TRUE
  /\ UNCHANGED <<placed, popActive, sizers, sizing>>

\* The page is scrolled, the popover with it.
PopoverScrolls ==
  /\ Pop
  /\ \E spot \in Spots :
       /\ spot.left = layout.spot.left
       /\ layout' = [layout EXCEPT !.spot = spot]
       /\ placed' = [placed EXCEPT !.top = @ + spot.top - layout.spot.top]
  /\ drifted' = TRUE
  /\ UNCHANGED <<popActive, sizers, sizing>>

\* The window is resized, and the element moves: each handler's timer begins anew.
PopoverResizes ==
  /\ Pop
  /\ \E window \in Windows, spot \in Spots :
       layout' = [layout EXCEPT !.window = window, !.spot = spot]
  /\ sizing' = sizers
  /\ UNCHANGED <<placed, popActive, sizers, drifted>>

\* The timer of one handler.
PopoverSized ==
  /\ sizing > 0
  /\ sizing' = sizing - 1
  /\ Place
  /\ UNCHANGED <<layout, popActive, sizers, pops>>

PopoverNext ==
  \/ OpenPopover \/ ClosePopover \/ SetContent
  \/ PopoverScrolls \/ PopoverResizes \/ PopoverSized

PopoverSpec == PopoverInit /\ [][PopoverNext]_popVars

PopoverFairness == WF_popVars(PopoverSized)

-----------------------------------------------------------------------------
\* An open popover can be read and leaves its element free: after every resize it is
\* placed anew, and then it is in the window from edge to edge, to within 5 pixels
\* above and below, and it covers its element only at a side without room for it.
\* (Beside an element that is scrolled out of the window to the left, it is out there
\* too.  Not if the page was scrolled or the contents were changed since.)
PopoverReadable ==
  popActive /\ sizing = 0 /\ ~drifted =>
    LET g == layout
        fits == g.box.w + 25 <= g.window.w
        room == g.spot.left + Trigger.w + 8 + g.box.w <= g.window.w
                \/ g.spot.left - g.box.w - 8 >= 5
    IN  /\ fits => placed.left + g.box.w <= g.window.w
        /\ fits /\ g.spot.left + Trigger.w + 8 >= 0 => placed.left >= 0
        /\ placed.side = "top" => placed.top >= -5 /\ placed.top + g.box.h < g.spot.top
        /\ placed.side = "bottom" => /\ placed.top > g.spot.top + Trigger.h
                                     /\ placed.top + g.box.h <= g.window.h + 5
        /\ placed.side \in {"left", "right"} /\ room =>
             \/ placed.left + g.box.w <= g.spot.left
             \/ placed.left >= g.spot.left + Trigger.w

PopoverBusy == sizing > 0
=============================================================================
