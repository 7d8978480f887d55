---------------------------- MODULE AmOffCanvas -----------------------------
(* The off-canvas bars of Amaze UI.  An open bar fixes the page: the scroll     *)
(* position is saved in a variable that all bars share, and restored when the   *)
(* bar has closed.  The end of closing is waited for on the body, which sees    *)
(* the end of every transition of the page.                                     *)
EXTENDS Naturals, Sequences

CONSTANTS
  Canvas,             \* the bars of the page
  CanvasTransition,   \* UI.support.transition
  MaxScroll,          \* bound: scroll positions
  MaxSwitches         \* bound: openings and closings by the user

ASSUME OffCanvasAssumption ==
  CanvasTransition \in BOOLEAN /\ MaxScroll \in Nat /\ MaxSwitches \in Nat

\* shown: the bars with the class am-active; clickable: those whose click
\* handler is bound; fixed: the body has the class am-offcanvas-page; margin,
\* saved, scroll: the page's margin, scrollPos, and the scroll position;
\* completions: the handlers that wait on the body; bodyTimers: those of
\* emulateTransitionEnd, TRUE when told of an end.  History: home, where the user
\* has scrolled to, and crowded, that two bars have been open at a time.
VARIABLES shown, clickable, fixed, margin, saved, scroll, completions, bodyTimers,
          home, crowded, switches

canvasVars == <<shown, clickable, fixed, margin, saved, scroll, completions,
                bodyTimers, home, crowded, switches>>

CanvasTypeOK ==
  /\ shown \subseteq Canvas /\ clickable \subseteq Canvas
  /\ fixed \in BOOLEAN /\ crowded \in BOOLEAN
  /\ {margin, saved, scroll, home} \subseteq 0 .. MaxScroll
  /\ completions \in Seq(Canvas)
  /\ bodyTimers \in Seq(BOOLEAN)
  /\ switches \in 0 .. MaxSwitches

CanvasInit ==
  /\ shown = {} /\ clickable = {}
  /\ fixed = FALSE /\ crowded = FALSE
  /\ margin = 0 /\ saved = 0 /\ scroll = 0 /\ home = 0
  /\ completions = << >> /\ bodyTimers = << >>
  /\ switches = 0

\* The user scrolls, which a fixed page does not allow.
UserScrolls ==
  /\ ~fixed
  /\ \E y \in 0 .. MaxScroll : scroll' = y /\ home' = y
  /\ UNCHANGED <<shown, clickable, fixed, margin, saved, completions, bodyTimers,
                 crowded, switches>>

Switch == switches < MaxSwitches /\ switches' = switches + 1

\* open(): a page that becomes fixed loses its scroll position to the margin.
OpenCanvas(c) ==
  /\ Switch
  /\ c \notin shown
  /\ saved' = scroll
  /\ margin' = scroll
  /\ scroll' = 0
  /\ fixed' = TRUE
  /\ shown' = shown \cup {c}
  /\ clickable' = clickable \cup {c}
  /\ crowded' = (crowded \/ shown # {})
  /\ UNCHANGED <<completions, bodyTimers, home>>

\* complete(), for each bar of C: the page is as it was, for the last of them
\* that saved its position.
CanvasClosed(C) ==
  /\ shown' = shown \ C
  /\ fixed' = IF C = {} THEN fixed ELSE FALSE
  /\ margin' = IF C = {} THEN margin ELSE 0
  /\ scroll' = IF C = {} THEN scroll ELSE saved

\* close(), called by a click beside the bar, the Esc key, a dismiss button, a
\* swipe, or because the window is resized; it may be called again while the bar
\* is closing.
CloseCanvas(c) ==
  /\ Switch
  /\ c \in shown
  /\ clickable' = clickable \ {c}
  /\ IF CanvasTransition
     THEN /\ completions' = Append(completions, c)
          /\ bodyTimers' = Append(bodyTimers, FALSE)
          /\ UNCHANGED <<shown, fixed, margin, scroll>>
     ELSE /\ CanvasClosed({c})
          /\ UNCHANGED <<completions, bodyTimers>>
  /\ UNCHANGED <<saved, home, crowded>>

\* A transition of the body, or of anything in it, has ended.
BodyTransitionEnds ==
  /\ completions # << >>
  /\ CanvasClosed({completions[i] : i \in DOMAIN completions})
  /\ completions' = << >>
  /\ bodyTimers' = [i \in DOMAIN bodyTimers |-> TRUE]
  /\ UNCHANGED <<clickable, saved, home, crowded, switches>>

\* The callback of emulateTransitionEnd.
BodyTimerFires ==
  /\ bodyTimers # << >>
  /\ IF Head(bodyTimers)
     THEN /\ bodyTimers' = Tail(bodyTimers)
          /\ UNCHANGED <<shown, fixed, margin, scroll, completions>>
     ELSE /\ CanvasClosed({completions[i] : i \in DOMAIN completions})
          /\ completions' = << >>
          /\ bodyTimers' = [i \in DOMAIN Tail(bodyTimers) |-> TRUE]
  /\ UNCHANGED <<clickable, saved, home, crowded, switches>>

CanvasNext ==
  \/ UserScrolls
  \/ \E c \in Canvas : OpenCanvas(c) \/ CloseCanvas(c)
  \/ BodyTransitionEnds
  \/ BodyTimerFires

CanvasSpec == CanvasInit /\ [][CanvasNext]_canvasVars

CanvasFairness == WF_canvasVars(BodyTimerFires)

-----------------------------------------------------------------------------
\* The page is given back: with no bar displayed it is not fixed and nothing is
\* left to complete; a bar that no longer takes clicks is on its way out, with
\* a timer to get it there; and unless two bars were open at a time, the user
\* is back where he had scrolled to.
PageGivenBack ==
  /\ shown = {} => ~fixed /\ margin = 0 /\ completions = << >>
  /\ \A c \in shown \ clickable :
       /\ \E i \in DOMAIN completions : completions[i] = c
       /\ \E i \in DOMAIN bodyTimers : ~bodyTimers[i]
  /\ ~fixed /\ ~crowded => scroll = home

CanvasBusy == shown \ clickable # {}
=============================================================================
