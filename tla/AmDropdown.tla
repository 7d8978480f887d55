----------------------------- MODULE AmDropdown -----------------------------
(* The dropdowns of Amaze UI.  Opening and closing are CSS animations; their   *)
(* ends are handled by functions bound to animationend.  The one that open()   *)
(* binds stays bound for ever, the one of close() runs once.                   *)
EXTENDS Naturals

CONSTANTS
  Drop,            \* the dropdowns of the page
  DropAnimation,   \* UI.support.animation
  MaxPresses       \* bound: clicks and keys of the user

ASSUME DropdownAssumption == DropAnimation \in BOOLEAN /\ MaxPresses \in Nat

VARIABLES drop, presses

dropVars == <<drop, presses>>

\* active and animating are the object's fields; shown is the element's class
\* am-active; opening and closing tell which handlers are bound.
DropTypeOK ==
  /\ drop \in [Drop -> [active : BOOLEAN, animating : BOOLEAN, shown : BOOLEAN,
                        opening : BOOLEAN, closing : BOOLEAN]]
  /\ presses \in 0 .. MaxPresses

DropInit ==
  /\ drop = [d \in Drop |-> [active |-> FALSE, animating |-> FALSE, shown |-> FALSE,
                             opening |-> FALSE, closing |-> FALSE]]
  /\ presses = 0

\* complete() of open() and of close().
DropOpened(s) == [s EXCEPT !.active = TRUE, !.animating = FALSE]
DropClosed(s) == [s EXCEPT !.active = FALSE, !.animating = FALSE, !.shown = FALSE]

\* open(): only of one that is not active, which one on its way in is not yet.
DropOpen(s) ==
  IF s.active THEN s
  ELSE IF DropAnimation
       THEN [s EXCEPT !.shown = TRUE, !.animating = TRUE, !.opening = TRUE]
       ELSE DropOpened([s EXCEPT !.shown = TRUE])

\* close(): only of one that is active, which one on its way out still is.
DropClose(s) ==
  IF ~s.active THEN s
  ELSE IF DropAnimation THEN [s EXCEPT !.animating = TRUE, !.closing = TRUE]
                        ELSE DropClosed(s)

DropToggle(s) ==
  IF s.animating THEN s ELSE IF s.active THEN DropClose(s) ELSE DropOpen(s)

Press == presses < MaxPresses /\ presses' = presses + 1

\* A click on the toggle of d: clear() closes the others, then d toggles; the
\* click goes on to the document, where it closes all that it is not inside of.
ClickToggle(d) ==
  /\ Press
  /\ drop' = [e \in Drop |-> IF e = d THEN DropToggle(drop[e]) ELSE DropClose(drop[e])]

\* A click elsewhere, or the Esc key.
ClickOutside ==
  /\ Press
  /\ drop' = [e \in Drop |-> DropClose(drop[e])]

\* A click in the content of d closes the others.
ClickInside(d) ==
  /\ Press
  /\ drop[d].shown
  /\ drop' = [e \in Drop |-> IF e = d THEN drop[e] ELSE DropClose(drop[e])]

\* open() called by the page's own script: nothing is cleared.
CallOpen(d) ==
  /\ Press
  /\ drop' = [drop EXCEPT ![d] = DropOpen(@)]

\* The browser has finished the animation of d: first the handlers of open(),
\* those of earlier times too, then the one of close(), if it is bound.
AnimationEnds(d) ==
  LET s == IF drop[d].opening THEN DropOpened(drop[d]) ELSE drop[d]
  IN  /\ drop[d].animating
      /\ drop' = [drop EXCEPT ![d] =
           IF s.closing THEN [DropClosed(s) EXCEPT !.closing = FALSE] ELSE s]
      /\ UNCHANGED presses

DropNext ==
  \/ \E d \in Drop : ClickToggle(d) \/ ClickInside(d) \/ CallOpen(d) \/ AnimationEnds(d)
  \/ ClickOutside

DropSpec == DropInit /\ [][DropNext]_dropVars

\* Browsers report the end of the animations they run.
DropFairness == \A d \in Drop : WF_dropVars(AnimationEnds(d))

-----------------------------------------------------------------------------
\* The object and the page agree: a dropdown that is not animated is displayed
\* exactly if its object takes it for active, although the handler of an earlier
\* open() runs in the middle of every close(); and it is closing only while it
\* is animated, so the end of the animation will find the handler.
DropsAgree ==
  \A d \in Drop :
    /\ ~drop[d].animating => drop[d].shown = drop[d].active
    /\ drop[d].closing => drop[d].animating
    /\ drop[d].active => drop[d].shown

DropsBusy == \E d \in Drop : drop[d].animating
=============================================================================
