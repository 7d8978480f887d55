------------------------------ MODULE AmScroll ------------------------------
(* The scroller of Amaze UI (iScroll), for a vertical scroll with bounce and    *)
(* CSS transitions.  The content follows the finger beyond its ends, and flies   *)
(* on with momentum; what brings it back is the end of the drag, and the end of   *)
(* each transition.                                                               *)
EXTENDS Integers

CONSTANTS
  MaxContent,       \* the most lines the content is longer than its window
  EventPassthrough, \* whether the option leaves the other direction to the page
  MaxDrags          \* bound: touches, and what the page's script does

ASSUME ScrollAssumption ==
  MaxContent \in Nat \ {0} /\ EventPassthrough \in BOOLEAN /\ MaxDrags \in Nat

\* y and maxScrollY, in lines, as JavaScript knows them; content: what refresh()
\* would find; initiated: the kind of pointer of the drag, 0 for none; moved,
\* enabled, isInTransition; flying: the browser runs a transition; resizing: the
\* timer of _resize().  History: dragCut, a drag was cut off by disable(); passed,
\* the last touch was left to the page.
VARIABLES y, maxScrollY, content, initiated, moved, enabled, isInTransition, flying,
          resizing, dragCut, passed, drags

scrollVars == <<y, maxScrollY, content, initiated, moved, enabled, isInTransition,
                flying, resizing, dragCut, passed, drags>>

\* One line beyond either end is as far as it goes.
Reach == -MaxContent - 1 .. 1

ScrollTypeOK ==
  /\ y \in Reach
  /\ {maxScrollY, content} \subseteq -MaxContent .. 0
  /\ initiated \in 0 .. 2
  /\ {moved, enabled, isInTransition, flying, resizing, dragCut, passed} \subseteq BOOLEAN
  /\ drags \in 0 .. MaxDrags

ScrollInit ==
  /\ y = 0
  /\ content = -MaxContent /\ maxScrollY = content
  /\ initiated = 0
  /\ moved = FALSE /\ enabled = TRUE
  /\ isInTransition = FALSE /\ flying = FALSE /\ resizing = FALSE
  /\ dragCut = FALSE /\ passed = FALSE /\ drags = 0

Drag == drags < MaxDrags /\ drags' = drags + 1

-----------------------------------------------------------------------------
\* scrollTo(): the position is the new one at once, the browser follows.
ScrollTo(to, timed) ==
  /\ y' = to
  /\ isInTransition' = timed
  /\ flying' = timed

\* Where resetPosition() wants the content.
Inside(max) == IF max = 0 \/ y > 0 THEN 0 ELSE IF y < max THEN max ELSE y

\* _start(): a transition that runs is stopped where it is.
ScrollStart(kind) ==
  /\ Drag
  /\ enabled
  /\ initiated \in {0, kind}
  /\ initiated' = kind
  /\ moved' = FALSE
  /\ IF isInTransition /\ flying
     THEN \E at \in Reach : y' = at
     ELSE UNCHANGED y
  /\ isInTransition' = FALSE /\ flying' = FALSE
  /\ passed' = FALSE
  /\ UNCHANGED <<maxScrollY, content, enabled, resizing, dragCut>>

\* _move()
ScrollMove(kind) ==
  /\ enabled /\ initiated = kind
  /\ moved' = TRUE
  /\ \E by \in {-1, 0, 1} :
       y' = IF maxScrollY = 0 \/ y + by \notin Reach THEN y ELSE y + by
  /\ UNCHANGED <<maxScrollY, content, initiated, enabled, isInTransition, flying,
                 resizing, dragCut, passed, drags>>

\* _move() in the direction that eventPassthrough leaves to the page: the drag is
\* given up where the content is.
ScrollPassed(kind) ==
  /\ EventPassthrough
  /\ enabled /\ initiated = kind /\ ~moved
  /\ initiated' = 0
  /\ passed' = TRUE
  /\ UNCHANGED <<y, maxScrollY, content, moved, enabled, isInTransition, flying,
                 resizing, dragCut, drags>>

\* Mutant: a drag ends where it is.
ScrollEndAnywhere(kind) ==
  /\ enabled /\ initiated = kind
  /\ initiated' = 0
  /\ isInTransition' = FALSE
  /\ UNCHANGED <<y, flying, maxScrollY, content, moved, enabled, resizing, dragCut, passed,
                 drags>>

\* _end(): back inside; or where it is, after no movement, a slow one, or a flick that
\* the page listens for; or on with momentum, which may carry it beyond the end.  A
\* drag that moved but has no speed leaves isInTransition without a transition.
ScrollEnd(kind) ==
  /\ enabled /\ initiated = kind
  /\ initiated' = 0
  /\ \/ Inside(maxScrollY) # y /\ ScrollTo(Inside(maxScrollY), TRUE)
     \/ Inside(maxScrollY) = y /\ ScrollTo(y, FALSE)
     \/ /\ Inside(maxScrollY) = y /\ moved /\ maxScrollY < 0
        /\ \E to \in maxScrollY - 1 .. 1 :
             IF to = y THEN UNCHANGED <<y, flying>> /\ isInTransition' = TRUE
                       ELSE ScrollTo(to, TRUE)
  /\ UNCHANGED <<maxScrollY, content, moved, enabled, resizing, dragCut, passed, drags>>

\* _transitionEnd()
ScrollTransitionEnds ==
  /\ flying /\ isInTransition
  /\ IF Inside(maxScrollY) # y
     THEN ScrollTo(Inside(maxScrollY), TRUE)
     ELSE isInTransition' = FALSE /\ flying' = FALSE /\ UNCHANGED y
  /\ UNCHANGED <<maxScrollY, content, initiated, moved, enabled, resizing, dragCut, passed,
                 drags>>

\* refresh(): new bounds, and back inside at once.
Refresh ==
  /\ maxScrollY' = content
  /\ IF Inside(content) # y THEN ScrollTo(Inside(content), FALSE)
                            ELSE UNCHANGED <<y, isInTransition, flying>>

\* The content changes, and the window with it: _resize() waits a while.
Resized ==
  /\ Drag
  /\ content' \in -MaxContent .. 0
  /\ resizing' = TRUE
  /\ UNCHANGED <<y, maxScrollY, initiated, moved, enabled, isInTransition, flying,
                 dragCut, passed>>

ResizeFires ==
  /\ resizing
  /\ resizing' = FALSE
  /\ Refresh
  /\ UNCHANGED <<content, initiated, moved, enabled, dragCut, passed, drags>>

\* scrollToElement(), which keeps to the bounds, with or without a transition.
ScrollToElement ==
  /\ Drag
  /\ \E to \in maxScrollY .. 0, timed \in BOOLEAN : ScrollTo(to, timed)
  /\ UNCHANGED <<maxScrollY, content, initiated, moved, enabled, resizing, dragCut, passed>>

\* enable() and disable().
Enabling(on) ==
  /\ Drag
  /\ enabled' = on
  /\ dragCut' = (dragCut \/ (~on /\ initiated # 0))
  /\ UNCHANGED <<y, maxScrollY, content, initiated, moved, isInTransition, flying, resizing,
                 passed>>

ScrollNext ==
  \/ \E kind \in {1, 2} :
       ScrollStart(kind) \/ ScrollMove(kind) \/ ScrollPassed(kind) \/ ScrollEnd(kind)
  \/ ScrollTransitionEnds \/ Resized \/ ResizeFires \/ ScrollToElement
  \/ \E on \in BOOLEAN : Enabling(on)

ScrollSpec == ScrollInit /\ [][ScrollNext]_scrollVars

\* Browsers report the end of the transitions they run.
ScrollFairness == WF_scrollVars(ScrollTransitionEnds) /\ WF_scrollVars(ResizeFires)

-----------------------------------------------------------------------------
\* The content never rests beyond its ends: when no finger holds it and nothing
\* brings it back it is within the bounds last measured, whatever the order of
\* drags of two kinds of pointers, momentum, new sizes and calls.  (But where the last
\* touch caught it beyond an end and was then left to the page.)
ContentInside ==
  /\ initiated = 0 /\ ~flying /\ ~passed => y \in maxScrollY .. 0
  /\ flying => isInTransition
  /\ initiated # 0 /\ ~enabled => dragCut

ScrollBusy == flying /\ initiated = 0
=============================================================================
