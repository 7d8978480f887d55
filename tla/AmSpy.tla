-------------------------------- MODULE AmSpy --------------------------------
(* What Amaze UI hangs on the window's scroll event: an element that comes into    *)
(* view (scrollspy), a navigation that follows the sections (scrollspynav), an       *)
(* element that sticks to the top (sticky), and smooth scrolling, which moves the     *)
(* window frame by frame.  Each of them handles an event a little later.              *)
EXTENDS Integers, Sequences

CONSTANTS
  Sections,       \* the page's sections lie at 1, 3, 5, ... half windows
  StickyAnimated, \* sticky has an animation
  MaxScrolls      \* bound: what the user and the page's script do

ASSUME SpyAssumption ==
  Sections \in Nat \ {0} /\ StickyAnimated \in BOOLEAN /\ MaxScrolls \in Nat

Tops == 0 .. 2 * Sections
Offset(i) == 2 * i - 1
NoTop == -1

\* scrollTop: of the window; smooth: smoothScrollInProgress, and the loops of frames,
\* each with the position it has come to and its target; spy: inViewState, its timer, the class am-scrollspy-inview, and
\* a frame asked for; nav: the active section and a frame asked for; sticky: sticked,
\* the class am-sticky, complete() waiting for the end of an animation, an animation
\* of the element running, and the timers of scroll and resize.  History: sentTo,
\* where smooth scrolling must end; late, the spied element left the view during
\* its delay; overtaken, sticky was checked while complete() was waiting.
VARIABLES scrollTop, smooth, spy, navSpy, sticky, sentTo, late, overtaken, scrolls

spyVars == <<scrollTop, smooth, spy, navSpy, sticky, sentTo, late, overtaken, scrolls>>

SpyTypeOK ==
  /\ scrollTop \in Tops /\ sentTo \in Tops \cup {NoTop}
  /\ smooth \in [on : BOOLEAN, loops : Seq([at : Tops, to : Tops])]
  /\ spy \in [inViewState : BOOLEAN, timer : BOOLEAN, shown : BOOLEAN, raf : BOOLEAN]
  /\ navSpy \in [active : 0 .. Sections, raf : BOOLEAN]
  /\ sticky \in [sticked : BOOLEAN, shown : BOOLEAN, waiting : BOOLEAN, running : BOOLEAN,
                 check : BOOLEAN, resize : BOOLEAN]
  /\ {late, overtaken} \subseteq BOOLEAN
  /\ scrolls \in 0 .. MaxScrolls

\* All of them look once when they begin, if they are asked to.
SpyStarts(asked) ==
  /\ scrollTop = 0 /\ sentTo = NoTop
  /\ smooth = [on |-> FALSE, loops |-> <<>>]
  /\ spy = [inViewState |-> FALSE, timer |-> FALSE, shown |-> FALSE, raf |-> asked]
  /\ navSpy = [active |-> 0, raf |-> asked]
  /\ sticky = [sticked |-> FALSE, shown |-> FALSE, waiting |-> FALSE, running |-> FALSE,
               check |-> asked, resize |-> FALSE]
  /\ late = FALSE /\ overtaken = FALSE
  /\ scrolls = 0

SpyInit == SpyStarts(TRUE)

Scroll == scrolls < MaxScrolls /\ scrolls' = scrolls + 1

\* The scroll event: frames are asked for, and sticky's timer is set anew.
Scrolled ==
  /\ spy' = [spy EXCEPT !.raf = TRUE]
  /\ navSpy' = [navSpy EXCEPT !.raf = TRUE]
  /\ sticky' = [sticky EXCEPT !.check = TRUE]

-----------------------------------------------------------------------------
\* The user scrolls.  A smooth scroll under way does not notice.
WindowScrolls ==
  /\ Scroll
  /\ scrollTop' \in Tops \ {scrollTop}
  /\ Scrolled
  /\ sentTo' = IF smooth.loops = <<>> THEN NoTop ELSE sentTo
  /\ UNCHANGED <<smooth, late, overtaken>>

\* smoothScroll(), from a link of the navigation or by itself: not if another one is
\* in progress, nor if it is there already.
SmoothScroll(to) ==
  /\ Scroll
  /\ ~smooth.on /\ to # scrollTop
  /\ smooth' = [on |-> TRUE, loops |-> Append(smooth.loops, [at |-> scrollTop, to |-> to])]
  /\ sentTo' = IF smooth.loops = <<>> THEN to ELSE NoTop
  /\ UNCHANGED <<scrollTop, spy, navSpy, sticky, late, overtaken>>

\* abort() of touchstart: the loop of frames finds out later.
TouchAborts ==
  /\ Scroll
  /\ smooth.on /\ smooth' = [smooth EXCEPT !.on = FALSE]
  /\ sentTo' = NoTop
  /\ UNCHANGED <<scrollTop, spy, navSpy, sticky, late, overtaken>>

Without(s, i) == SubSeq(s, 1, i - 1) \o SubSeq(s, i + 1, Len(s))

\* render() on its way: on from the loop's own position, wherever the window is now.
SmoothFrame(i) ==
  /\ smooth.on
  /\ LET loop == smooth.loops[i]
     IN  \E y \in (loop.at .. loop.to \cup loop.to .. loop.at) \ {loop.to} :
           /\ smooth' = [smooth EXCEPT !.loops[i].at = y]
           /\ scrollTop' = y
  /\ Scrolled
  /\ UNCHANGED <<sentTo, late, overtaken, scrolls>>

\* render() at its target, or after abort().
SmoothEnds(i) ==
  /\ smooth' = [on |-> FALSE, loops |-> Without(smooth.loops, i)]
  /\ IF smooth.on THEN scrollTop' = smooth.loops[i].to /\ Scrolled
                  ELSE UNCHANGED <<scrollTop, spy, navSpy, sticky>>
  /\ UNCHANGED <<sentTo, late, overtaken, scrolls>>

-----------------------------------------------------------------------------
\* isInView() of an element at the given offset, one half window high.
InView(offset) == scrollTop \in offset - 2 .. offset + 1

\* checkView(), with repeat: the spied element is the last section.
CheckView ==
  LET inView == InView(Offset(Sections))
      s == [spy EXCEPT !.raf = FALSE]
  IN  /\ spy.raf
      /\ spy' = CASE inView /\ ~spy.inViewState -> [s EXCEPT !.timer = TRUE, !.inViewState = TRUE]
                  [] ~inView /\ spy.inViewState -> [s EXCEPT !.shown = FALSE, !.inViewState = FALSE]
                  [] OTHER -> s
      /\ late' = CASE inView /\ ~spy.inViewState -> FALSE
                   [] ~inView /\ spy.inViewState -> spy.timer
                   [] OTHER -> late
      /\ UNCHANGED <<scrollTop, smooth, navSpy, sticky, sentTo, overtaken, scrolls>>

\* The timer set by checkView() shows the element, in view or not.
SpyTimer ==
  /\ spy.timer
  /\ spy' = [spy EXCEPT !.timer = FALSE, !.shown = TRUE]
  /\ UNCHANGED <<scrollTop, smooth, navSpy, sticky, sentTo, late, overtaken, scrolls>>

\* process(): the first section in view that does not begin above the window.
ActiveSection(ins) ==
  LET below == {i \in ins : Offset(i) >= scrollTop}
  IN  IF below = {} THEN navSpy.active ELSE CHOOSE i \in below : \A j \in below : i <= j

NavProcess ==
  LET ins == {i \in 1 .. Sections : InView(Offset(i))}
  IN  /\ navSpy.raf
      /\ navSpy' = [active |-> IF ins = {} THEN navSpy.active ELSE ActiveSection(ins),
                    raf |-> FALSE]
      /\ UNCHANGED <<scrollTop, smooth, spy, sticky, sentTo, late, overtaken, scrolls>>

-----------------------------------------------------------------------------
\* The placeholder of the sticky element is at 2.
Past == scrollTop > 2

\* reset(): with an animation the element is released when that has ended.
Released(s) == [s EXCEPT !.shown = FALSE, !.sticked = FALSE]
StickyReset(s) == IF StickyAnimated THEN [s EXCEPT !.waiting = TRUE, !.running = TRUE]
                                    ELSE Released(s)

\* checkPosition()
StickyCheck(s) ==
  LET t == CASE ~s.sticked /\ Past -> [s EXCEPT !.shown = TRUE, !.running = @ \/ StickyAnimated]
             [] s.sticked /\ ~Past -> StickyReset(s)
             [] OTHER -> s
  IN  [t EXCEPT !.sticked = Past]

CheckPosition ==
  /\ sticky.check
  /\ sticky' = StickyCheck([sticky EXCEPT !.check = FALSE])
  /\ overtaken' = (Past /\ sticky.waiting)
  /\ UNCHANGED <<scrollTop, smooth, spy, navSpy, sentTo, late, scrolls>>

Resizes ==
  /\ Scroll
  /\ sticky' = [sticky EXCEPT !.resize = TRUE]
  /\ UNCHANGED <<scrollTop, smooth, spy, navSpy, sentTo, late, overtaken>>

\* reset(true) and then checkPosition(): the classes go at once and with them the
\* animation, but complete() still waits for the end of one.
StickyResized ==
  /\ sticky.resize
  /\ sticky' = StickyCheck(Released([sticky EXCEPT !.resize = FALSE, !.running = FALSE]))
  /\ overtaken' = sticky.waiting
  /\ UNCHANGED <<scrollTop, smooth, spy, navSpy, sentTo, late, scrolls>>

\* complete() of reset(), or only the end of the entry.
StickyAnimationEnds ==
  /\ sticky.running
  /\ sticky' = [(IF sticky.waiting THEN Released(sticky) ELSE sticky)
                 EXCEPT !.waiting = FALSE, !.running = FALSE]
  /\ UNCHANGED <<scrollTop, smooth, spy, navSpy, sentTo, late, overtaken, scrolls>>

SpyNext ==
  \/ WindowScrolls \/ TouchAborts \/ Resizes
  \/ \E to \in Tops : SmoothScroll(to)
  \/ \E i \in DOMAIN smooth.loops : SmoothFrame(i) \/ SmoothEnds(i)
  \/ CheckView \/ SpyTimer \/ NavProcess
  \/ CheckPosition \/ StickyResized \/ StickyAnimationEnds

SpySpec == SpyInit /\ [][SpyNext]_spyVars

\* Frames and timers come, animations end, and a smooth scroll takes 750 ms.
SpyFairness ==
  /\ WF_spyVars(CheckView) /\ WF_spyVars(SpyTimer) /\ WF_spyVars(NavProcess)
  /\ WF_spyVars(CheckPosition) /\ WF_spyVars(StickyResized) /\ WF_spyVars(StickyAnimationEnds)
  /\ WF_spyVars(\E i \in DOMAIN smooth.loops : SmoothEnds(i))

-----------------------------------------------------------------------------
\* When every event has been handled the page looks as its scroll position wants:
\* the section that begins next is the active one, the spied element is shown if it
\* is in view, the sticky one sticks if the window is past it, and a smooth scroll
\* ended where it was sent.  (But for an element that left the view during its delay,
\* a sticky one checked during its release, and two smooth scrolls across each other.)
SpyQuiet ==
  /\ smooth.loops = <<>>
  /\ ~spy.raf /\ ~spy.timer /\ ~navSpy.raf
  /\ ~sticky.check /\ ~sticky.resize /\ ~sticky.running

PageFollows ==
  SpyQuiet =>
    /\ scrollTop <= Offset(Sections) =>
         navSpy.active = CHOOSE i \in 1 .. Sections : Offset(i) - scrollTop \in {0, 1}
    /\ late \/ spy.shown = InView(Offset(Sections))
    /\ overtaken \/ (sticky.shown = Past /\ sticky.sticked = Past)
    /\ sentTo \in {NoTop, scrollTop}

=============================================================================
