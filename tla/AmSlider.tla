------------------------------ MODULE AmSlider ------------------------------
(* The slider of Amaze UI (FlexSlider) with CSS transitions.  A row of slides   *)
(* is moved so that one is in view.  A slider that loops has a copy of the last  *)
(* slide in front and one of the first behind: a move over the end shows the      *)
(* copy, and when the transition is over the row jumps to the slide itself.       *)
EXTENDS Integers

CONSTANTS
  Slides,            \* how many there are at first
  PlayAfterPaused,   \* the option of Amaze UI: the slideshow resumes by a timer
  MaxMoves           \* bound: what the user and the page's script do

ASSUME SliderAssumption ==
  Slides \in Nat \ {0, 1} /\ PlayAfterPaused \in BOOLEAN /\ MaxMoves \in Nat

\* current, animatingTo, animating, atEnd, direction, count, playing and stopped
\* are the slider's fields; loop: animationLoop; view: where the row is moved to,
\* Between when a finger has left it between two slides; alive: the interval of
\* the slideshow runs; bound and ensure: the handler and the timer that wait for
\* the end of a transition; resuming: the timer of playAfterPaused (_pausedTimer)
\* runs, forgotten: how many older ones do; manual: manualPause or manualPlay;
\* finger, dx and scrolling are those of touch().  History: strayed (a slide before the current one was removed), lost (a drag was not
\* undone) and replayed (play() met a slideshow that was playing).
VARIABLES slider, loop, touching, history, moves

sliderVars == <<slider, loop, touching, history, moves>>

Between == -1

SliderTypeOK ==
  /\ slider \in [current : Nat, animatingTo : Nat, animating : BOOLEAN, atEnd : BOOLEAN,
                 direction : {"none", "next", "prev"}, count : Nat, view : Int,
                 playing : BOOLEAN, stopped : BOOLEAN, manual : BOOLEAN, alive : BOOLEAN,
                 bound : BOOLEAN, ensure : BOOLEAN, forgotten : Nat, resuming : BOOLEAN]
  /\ loop \in BOOLEAN
  /\ touching \in [finger : BOOLEAN, dx : {"none", "prev", "next"}, scrolling : BOOLEAN]
  /\ history \in [strayed : BOOLEAN, lost : BOOLEAN, replayed : BOOLEAN]
  /\ moves \in 0 .. MaxMoves

\* methods.init(), with a slideshow that starts at once.
SliderInit ==
  /\ loop \in BOOLEAN
  /\ slider = [current |-> 0, animatingTo |-> 0, animating |-> FALSE, atEnd |-> TRUE,
               direction |-> "none", count |-> Slides, view |-> IF loop THEN 1 ELSE 0,
               playing |-> TRUE, stopped |-> FALSE, manual |-> FALSE, alive |-> TRUE,
               bound |-> FALSE,
               ensure |-> FALSE, forgotten |-> 0, resuming |-> FALSE]
  /\ touching = [finger |-> FALSE, dx |-> "none", scrolling |-> FALSE]
  /\ history = [strayed |-> FALSE, lost |-> FALSE, replayed |-> FALSE]
  /\ moves = 0

LastSlide(s) == s.count - 1
CloneOffset == IF loop THEN 1 ELSE 0

-----------------------------------------------------------------------------
\* pause()
Paused(s) == [s EXCEPT !.alive = FALSE, !.playing = FALSE]

\* play(): an interval that runs is cleared, but its number is still there, and
\* no new one is made.
Played(s) == [s EXCEPT !.alive = ~s.playing, !.playing = TRUE]

\* getTarget()
GetTarget(s, dir) ==
  IF dir = "next" THEN IF s.current = LastSlide(s) THEN 0 ELSE s.current + 1
                  ELSE IF s.current = 0 THEN LastSlide(s) ELSE s.current - 1

\* flexAnimate() of a slider that does not loop goes by the numbers.
Directed(s, target) ==
  IF ~loop /\ target # s.current
  THEN [s EXCEPT !.direction = IF target > s.current THEN "next" ELSE "prev"] ELSE s

\* canAdvance()
CanAdvance(s, target) ==
  /\ target # s.current
  /\ \/ loop
     \/ /\ ~(s.atEnd /\ s.current = 0 /\ target = LastSlide(s) /\ s.direction # "next")
        /\ ~(s.atEnd /\ s.current = LastSlide(s) /\ target = 0 /\ s.direction = "next")

\* Where flexAnimate() moves the row: over the end onto a copy, or to the slide.
SlideView(s, target) ==
  CASE loop /\ s.current = 0 /\ target = s.count - 1 /\ s.direction # "next" -> 0
    [] loop /\ s.current = LastSlide(s) /\ target = 0 /\ s.direction # "prev"
            /\ ~(s.current = 0 /\ target = s.count - 1) -> s.count + 1
    [] OTHER -> target + CloneOffset

\* The rest of flexAnimate(): the slider counts as animated only on its way to an
\* end of a row that loops.
Animated(s, target, pause) ==
  LET atEnd == target \in {0, LastSlide(s)}
      stop  == pause \/ (target = LastSlide(s) /\ ~loop)
      p     == IF stop THEN Paused(s) ELSE s
      slow  == loop /\ atEnd
  IN  [p EXCEPT !.animatingTo = target, !.atEnd = atEnd, !.animating = slow,
                !.current = IF slow THEN @ ELSE target,
                !.view = SlideView(s, target), !.bound = TRUE, !.ensure = TRUE,
                !.resuming = FALSE]

FlexAnimate(s, target, pause, override) ==
  LET d == Directed(s, target)
  IN  IF ~d.animating /\ (CanAdvance(d, target) \/ override)
      THEN Animated(d, target, pause) ELSE d

\* Mutant: the row stays on the copy.
WrapupStaying(s) ==
  [s EXCEPT !.animating = FALSE, !.current = s.animatingTo]

\* wrapup() and the after() of Amaze UI.
Wrapup(s) ==
  LET resume == PlayAfterPaused /\ ~s.playing /\ ~s.manual /\ ~s.stopped
  IN  [s EXCEPT !.animating = FALSE, !.current = s.animatingTo,
         !.view = CASE loop /\ s.current = 0 /\ s.animatingTo = LastSlide(s) -> s.count
                    [] loop /\ s.current = LastSlide(s) /\ s.animatingTo = 0
                            /\ ~(s.current = 0 /\ s.animatingTo = LastSlide(s)) -> 1
                    [] OTHER -> @,
         !.forgotten = IF resume /\ s.resuming THEN @ + 1 ELSE @,
         !.resuming = @ \/ resume]

-----------------------------------------------------------------------------
Move == moves < MaxMoves /\ moves' = moves + 1

\* The arrows, the keys and the mouse wheel.
ArrowPressed ==
  /\ Move
  /\ \E dir \in {"next", "prev"} :
       slider' = FlexAnimate([slider EXCEPT !.direction = dir],
                             GetTarget(slider, dir), TRUE, FALSE)
  /\ UNCHANGED <<loop, touching, history>>

\* The dots below the slides.
DotPressed ==
  /\ Move
  /\ \E target \in 0 .. LastSlide(slider) \ {slider.animatingTo} :
       slider' = FlexAnimate(
         [slider EXCEPT !.direction = IF target > slider.current THEN "next" ELSE "prev"],
         target, TRUE, FALSE)
  /\ UNCHANGED <<loop, touching, history>>

\* play() and pause(), and the history of a play() that met a playing slideshow.
Play  == /\ slider' = Played(slider)
         /\ history' = [history EXCEPT !.replayed = @ \/ slider.playing]
Pause == slider' = Paused(slider) /\ UNCHANGED history

\* play(), pause() and stop() called by the page's script.
Control ==
  /\ Move
  /\ \/ Play
     \/ Pause
     \/ slider' = [Paused(slider) EXCEPT !.stopped = TRUE] /\ UNCHANGED history
  /\ UNCHANGED <<loop, touching>>

\* The button of pausePlay(): from now on the user decides, not the timer.
PausePlayButton ==
  /\ Move
  /\ slider' = [IF slider.playing THEN Paused(slider) ELSE Played(slider)
                EXCEPT !.manual = TRUE]
  /\ UNCHANGED <<loop, touching, history>>

\* pauseOnHover: the mouse comes over the slider, or leaves it.
Hover(over) ==
  /\ Move
  /\ ~slider.manual
  /\ IF over THEN Pause ELSE ~slider.stopped /\ Play
  /\ UNCHANGED <<loop, touching>>

\* pauseInvisible(): the page is hidden, or seen again (only in a browser that
\* knows the property by a prefixed name).
VisibilityChanges(hidden) ==
  /\ Move
  /\ IF hidden THEN Pause ELSE Play
  /\ UNCHANGED <<loop, touching>>

\* onTouchStart(): not while the slider is animated.
SliderTouchStart ==
  /\ Move
  /\ ~touching.finger /\ ~slider.animating
  /\ slider' = Paused(slider)
  /\ touching' = [touching EXCEPT !.finger = TRUE]
  /\ UNCHANGED <<loop, history>>

\* onTouchMove(): the row follows the finger, unless it scrolls the page; after
\* half a second it follows anyhow.
SliderTouchMove ==
  /\ touching.finger
  /\ \E way \in {"prev", "next"}, scrolling \in BOOLEAN, long \in BOOLEAN :
       /\ touching' = [touching EXCEPT !.dx = way, !.scrolling = scrolling]
       /\ slider' = IF ~scrolling \/ long THEN [slider EXCEPT !.view = Between] ELSE slider
  /\ UNCHANGED <<loop, history, moves>>

\* onTouchEnd(): the next slide when the finger went far enough, else back.
SliderTouchEnd ==
  LET s == slider
      acts == s.animatingTo = s.current /\ ~touching.scrolling /\ touching.dx # "none"
      dir == touching.dx
      target == GetTarget(s, dir)
      d == [s EXCEPT !.direction = dir]
  IN  /\ touching.finger
      /\ \/ acts /\ CanAdvance(d, target) /\ slider' = FlexAnimate(d, target, TRUE, FALSE)
         \/ acts /\ slider' = FlexAnimate(d, s.current, TRUE, TRUE)
         \/ ~acts /\ UNCHANGED slider
      /\ history' = [history EXCEPT !.lost = slider'.view = Between]
      /\ touching' = [touching EXCEPT !.finger = FALSE, !.dx = "none"]
      /\ UNCHANGED <<loop, moves>>

\* addSlide() behind the others or before slide p, and removeSlide(p): update()
\* moves the current slide by one, and setup() puts the row in its place.
Rearranged(s, p) ==
  LET current == CASE p < s.current -> s.current + 1
                   [] p = s.current /\ p # 0 -> s.current - 1
                   [] OTHER -> s.current
  IN  [s EXCEPT !.current = current, !.animatingTo = current, !.view = current + CloneOffset]

AddSlide ==
  /\ Move
  /\ slider.count < Slides + 1
  /\ \E p \in 0 .. slider.count :
       slider' = IF p = slider.count
                 THEN [slider EXCEPT !.count = @ + 1, !.animatingTo = slider.current,
                                     !.view = slider.current + CloneOffset]
                 ELSE Rearranged([slider EXCEPT !.count = @ + 1], p)
  /\ UNCHANGED <<loop, touching, history>>

RemoveSlide ==
  /\ Move
  /\ slider.count > 1
  /\ \E p \in 0 .. LastSlide(slider) :
       /\ slider' = Rearranged([slider EXCEPT !.count = @ - 1], p)
       /\ history' = [history EXCEPT !.strayed = @ \/ p < slider.current]
  /\ UNCHANGED <<loop, touching>>

-----------------------------------------------------------------------------
\* animateSlides(), by the interval.  One that has strayed counts on for ever, of
\* which nothing more is to be seen.
SlideshowTicks ==
  /\ slider.alive /\ ~history.strayed
  /\ ~slider.animating
  /\ slider' = FlexAnimate([slider EXCEPT !.direction = "next"],
                           GetTarget(slider, "next"), FALSE, FALSE)
  /\ UNCHANGED <<loop, touching, history, moves>>

\* transitionend, of the row or of anything in it.
SliderTransitionEnds ==
  /\ slider.bound /\ slider.ensure
  /\ slider' = Wrapup([slider EXCEPT !.ensure = FALSE])
  /\ UNCHANGED <<loop, touching, history, moves>>

\* The timer that stands in for the event; the handler stays bound.
EnsureFires ==
  /\ slider.ensure
  /\ slider' = Wrapup([slider EXCEPT !.ensure = FALSE])
  /\ UNCHANGED <<loop, touching, history, moves>>

\* A transitionend that comes later; one for each transition is enough.
LateTransitionEnds ==
  /\ slider.bound /\ ~slider.ensure
  /\ slider.forgotten = 0
  /\ slider' = [Wrapup(slider) EXCEPT !.bound = FALSE]
  /\ UNCHANGED <<loop, touching, history, moves>>

\* The timers of playAfterPaused.
ResumeFires ==
  /\ \/ slider.resuming /\ slider' = [Played(slider) EXCEPT !.resuming = FALSE]
     \/ slider.forgotten > 0 /\ slider' = [Played(slider) EXCEPT !.forgotten = @ - 1]
  /\ history' = [history EXCEPT !.replayed = @ \/ slider.playing]
  /\ UNCHANGED <<loop, touching, moves>>

SliderNext ==
  \/ ArrowPressed \/ DotPressed \/ Control \/ PausePlayButton
  \/ \E over \in BOOLEAN : Hover(over)
  \/ \E hidden \in BOOLEAN : VisibilityChanges(hidden)
  \/ SliderTouchStart \/ SliderTouchMove \/ SliderTouchEnd
  \/ AddSlide \/ RemoveSlide
  \/ SlideshowTicks \/ SliderTransitionEnds \/ EnsureFires \/ LateTransitionEnds
  \/ ResumeFires

SliderSpec == SliderInit /\ [][SliderNext]_sliderVars

SliderFairness == WF_sliderVars(EnsureFires)

-----------------------------------------------------------------------------
\* What is in view is what the slider takes for the current slide: it is one of
\* the slides, and the row rests on it and not on a copy, whatever moves, slides
\* added or removed, and late transition ends interleave.  A slideshow runs
\* exactly while it is said to be playing.
SliderAgrees ==
  /\ ~history.strayed => /\ slider.current \in 0 .. LastSlide(slider)
                         /\ slider.animatingTo \in 0 .. LastSlide(slider)
  /\ ~slider.animating /\ ~touching.finger /\ ~history.lost =>
       slider.view = slider.current + CloneOffset
  /\ slider.animating => slider.ensure
  /\ slider.alive => slider.playing
  /\ slider.playing /\ ~history.replayed => slider.alive

SliderBusy == slider.animating
=============================================================================
