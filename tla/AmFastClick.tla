---------------------------- MODULE AmFastClick ----------------------------
(* FastClick, which Amaze UI puts over the body: it clicks as soon as a finger  *)
(* leaves, and stops the click the browser sends some 300 ms later.  That click  *)
(* may come when the next touch has begun, and some browsers send it although    *)
(* the touch was prevented from it: a ghost, which onMouse() is to stop.          *)
EXTENDS Naturals, Sequences

CONSTANTS
  IOS,        \* deviceIsIOS, of a version that has all its workarounds
  MaxTaps     \* bound: touches

ASSUME FastClickAssumption ==
  /\ IOS \in BOOLEAN
  /\ MaxTaps \in Nat

\* A link or button, a video, a text field, and the label of a text field.
Element == {"link", "video", "text", "label"}
NoElement == "none"

NeedsClick(e) == e \in {"video", "label"}
NeedsFocus(e) == e = "text"

\* trackingClick, targetElement, cancelNextClick; recent: lastClickTime is less
\* than tapDelay ago; finger: the touch under way (its element, NoElement without
\* one, and whether its start was prevented); pending: the clicks the browser
\* will send.  History: per touch the clicks the page has seen; excused: whether it
\* may go without (it was moved, cancelled, not the first of a double tap, or the
\* next touch began before the browser's click came, which is then judged by it);
\* twice: whether its ghost may be seen, too.
VARIABLES trackingClick, targetElement, cancelNextClick, recent, finger, pending,
          clickCount, excused, twice, taps

fastVars == <<trackingClick, targetElement, cancelNextClick, recent, finger, pending,
              clickCount, excused, twice, taps>>

FastClickTypeOK ==
  /\ {trackingClick, cancelNextClick, recent} \subseteq BOOLEAN
  /\ targetElement \in Element \cup {NoElement}
  /\ finger \in [el : Element \cup {NoElement}, prevented : BOOLEAN]
  /\ pending \in Seq([tap : 1 .. MaxTaps, ghost : BOOLEAN])
  /\ clickCount \in [1 .. MaxTaps -> Nat]
  /\ {excused, twice} \subseteq [1 .. MaxTaps -> BOOLEAN]
  /\ taps \in 0 .. MaxTaps

FastClickInit ==
  /\ trackingClick = FALSE /\ targetElement = NoElement
  /\ cancelNextClick = FALSE /\ recent = FALSE
  /\ finger = [el |-> NoElement, prevented |-> FALSE]
  /\ pending = << >>
  /\ clickCount = [t \in 1 .. MaxTaps |-> 0]
  /\ excused = [t \in 1 .. MaxTaps |-> FALSE]
  /\ twice = [t \in 1 .. MaxTaps |-> FALSE]
  /\ taps = 0

-----------------------------------------------------------------------------
\* Some click of touch t is still to come.
Awaited(t) == \E i \in DOMAIN pending : pending[i].tap = t

\* onTouchStart().  On iOS a touch is ignored while text is selected, and prevented
\* if it is the touch that was under way when an alert() opened.
OnTouchStart(e) ==
  /\ finger.el = NoElement /\ taps < MaxTaps
  /\ taps' = taps + 1
  /\ \E ignored \in {FALSE, IOS} :
       /\ \E prevented \in IF ignored THEN BOOLEAN ELSE {recent} :
            finger' = [el |-> e, prevented |-> prevented]
       /\ IF ignored THEN UNCHANGED <<trackingClick, targetElement>>
                     ELSE trackingClick' = TRUE /\ targetElement' = e
       /\ excused' = [t \in DOMAIN excused |->
            IF t = taps' THEN ignored \/ recent
            ELSE excused[t] \/ Awaited(t)]
       /\ twice' = [t \in DOMAIN twice |-> twice[t] \/ Awaited(t)]
  /\ UNCHANGED <<cancelNextClick, recent, pending, clickCount>>

\* onTouchMove(), once the finger is too far from its start.
OnTouchMove ==
  /\ finger.el # NoElement
  /\ trackingClick' = FALSE
  /\ targetElement' = IF trackingClick THEN NoElement ELSE targetElement
  /\ excused' = [excused EXCEPT ![taps] = TRUE]
  /\ UNCHANGED <<cancelNextClick, recent, finger, pending, clickCount, twice, taps>>

\* The finger has left: the browser will send a click, and if the handlers have
\* prevented the touch, none or a ghost.  The ghost of a text field, of a label, or
\* behind an earlier click will not be stopped.
Leaves(prevented) ==
  /\ finger' = [el |-> NoElement, prevented |-> FALSE]
  /\ \E ghost \in {FALSE, prevented} :
       /\ pending' = IF prevented /\ ~ghost THEN pending
                     ELSE Append(pending, [tap |-> taps, ghost |-> ghost])
       /\ twice' = [twice EXCEPT ![taps] =
            ghost /\ (targetElement \in {"text", "label"} \/ pending # << >>)]

\* sendClick(): onClick() lets it through.
SendClick == clickCount' = [clickCount EXCEPT ![taps] = @ + 1]

\* The part of onTouchEnd() for a tap on e that is not one of a double tap.
Tap(e, held, scrolled) ==
  /\ trackingClick' = FALSE /\ cancelNextClick' = FALSE /\ recent' = TRUE
  /\ CASE e = "label" /\ ~IOS ->
            /\ Leaves(finger.prevented)
            /\ UNCHANGED <<targetElement, clickCount, excused>>
       [] NeedsFocus(e) /\ held ->
            /\ Leaves(finger.prevented)
            /\ targetElement' = NoElement
            /\ UNCHANGED <<clickCount, excused>>
       [] NeedsFocus(e) /\ ~held ->
            /\ SendClick /\ Leaves(TRUE)
            /\ targetElement' = NoElement
            /\ UNCHANGED excused
       [] ~NeedsFocus(e) /\ ~(e = "label" /\ ~IOS) /\ IOS /\ scrolled ->
            /\ Leaves(finger.prevented)
            /\ excused' = [excused EXCEPT ![taps] = TRUE]
            /\ UNCHANGED <<targetElement, clickCount>>
       [] OTHER ->
            \* the click of a label goes to its control
            /\ IF e = "label" \/ ~NeedsClick(e)
               THEN SendClick /\ Leaves(TRUE)
               ELSE UNCHANGED clickCount /\ Leaves(finger.prevented)
            /\ UNCHANGED <<targetElement, excused>>

\* onTouchEnd().
OnTouchEnd(held, scrolled) ==
  /\ finger.el # NoElement
  /\ CASE ~trackingClick ->
            /\ Leaves(finger.prevented)
            /\ UNCHANGED <<trackingClick, targetElement, cancelNextClick, recent,
                           clickCount, excused>>
       [] trackingClick /\ recent ->
            /\ cancelNextClick' = TRUE
            /\ Leaves(finger.prevented)
            /\ UNCHANGED <<trackingClick, targetElement, recent, clickCount, excused>>
       [] OTHER -> Tap(targetElement, held, scrolled)
  /\ UNCHANGED taps

\* onTouchCancel().
OnTouchCancel ==
  /\ finger.el # NoElement
  /\ trackingClick' = FALSE /\ targetElement' = NoElement
  /\ finger' = [el |-> NoElement, prevented |-> FALSE]
  /\ excused' = [excused EXCEPT ![taps] = TRUE]
  /\ UNCHANGED <<cancelNextClick, recent, pending, clickCount, twice, taps>>

-----------------------------------------------------------------------------
\* Mutant: onMouse() stops the click after a double tap only.
PermittedBefore == targetElement = NoElement \/ ~cancelNextClick

\* onMouse() of an event the browser has sent.
Permitted == targetElement = NoElement \/ (NeedsClick(targetElement) /\ ~cancelNextClick)

\* onClick() of a click the browser sends for the first of the touches it has
\* not sent one for.
OnClick ==
  LET through == trackingClick \/ Permitted
      t == Head(pending).tap
  IN  /\ pending # << >>
      /\ pending' = Tail(pending)
      /\ clickCount' = IF through THEN [clickCount EXCEPT ![t] = @ + 1] ELSE clickCount
      /\ targetElement' = IF trackingClick \/ ~through THEN NoElement ELSE targetElement
      /\ trackingClick' = FALSE
      /\ UNCHANGED <<cancelNextClick, recent, finger, excused, twice, taps>>

TapDelayPasses ==
  /\ recent
  /\ recent' = FALSE
  /\ UNCHANGED <<trackingClick, targetElement, cancelNextClick, finger, pending,
                 clickCount, excused, twice, taps>>

FastClickNext ==
  \/ \E e \in Element : OnTouchStart(e)
  \/ OnTouchMove
  \/ \E held, scrolled \in BOOLEAN : OnTouchEnd(held, scrolled)
  \/ OnTouchCancel
  \/ OnClick
  \/ TapDelayPasses

FastClickSpec == FastClickInit /\ [][FastClickNext]_fastVars

-----------------------------------------------------------------------------
\* Every tap is one click: the page never sees two for one touch, although the browser
\* sends one of its own, late and even for a touch that was prevented from it, except
\* the ghost of a text field, whose element FastClick has forgotten, of a label on
\* iOS, which is taken for a click it needs, and one that comes when the next touch has
\* begun or behind an earlier click; and in the end the page has seen one click for
\* every ordinary tap, be it sent by FastClick or the browser.
OneClickPerTap ==
  \A t \in 1 .. taps :
    /\ clickCount[t] <= IF twice[t] THEN 2 ELSE 1
    /\ \/ clickCount[t] > 0
       \/ excused[t]
       \/ t = taps /\ finger.el # NoElement
       \/ Awaited(t)
=============================================================================
