---------------------------- MODULE AmHammerInput ----------------------------
(* The input side of Hammer.js: the handlers of touch, pointer and mouse events   *)
(* tell the manager which pointers are down and how far they have travelled in     *)
(* one session, from the first finger's touch to the last one's release.  Fingers  *)
(* that join and leave shift the centre; the distance travelled must not jump.     *)
EXTENDS Integers, FiniteSets

CONSTANTS
  Devices,     \* the inputs createInputInstance() may choose
  Track,       \* the positions 0 .. Track of a pointer, along one axis
  MaxEvents    \* bound: events of the device

ASSUME InputAssumption ==
  /\ Devices \subseteq {"touch", "pointer", "touchmouse"}
  /\ Track \in Nat /\ MaxEvents \in Nat

Finger == {1, 2}
Mouse  == 3
Pointer == Finger \cup {Mouse}

\* down, held: the fingers on the element, the left button of the mouse; position:
\* of each pointer; store: the pointers the handler knows (targetIds, or the store
\* of PointerEventInput); mouse: the fields of MouseInput; session: what
\* computeDeltaXY() keeps, in halves, with the type of the previous input; told:
\* pointers of the last input not yet released.  History: travel, the distance the
\* told pointers moved in this session, without the first move after a release; cut,
\* a finger of several was cancelled; lost, an event did not come; mixed, mouse and
\* fingers at once.
VARIABLES device, down, held, position, store, mouse, session, told, travel, cut, lost,
          mixed, events

inputVars == <<device, down, held, position, store, mouse, session, told, travel, cut, lost,
               mixed, events>>

InputTypeOK ==
  /\ device \in Devices
  /\ {down, store} \subseteq SUBSET Finger /\ told \subseteq Pointer
  /\ position \in [Pointer -> 0 .. Track]
  /\ mouse \in [pressed : BOOLEAN, allow : BOOLEAN]
  /\ session.prev \in {"none", "start", "move", "end", "cancel"}
  /\ {session.delta, session.prevDelta, session.offset, travel} \subseteq Int
  /\ {held, cut, lost, mixed} \subseteq BOOLEAN
  /\ events \in 0 .. MaxEvents

NewSession == [prev |-> "none", delta |-> 0, prevDelta |-> 0, offset |-> 0]

InputInit ==
  /\ device \in Devices
  /\ down = {} /\ held = FALSE /\ store = {} /\ told = {}
  /\ position = [p \in Pointer |-> 0]
  /\ mouse = [pressed |-> FALSE, allow |-> TRUE]
  /\ session = NewSession
  /\ travel = 0 /\ cut = FALSE /\ lost = FALSE /\ mixed = FALSE
  /\ events = 0

Event == events < MaxEvents /\ events' = events + 1

-----------------------------------------------------------------------------
\* getCenter(), in halves: of both fingers, or of the one pointer.
Centre(ps, at) == IF ps = Finger THEN at[1] + at[2] ELSE 2 * at[CHOOSE p \in ps : TRUE]

\* computeDeltaXY(): a new finger, or one released before, makes the centre start
\* anew from the distance reached.
DeltaXY(s, type, centre) ==
  LET new  == type = "start" \/ s.prev = "end"
      prev == IF new THEN s.delta ELSE s.prevDelta
      off  == IF new THEN centre ELSE s.offset
  IN  [prev |-> type, delta |-> prev + centre - off, prevDelta |-> prev, offset |-> off]

\* inputHandler(): the first pointer's start makes a session.
Tell(type, pointers, changed, at) ==
  LET first == type = "start" /\ pointers = changed
      s     == IF first THEN NewSession ELSE session
      now   == Centre(pointers, at)
  IN  /\ session' = DeltaXY(s, type, now)
      /\ told' = IF type \in {"end", "cancel"} THEN pointers \ changed ELSE pointers
      /\ travel' = IF first THEN 0
                   ELSE IF told = pointers /\ session.prev # "end"
                        THEN travel + now - Centre(pointers, position) ELSE travel
      /\ cut' = (~first /\ (cut \/ (type = "cancel" /\ pointers # changed)))

Untold == UNCHANGED <<session, told, travel, cut>>

\* getTouches() of TouchInput, and the store of PointerEventInput: the pointers of
\* an input are those down, with the ones it releases.
Known(now) == IF device = "pointer" THEN store ELSE now

-----------------------------------------------------------------------------
\* touchstart and pointerdown.
FingerStart(f) ==
  /\ Event
  /\ f \notin down /\ down' = down \cup {f}
  /\ store' = store \cup {f}
  /\ \E p \in 0 .. Track : position' = [position EXCEPT ![f] = p]
  /\ LET all == IF device = "pointer" THEN store' ELSE down'
     IN  Tell("start", all, {f}, position')
  /\ mouse' = [mouse EXCEPT !.allow = device # "touchmouse"]
  /\ mixed' = (mixed \/ mouse.pressed)
  /\ UNCHANGED <<device, held, lost>>

\* touchmove and pointermove.
FingerMove(f) ==
  /\ Event
  /\ f \in down
  /\ \E p \in 0 .. Track \ {position[f]} : position' = [position EXCEPT ![f] = p]
  /\ Tell("move", Known(down), {f}, position')
  /\ mouse' = [mouse EXCEPT !.allow = device # "touchmouse"]
  /\ UNCHANGED <<device, down, held, store, lost, mixed>>

\* touchend, pointerup, touchcancel and pointercancel, of one finger or of all:
\* pointer events come one by one.
FingersEnd(fs, type) ==
  /\ Event
  /\ fs # {} /\ fs \subseteq down /\ down' = down \ fs
  /\ device = "pointer" => Cardinality(fs) = 1
  /\ store' = store \ fs
  /\ Tell(type, Known(down), fs, position)
  /\ mouse' = [mouse EXCEPT !.allow = TRUE]
  /\ UNCHANGED <<device, held, position, lost, mixed>>

\* The release of a finger is not reported: the option enable was false, or an
\* alert() of the page took the events.
EndLost(f) ==
  /\ Event
  /\ f \in down /\ down' = down \ {f}
  /\ lost' = TRUE
  /\ UNCHANGED <<device, held, position, store, mouse, mixed>> /\ Untold

\* MouseInput's handler behind TouchMouseInput's: mousedown,
MouseDown ==
  /\ Event
  /\ device = "touchmouse" /\ ~held /\ held' = TRUE
  /\ mouse' = [mouse EXCEPT !.pressed = TRUE]
  /\ IF mouse.allow THEN Tell("start", {Mouse}, {Mouse}, position) ELSE Untold
  /\ mixed' = (mixed \/ down # {})
  /\ UNCHANGED <<device, down, position, store, lost>>

\* mousemove, which without the left button is an end,
MouseMove ==
  /\ Event
  /\ device = "touchmouse"
  /\ \E p \in 0 .. Track : position' = [position EXCEPT ![Mouse] = p]
  /\ IF mouse.pressed /\ mouse.allow
     THEN /\ Tell(IF held THEN "move" ELSE "end", {Mouse}, {Mouse}, position')
          /\ mouse' = [mouse EXCEPT !.pressed = held]
     ELSE Untold /\ UNCHANGED mouse
  /\ UNCHANGED <<device, down, held, store, lost, mixed>>

\* and mouseup, which may come to another window.
MouseUp(seen) ==
  /\ Event
  /\ held /\ held' = FALSE
  /\ IF seen /\ mouse.pressed /\ mouse.allow
     THEN Tell("end", {Mouse}, {Mouse}, position) /\ mouse' = [mouse EXCEPT !.pressed = FALSE]
     ELSE Untold /\ UNCHANGED mouse
  /\ UNCHANGED <<device, down, position, store, lost, mixed>>

InputNext ==
  \/ \E f \in Finger : FingerStart(f) \/ FingerMove(f) \/ EndLost(f)
  \/ \E fs \in SUBSET Finger, type \in {"end", "cancel"} : FingersEnd(fs, type)
  \/ MouseDown \/ MouseMove
  \/ \E seen \in BOOLEAN : MouseUp(seen)

InputSpec == InputInit /\ [][InputNext]_inputVars

-----------------------------------------------------------------------------
\* The manager's picture of the pointers is the true one: it takes down for down
\* those that are, and the distance it tells is the one they moved, although every
\* finger that joins or leaves shifts the centre.  (Unless a release was lost, one
\* finger of several was cancelled, or mouse and fingers were used at once.)
InputsAgree ==
  ~lost /\ ~mixed =>
    /\ told \cap Finger = down
    /\ Mouse \in told => mouse.pressed
    /\ told # {} /\ ~cut => session.delta = travel
=============================================================================
