----------------------------- MODULE AmHammer ------------------------------
(* The gestures of Hammer.js, which Amaze UI bundles: an element's manager      *)
(* hands every input of the fingers to its recognizers, in their order.  Each    *)
(* recognizer is a state machine of its own, some with a timer; at most one, and *)
(* those allowed beside it (recognizeWith), may recognize at a time.             *)
EXTENDS Naturals, Sequences

CONSTANTS
  Enabled,     \* the recognizers whose option enable is true
  MaxInputs    \* bound: inputs of the fingers

\* Hammer.defaults.preset, in its order.
Preset == <<"rotate", "pinch", "swipe", "pan", "tap", "doubletap", "press">>
Recognizer == {Preset[i] : i \in DOMAIN Preset}

\* canRecognizeWith(): recognizeWith() tells both.
Simultaneous(r, q) ==
  r = q \/ {r, q} \in {{"rotate", "pinch"}, {"swipe", "pan"}, {"tap", "doubletap"}}

NoRecognizer == "none"

ASSUME HammerAssumption == Enabled \subseteq Recognizer /\ MaxInputs \in Nat

\* fingers: how many are down; age: what part of the session has passed (0 less
\* than 250 ms, the time of a tap, 2 more than 500 ms, the time of a press); rec:
\* the recognizers, whose states are sets of bits; curRecognizer and stopped of
\* the session; required: the page has called tap.requireFailure(doubletap).
\* History: named, the taps told to the page for the last touch.
VARIABLES fingers, age, rec, curRecognizer, stopped, required, named, inputs

hammerVars == <<fingers, age, rec, curRecognizer, stopped, required, named, inputs>>

Bit == {"possible", "began", "changed", "ended", "cancelled", "failed"}

\* count: the taps so far, 2 standing for every even number above 0.
HammerTypeOK ==
  /\ fingers \in 0 .. 2 /\ age \in 0 .. 2
  /\ rec \in [Recognizer -> [state : SUBSET Bit, timer : {"none", "fail", "recognize"},
                             count : 0 .. 2]]
  /\ curRecognizer \in Recognizer \cup {NoRecognizer}
  /\ {stopped, required} \subseteq BOOLEAN
  /\ named \subseteq {"tap", "doubletap"}
  /\ inputs \in 0 .. MaxInputs

HammerInit ==
  /\ fingers = 0 /\ age = 0
  /\ rec = [r \in Recognizer |-> [state |-> {"possible"}, timer |-> "none", count |-> 0]]
  /\ curRecognizer = NoRecognizer /\ stopped = FALSE
  /\ required \in BOOLEAN
  /\ named = {} /\ inputs = 0

-----------------------------------------------------------------------------
(* One recognizer.  An input is a record of its type, the number of pointers,   *)
(* how far they are from where they began, and what else the recognizers test.  *)

Became(s, bits) == [s EXCEPT !.state = bits]
ResetOf(s) == [s EXCEPT !.timer = "none"]

\* process() of the recognizers that test attributes: a gesture begins when the
\* test holds and goes on, ends, or is cancelled when it does not hold any more.
AttrProcess(s, valid, type) ==
  LET on == s.state \cap {"began", "changed"} # {}
      again == IF "began" \in s.state THEN s.state \cup {"changed"} ELSE {"began"}
  IN  Became(s, IF on /\ (type = "cancel" \/ ~valid) THEN s.state \cup {"cancelled"}
                ELSE IF ~(on \/ valid) THEN {"failed"}
                ELSE IF type = "end" THEN s.state \cup {"ended"} ELSE again)

\* attrTest() of rotate, pinch, pan and swipe, the last two horizontal.
RotateTest(s, in) == in.n = 2 /\ (in.turned \/ "began" \in s.state)
PinchTest(s, in)  == in.n = 2 /\ (in.scaled \/ "began" \in s.state)
PanTest(s, in)    == in.n = 1 /\ (in.moved = "far" \/ "began" \in s.state)
SwipeTest(in)     == in.n = 1 /\ in.moved = "far" /\ in.fast /\ in.type = "end"

AttrTest(r, s, in) ==
  CASE r = "rotate" -> RotateTest(s, in)
    [] r = "pinch"  -> PinchTest(s, in)
    [] r = "swipe"  -> SwipeTest(in)
    [] r = "pan"    -> PanTest(s, in)

\* process() of tap (taps 1) and doubletap (taps 2).  A recognizer that has to
\* wait for the failure of another one only begins, and decides by a timer.
TapProcess(r, s, in) ==
  LET reset == ResetOf(s)
      count == IF in.near /\ s.count = 1 THEN 2 ELSE 1
      full  == r = "tap" \/ count = 2
      counted == [reset EXCEPT !.count = count]
      Wait(t) == [t EXCEPT !.state = {"failed"}, !.timer = "fail"]
  IN  CASE in.type = "start" /\ s.count = 0 -> Wait(reset)
        [] ~(in.type = "start" /\ s.count = 0) /\
           in.moved = "still" /\ in.age = 0 /\ in.n = 1 ->
             CASE in.type # "end"    -> Wait(reset)
               [] in.type = "end" /\ ~full -> Became(counted, {"failed"})
               [] in.type = "end" /\ full /\ ~required -> Became(counted, {"ended"})
               [] OTHER -> [counted EXCEPT !.state = {"began"}, !.timer = "recognize"]
        [] OTHER -> Became(reset, {"failed"})

\* process() of press, which allows a slight movement that a tap does not.
PressProcess(s, in) ==
  CASE in.moved \notin {"still", "slight"} \/ in.n # 1
       \/ (in.type \in {"end", "cancel"} /\ in.age < 2) -> Became(ResetOf(s), {"failed"})
    [] in.moved \in {"still", "slight"} /\ in.n = 1 /\ in.type = "start" ->
         [s EXCEPT !.state = {"failed"}, !.timer = "recognize"]
    [] in.moved \in {"still", "slight"} /\ in.n = 1 /\ in.type = "end" /\ in.age = 2 ->
         Became(s, {"ended"})
    [] OTHER -> Became(s, {"failed"})

Process(r, s, in) ==
  CASE r \in {"tap", "doubletap"} -> TapProcess(r, s, in)
    [] r = "press"                -> PressProcess(s, in)
    [] OTHER                      -> AttrProcess(s, AttrTest(r, s, in), in.type)

\* canEmit(): those it requires to fail have failed, or are possible; the
\* requirement is always mutual.
CanEmit(R, r) ==
  LET other == IF r = "tap" THEN "doubletap" ELSE "tap"
  IN  required /\ r \in {"tap", "doubletap"} =>
        R[other].state \cap {"failed", "possible"} # {}

TryEmit(R, r) == IF CanEmit(R, r) THEN R ELSE [R EXCEPT ![r].state = {"failed"}]

\* recognize() of one recognizer: a finished one starts over first.
RecognizeBy(R, r, in) ==
  LET old == R[r].state
      s == IF old \cap {"ended", "cancelled", "failed"} # {}
           THEN Became(R[r], {"possible"}) ELSE R[r]
      t == [R EXCEPT ![r] = Process(r, s, in)]
  IN  CASE r \notin Enabled -> [R EXCEPT ![r] = Became(ResetOf(R[r]), {"failed"})]
        [] r \in Enabled /\ t[r].state \cap {"began", "changed", "ended", "cancelled"} # {} ->
             TryEmit(t, r)
        [] OTHER -> t

-----------------------------------------------------------------------------
(* The manager.                                                            *)

Telling == {"began", "changed", "ended"}

\* emit() of a tap, which tells the page only of what is recognized.
TapNamed(R, r) == {r} \cap IF R[r].state = {"ended"} THEN {"tap", "doubletap"} ELSE {}

\* Mutant: a recognizer that may not recognize is passed over.
TurnWithoutReset(a, r, in, forced) ==
  LET R == IF a.cur = NoRecognizer \/ Simultaneous(r, a.cur)
           THEN RecognizeBy(a.rec, r, in) ELSE a.rec
  IN  [rec |-> R, stopped |-> FALSE, told |-> {},
       cur |-> IF a.cur = NoRecognizer /\ R[r].state \cap Telling # {} THEN r ELSE a.cur]

\* Manager.recognize(), for one recognizer r: one that may not recognize beside the
\* current one is reset, which only stops its timer.  A handler of a recognizer in
\* forced may stop the session by force, so that the rest are reset too.
May(a, r) == ~a.stopped /\ (a.cur = NoRecognizer \/ Simultaneous(r, a.cur))
RecAfter(a, r, in) ==
  IF May(a, r) THEN RecognizeBy(a.rec, r, in) ELSE [a.rec EXCEPT ![r] = ResetOf(a.rec[r])]

Turn(a, r, in, forced) ==
  LET R     == RecAfter(a, r, in)
      tells == R[r].state \cap Telling # {}
  IN  [rec |-> R,
       cur |-> IF a.cur = NoRecognizer /\ tells THEN r ELSE a.cur,
       stopped |-> a.stopped \/ (May(a, r) /\ r \in forced /\ tells),
       told |-> a.told \cup IF May(a, r) THEN TapNamed(R, r) ELSE {}]

\* The recognizers have their turns in their order; a session's first input, and one
\* after a gesture has ended, may be any gesture's.
CurrentFor(in) ==
  IF in.first \/ curRecognizer = NoRecognizer THEN NoRecognizer
  ELSE IF "ended" \in rec[curRecognizer].state THEN NoRecognizer ELSE curRecognizer

AfterInput(in, forced) ==
  LET after[i \in 0 .. Len(Preset)] ==
        IF i = 0 THEN [rec |-> rec, cur |-> CurrentFor(in), stopped |-> FALSE, told |-> {}]
        ELSE Turn(after[i - 1], Preset[i], in, forced)
  IN  after[Len(Preset)]

\* inputHandler(): the first finger opens a new session.  Nothing is recognized
\* in a session that was stopped.
HandleInput(in) ==
  /\ inputs < MaxInputs
  /\ inputs' = inputs + 1
  /\ age' = in.age
  /\ IF stopped /\ ~in.first
     THEN UNCHANGED <<rec, curRecognizer, stopped, named>>
     ELSE \E forced \in SUBSET {"pan"} :
            LET a == AfterInput(in, forced)
            IN  /\ rec' = a.rec
                /\ curRecognizer' = a.cur
                /\ stopped' = a.stopped
                /\ named' = (IF in.type = "end" THEN {} ELSE named) \cup a.told
  /\ UNCHANGED required

\* What getDistance() may give: less than the threshold of a tap (2), of a press (5),
\* of pan and swipe (10), or more; and getVelocity().  Nothing of a first input.
Travelled(first) == IF first THEN {"still"} ELSE {"still", "slight", "drift", "far"}
Fast(type) == IF type = "end" THEN BOOLEAN ELSE {FALSE}

\* What computeInputData() may find for the fingers.
Found(type, n, a) ==
  [type : {type}, n : {n}, first : {type = "start" /\ n = 1}, age : a .. 2,
   moved : Travelled(type = "start" /\ n = 1), fast : Fast(type),
   near : IF type = "end" THEN BOOLEAN ELSE {FALSE},
   turned : IF n = 2 THEN BOOLEAN ELSE {FALSE}, scaled : IF n = 2 THEN BOOLEAN ELSE {FALSE}]

FingerDown ==
  /\ fingers < 2
  /\ fingers' = fingers + 1
  /\ \E in \in Found("start", fingers + 1, IF fingers = 0 THEN 0 ELSE age) :
       /\ fingers = 0 => in.age = 0
       /\ HandleInput(in)

FingersMove ==
  /\ fingers > 0
  /\ fingers' = fingers
  /\ \E in \in Found("move", fingers, age) : HandleInput(in)

\* A finger that leaves is still one of the pointers of its event.
FingerUp ==
  /\ fingers > 0
  /\ fingers' = fingers - 1
  /\ \E in \in Found("end", fingers, age) : HandleInput(in)

TouchCancelled ==
  /\ fingers > 0
  /\ fingers' = 0
  /\ \E in \in Found("cancel", fingers, age) : HandleInput(in)

\* stop(), called by the page.
StopSession ==
  /\ stopped' = TRUE
  /\ UNCHANGED <<fingers, age, rec, curRecognizer, required, named, inputs>>

\* The timers of press, tap and doubletap, which no session owns.
GestureTimerFires(r) ==
  /\ rec[r].timer # "none"
  /\ LET s == [rec[r] EXCEPT !.timer = "none",
                 !.state = IF rec[r].timer = "fail" THEN {"failed"} ELSE {"ended"}]
         R == [rec EXCEPT ![r] = s]
     IN  /\ rec' = IF rec[r].timer = "fail" THEN R ELSE TryEmit(R, r)
         /\ named' = named \cup TapNamed(rec', r)
  /\ age' = IF r = "press" /\ fingers > 0 THEN 2 ELSE age
  /\ UNCHANGED <<fingers, curRecognizer, stopped, required, inputs>>

HammerNext ==
  \/ FingerDown \/ FingersMove \/ FingerUp \/ TouchCancelled \/ StopSession
  \/ \E r \in {"tap", "doubletap", "press"} : GestureTimerFires(r)

HammerSpec == HammerInit /\ [][HammerNext]_hammerVars

-----------------------------------------------------------------------------
Active == {r \in Recognizer :
             /\ rec[r].state \cap {"began", "changed"} # {}
             /\ rec[r].state \cap {"ended", "cancelled"} = {}}

\* One gesture at a time: recognizers that are in the middle of a gesture may
\* recognize beside each other, whatever sessions were stopped, cut short or
\* cancelled; no press is on its timer while another gesture goes on; and a tap
\* that requires doubletap to fail is never told beside one for the same touch.
GesturesExclusive ==
  /\ \A r, q \in Active : Simultaneous(r, q)
  /\ rec["press"].timer # "none" => Active = {}
  /\ required => named # {"tap", "doubletap"}
=============================================================================
