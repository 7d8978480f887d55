----------------------------- MODULE AmPinchZoom -----------------------------
(* The pinch zoom of Amaze UI's image viewer.  Fingers change the zoom factor   *)
(* and the offset freely; when the gesture ends, end() starts an animation that  *)
(* brings both back to what may stay.  stopAnimation() clears a flag that the     *)
(* loop of frames reads at its next frame, so a loop may outlive its animation.   *)
EXTENDS Sequences, Naturals

CONSTANT MaxGestures   \* bound: fingers put down, touches lost, calls of the script

ASSUME PinchAssumption == MaxGestures \in Nat

\* The factor: below 1, exactly 1, less than zoomOutFactor, or from there on.  The
\* offset: one sanitizeOffset() accepts, one it does not, or not a number.
Zooms   == {"under", "unit", "near", "far"}
Offsets == {"sane", "wild", "nan"}
Interactions == {"none", "zoom", "drag"}
\* An animation's loop of frames: what it was begun for, and the factor then.
Loops == [kind : {"out", "in", "offset"}, from : Zooms]

\* pinch: the object and the closure of detectGestures(); pinchTouches: the fingers
\* that are down.  crossed: an animation began while the loop
\* of another still ran, and no gesture has ended since.
VARIABLES pinch, pinchTouches, gestures

pinchVars == <<pinch, pinchTouches, gestures>>

PinchTypeOK ==
  /\ pinch \in [zoom : Zooms, offset : Offsets, interaction : Interactions,
                fingers : 0 .. 3, firstMove : BOOLEAN, recent : BOOLEAN,
                hasInteraction : BOOLEAN, inAnimation : BOOLEAN, loops : Seq(Loops),
                enabled : BOOLEAN, crossed : BOOLEAN]
  /\ pinchTouches \in 0 .. 3
  /\ gestures \in 0 .. MaxGestures

PinchInit ==
  /\ pinch = [zoom |-> "unit", offset |-> "sane", interaction |-> "none", fingers |-> 0,
              firstMove |-> TRUE, recent |-> FALSE, hasInteraction |-> FALSE,
              inAnimation |-> FALSE, loops |-> <<>>, enabled |-> TRUE, crossed |-> FALSE]
  /\ pinchTouches = 0
  /\ gestures = 0

Gesture == gestures < MaxGestures /\ gestures' = gestures + 1

-----------------------------------------------------------------------------
\* animate().  Zooming out from exactly 1 with an offset divides by zero.
Animate(z, kind) ==
  [z EXCEPT !.inAnimation = TRUE,
            !.crossed = @ \/ z.loops # <<>>,
            !.loops = Append(@, [kind |-> kind, from |-> z.zoom]),
            !.offset = IF kind = "out" /\ z.zoom = "unit" /\ @ = "wild" THEN "nan" ELSE @]

\* end() with sanitize().
EndGesture(z) ==
  LET s == [z EXCEPT !.hasInteraction = FALSE, !.crossed = @ /\ z.loops # <<>>]
  IN  IF s.zoom # "far" THEN Animate(s, "out")
      ELSE IF s.offset # "sane" THEN Animate(s, "offset") ELSE s

\* handleDrag(): beyond 1 the offset is sanitized with every move.
HandleDrag(z) ==
  IF z.zoom \in {"near", "far"} /\ z.offset = "wild" THEN [z EXCEPT !.offset = "sane"] ELSE z

\* handleZoomStart() and handleDragStart().
StartInteraction(z, new) ==
  LET s == [z EXCEPT !.inAnimation = FALSE, !.hasInteraction = TRUE]
  IN  IF new = "drag" THEN HandleDrag(s) ELSE s

\* setInteraction(): from zoom to drag and back no end is seen.
SetInteraction(z, new) ==
  LET s == IF z.interaction = new THEN z
           ELSE IF new = "none" THEN EndGesture(z) ELSE StartInteraction(z, new)
  IN  [s EXCEPT !.interaction = new]

\* updateInteraction(); canDrag() is exact here, to a hundredth there.
UpdateInteraction(z) ==
  SetInteraction(z, IF z.fingers = 2 THEN "zoom"
                    ELSE IF z.fingers = 1 /\ z.zoom # "unit" THEN "drag" ELSE "none")

\* handleDoubleTap()
HandleDoubleTap(z) ==
  IF z.hasInteraction THEN z
  ELSE Animate(z, IF z.zoom \in {"near", "far"} THEN "out" ELSE "in")

\* detectDoubleTap(): recent is lastTouchStart, less than 300 ms ago.
DetectDoubleTap(z) ==
  LET s == IF z.recent /\ z.fingers = 1 THEN HandleDoubleTap(z) ELSE z
      t == IF z.recent /\ z.fingers = 1 /\ s.interaction # "none" THEN EndGesture(s) ELSE s
  IN  [t EXCEPT !.recent = (z.fingers = 1)]

-----------------------------------------------------------------------------
\* The listeners of touchstart, touchmove and touchend.
PinchTouchStart ==
  /\ Gesture
  /\ pinchTouches < 3 /\ pinchTouches' = pinchTouches + 1
  /\ pinch' = IF pinch.enabled
              THEN DetectDoubleTap([pinch EXCEPT !.firstMove = TRUE, !.fingers = pinchTouches + 1])
              ELSE pinch

\* Fingers zoom and shift in one: any factor, and any offset that is a number.
PinchTouchMove ==
  /\ pinchTouches > 0 /\ pinch.enabled
  /\ IF pinch.firstMove
     THEN pinch' = [UpdateInteraction(pinch) EXCEPT !.firstMove = FALSE]
     ELSE CASE pinch.interaction = "drag" -> pinch' = HandleDrag(pinch)
            [] pinch.interaction = "zoom" ->
                 \E zoom \in Zooms, offset \in {"sane", "wild"} :
                   pinch' = [pinch EXCEPT !.zoom = zoom,
                                          !.offset = IF @ = "nan" THEN @ ELSE offset]
            [] OTHER -> UNCHANGED pinch
  /\ UNCHANGED <<pinchTouches, gestures>>

PinchTouchEnd ==
  /\ pinchTouches > 0 /\ pinchTouches' = pinchTouches - 1
  /\ pinch' = IF pinch.enabled THEN UpdateInteraction([pinch EXCEPT !.fingers = pinchTouches - 1])
                               ELSE pinch
  /\ UNCHANGED gestures

\* The browser takes the touches away: touchcancel has no listener.
TouchesLost ==
  /\ Gesture
  /\ pinchTouches > 0 /\ pinchTouches' = 0
  /\ UNCHANGED pinch

\* 300 ms since the last finger came down alone.
TapForgotten ==
  /\ pinch.recent
  /\ pinch' = [pinch EXCEPT !.recent = FALSE]
  /\ UNCHANGED <<pinchTouches, gestures>>

\* enable() and disable()
PinchEnabling(on) ==
  /\ Gesture
  /\ pinch' = [pinch EXCEPT !.enabled = on]
  /\ UNCHANGED pinchTouches

\* renderFrame() before the time is up: a factor on the way, and its offset.
PinchFrame(i) ==
  LET loop == pinch.loops[i]
  IN  /\ pinch.inAnimation
      /\ \E zoom \in Zooms, offset \in {"sane", "wild"} :
           /\ zoom \in IF loop.kind = "offset" THEN {pinch.zoom}
                       ELSE IF loop.kind = "out" /\ loop.from = "far" THEN {"near", "far"}
                       ELSE IF loop.kind = "in" THEN {loop.from, "near", "far"}
                       ELSE {loop.from}
           /\ loop.kind = "in" /\ ~pinch.crossed => offset = pinch.offset
           /\ pinch' = [pinch EXCEPT !.zoom = zoom,
                                     !.offset = IF @ = "nan" THEN @ ELSE offset]
      /\ UNCHANGED <<pinchTouches, gestures>>

\* The last frame, which stops the animation, or a frame after stopAnimation().
\* An animation that had the picture to itself leaves the offset it computed.
PinchLoopEnds(i) ==
  LET loop == pinch.loops[i]
      left == [pinch EXCEPT !.loops = SubSeq(@, 1, i - 1) \o SubSeq(@, i + 1, Len(@)),
                            !.inAnimation = FALSE]
  IN  /\ IF ~pinch.inAnimation THEN pinch' = left
         ELSE \E offset \in {"sane", "wild"} :
                /\ ~pinch.crossed =>
                     offset = IF loop.kind = "in" THEN pinch.offset ELSE "sane"
                /\ pinch' = [left EXCEPT
                     !.zoom = CASE loop.kind = "out" -> "unit" [] loop.kind = "in" -> "far"
                                [] OTHER -> @,
                     !.offset = IF @ = "nan" THEN @ ELSE offset]
      /\ UNCHANGED <<pinchTouches, gestures>>

PinchNext ==
  \/ PinchTouchStart \/ PinchTouchMove \/ PinchTouchEnd \/ TouchesLost \/ TapForgotten
  \/ \E on \in BOOLEAN : PinchEnabling(on)
  \/ \E i \in 1 .. Len(pinch.loops) : PinchFrame(i) \/ PinchLoopEnds(i)

PinchSpec == PinchInit /\ [][PinchNext]_pinchVars

\* Timers fire, and 300 ms pass.
PinchFairness == WF_pinchVars(\E i \in 1 .. Len(pinch.loops) : PinchLoopEnds(i))

-----------------------------------------------------------------------------
\* A picture that no gesture holds and no animation moves is at its own size or
\* clearly larger, and covers its window; however the fingers came and went, were
\* lost, or began another gesture while the last one was being tidied up.  (Not
\* if two animations ran across each other, nor with an offset lost to NaN.)
PictureTidy ==
  pinch.interaction = "none" /\ ~pinch.inAnimation /\ ~pinch.crossed /\ pinch.offset # "nan"
  => pinch.zoom \in {"unit", "far"} /\ pinch.offset = "sane"

PinchBusy == pinch.inAnimation
=============================================================================
