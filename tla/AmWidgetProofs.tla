--------------------------- MODULE AmWidgetProofs ----------------------------
(* What the widgets that are clicked, typed into or scrolled past promise, for  *)
(* any sizes and any numbers of their parts, calls and events, with and without *)
(* transitions. For each widget: its inductive invariant (XInv), that it holds  *)
(* to begin with (XBegins), that every action keeps it (XStep, from one lemma   *)
(* for each action), and that it implies the property the widget is run for     *)
(* (XHolds).                                                                    *)
EXTENDS AmModal, AmCollapse, AmSelected, AmButton, AmNavbar, AmTabs, AmOffCanvas, AmPopover,
        AmProgress, AmSpy, AmValidator, AmDatepicker, AmAddToHome, CfcaEnroll,
        SequenceTheorems, FunctionTheorems, FiniteSetTheorems, TLAPS

-----------------------------------------------------------------------------
(* AmModal: a modal's fields tell where in the cycle of its events it is        *)
(* (Consistent). Every call and every end of a transition keeps them so, and    *)
(* takes a modal from the dimmer's users whenever it makes it inactive.         *)

LastEvent(log) == log[Len(log)]

\* The last event of a modal that is open.
OpenEvent == IF SupportTransition THEN "opened" ELSE "open"

\* What is waited for, the last event told and the field active belong together.
Consistent(s) ==
  /\ s.log # << >> /\ InOrder(s.log)
  /\ s.transitioning = (s.waiting # "nothing")
  /\ s.waiting = "opened" => LastEvent(s.log) = "open" /\ s.active /\ SupportTransition
  /\ s.waiting = "closed" => LastEvent(s.log) = "close"
  /\ s.waiting = "nothing" => LastEvent(s.log) = (IF s.active THEN OpenEvent ELSE "closed")

ModalsConsistent == \A m \in Modal : Consistent(modal[m])

-----------------------------------------------------------------------------
(* The log.                                                                 *)

LEMMA LogAppend ==
  ASSUME NEW log \in Seq(ModalEvent), log # << >>, InOrder(log),
         NEW e \in ModalEvent, <<LastEvent(log), e>> \in Follows
  PROVE  /\ Append(log, e) \in Seq(ModalEvent) /\ Append(log, e) # << >>
         /\ InOrder(Append(log, e)) /\ LastEvent(Append(log, e)) = e
<1> DEFINE new == Append(log, e)
<1>1. /\ new \in Seq(ModalEvent) /\ Len(new) = Len(log) + 1 /\ Len(log) \in Nat \ {0}
      /\ new[Len(log) + 1] = e
      /\ \A i \in 1 .. Len(log) : new[i] = log[i]
  BY AppendProperties, EmptySeq, LenProperties
<1>2. new # << >> /\ LastEvent(new) = e
  BY <1>1, EmptySeq DEF LastEvent
<1>3. ASSUME NEW i \in 1 .. Len(new) - 1 PROVE <<new[i], new[i + 1]>> \in Follows
  <2>1. i \in 1 .. Len(log) /\ new[i] = log[i]
    BY <1>1, <1>3
  <2>2. CASE i = Len(log)
    BY <1>1, <2>1, <2>2 DEF LastEvent
  <2>3. CASE i # Len(log)
    <3>1. i + 1 \in 1 .. Len(log) /\ i \in 1 .. Len(log) - 1
      BY <1>1, <2>1, <2>3
    <3>. QED BY <1>1, <2>1, <3>1 DEF InOrder
  <2>. QED BY <2>2, <2>3
<1>. QED BY <1>1, <1>2, <1>3 DEF InOrder

LEMMA FreshLog ==
  ASSUME NEW s \in ModalState, Consistent(s)
  PROVE  /\ Fresh(s) \in ModalState /\ Consistent(Fresh(s))
         /\ Fresh(s).active = s.active /\ Fresh(s).waiting = s.waiting
         /\ Fresh(s).transitioning = s.transitioning
<1> DEFINE log == <<LastEvent(s.log)>>
<1>1. s.log \in Seq(ModalEvent) /\ s.log # << >>
  BY DEF ModalState, Consistent
<1>2. LastEvent(s.log) \in ModalEvent
  BY <1>1, EmptySeq, LenProperties, ElementOfSeq DEF LastEvent
<1>3. log \in Seq(ModalEvent) /\ Len(log) = 1 /\ log[1] = LastEvent(s.log)
  BY <1>2
<1>4. log # << >> /\ InOrder(log) /\ LastEvent(log) = LastEvent(s.log)
  BY <1>3 DEF InOrder, LastEvent
<1>5. Fresh(s) = [s EXCEPT !.log = log]
  BY DEF Fresh, LastEvent
<1> HIDE DEF log
<1>. QED BY <1>3, <1>4, <1>5 DEF ModalState, Consistent

-----------------------------------------------------------------------------
(* Transitions.                                                             *)

LEMMA ClearedType ==
  ASSUME NEW timers \in Seq(Timer) PROVE Cleared(timers) \in Seq(Timer)
<1>1. CASE timers # << >> /\ timers[Len(timers)].latest
  <2>1. Len(timers) \in Nat \ {0}
    BY <1>1, LenProperties, EmptySeq
  <2>2. \A i \in 1 .. Len(timers) - 1 : timers[i] \in Timer
    BY <2>1, ElementOfSeq
  <2>3. SubSeq(timers, 1, Len(timers) - 1) \in Seq(Timer)
    BY <2>1, <2>2, SubSeqProperties
  <2>. QED BY <1>1, <2>3 DEF Cleared
<1>2. CASE ~(timers # << >> /\ timers[Len(timers)].latest)
  BY <1>2 DEF Cleared
<1>. QED BY <1>1, <1>2

LEMMA TimersType ==
  ASSUME NEW timers \in Seq(Timer)
  PROVE  /\ Unreferred(timers) \in Seq(Timer) /\ AllCalled(timers) \in Seq(Timer)
         /\ \A t \in Timer : Append(timers, t) \in Seq(Timer)
<1>1. \A i \in DOMAIN timers : timers[i] \in Timer
  BY ElementOfSeq, LenProperties
<1>2. \A i \in DOMAIN timers : /\ [timers[i] EXCEPT !.latest = FALSE] \in Timer
                               /\ [timers[i] EXCEPT !.called = TRUE] \in Timer
  BY <1>1 DEF Timer
<1>3. Len(timers) \in Nat /\ DOMAIN timers = 1 .. Len(timers)
  BY LenProperties
<1>4. Unreferred(timers) \in Seq(Timer)
  <2>1. Unreferred(timers) \in [1 .. Len(timers) -> Timer]
    BY <1>2, <1>3 DEF Unreferred
  <2>. QED BY <1>3, <2>1
<1>5. AllCalled(timers) \in Seq(Timer)
  <2>1. AllCalled(timers) \in [1 .. Len(timers) -> Timer]
    BY <1>2, <1>3 DEF AllCalled
  <2>. QED BY <1>3, <2>1
<1>6. \A t \in Timer : Append(timers, t) \in Seq(Timer)
  BY AppendProperties
<1>. QED BY <1>4, <1>5, <1>6

\* The end of a transition completes it: nothing is waited for any more, and a
\* modal that was closing is not active.
LEMMA CompletedOK ==
  ASSUME NEW s \in ModalState, Consistent(s)
  PROVE  /\ Completed(s) \in ModalState /\ Consistent(Completed(s))
         /\ Completed(s).waiting = "nothing"
         /\ Completed(s).active = (s.active /\ s.waiting # "closed")
<1>1. /\ s.log \in Seq(ModalEvent) /\ s.log # << >> /\ InOrder(s.log)
      /\ s.waiting \in {"nothing", "opened", "closed"} /\ s.active \in BOOLEAN
  BY DEF ModalState, Consistent
<1>2. CASE s.waiting = "opened"
  <2> DEFINE log == Append(s.log, "opened")
  <2>1. Completed(s) = [s EXCEPT !.waiting = "nothing", !.transitioning = FALSE, !.log = log]
    BY <1>2 DEF Completed, Emit, ModalState
  <2>2. <<LastEvent(s.log), "opened">> \in Follows /\ s.active
    BY <1>2 DEF Consistent, Follows
  <2>3. log \in Seq(ModalEvent) /\ log # << >> /\ InOrder(log) /\ LastEvent(log) = "opened"
    BY <1>1, <2>2, LogAppend DEF ModalEvent
  <2> HIDE DEF log
  <2>4. SupportTransition
    BY <1>2 DEF Consistent
  <2>. QED BY <1>2, <2>1, <2>2, <2>3, <2>4 DEF ModalState, Consistent, OpenEvent
<1>3. CASE s.waiting = "closed"
  <2> DEFINE log == Append(s.log, "closed")
  <2>1. Completed(s) = [s EXCEPT !.waiting = "nothing", !.transitioning = FALSE,
                                 !.active = FALSE, !.shown = FALSE, !.moving = FALSE,
                                 !.log = log]
    BY <1>3 DEF Completed, Emit, ModalState
  <2>2. <<LastEvent(s.log), "closed">> \in Follows
    BY <1>3 DEF Consistent, Follows
  <2>3. log \in Seq(ModalEvent) /\ log # << >> /\ InOrder(log) /\ LastEvent(log) = "closed"
    BY <1>1, <2>2, LogAppend DEF ModalEvent
  <2> HIDE DEF log
  <2>. QED BY <1>3, <2>1, <2>3 DEF ModalState, Consistent
<1>4. CASE s.waiting = "nothing"
  BY <1>1, <1>4 DEF Completed
<1>. QED BY <1>1, <1>2, <1>3, <1>4

\* What happens to the timers and to the animation changes nothing else.
LEMMA TimersOK ==
  ASSUME NEW s \in ModalState, Consistent(s), NEW ts \in Seq(Timer), NEW b \in BOOLEAN
  PROVE  LET r == [s EXCEPT !.moving = b, !.timers = ts]
         IN  /\ r \in ModalState /\ Consistent(r)
             /\ r.active = s.active /\ r.waiting = s.waiting
BY DEF ModalState, Consistent

LEMMA SettledOK ==
  ASSUME NEW s \in ModalState, Consistent(s)
  PROVE  /\ Settled(s) \in ModalState /\ Consistent(Settled(s))
         /\ Settled(s).waiting = "nothing"
         /\ Settled(s).active = (s.active /\ s.waiting # "closed")
<1>1. s.timers \in Seq(Timer) /\ s.moving \in BOOLEAN /\ s.active \in BOOLEAN
  BY DEF ModalState
<1> DEFINE ts == Cleared(s.timers)
           r  == [s EXCEPT !.moving = s.moving, !.timers = ts]
<1>2. ts \in Seq(Timer)
  BY <1>1, ClearedType
<1>3. r = [s EXCEPT !.timers = ts]
  BY DEF ModalState
<1>4. r \in ModalState /\ Consistent(r) /\ r.active = s.active /\ r.waiting = s.waiting
  BY <1>1, <1>2, TimersOK
<1>5. Interrupted(s) = Completed(r)
  BY <1>3 DEF Interrupted
<1> HIDE DEF r
<1>6. CASE s.transitioning
  BY <1>4, <1>5, <1>6, CompletedOK DEF Settled
<1>7. CASE ~s.transitioning
  BY <1>1, <1>7 DEF Settled, Consistent
<1>. QED BY <1>6, <1>7

\* A transition begins after its first event; without support for transitions it
\* is over at once.
LEMMA BegunOK ==
  ASSUME NEW r \in ModalState, r.log # << >>, InOrder(r.log),
         NEW done \in {"opened", "closed"},
         done = "opened" => LastEvent(r.log) = "open" /\ r.active /\ SupportTransition,
         done = "closed" => LastEvent(r.log) = "close"
  PROVE  /\ Begun(r, done) \in ModalState /\ Consistent(Begun(r, done))
         /\ Begun(r, done).active = (r.active /\ (done = "closed" => SupportTransition))
         /\ ~SupportTransition \/ Begun(r, done).waiting = done
<1> DEFINE b == [r EXCEPT !.waiting = done, !.transitioning = TRUE]
           ts == Append(Unreferred(b.timers), [called |-> FALSE, latest |-> TRUE])
<1>1. b \in ModalState /\ Consistent(b) /\ b.active = r.active /\ b.waiting = done
  BY DEF ModalState, Consistent
<1>2. b.timers \in Seq(Timer) /\ [called |-> FALSE, latest |-> TRUE] \in Timer
      /\ b.active \in BOOLEAN
  BY <1>1 DEF ModalState, Timer
<1>3. ts \in Seq(Timer)
  <2>1. Unreferred(b.timers) \in Seq(Timer)
    BY <1>2, TimersType
  <2>. QED BY <1>2, <2>1, TimersType
<1>4. Begun(r, done) = IF SupportTransition THEN [b EXCEPT !.moving = TRUE, !.timers = ts]
                                            ELSE Completed(b)
  BY DEF Begun, Emulated
<1> HIDE DEF b, ts
<1>5. CASE SupportTransition
  <2> DEFINE c == [b EXCEPT !.moving = TRUE, !.timers = ts]
  <2>1. c \in ModalState /\ Consistent(c) /\ c.active = b.active /\ c.waiting = done
    BY <1>1, <1>3, TimersOK
  <2>2. Begun(r, done) = c
    BY <1>4, <1>5
  <2> HIDE DEF c
  <2>. QED BY <1>1, <1>2, <1>5, <2>1, <2>2
<1>6. CASE ~SupportTransition
  BY <1>1, <1>2, <1>4, <1>6, CompletedOK
<1>. QED BY <1>5, <1>6

\* A transition begins with its event, told after what was left of the last one.
LEMMA OpenedOK ==
  ASSUME NEW s \in ModalState, Consistent(s), ~s.active
  PROVE  Opened(s) \in ModalState /\ Consistent(Opened(s)) /\ Opened(s).active
<1> DEFINE t == Settled(s)
           log == Append(t.log, "open")
           o == [t EXCEPT !.active = TRUE, !.log = log]
           r == [o EXCEPT !.shown = TRUE]
<1>1. t \in ModalState /\ Consistent(t) /\ t.waiting = "nothing" /\ ~t.active
  BY SettledOK
<1>2. Opened(s) = IF SupportTransition THEN Begun(r, "opened") ELSE o
  BY <1>1 DEF Opened, Emit, ModalState
<1> HIDE DEF t
<1>3. t.log \in Seq(ModalEvent) /\ t.log # << >> /\ InOrder(t.log) /\ LastEvent(t.log) = "closed"
  BY <1>1 DEF ModalState, Consistent
<1>4. log \in Seq(ModalEvent) /\ log # << >> /\ InOrder(log) /\ LastEvent(log) = "open"
  BY <1>3, LogAppend DEF ModalEvent, Follows
<1> HIDE DEF log
<1>5. /\ r \in ModalState /\ r.log = log /\ r.active
      /\ o \in ModalState /\ o.log = log /\ o.active /\ o.waiting = "nothing"
      /\ o.transitioning = t.transitioning
  BY <1>1, <1>4 DEF ModalState
<1> HIDE DEF r, o
<1>6. CASE SupportTransition
  <2>1. /\ Begun(r, "opened") \in ModalState /\ Consistent(Begun(r, "opened"))
        /\ Begun(r, "opened").active = (r.active /\ ("opened" = "closed" => SupportTransition))
    BY <1>4, <1>5, <1>6, BegunOK
  <2>. QED BY <1>2, <1>5, <1>6, <2>1
<1>7. CASE ~SupportTransition
  <2>1. Consistent(o)
    BY <1>1, <1>4, <1>5, <1>7 DEF Consistent, OpenEvent
  <2>. QED BY <1>2, <1>5, <1>7, <2>1
<1>. QED BY <1>6, <1>7

LEMMA ClosedOK ==
  ASSUME NEW s \in ModalState, Consistent(s), s.active
  PROVE  /\ Closed(s) \in ModalState /\ Consistent(Closed(s))
         /\ Closed(s).active = (s.waiting # "closed" /\ SupportTransition)
         /\ ~NeedsDimmer(Closed(s))
<1> DEFINE t == Settled(s)
           log == Append(t.log, "close")
           r == [t EXCEPT !.log = log]
<1>1. /\ t \in ModalState /\ Consistent(t) /\ t.waiting = "nothing"
      /\ t.active = (s.active /\ s.waiting # "closed")
  BY SettledOK
<1>2. Closed(s) = Begun(r, "closed")
  BY DEF Closed, Emit
<1> HIDE DEF t
<1>3. /\ t.log \in Seq(ModalEvent) /\ t.log # << >> /\ InOrder(t.log)
      /\ LastEvent(t.log) \in {OpenEvent, "closed"}
  BY <1>1 DEF ModalState, Consistent
<1>4. log \in Seq(ModalEvent) /\ log # << >> /\ InOrder(log) /\ LastEvent(log) = "close"
  <2>1. <<LastEvent(t.log), "close">> \in Follows
    BY <1>3 DEF Follows, OpenEvent
  <2>. QED BY <1>3, <2>1, LogAppend DEF ModalEvent
<1> HIDE DEF log
<1>5. r \in ModalState /\ r.log = log /\ r.active = t.active
  BY <1>1, <1>4 DEF ModalState
<1> HIDE DEF r
<1>6. /\ Closed(s) \in ModalState /\ Consistent(Closed(s))
      /\ Closed(s).active = (t.active /\ SupportTransition)
      /\ ~SupportTransition \/ Closed(s).waiting = "closed"
  BY <1>2, <1>4, <1>5, BegunOK
<1>. QED BY <1>1, <1>6 DEF NeedsDimmer

-----------------------------------------------------------------------------
(* The dimmer.                                                              *)

DimmerState ==
  [used : SUBSET Modal, shown : BOOLEAN, active : BOOLEAN, lighting : Nat,
   locked : BOOLEAN, padding : Nat, forced : BOOLEAN]

DimmerOK(d) ==
  /\ d.locked => d.used # {}
  /\ d.used # {} => d.locked \/ d.forced
  /\ d.shown = (d.locked /\ SupportTransition)
  /\ d.padding = IF d.locked THEN ScrollbarWidth ELSE 0

LEMMA DimmerOpenedOK ==
  ASSUME NEW d \in DimmerState, DimmerOK(d), NEW m \in Modal
  PROVE  LET o == DimmerOpened(d, m, SupportTransition)
         IN  o \in DimmerState /\ DimmerOK(o) /\ o.used = d.used \cup {m}
<1>1. ScrollbarWidth \in Nat
  BY DimmerAssumption
<1>2. d.padding + Scrollbar(d) = ScrollbarWidth
  BY <1>1 DEF DimmerOK, Scrollbar
<1>3. d.lighting + 1 \in Nat /\ d.used \cup {m} \in SUBSET Modal
  BY DEF DimmerState
<1> DEFINE o == DimmerOpened(d, m, SupportTransition)
<1>4. CASE SupportTransition
  <2>1. o = [d EXCEPT !.padding = ScrollbarWidth, !.locked = TRUE, !.used = d.used \cup {m},
                      !.forced = FALSE, !.shown = TRUE, !.lighting = d.lighting + 1]
    BY <1>2, <1>4 DEF DimmerOpened, Locked, DimmerState
  <2>. QED BY <1>1, <1>3, <1>4, <2>1 DEF DimmerState, DimmerOK
<1>5. CASE ~SupportTransition
  <2>1. o = [d EXCEPT !.padding = ScrollbarWidth, !.locked = TRUE, !.used = d.used \cup {m},
                      !.forced = FALSE]
    BY <1>2, <1>5 DEF DimmerOpened, Locked, DimmerState
  <2>. QED BY <1>1, <1>3, <1>5, <2>1 DEF DimmerState, DimmerOK
<1>. QED BY <1>4, <1>5

LEMMA DimmerClosedOK ==
  ASSUME NEW d \in DimmerState, DimmerOK(d), NEW M \in SUBSET Modal, NEW force \in BOOLEAN
  PROVE  /\ DimmerClosed(d, M, force) \in DimmerState /\ DimmerOK(DimmerClosed(d, M, force))
         /\ DimmerClosed(d, M, force).used = d.used \ M
<1> DEFINE left == d.used \ M
<1>1. CASE M = {} \/ (~force /\ left # {})
  <2>1. DimmerClosed(d, M, force) = [d EXCEPT !.used = left] /\ left \in SUBSET Modal
    BY <1>1 DEF DimmerClosed, DimmerState
  <2>2. d.locked => left # {}
    BY <1>1 DEF DimmerOK
  <2>. QED BY <2>1, <2>2 DEF DimmerState, DimmerOK
<1>2. CASE ~(M = {} \/ (~force /\ left # {}))
  BY <1>2, ModalAssumption DEF DimmerClosed, Unlocked, DimmerState, DimmerOK
<1>. QED BY <1>1, <1>2

-----------------------------------------------------------------------------
(* The invariant.                                                           *)

ModalInv == ModalTypeOK /\ ModalsConsistent /\ DimmerHasUser

\* In steps that change one modal.
LEMMA OneModal ==
  ASSUME ModalInv, NEW m \in Modal, NEW s, s \in ModalState, Consistent(s),
         modal' = [modal EXCEPT ![m] = s],
         dimmer' \in DimmerState, DimmerOK(dimmer'),
         dimmer'.used \ {m} = dimmer.used \ {m},
         m \in dimmer'.used => s.active, NeedsDimmer(s) => m \in dimmer'.used,
         modalCalls' \in 0 .. MaxCalls
  PROVE  ModalInv'
<1>1. modal' \in [Modal -> ModalState] /\ modal'[m] = s
      /\ \A n \in Modal \ {m} : modal'[n] = modal[n]
  BY DEF ModalInv, ModalTypeOK
<1>2. ModalTypeOK'
  BY <1>1 DEF ModalTypeOK, DimmerState
<1>3. ModalsConsistent'
  BY <1>1 DEF ModalInv, ModalsConsistent
<1>4. \A n \in dimmer'.used : n \in Modal /\ modal'[n].active
  BY <1>1 DEF ModalInv, DimmerHasUser, DimmerState
<1>5. ASSUME NEW n \in Modal, NeedsDimmer(modal'[n]) PROVE n \in dimmer'.used
  <2>1. CASE n = m
    BY <1>1, <1>5, <2>1
  <2>2. CASE n # m
    BY <1>1, <1>5, <2>2 DEF ModalInv, DimmerHasUser
  <2>. QED BY <2>1, <2>2
<1>. QED BY <1>2, <1>3, <1>4, <1>5 DEF ModalInv, DimmerHasUser, DimmerOK

\* What the invariant says of the parts a step reads.
LEMMA Parts ==
  ASSUME ModalInv
  PROVE  /\ dimmer \in DimmerState /\ DimmerOK(dimmer) /\ modalCalls \in 0 .. MaxCalls
         /\ \A m \in Modal : modal[m] \in ModalState /\ Consistent(modal[m])
         /\ \A m \in dimmer.used : m \in Modal /\ modal[m].active
         /\ \A m \in Modal : NeedsDimmer(modal[m]) => m \in dimmer.used
BY DEF ModalInv, ModalTypeOK, DimmerState, DimmerOK, ModalsConsistent, DimmerHasUser

LEMMA CallsCounted ==
  ASSUME modalCalls \in 0 .. MaxCalls, modalCalls < MaxCalls
  PROVE  modalCalls + 1 \in 0 .. MaxCalls
BY ModalAssumption

LEMMA ModalBegins == ModalInit => ModalInv
<1> SUFFICES ASSUME ModalInit PROVE ModalInv
  OBVIOUS
<1>1. ModalTypeOK
  BY ModalAssumption DEF ModalInit, DimmerInit, ModalTypeOK, ModalState, ModalEvent, Timer
<1>2. ModalsConsistent
  <2> DEFINE log == <<"closed">>
  <2>1. log # << >> /\ Len(log) = 1 /\ LastEvent(log) = "closed"
    BY DEF LastEvent
  <2>2. InOrder(log)
    BY <2>1 DEF InOrder
  <2>3. \A m \in Modal : /\ modal[m].log = log /\ modal[m].waiting = "nothing"
                         /\ modal[m].transitioning = FALSE /\ modal[m].active = FALSE
    BY DEF ModalInit
  <2> HIDE DEF log
  <2>. QED BY <2>1, <2>2, <2>3 DEF ModalsConsistent, Consistent
<1>3. DimmerHasUser
  BY DEF ModalInit, DimmerInit, DimmerHasUser, NeedsDimmer
<1>. QED BY <1>1, <1>2, <1>3 DEF ModalInv

LEMMA UserOpensInv ==
  ASSUME ModalInv, NEW m \in Modal, UserOpens(m)
  PROVE  ModalInv'
<1> DEFINE s == Fresh(modal[m])
           d == IF s.transitioning /\ ClosesWith(s) THEN DimmerClosed(dimmer, {m}, FALSE)
                                                    ELSE dimmer
<1>1. /\ ~s.active /\ modal' = [modal EXCEPT ![m] = Opened(s)]
      /\ dimmer' = DimmerOpened(d, m, SupportTransition) /\ modalCalls' \in 0 .. MaxCalls
  BY CallsCounted, Parts DEF UserOpens, OpenModal
<1>2. s \in ModalState /\ Consistent(s)
  BY Parts, FreshLog
<1>3. d \in DimmerState /\ DimmerOK(d) /\ d.used \ {m} = dimmer.used \ {m}
  <2>1. {m} \in SUBSET Modal /\ FALSE \in BOOLEAN /\ dimmer \in DimmerState /\ DimmerOK(dimmer)
    BY Parts
  <2>2. DimmerClosed(dimmer, {m}, FALSE) \in DimmerState
        /\ DimmerOK(DimmerClosed(dimmer, {m}, FALSE))
        /\ DimmerClosed(dimmer, {m}, FALSE).used = dimmer.used \ {m}
    BY <2>1, DimmerClosedOK
  <2>. QED BY <2>1, <2>2
<1> HIDE DEF s, d
<1>4. Opened(s) \in ModalState /\ Consistent(Opened(s)) /\ Opened(s).active
  BY <1>1, <1>2, OpenedOK
<1>5. /\ dimmer' \in DimmerState /\ DimmerOK(dimmer')
      /\ dimmer'.used \ {m} = dimmer.used \ {m} /\ m \in dimmer'.used
  BY <1>1, <1>3, DimmerOpenedOK
<1>. QED BY <1>1, <1>4, <1>5, OneModal

\* Every modal that stays one of the dimmer's users is active still: it was not
\* closing already.
LEMMA UserClosesInv ==
  ASSUME ModalInv, NEW M \in SUBSET Modal, UserCloses(M)
  PROVE  ModalInv'
<1> DEFINE A == {m \in M : modal[m].active}
           cut == {m \in A : modal[m].transitioning}
<1>1. /\ modal' = [m \in Modal |-> IF m \in A THEN Closed(Fresh(modal[m])) ELSE modal[m]]
      /\ dimmer' = IF SupportTransition THEN DimmerClosed(dimmer, cut, TRUE)
                                        ELSE DimmerClosed(dimmer, A, FALSE)
      /\ modalCalls' \in 0 .. MaxCalls
  BY CallsCounted, Parts DEF UserCloses, CloseModals
<1>2. A \in SUBSET Modal /\ cut \in SUBSET Modal
  OBVIOUS
<1>3. ASSUME NEW m \in A
      PROVE  LET c == Closed(Fresh(modal[m]))
             IN  /\ c \in ModalState /\ Consistent(c) /\ ~NeedsDimmer(c)
                 /\ c.active = (modal[m].waiting # "closed" /\ SupportTransition)
  <2>1. m \in Modal /\ modal[m] \in ModalState /\ Consistent(modal[m]) /\ modal[m].active
    BY <1>2, Parts
  <2>. QED BY <2>1, FreshLog, ClosedOK
<1>4. /\ dimmer' \in DimmerState /\ DimmerOK(dimmer')
      /\ dimmer'.used = dimmer.used \ (IF SupportTransition THEN cut ELSE A)
  BY <1>1, <1>2, Parts, DimmerClosedOK
<1>5. \A m \in Modal : modal'[m] \in ModalState /\ Consistent(modal'[m])
  BY <1>1, <1>3, Parts
<1>6. ASSUME NEW m \in dimmer'.used PROVE m \in Modal /\ modal'[m].active
  <2>1. m \in Modal /\ modal[m].active /\ Consistent(modal[m])
    BY <1>4, <1>6, Parts
  <2>2. CASE m \in A
    <3>1. SupportTransition /\ m \notin cut
      BY <1>4, <1>6, <2>2
    <3>2. modal[m].waiting = "nothing"
      BY <2>1, <2>2, <3>1 DEF Consistent
    <3>3. modal'[m] = Closed(Fresh(modal[m]))
      BY <1>1, <2>1, <2>2
    <3>. QED BY <1>3, <2>1, <2>2, <3>1, <3>2, <3>3
  <2>3. CASE m \notin A
    BY <1>1, <2>1, <2>3
  <2>. QED BY <2>2, <2>3
<1>8. ASSUME NEW m \in Modal, NeedsDimmer(modal'[m]) PROVE m \in dimmer'.used
  <2>1. m \notin A /\ modal'[m] = modal[m]
    BY <1>1, <1>3, <1>8
  <2>2. m \in dimmer.used
    BY <1>8, <2>1, Parts
  <2>. QED BY <1>4, <2>1, <2>2
<1> HIDE DEF A, cut
<1>7. ModalTypeOK'
  BY <1>1, <1>4, <1>5 DEF ModalTypeOK, DimmerState
<1>. QED BY <1>4, <1>5, <1>6, <1>7, <1>8 DEF ModalInv, ModalsConsistent, DimmerHasUser, DimmerOK

\* The end of a transition, reported by the browser or by a timer.
LEMMA EndedInv ==
  ASSUME ModalInv, NEW m \in Modal, NEW ts \in Seq(Timer), NEW b \in BOOLEAN,
         modal' = [modal EXCEPT ![m] =
           Completed([Fresh(modal[m]) EXCEPT !.moving = b, !.timers = ts])],
         dimmer' = DimmerAfter(m), UNCHANGED modalCalls
  PROVE  ModalInv'
<1> DEFINE s == Fresh(modal[m])
           r == [s EXCEPT !.moving = b, !.timers = ts]
<1>1. s \in ModalState /\ Consistent(s) /\ s.active = modal[m].active
      /\ s.waiting = modal[m].waiting
  BY Parts, FreshLog
<1> HIDE DEF s
<1>2. r \in ModalState /\ Consistent(r) /\ r.active = s.active /\ r.waiting = s.waiting
  BY <1>1, TimersOK
<1>3. modal' = [modal EXCEPT ![m] = Completed(r)]
  BY DEF s
<1> HIDE DEF r
<1>4. /\ Completed(r) \in ModalState /\ Consistent(Completed(r))
      /\ Completed(r).active = NeedsDimmer(modal[m])
  BY <1>1, <1>2, CompletedOK DEF NeedsDimmer
<1>5. /\ dimmer' \in DimmerState /\ DimmerOK(dimmer')
      /\ dimmer'.used = dimmer.used \ (IF modal[m].waiting = "closed" THEN {m} ELSE {})
  <2>1. {m} \in SUBSET Modal /\ FALSE \in BOOLEAN /\ dimmer \in DimmerState /\ DimmerOK(dimmer)
    BY Parts
  <2>2. DimmerClosed(dimmer, {m}, FALSE) \in DimmerState
        /\ DimmerOK(DimmerClosed(dimmer, {m}, FALSE))
        /\ DimmerClosed(dimmer, {m}, FALSE).used = dimmer.used \ {m}
    BY <2>1, DimmerClosedOK
  <2>. QED BY <2>1, <2>2 DEF DimmerAfter, ClosesWith
<1>6. /\ dimmer'.used \ {m} = dimmer.used \ {m}
      /\ m \in dimmer'.used => Completed(r).active
      /\ NeedsDimmer(Completed(r)) => m \in dimmer'.used
  BY <1>4, <1>5, Parts DEF NeedsDimmer
<1>. QED BY <1>3, <1>4, <1>5, <1>6, Parts, OneModal

LEMMA TransitionEndsInv ==
  ASSUME ModalInv, NEW m \in Modal, TransitionEnds(m)
  PROVE  ModalInv'
<1> DEFINE s == Fresh(modal[m])
<1>1. s.timers \in Seq(Timer)
  BY Parts, FreshLog DEF ModalState
<1>2. AllCalled(s.timers) \in Seq(Timer)
  BY <1>1, TimersType
<1>. QED BY <1>2, EndedInv DEF TransitionEnds

LEMMA TimerFiresInv ==
  ASSUME ModalInv, NEW m \in Modal, TimerFires(m)
  PROVE  ModalInv'
<1> DEFINE s == Fresh(modal[m])
           rest == Unreferred(Tail(s.timers))
<1>1. s \in ModalState /\ Consistent(s) /\ s.active = modal[m].active
      /\ s.waiting = modal[m].waiting
  BY Parts, FreshLog
<1>2. s.timers \in Seq(Timer) /\ s.timers # << >> /\ s.moving \in BOOLEAN
  BY <1>1 DEF TimerFires, ModalState
<1>3. rest \in Seq(Timer)
  <2>1. Tail(s.timers) \in Seq(Timer)
    BY <1>2, HeadTailProperties
  <2>. QED BY <2>1, TimersType
<1>4. AllCalled(rest) \in Seq(Timer)
  BY <1>3, TimersType
<1>5. CASE Head(s.timers).called
  <2> DEFINE r == [s EXCEPT !.moving = s.moving, !.timers = rest]
  <2>1. r \in ModalState /\ Consistent(r) /\ r.active = modal[m].active
        /\ r.waiting = modal[m].waiting
    BY <1>1, <1>2, <1>3, TimersOK
  <2>2. modal' = [modal EXCEPT ![m] = r] /\ UNCHANGED <<dimmer, modalCalls>>
    BY <1>1, <1>5 DEF TimerFires, ModalState
  <2> HIDE DEF r
  <2>. QED BY <2>1, <2>2, Parts, OneModal DEF NeedsDimmer
<1>6. CASE ~Head(s.timers).called
  <2> DEFINE ts == AllCalled(rest)
             r == [s EXCEPT !.moving = s.moving, !.timers = ts]
  <2>1. r = [s EXCEPT !.timers = ts]
    BY <1>1 DEF ModalState
  <2>2. /\ modal' = [modal EXCEPT ![m] = Completed(r)]
        /\ dimmer' = DimmerAfter(m) /\ UNCHANGED modalCalls
    BY <1>6, <2>1 DEF TimerFires
  <2>. QED BY <1>2, <1>4, <2>2, EndedInv
<1>. QED BY <1>5, <1>6

LEMMA DimmerLightsInv ==
  ASSUME ModalInv, DimmerLights, UNCHANGED <<modal, modalCalls>>
  PROVE  ModalInv'
<1>1. dimmer' \in DimmerState /\ DimmerOK(dimmer') /\ dimmer'.used = dimmer.used
  <2>1. dimmer \in DimmerState /\ DimmerOK(dimmer)
    BY Parts
  <2>2. dimmer.lighting \in Nat /\ dimmer.lighting > 0
    BY <2>1 DEF DimmerState, DimmerLights
  <2>3. dimmer.lighting - 1 \in Nat
    BY <2>2
  <2>4. dimmer' = [dimmer EXCEPT !.lighting = dimmer.lighting - 1, !.active = TRUE]
    BY DEF DimmerLights
  <2>. QED BY <2>1, <2>3, <2>4 DEF DimmerState, DimmerOK
<1>. QED BY <1>1 DEF ModalInv, ModalTypeOK, ModalsConsistent, DimmerHasUser, DimmerState,
                     DimmerOK

LEMMA ModalStep == ModalInv /\ [ModalNext]_modalVars => ModalInv'
<1> SUFFICES ASSUME ModalInv, [ModalNext]_modalVars PROVE ModalInv'
  OBVIOUS
<1>1. ASSUME NEW m \in Modal, UserOpens(m) PROVE ModalInv'
  BY <1>1, UserOpensInv
<1>2. ASSUME NEW m \in Modal, UserCloses({m}) PROVE ModalInv'
  BY <1>2, UserClosesInv
<1>3. ASSUME NEW m \in Modal, TransitionEnds(m) PROVE ModalInv'
  BY <1>3, TransitionEndsInv
<1>4. ASSUME NEW m \in Modal, TimerFires(m) PROVE ModalInv'
  BY <1>4, TimerFiresInv
<1>5. CASE DimmerClicked
  BY <1>5, UserClosesInv DEF DimmerClicked
<1>6. CASE DimmerLights /\ UNCHANGED <<modal, modalCalls>>
  BY <1>6, DimmerLightsInv
<1>7. CASE UNCHANGED modalVars
  BY <1>7 DEF modalVars, ModalInv, ModalTypeOK, ModalsConsistent, DimmerHasUser
<1>. QED BY <1>1, <1>2, <1>3, <1>4, <1>5, <1>6, <1>7 DEF ModalNext

LEMMA ModalHolds == ModalInv => DimmerHasUser /\ ModalEventsInOrder
BY DEF ModalInv, ModalsConsistent, Consistent, ModalEventsInOrder

\* The fields keep their types, calls and events their order, and the dimmer its
\* users, in every behaviour of AmModal.
THEOREM ModalInvariant == ModalSpec => []ModalInv
BY ModalBegins, ModalStep, PTL DEF ModalSpec

\* The page is locked, under a dimmer, only for the sake of a modal that is active:
\* whatever calls of open() and close(), clicks and late timers interleave.
THEOREM DimmerIsUsed == ModalSpec => []DimmerHasUser
BY ModalInvariant, ModalHolds, PTL

\* Every modal tells its listeners open, opened, close and closed in this order.
THEOREM EventsInOrder == ModalSpec => []ModalEventsInOrder
BY ModalInvariant, ModalHolds, PTL

-----------------------------------------------------------------------------
(* AmCollapse: no panel of an accordion is left in the middle of a transition   *)
(* (WillRest): what will end its movement is there, and survives clicks on      *)
(* other panels.                                                                *)

(* What becomes of one panel.                                               *)

LEMMA AppendLast ==
  ASSUME NEW S, NEW seq \in Seq(S), NEW e \in S
  PROVE  /\ Append(seq, e) \in Seq(S) /\ Append(seq, e) # << >>
         /\ \E i \in DOMAIN Append(seq, e) : Append(seq, e)[i] = e
<1>1. /\ Append(seq, e) \in Seq(S) /\ Len(Append(seq, e)) = Len(seq) + 1
      /\ Append(seq, e)[Len(seq) + 1] = e /\ Len(seq) \in Nat
  BY AppendProperties, LenProperties
<1>2. Len(seq) + 1 \in DOMAIN Append(seq, e) /\ Append(seq, e) # << >>
  BY <1>1, LenProperties, EmptySeq
<1>. QED BY <1>1, <1>2

LEMMA HeadIsFirst ==
  ASSUME NEW S, NEW seq \in Seq(S), seq # << >> PROVE Head(seq) = seq[1]
OBVIOUS

\* A panel that begins to move has a handler of its own and a timer.
LEMMA PanelMovesOK ==
  ASSUME NEW s \in PanelState, WillRest(s), NEW done \in {"opened", "closed"}
  PROVE  PanelMoves(s, done) \in PanelState /\ WillRest(PanelMoves(s, done))
<1> DEFINE h  == [done |-> done, mine |-> TRUE]
           hs == Append(s.handlers, h)
           ts == Append(s.timers, FALSE)
<1>1. h \in Handler /\ h.mine
  BY DEF Handler
<1>2. s.handlers \in Seq(Handler) /\ s.timers \in Seq(BOOLEAN)
  BY DEF PanelState
<1>3. hs \in Seq(Handler) /\ hs # << >> /\ \E i \in DOMAIN hs : hs[i] = h
  BY <1>1, <1>2, AppendLast, ZenonT(40)
<1>4. ts \in Seq(BOOLEAN) /\ \E i \in DOMAIN ts : ts[i] = FALSE
  <2>1. FALSE \in BOOLEAN
    OBVIOUS
  <2>. QED BY <1>2, <2>1, AppendLast, ZenonT(40)
<1>5. CASE PanelTransition
  <2>1. PanelMoves(s, done) =
          [s EXCEPT !.class = "collapsing", !.transitioning = TRUE, !.data = TRUE,
                    !.handlers = hs, !.timers = ts, !.moving = TRUE]
    <3>1. /\ [s EXCEPT !.class = "collapsing", !.transitioning = TRUE, !.data = TRUE].handlers
               = s.handlers
          /\ [s EXCEPT !.class = "collapsing", !.transitioning = TRUE, !.data = TRUE].timers
               = s.timers
      BY DEF PanelState
    <3>. QED BY <1>5, <3>1 DEF PanelMoves
  <2> DEFINE m == PanelMoves(s, done)
  <2> HIDE DEF h, hs, ts
  <2>2. m \in PanelState
    BY <1>3, <1>4, <2>1 DEF PanelState
  <2>3. m.handlers = hs /\ m.timers = ts
    BY <2>1 DEF PanelState
  <2> HIDE DEF m
  <2>4. WillRest(m)
    BY <1>1, <1>3, <1>4, <2>3 DEF WillRest
  <2>. QED BY <2>2, <2>4 DEF m
<1>6. CASE ~PanelTransition
  <2>1. PanelMoves(s, done) =
          [s EXCEPT !.class = IF done = "opened" THEN "in" ELSE "closed",
                    !.transitioning = FALSE, !.data = TRUE]
    BY <1>6 DEF PanelMoves, PanelDone, PanelState
  <2>. QED BY <2>1 DEF PanelState, WillRest
<1>. QED BY <1>5, <1>6

LEMMA PanelClosedOK ==
  ASSUME NEW s \in PanelState, WillRest(s)
  PROVE  PanelClosed(s) \in PanelState /\ WillRest(PanelClosed(s))
<1>1. [s EXCEPT !.data = TRUE] \in PanelState /\ WillRest([s EXCEPT !.data = TRUE])
  BY DEF PanelState, WillRest
<1>. QED BY <1>1, PanelMovesOK DEF PanelClosed

\* A panel that loses its object is no longer in transition for the next one, and
\* what will end its movement stays.
LEMMA ForgottenOK ==
  ASSUME NEW s \in PanelState, WillRest(s)
  PROVE  Forgotten(s) \in PanelState /\ WillRest(Forgotten(s))
<1> DEFINE hs == [i \in DOMAIN s.handlers |-> [s.handlers[i] EXCEPT !.mine = FALSE]]
<1>1. s.handlers \in Seq(Handler)
  BY DEF PanelState
<1>2. Len(s.handlers) \in Nat /\ DOMAIN s.handlers = 1 .. Len(s.handlers)
  BY <1>1, LenProperties
<1>3. \A i \in DOMAIN s.handlers : [s.handlers[i] EXCEPT !.mine = FALSE] \in Handler
  <2>1. \A i \in DOMAIN s.handlers : s.handlers[i] \in Handler
    BY <1>1, <1>2, ElementOfSeq
  <2>. QED BY <2>1 DEF Handler
<1>4. hs \in Seq(Handler)
  <2>1. hs \in [1 .. Len(s.handlers) -> Handler]
    BY <1>2, <1>3
  <2>. QED BY <1>2, <2>1
<1>5. hs = << >> <=> s.handlers = << >>
  <2>1. Len(hs) = Len(s.handlers)
    BY <1>2
  <2> HIDE DEF hs
  <2>. QED BY <1>1, <1>4, <2>1, EmptySeq
<1>6. Forgotten(s) = [s EXCEPT !.data = FALSE, !.transitioning = FALSE, !.handlers = hs]
  BY DEF Forgotten
<1> HIDE DEF hs
<1>. QED BY <1>4, <1>5, <1>6 DEF PanelState, WillRest

\* The end of a transition: it was this panel's, or its object is told of it all
\* the same.
LEMMA PanelEndedOK ==
  ASSUME NEW s \in PanelState,
         s.transitioning => \E i \in DOMAIN s.handlers : s.handlers[i].mine,
         s.class = "collapsing" => s.handlers # << >>
  PROVE  /\ PanelEnded(s) \in PanelState /\ WillRest(PanelEnded(s))
         /\ PanelEnded(s).handlers = << >>
<1> DEFINE ts    == [i \in DOMAIN s.timers |-> TRUE]
           told  == [s EXCEPT !.handlers = << >>, !.timers = ts]
           freed == IF \E i \in DOMAIN s.handlers : s.handlers[i].mine
                    THEN [told EXCEPT !.transitioning = FALSE] ELSE told
           last  == s.handlers[Len(s.handlers)]
<1>1. s.handlers \in Seq(Handler) /\ s.timers \in Seq(BOOLEAN)
  BY DEF PanelState
<1>2. ts \in Seq(BOOLEAN)
  <2>1. Len(s.timers) \in Nat /\ DOMAIN s.timers = 1 .. Len(s.timers)
    BY <1>1, LenProperties
  <2>2. ts \in [1 .. Len(s.timers) -> BOOLEAN]
    BY <2>1
  <2>. QED BY <2>1, <2>2
<1>3. << >> \in Seq(Handler)
  BY EmptySeq
<1> HIDE DEF ts
<1>4. /\ freed \in PanelState /\ ~freed.transitioning /\ freed.handlers = << >>
      /\ freed.class = s.class
  BY <1>2, <1>3 DEF PanelState
<1>5. PanelEnded(s) = IF s.handlers = << >> THEN told ELSE PanelDone(freed, last)
  BY DEF PanelEnded, ts
<1>6. CASE s.handlers = << >>
  <2>1. DOMAIN s.handlers = {}
    BY <1>1, <1>6, LenProperties, EmptySeq
  <2>2. PanelEnded(s) = freed /\ freed.class # "collapsing"
    BY <1>4, <1>5, <1>6, <2>1
  <2> HIDE DEF freed
  <2>. QED BY <1>4, <2>2 DEF WillRest
<1>7. CASE s.handlers # << >>
  <2> HIDE DEF freed, last
  <2>1. PanelEnded(s) =
          [freed EXCEPT !.class = IF last.done = "opened" THEN "in" ELSE "closed",
                        !.transitioning = IF last.mine THEN FALSE ELSE freed.transitioning]
    BY <1>5, <1>7 DEF PanelDone
  <2>. QED BY <1>4, <2>1 DEF PanelState, WillRest
<1>. QED BY <1>6, <1>7

-----------------------------------------------------------------------------
(* The steps.                                                               *)

CollapseInv == CollapseTypeOK /\ PanelWillRest

LEMMA Each ==
  ASSUME CollapseInv, NEW p \in Panel
  PROVE  panel[p] \in PanelState /\ WillRest(panel[p])
BY DEF CollapseInv, CollapseTypeOK, PanelWillRest

\* In a step that changes p alone.
LEMMA OnePanel ==
  ASSUME CollapseInv, NEW p \in Panel, NEW s \in PanelState, WillRest(s),
         panel' = [panel EXCEPT ![p] = s], clicks' \in 0 .. MaxClicks
  PROVE  CollapseInv'
<1>1. panel' \in [Panel -> PanelState] /\ \A q \in Panel : WillRest(panel'[q])
  BY DEF CollapseInv, CollapseTypeOK, PanelWillRest
<1>. QED BY <1>1 DEF CollapseInv, CollapseTypeOK, PanelWillRest

LEMMA ClickPanelInv ==
  ASSUME CollapseInv, NEW p \in Panel, ClickPanel(p)
  PROVE  CollapseInv'
<1>1. clicks' \in 0 .. MaxClicks
  <2>1. clicks \in 0 .. MaxClicks /\ clicks < MaxClicks /\ clicks' = clicks + 1
    BY DEF CollapseInv, CollapseTypeOK, ClickPanel
  <2>. QED BY <2>1, CollapseAssumption
<1>2. CASE panel[p].class = "in"
  <2>1. panel' = [panel EXCEPT ![p] = PanelClosed(panel[p])]
    BY <1>2 DEF ClickPanel
  <2>. QED BY <1>1, <2>1, Each, PanelClosedOK, OnePanel
<1>3. CASE panel[p].class # "in"
  <2> DEFINE actives == {q \in Panel \ {p} : panel[q].class = "in"}
             first   == CHOOSE q \in actives : \A r \in actives : q <= r
             hasData == actives # {} /\ panel[first].data
             Other(q) == CASE q \notin actives -> panel[q]
                           [] q \in actives /\ hasData -> PanelClosed(panel[q])
                           [] OTHER -> Forgotten(PanelClosed(panel[q]))
  <2>1. panel' = IF hasData /\ panel[first].transitioning
                 THEN [panel EXCEPT ![p].data = TRUE]
                 ELSE [q \in Panel |-> IF q = p THEN PanelMoves(panel[q], "opened")
                                                ELSE Other(q)]
    BY <1>3 DEF ClickPanel, OpenPanel
  <2> HIDE DEF hasData, first, actives
  <2>2. CASE hasData /\ panel[first].transitioning
    <3> DEFINE s == [panel[p] EXCEPT !.data = TRUE]
    <3>1. s \in PanelState /\ WillRest(s)
      BY Each DEF PanelState, WillRest
    <3>2. panel' = [panel EXCEPT ![p] = s]
      BY <2>1, <2>2
    <3> HIDE DEF s
    <3>. QED BY <1>1, <3>1, <3>2, OnePanel
  <2>3. CASE ~(hasData /\ panel[first].transitioning)
    <3>1. panel' = [q \in Panel |-> IF q = p THEN PanelMoves(panel[q], "opened")
                                             ELSE Other(q)]
      BY <2>1, <2>3
    <3>2. ASSUME NEW q \in Panel PROVE Other(q) \in PanelState /\ WillRest(Other(q))
      <4>1. PanelClosed(panel[q]) \in PanelState /\ WillRest(PanelClosed(panel[q]))
        BY Each, PanelClosedOK
      <4>2. /\ Forgotten(PanelClosed(panel[q])) \in PanelState
            /\ WillRest(Forgotten(PanelClosed(panel[q])))
        BY <4>1, ForgottenOK
      <4>. QED BY <4>1, <4>2, Each
    <3> HIDE DEF Other
    <3>3. PanelMoves(panel[p], "opened") \in PanelState /\ WillRest(PanelMoves(panel[p], "opened"))
      BY Each, PanelMovesOK
    <3>4. panel' \in [Panel -> PanelState] /\ \A q \in Panel : WillRest(panel'[q])
      BY <3>1, <3>2, <3>3
    <3>. QED BY <1>1, <3>4 DEF CollapseInv, CollapseTypeOK, PanelWillRest
  <2>. QED BY <2>2, <2>3
<1>. QED BY <1>2, <1>3

LEMMA EndsInv ==
  ASSUME CollapseInv, NEW p \in Panel, PanelTransitionEnds(p)
  PROVE  CollapseInv'
<1> DEFINE e == PanelEnded(panel[p])
           s == [e EXCEPT !.moving = FALSE]
<1>1. e \in PanelState /\ WillRest(e)
  BY Each, PanelEndedOK DEF WillRest
<1>2. panel' = [panel EXCEPT ![p] = s] /\ clicks' \in 0 .. MaxClicks
  BY DEF PanelTransitionEnds, CollapseInv, CollapseTypeOK
<1> HIDE DEF e
<1>3. s \in PanelState /\ WillRest(s)
  BY <1>1 DEF PanelState, WillRest
<1> HIDE DEF s
<1>. QED BY <1>2, <1>3, OnePanel

\* A timer that has been told of the end is not the one a moving panel needs.
LEMMA TimerInv ==
  ASSUME CollapseInv, NEW p \in Panel, PanelTimerFires(p)
  PROVE  CollapseInv'
<1> DEFINE s == panel[p]
           t == [s EXCEPT !.timers = Tail(s.timers)]
<1>1. s \in PanelState /\ WillRest(s)
  BY Each
<1>2. /\ s.timers # << >> /\ clicks' \in 0 .. MaxClicks
      /\ panel' = [panel EXCEPT ![p] = IF Head(s.timers) THEN t ELSE PanelEnded(t)]
  BY DEF PanelTimerFires, CollapseInv, CollapseTypeOK
<1> HIDE DEF s
<1>3. s.timers \in Seq(BOOLEAN) /\ Tail(s.timers) \in Seq(BOOLEAN)
  BY <1>1, <1>2, HeadTailProperties DEF PanelState
<1>4. /\ t \in PanelState /\ t.handlers = s.handlers
      /\ t.transitioning = s.transitioning /\ t.class = s.class /\ t.timers = Tail(s.timers)
  BY <1>1, <1>3 DEF PanelState
<1>5. CASE Head(s.timers)
  <2>1. ASSUME NEW i \in DOMAIN s.timers, ~s.timers[i]
        PROVE  i - 1 \in DOMAIN Tail(s.timers) /\ ~Tail(s.timers)[i - 1]
    <3>1. i \in 1 .. Len(s.timers) /\ i # 1
      <4>1. i \in 1 .. Len(s.timers)
        BY <1>3, LenProperties
      <4>2. Head(s.timers) = s.timers[1]
        BY <1>2, <1>3, HeadIsFirst, Zenon
      <4>. QED BY <1>5, <2>1, <4>1, <4>2, Zenon
    <3>2. /\ Len(Tail(s.timers)) = Len(s.timers) - 1 /\ Len(s.timers) \in Nat
          /\ DOMAIN Tail(s.timers) = 1 .. Len(Tail(s.timers))
          /\ \A j \in 1 .. Len(Tail(s.timers)) : Tail(s.timers)[j] = s.timers[j + 1]
      BY <1>2, <1>3, HeadTailProperties, LenProperties
    <3>3. i - 1 \in 1 .. Len(Tail(s.timers)) /\ (i - 1) + 1 = i
      BY <3>1, <3>2
    <3>. QED BY <2>1, <3>2, <3>3
  <2>2. WillRest(t)
    BY <1>1, <1>4, <2>1 DEF WillRest
  <2>. QED BY <1>2, <1>4, <1>5, <2>2, OnePanel
<1>6. CASE ~Head(s.timers)
  <2>1. PanelEnded(t) \in PanelState /\ WillRest(PanelEnded(t))
    BY <1>1, <1>4, PanelEndedOK DEF WillRest
  <2>. QED BY <1>2, <1>6, <2>1, OnePanel
<1>. QED BY <1>5, <1>6

LEMMA CollapseBegins == CollapseInit => CollapseInv
<1> SUFFICES ASSUME CollapseInit PROVE CollapseInv
  OBVIOUS
<1>1. << >> \in Seq(Handler) /\ << >> \in Seq(BOOLEAN)
  BY EmptySeq
<1>2. \A p \in Panel : panel[p] \in PanelState /\ WillRest(panel[p])
  BY <1>1 DEF CollapseInit, PanelState, WillRest
<1>3. panel \in [Panel -> PanelState]
  BY <1>2 DEF CollapseInit
<1>. QED BY <1>2, <1>3, CollapseAssumption DEF CollapseInit, CollapseInv, CollapseTypeOK,
                                               PanelWillRest

LEMMA CollapseStep == CollapseInv /\ [CollapseNext]_collapseVars => CollapseInv'
<1> SUFFICES ASSUME CollapseInv, [CollapseNext]_collapseVars PROVE CollapseInv'
  OBVIOUS
<1>1. ASSUME NEW p \in Panel, ClickPanel(p) PROVE CollapseInv'
  BY <1>1, ClickPanelInv
<1>2. ASSUME NEW p \in Panel, PanelTransitionEnds(p) PROVE CollapseInv'
  BY <1>2, EndsInv
<1>3. ASSUME NEW p \in Panel, PanelTimerFires(p) PROVE CollapseInv'
  BY <1>3, TimerInv
<1>4. CASE UNCHANGED collapseVars
  BY <1>4 DEF collapseVars, CollapseInv, CollapseTypeOK, PanelWillRest
<1>. QED BY <1>1, <1>2, <1>3, <1>4 DEF CollapseNext

LEMMA CollapseHolds == CollapseInv => PanelWillRest
BY DEF CollapseInv

\* Every panel that moves has a handler that will end it and a timer that will call
\* the handler, whatever clicks on other panels did to it in the meantime.
THEOREM PanelsWillRest == CollapseSpec => []PanelWillRest
BY CollapseBegins, CollapseStep, CollapseHolds, PTL DEF CollapseSpec

-----------------------------------------------------------------------------
(* AmDropdown: what a dropdown takes for its state is what is displayed.        *)
DropState == [active : BOOLEAN, animating : BOOLEAN, shown : BOOLEAN,
              opening : BOOLEAN, closing : BOOLEAN]

\* What is animated is displayed, and only what is animated is closing.
DropOK(s) ==
  /\ ~s.animating => (s.shown <=> s.active)
  /\ s.closing => s.animating /\ DropAnimation
  /\ s.active => s.shown
  /\ s.animating => s.shown

DropInv == DropTypeOK /\ \A d \in Drop : DropOK(drop[d])

LEMMA DropHandlers ==
  ASSUME NEW s \in DropState, DropOK(s)
  PROVE  /\ DropOpen(s) \in DropState /\ DropOK(DropOpen(s))
         /\ DropClose(s) \in DropState /\ DropOK(DropClose(s))
         /\ DropToggle(s) \in DropState /\ DropOK(DropToggle(s))
<1>0. DropAnimation \in BOOLEAN
  BY DropdownAssumption
<1>1. DropOpen(s) \in DropState /\ DropOK(DropOpen(s))
  BY <1>0 DEF DropOpen, DropOpened, DropState, DropOK
<1>2. DropClose(s) \in DropState /\ DropOK(DropClose(s))
  BY <1>0 DEF DropClose, DropClosed, DropState, DropOK
<1>3. DropToggle(s) \in {s, DropOpen(s), DropClose(s)}
  BY DEF DropToggle
<1>. QED BY <1>1, <1>2, <1>3

LEMMA DropEnds ==
  ASSUME NEW s \in DropState, DropOK(s), s.animating
  PROVE  LET t == IF s.opening THEN DropOpened(s) ELSE s
             u == IF t.closing THEN [DropClosed(t) EXCEPT !.closing = FALSE] ELSE t
         IN  u \in DropState /\ DropOK(u)
BY DEF DropOpened, DropClosed, DropState, DropOK

LEMMA DropTypes ==
  ASSUME DropInv
  PROVE  /\ drop \in [Drop -> DropState] /\ presses \in 0 .. MaxPresses /\ MaxPresses \in Nat
         /\ \A d \in Drop : drop[d] \in DropState /\ DropOK(drop[d])
BY DropdownAssumption DEF DropInv, DropTypeOK, DropState

LEMMA PressCounted == ASSUME DropInv, Press PROVE presses' \in 0 .. MaxPresses
BY DropTypes DEF Press

LEMMA DropAll ==
  ASSUME drop' \in [Drop -> DropState], \A d \in Drop : DropOK(drop'[d]),
         presses' \in 0 .. MaxPresses
  PROVE  DropInv'
BY DEF DropInv, DropTypeOK, DropState, DropOK

LEMMA DropBegins == DropInit => DropInv
<1> SUFFICES ASSUME DropInit PROVE DropInv
  OBVIOUS
<1> DEFINE s == [active |-> FALSE, animating |-> FALSE, shown |-> FALSE,
                 opening |-> FALSE, closing |-> FALSE]
<1>1. s \in DropState /\ DropOK(s)
  BY DEF DropState, DropOK
<1>2. drop = [d \in Drop |-> s] /\ presses \in 0 .. MaxPresses
  BY DropdownAssumption DEF DropInit
<1> HIDE DEF s
<1>. QED BY <1>1, <1>2 DEF DropInv, DropTypeOK, DropState

LEMMA DropStep == DropInv /\ [DropNext]_dropVars => DropInv'
<1> SUFFICES ASSUME DropInv, [DropNext]_dropVars PROVE DropInv'
  OBVIOUS
<1>1. CASE UNCHANGED dropVars
  BY <1>1 DEF dropVars, DropInv, DropTypeOK, DropOK
<1>2. ASSUME NEW d \in Drop, ClickToggle(d) PROVE DropInv'
  <2>1. drop' = [e \in Drop |-> IF e = d THEN DropToggle(drop[e]) ELSE DropClose(drop[e])]
    BY <1>2 DEF ClickToggle
  <2>2. presses' \in 0 .. MaxPresses
    BY <1>2, PressCounted DEF ClickToggle
  <2>3. \A e \in Drop : drop'[e] \in DropState /\ DropOK(drop'[e])
    BY <2>1, DropTypes, DropHandlers
  <2>. QED BY <2>1, <2>2, <2>3, DropAll
<1>3. ASSUME ClickOutside PROVE DropInv'
  <2>1. drop' = [e \in Drop |-> DropClose(drop[e])]
    BY <1>3 DEF ClickOutside
  <2>2. presses' \in 0 .. MaxPresses
    BY <1>3, PressCounted DEF ClickOutside
  <2>3. \A e \in Drop : drop'[e] \in DropState /\ DropOK(drop'[e])
    BY <2>1, DropTypes, DropHandlers
  <2>. QED BY <2>1, <2>2, <2>3, DropAll
<1>6. ASSUME NEW d \in Drop, ClickInside(d) PROVE DropInv'
  <2>1. drop' = [e \in Drop |-> IF e = d THEN drop[e] ELSE DropClose(drop[e])]
    BY <1>6 DEF ClickInside
  <2>2. presses' \in 0 .. MaxPresses
    BY <1>6, PressCounted DEF ClickInside
  <2>3. \A e \in Drop : drop'[e] \in DropState /\ DropOK(drop'[e])
    BY <2>1, DropTypes, DropHandlers
  <2>. QED BY <2>1, <2>2, <2>3, DropAll
<1>4. ASSUME NEW d \in Drop, CallOpen(d) PROVE DropInv'
  <2>1. drop' = [drop EXCEPT ![d] = DropOpen(@)] /\ presses' \in 0 .. MaxPresses
    BY <1>4, PressCounted DEF CallOpen
  <2>2. DropOpen(drop[d]) \in DropState /\ DropOK(DropOpen(drop[d]))
    BY DropTypes, DropHandlers
  <2>. QED BY <2>1, <2>2, DropTypes, DropAll
<1>5. ASSUME NEW d \in Drop, AnimationEnds(d) PROVE DropInv'
  <2> DEFINE s == drop[d]
             t == IF s.opening THEN DropOpened(s) ELSE s
             u == IF t.closing THEN [DropClosed(t) EXCEPT !.closing = FALSE] ELSE t
  <2>1. drop' = [drop EXCEPT ![d] = u] /\ s.animating /\ presses' = presses
    BY <1>5 DEF AnimationEnds
  <2>2. u \in DropState /\ DropOK(u)
    <3>1. s \in DropState /\ DropOK(s) /\ s.animating
      BY <2>1, DropTypes
    <3> HIDE DEF s
    <3>. QED BY <3>1, DropEnds
  <2> HIDE DEF u
  <2>. QED BY <2>1, <2>2, DropTypes, DropAll
<1>. QED BY <1>1, <1>2, <1>3, <1>4, <1>5, <1>6 DEF DropNext

LEMMA DropHolds == DropInv => DropsAgree
<1> SUFFICES ASSUME DropInv, NEW d \in Drop
             PROVE  /\ ~drop[d].animating => drop[d].shown = drop[d].active
                    /\ drop[d].closing => drop[d].animating
                    /\ drop[d].active => drop[d].shown
  BY DEF DropsAgree
<1>1. drop[d] \in DropState /\ DropOK(drop[d])
  BY DropTypes
<1>. QED BY <1>1 DEF DropState, DropOK

THEOREM DropdownsAgree == DropSpec => []DropsAgree
BY DropBegins, DropStep, DropHolds, PTL DEF DropSpec

-----------------------------------------------------------------------------
(* AmSelected: what the list shows is what the form will submit. Every step of   *)
(* a selector is one of its dropdown, or leaves the dropdowns alone.             *)

MarksAgree ==
  /\ \A i \in Item \ foreign : Same(i) = {i} => (i \in checked <=> i \in selected)
  /\ ~multiple => \E i \in Item :
       checked = {i} /\ (foreign = {} => \E j \in Same(i) : selected = {j})

ListAgrees ==
  /\ ~searching => listed = Matching(searched)
  /\ ~drop[Selector].shown => searched = NoWord /\ listed = Item

SelectedInv == SelectedTypeOK /\ MarksAgree /\ ListAgrees

LEMMA WordTypes ==
  /\ Selector \in Drop
  /\ \A word \in DOMAIN Finds \cup {NoWord} : Matching(word) \subseteq Item
  /\ NoWord \notin DOMAIN Finds /\ Matching(NoWord) = Item
BY SelectedAssumption DEF Matching

\* Setting an option's value selects the options that have it, and leaves those with
\* other values alone where several can be selected.
LEMMA ValueSet ==
  ASSUME NEW i \in Item, NEW given \in SUBSET Item, NEW new \in WithValueOf(i, given)
  PROVE  /\ new \subseteq Item
         /\ multiple => new = given \cup Same(i)
         /\ ~multiple => \E j \in Same(i) : new = {j}
BY DEF WithValueOf, Same

LEMMA SelectedBegins == SelectedInit => DropInv /\ SelectedInv
<1> SUFFICES ASSUME SelectedInit PROVE SelectedInv
  BY DropBegins DEF SelectedInit
<1>1. /\ multiple \in BOOLEAN /\ foreign = {} /\ searched = NoWord /\ listed = Item
      /\ searching = FALSE
  BY DEF SelectedInit
<1>2. CASE multiple
  <2>1. checked \in SUBSET Item /\ selected = UNION {Same(i) : i \in checked}
    BY <1>2 DEF SelectedInit
  <2>2. selected \subseteq Item
    BY <2>1 DEF Same
  <2>3. \A i \in Item : Same(i) = {i} => (i \in checked <=> i \in selected)
    BY <2>1 DEF Same
  <2>. QED BY <1>1, <1>2, <2>1, <2>2, <2>3, WordTypes DEF SelectedInv, SelectedTypeOK, MarksAgree, ListAgrees
<1>3. CASE ~multiple
  <2>1. PICK i \in Item : checked = {i} /\ selected \in WithValueOf(i, {})
    BY <1>3 DEF SelectedInit
  <2>2. selected \subseteq Item /\ \E j \in Same(i) : selected = {j}
    BY <1>3, <2>1, ValueSet
  <2>3. \A k \in Item : Same(k) = {k} => (k \in checked <=> k \in selected)
    BY <2>1, <2>2 DEF Same
  <2>. QED BY <1>1, <1>3, <2>1, <2>2, <2>3, WordTypes DEF SelectedInv, SelectedTypeOK, MarksAgree, ListAgrees
<1>. QED BY <1>1, <1>2, <1>3

\* The end of the search with the dropdown.
LEMMA ClearedOK ==
  ASSUME SelectedInv, SearchCleared, searching' = searching
  PROVE  ListAgrees' /\ listed' \subseteq Item /\ searched' \in DOMAIN Finds \cup {NoWord}
BY WordTypes DEF SelectedInv, SelectedTypeOK, ListAgrees, SearchCleared, Matching

LEMMA ClickItemInv ==
  ASSUME SelectedInv, NEW i \in Item, ClickItem(i)
  PROVE  SelectedInv'
<1>0. /\ multiple \in BOOLEAN /\ checked \subseteq Item /\ selected \subseteq Item
      /\ foreign \subseteq Item /\ multiple' = multiple /\ searching' = searching /\ SearchCleared
      /\ searching \in BOOLEAN
  BY DEF SelectedInv, SelectedTypeOK, ClickItem
<1>1. ListAgrees' /\ listed' \subseteq Item /\ searched' \in DOMAIN Finds \cup {NoWord}
  BY <1>0, ClearedOK
<1>2. CASE multiple
  <2>1. /\ checked' = IF i \in checked THEN checked \ {i} ELSE checked \cup {i}
        /\ foreign' = foreign \ Same(i)
    BY <1>2 DEF ClickItem
  <2>2. selected' = IF i \in checked THEN selected \ Same(i) ELSE selected \cup Same(i)
    BY <1>0, <1>2, ValueSet DEF ClickItem
  <2>3. checked' \subseteq Item /\ selected' \subseteq Item /\ foreign' \subseteq Item
    BY <1>0, <2>1, <2>2 DEF Same
  <2>4. ASSUME NEW k \in Item \ foreign', Same(k) = {k}
        PROVE  k \in checked' <=> k \in selected'
    <3>1. CASE k = i
      BY <2>1, <2>2, <2>4, <3>1
    <3>2. CASE k # i
      <4>1. k \notin Same(i)
        BY <2>4, <3>2 DEF Same
      <4>2. k \in checked <=> k \in selected
        BY <2>1, <2>4, <4>1 DEF SelectedInv, MarksAgree
      <4>. QED BY <2>1, <2>2, <3>2, <4>1, <4>2
    <3>. QED BY <3>1, <3>2
  <2>5. MarksAgree'
    BY <1>0, <1>2, <2>4 DEF MarksAgree, Same
  <2>. QED BY <1>0, <1>1, <2>3, <2>5 DEF SelectedInv, SelectedTypeOK
<1>3. CASE ~multiple /\ i \in checked
  <2>1. UNCHANGED <<checked, selected, foreign>>
    BY <1>3 DEF ClickItem
  <2>2. MarksAgree'
    BY <1>0, <2>1 DEF SelectedInv, MarksAgree, Same
  <2>. QED BY <1>0, <1>1, <2>1, <2>2 DEF SelectedInv, SelectedTypeOK
<1>4. CASE ~multiple /\ i \notin checked
  <2>1. checked' = {i} /\ selected' \in WithValueOf(i, selected) /\ foreign' = {}
    BY <1>4 DEF ClickItem
  <2>2. PICK j \in Same(i) : selected' = {j}
    BY <1>0, <1>4, <2>1, ValueSet
  <2>3. selected' \subseteq Item
    BY <2>2 DEF Same
  <2>4. ASSUME NEW k \in Item, Same(k) = {k}
        PROVE  k \in checked' <=> k \in selected'
    BY <2>1, <2>2, <2>4 DEF Same
  <2>5. MarksAgree'
    BY <1>0, <2>1, <2>2, <2>4 DEF MarksAgree, Same
  <2>. QED BY <1>0, <1>1, <2>1, <2>3, <2>5 DEF SelectedInv, SelectedTypeOK
<1>. QED BY <1>0, <1>2, <1>3, <1>4

LEMMA ScriptSelectsInv ==
  ASSUME SelectedInv, NEW given \in SUBSET Item, ScriptSelects(given)
  PROVE  SelectedInv'
<1>1. /\ selected' = given
      /\ foreign' = foreign \cup (selected \ given) \cup (given \ selected)
      /\ UNCHANGED <<drop, multiple, checked, searched, listed, searching>>
  BY DEF ScriptSelects, searchVars
<1>2. SelectedTypeOK'
  BY <1>1 DEF SelectedInv, SelectedTypeOK
<1>3. ListAgrees'
  BY <1>1 DEF SelectedInv, ListAgrees, Matching
<1>4. MarksAgree'
  <2>1. ASSUME NEW k \in Item \ foreign', Same(k) = {k}
        PROVE  k \in checked' <=> k \in selected'
    BY <1>1, <2>1 DEF SelectedInv, MarksAgree
  <2>2. ASSUME ~multiple
        PROVE  \E i \in Item :
                 checked' = {i} /\ (foreign' = {} => \E j \in Same(i) : selected' = {j})
    <3>1. PICK i \in Item : checked = {i} /\ (foreign = {} => \E j \in Same(i) : selected = {j})
      BY <2>2 DEF SelectedInv, MarksAgree
    <3>2. foreign' = {} => foreign = {} /\ selected' = selected
      BY <1>1
    <3>. QED BY <1>1, <3>1, <3>2
  <2>. QED BY <1>1, <2>1, <2>2 DEF MarksAgree, Same
<1>. QED BY <1>2, <1>3, <1>4 DEF SelectedInv

LEMMA SearchInv ==
  ASSUME SelectedInv, (\E word \in DOMAIN Finds \cup {NoWord} : SearchKey(word)) \/ SearchFires
  PROVE  SelectedInv'
<1>0. UNCHANGED <<drop, multiple, checked, selected, foreign>>
  BY DEF SearchKey, SearchFires, markVars, dropVars
<1>1. MarksAgree'
  BY <1>0 DEF SelectedInv, MarksAgree, Same
<1>2. CASE SearchFires
  <2>1. searching' = FALSE /\ listed' = Matching(searched) /\ searched' = searched
    BY <1>2 DEF SearchFires
  <2>2. SelectedTypeOK'
    BY <1>0, <2>1, WordTypes DEF SelectedInv, SelectedTypeOK
  <2>3. ListAgrees'
    BY <1>0, <2>1, WordTypes DEF SelectedInv, ListAgrees, Matching
  <2>. QED BY <1>1, <2>2, <2>3 DEF SelectedInv
<1>3. ASSUME NEW word \in DOMAIN Finds \cup {NoWord}, SearchKey(word) PROVE SelectedInv'
  <2>1. /\ searching' = TRUE /\ listed' = listed /\ searched' = word
        /\ drop[Selector].shown
    BY <1>3 DEF SearchKey
  <2>2. SelectedTypeOK'
    BY <1>0, <2>1 DEF SelectedInv, SelectedTypeOK
  <2>3. ListAgrees'
    BY <1>0, <2>1 DEF ListAgrees
  <2>. QED BY <1>1, <2>2, <2>3 DEF SelectedInv
<1>. QED BY <1>2, <1>3

LEMMA DropdownMovesInv ==
  ASSUME SelectedInv, DropdownMoves
  PROVE  SelectedInv'
<1>0. UNCHANGED <<multiple, checked, selected, foreign, searching>> /\ SearchCleared
  BY DEF DropdownMoves, markVars
<1>1. ListAgrees' /\ listed' \subseteq Item /\ searched' \in DOMAIN Finds \cup {NoWord}
  BY <1>0, ClearedOK
<1>2. MarksAgree'
  BY <1>0 DEF SelectedInv, MarksAgree, Same
<1>. QED BY <1>0, <1>1, <1>2 DEF SelectedInv, SelectedTypeOK

\* Of its dropdown, a selector makes only steps that dropdowns make.
LEMMA DropOfSelected ==
  ASSUME DropInv, SelectedNext
  PROVE  DropInv'
<1>1. CASE DropdownMoves
  BY <1>1, DropStep DEF DropdownMoves
<1>2. ASSUME NEW i \in Item, ClickItem(i) PROVE DropInv'
  <2>1. ClickInside(Selector) \/ ClickOutside
    BY <1>2 DEF ClickItem
  <2>. QED BY <2>1, DropStep, WordTypes DEF DropNext
<1>3. ASSUME Press, drop' = drop PROVE DropInv'
  BY <1>3, PressCounted, DropTypes, DropAll
<1>4. CASE SearchFires
  BY <1>4, DropStep DEF SearchFires
<1>. QED BY <1>1, <1>2, <1>3, <1>4 DEF SelectedNext, SearchKey, ScriptSelects

LEMMA SelectedStep ==
  DropInv /\ SelectedInv /\ [SelectedNext]_selectedVars => (DropInv /\ SelectedInv)'
<1> SUFFICES ASSUME DropInv, SelectedInv, [SelectedNext]_selectedVars
             PROVE  DropInv' /\ SelectedInv'
  OBVIOUS
<1>1. CASE UNCHANGED selectedVars
  <2>1. UNCHANGED <<drop, presses, multiple, checked, selected, foreign, searched, listed, searching>>
    BY <1>1 DEF selectedVars, dropVars, markVars, searchVars
  <2>2. DropInv'
    BY <2>1, DropStep DEF dropVars
  <2>. QED BY <2>1, <2>2 DEF SelectedInv, SelectedTypeOK, MarksAgree, ListAgrees, Same, Matching
<1>2. CASE SelectedNext
  <2>1. SelectedInv'
    BY <1>2, DropdownMovesInv, ClickItemInv, SearchInv, ScriptSelectsInv DEF SelectedNext
  <2>. QED BY <1>2, <2>1, DropOfSelected
<1>. QED BY <1>1, <1>2

LEMMA SelectedHolds == SelectedInv => SelectionAgrees
BY DEF SelectedInv, MarksAgree, ListAgrees, SelectionAgrees

THEOREM SelectorAlwaysAgrees == SelectedSpec => []SelectionAgrees
BY SelectedBegins, SelectedStep, SelectedHolds, PTL DEF SelectedSpec

-----------------------------------------------------------------------------
(* AmButton: marks and boxes agree, and of radios one is on at most; and the    *)
(* last timer of setState() to run is that of the text shown.                   *)

One(S) == \A a, b \in S : a = b

GroupAgrees ==
  /\ \A b \in Button \ byItself : b \in pressed <=> b \in ticked
  /\ radio => One(pressed) /\ One(ticked)

LoadingAgrees ==
  /\ isLoading = disabled
  /\ IF resumes = <<>> THEN disabled <=> label = "loading"
     ELSE label = resumes[Len(resumes)]

ButtonInv == ButtonTypeOK /\ GroupAgrees /\ LoadingAgrees

LEMMA ButtonBegins == ButtonInit => ButtonInv
<1> SUFFICES ASSUME ButtonInit PROVE ButtonInv
  OBVIOUS
<1>1. resumes \in Seq(LoadState)
  BY EmptySeq DEF ButtonInit
<1>2. ButtonTypeOK
  <2>1. toggles \in 0 .. MaxToggles
    BY ButtonAssumption DEF ButtonInit
  <2>2. label \in LoadState /\ pressed = {} /\ ticked = {} /\ byItself = {}
    BY DEF ButtonInit, LoadState
  <2>3. radio \in BOOLEAN /\ disabled \in BOOLEAN /\ isLoading \in BOOLEAN
    BY DEF ButtonInit
  <2>. QED BY <1>1, <2>1, <2>2, <2>3 DEF ButtonTypeOK
<1>3. GroupAgrees
  BY DEF ButtonInit, GroupAgrees, One
<1>4. LoadingAgrees
  BY DEF ButtonInit, LoadingAgrees
<1>. QED BY <1>2, <1>3, <1>4 DEF ButtonInv

LEMMA ToggleCounted == ASSUME ButtonTypeOK, ToggleCount PROVE toggles' \in 0 .. MaxToggles
BY ButtonAssumption DEF ButtonTypeOK, ToggleCount

LEMMA ClickButtonInv ==
  ASSUME ButtonInv, NEW b \in Button, ClickButton(b)
  PROVE  ButtonInv'
<1>1. LoadingAgrees'
  BY DEF ButtonInv, LoadingAgrees, ClickButton, loadingVars
<1>2. CASE radio
  <2>1. \/ UNCHANGED <<pressed, ticked>> /\ b \in pressed /\ b \in ticked
        \/ pressed' = {b} /\ ticked' = {b}
    BY <1>2 DEF ClickButton, Toggled
  <2>2. byItself' = {} /\ radio' = radio
    BY <1>2 DEF ClickButton
  <2>3. One(pressed) /\ One(ticked) /\ pressed \subseteq Button
    BY <1>2 DEF ButtonInv, ButtonTypeOK, GroupAgrees
  <2>4. pressed' = {b} /\ ticked' = {b}
    BY <2>1, <2>3 DEF One
  <2>5. GroupAgrees'
    BY <2>2, <2>4 DEF GroupAgrees, One
  <2>. QED BY <1>1, <2>2, <2>4, <2>5, ToggleCounted DEF ButtonInv, ButtonTypeOK, ClickButton, loadingVars
<1>3. CASE ~radio
  <2>1. \/ b \in pressed /\ pressed' = pressed \ {b} /\ ticked' = ticked \ {b}
        \/ b \notin pressed /\ pressed' = pressed \cup {b} /\ ticked' = ticked \cup {b}
    BY <1>3 DEF ClickButton, Toggled
  <2>2. byItself' = byItself \ {b} /\ radio' = radio
    BY <1>3 DEF ClickButton
  <2>3. GroupAgrees'
    BY <1>3, <2>1, <2>2 DEF ButtonInv, GroupAgrees
  <2>4. pressed' \subseteq Button /\ ticked' \subseteq Button /\ byItself' \subseteq Button
    BY <2>1, <2>2 DEF ButtonInv, ButtonTypeOK
  <2>. QED BY <1>1, <2>2, <2>3, <2>4, ToggleCounted DEF ButtonInv, ButtonTypeOK, ClickButton, loadingVars
<1>4. radio \in BOOLEAN
  BY DEF ButtonInv, ButtonTypeOK
<1>. QED BY <1>2, <1>3, <1>4

LEMMA ClickBoxInv ==
  ASSUME ButtonInv, NEW b \in Button, ClickBox(b)
  PROVE  ButtonInv'
<1>1. LoadingAgrees'
  BY DEF ButtonInv, LoadingAgrees, ClickBox, loadingVars
<1>2. radio' = radio /\ ticked' = ticked
  BY DEF ClickBox
<1>3. byItself' = byItself \cup {b} \cup IF radio THEN pressed ELSE {}
  BY DEF ClickBox
<1>4. CASE radio
  <2>1. pressed' = pressed \/ pressed' = {b}
    BY <1>4 DEF ClickBox, Toggled
  <2>2. One(pressed') /\ One(ticked') /\ pressed' \subseteq Button
    BY <1>2, <1>4, <2>1 DEF ButtonInv, ButtonTypeOK, GroupAgrees, One
  <2>3. GroupAgrees'
    BY <1>2, <1>3, <1>4, <2>1, <2>2 DEF ButtonInv, GroupAgrees
  <2>. QED BY <1>1, <1>2, <1>3, <1>4, <2>2, <2>3, ToggleCounted
           DEF ButtonInv, ButtonTypeOK, ClickBox, loadingVars
<1>5. CASE ~radio
  <2>1. pressed' = pressed \ {b} \/ pressed' = pressed \cup {b}
    BY <1>5 DEF ClickBox, Toggled
  <2>2. GroupAgrees'
    BY <1>2, <1>3, <1>5, <2>1 DEF ButtonInv, GroupAgrees
  <2>. QED BY <1>1, <1>2, <1>3, <1>5, <2>1, <2>2, ToggleCounted
           DEF ButtonInv, ButtonTypeOK, ClickBox, loadingVars
<1>6. radio \in BOOLEAN
  BY DEF ButtonInv, ButtonTypeOK
<1>. QED BY <1>4, <1>5, <1>6

LEMMA SetStateInv ==
  ASSUME ButtonInv, NEW state \in LoadState, SetState(state)
  PROVE  ButtonInv'
<1> DEFINE new == Append(resumes, state)
<1>1. resumes \in Seq(LoadState)
  BY DEF ButtonInv, ButtonTypeOK
<1>2. new \in Seq(LoadState) /\ new # <<>> /\ new[Len(new)] = state
  BY <1>1, AppendProperties
<1> HIDE DEF new
<1>3. resumes' = new /\ label' = state /\ UNCHANGED <<radio, pressed, ticked, byItself, disabled, isLoading>>
  BY DEF SetState, groupVars, new
<1>4. GroupAgrees'
  BY <1>3 DEF ButtonInv, GroupAgrees
<1>5. LoadingAgrees'
  BY <1>2, <1>3 DEF ButtonInv, LoadingAgrees
<1>6. ToggleCount
  BY DEF SetState
<1>. QED BY <1>2, <1>3, <1>4, <1>5, <1>6, ToggleCounted DEF ButtonInv, ButtonTypeOK

LEMMA ResumeStateInv == ASSUME ButtonInv, ResumeState PROVE ButtonInv'
<1> DEFINE rest == Tail(resumes)
<1>1. resumes \in Seq(LoadState) /\ resumes # <<>>
  BY DEF ButtonInv, ButtonTypeOK, ResumeState
<1>2. rest \in Seq(LoadState)
  BY <1>1
<1>3. rest # <<>> => rest[Len(rest)] = resumes[Len(resumes)]
  BY <1>1
<1>4. rest = <<>> => Head(resumes) = resumes[Len(resumes)]
  <2>1. Len(rest) = Len(resumes) - 1 /\ Len(resumes) \in Nat
    BY <1>1, HeadTailProperties
  <2>2. Head(resumes) = resumes[1]
    BY <1>1
  <2>3. rest = <<>> => Len(rest) = 0
    BY EmptySeq
  <2>4. rest = <<>> => Len(resumes) = 1
    BY <2>1, <2>3
  <2>. HIDE DEF rest
  <2>. QED BY <2>2, <2>4
<1>5. Head(resumes) \in LoadState
  BY <1>1
<1> HIDE DEF rest
<1>6. resumes' = rest /\ UNCHANGED <<radio, pressed, ticked, byItself, label, toggles>>
  BY DEF ResumeState, groupVars, rest
<1>7. /\ isLoading' = disabled'
      /\ disabled' <=> Head(resumes) = "loading"
      /\ disabled' \in BOOLEAN
  <2>1. isLoading = disabled /\ isLoading \in BOOLEAN
    BY DEF ButtonInv, ButtonTypeOK, LoadingAgrees
  <2>2. CASE Head(resumes) = "loading"
    BY <2>2 DEF ResumeState
  <2>3. CASE Head(resumes) # "loading" /\ isLoading
    BY <2>3 DEF ResumeState
  <2>4. CASE Head(resumes) # "loading" /\ ~isLoading
    BY <2>1, <2>4 DEF ResumeState
  <2>. QED BY <2>1, <2>2, <2>3, <2>4
<1>8. GroupAgrees'
  BY <1>6 DEF ButtonInv, GroupAgrees
<1>9. LoadingAgrees'
  <2>1. label = resumes[Len(resumes)]
    BY <1>1 DEF ButtonInv, LoadingAgrees
  <2>. QED BY <1>3, <1>4, <1>6, <1>7, <2>1 DEF LoadingAgrees
<1>. QED BY <1>2, <1>6, <1>7, <1>8, <1>9 DEF ButtonInv, ButtonTypeOK

LEMMA ButtonStep == ButtonInv /\ [ButtonNext]_buttonVars => ButtonInv'
<1> SUFFICES ASSUME ButtonInv, [ButtonNext]_buttonVars PROVE ButtonInv'
  OBVIOUS
<1>1. CASE UNCHANGED buttonVars
  BY <1>1 DEF ButtonInv, ButtonTypeOK, GroupAgrees, LoadingAgrees, buttonVars, groupVars, loadingVars
<1>2. CASE ButtonNext
  BY <1>2, ClickButtonInv, ClickBoxInv, SetStateInv, ResumeStateInv DEF ButtonNext
<1>. QED BY <1>1, <1>2

LEMMA ButtonHolds == ButtonInv => ButtonsAgree
BY DEF ButtonInv, GroupAgrees, LoadingAgrees, ButtonsAgree, One

\* A group of buttons shows the boxes that the form will send, and a button made to
\* load is disabled exactly while it says so, once the timers are over.
THEOREM ButtonsAlwaysAgree == ButtonSpec => []ButtonsAgree
BY ButtonBegins, ButtonStep, ButtonHolds, PTL DEF ButtonSpec

-----------------------------------------------------------------------------
(* AmNavbar: the bar and the list are the items in their order, cut in two.     *)

\* A bar n and a list a that are complete, and a bar that is full beside its link.
Complete(n, a) == n \in Seq(NavItem) /\ a \in Seq(NavItem) /\ n \o a = AllItems
Full(bar) ==
  /\ Complete(bar.inBar, bar.actions) /\ Len(bar.inBar) = suite - 1
  /\ bar.more = "shown"

NavbarAtRest == ~checking /\ (resizes > 0 \/ more # "absent")
FullNow == IF suite >= NavItems THEN inBar = AllItems /\ more # "shown"
           ELSE Len(inBar) = suite - 1 /\ more = "shown"

NavbarInv == NavbarTypeOK /\ inBar \o actions = AllItems /\ (NavbarAtRest => FullNow)

LEMMA AllItemsSeq == AllItems \in Seq(NavItem) /\ Len(AllItems) = NavItems
<1>1. NavItems \in Nat
  BY NavbarAssumption
<1>2. AllItems \in [1 .. NavItems -> NavItem]
  BY DEF AllItems, NavItem
<1>3. AllItems \in Seq(NavItem)
  BY <1>1, <1>2
<1>. QED BY <1>1, <1>2, <1>3, LenProperties

\* To cut a sequence loses nothing.
LEMMA Cut ==
  ASSUME NEW s \in Seq(NavItem), NEW k \in Nat, k <= Len(s)
  PROVE  /\ First(s, k) \in Seq(NavItem) /\ After(s, k) \in Seq(NavItem)
         /\ First(s, k) \o After(s, k) = s
         /\ Len(First(s, k)) = k
<1>1. Len(s) \in Nat /\ \A i \in 1 .. Len(s) : s[i] \in NavItem
  BY ElementOfSeq
<1>2. First(s, k) = SubSeq(s, 1, k)
  BY <1>1 DEF First
<1>3. SubSeq(s, 1, k) \in Seq(NavItem) /\ Len(SubSeq(s, 1, k)) = k
  <2>1. \A i \in 1 .. k : s[i] \in NavItem
    BY <1>1
  <2>2. 1 \in Int /\ k \in Int
    OBVIOUS
  <2>. QED BY <2>1, <2>2, SubSeqProperties
<1>4. After(s, k) \in Seq(NavItem)
  <2>1. \A i \in k + 1 .. Len(s) : s[i] \in NavItem
    BY <1>1
  <2>2. k + 1 \in Int /\ Len(s) \in Int
    BY <1>1
  <2>. QED BY <2>1, <2>2, SubSeqProperties DEF After
<1>5. SubSeq(s, 1, k) \o SubSeq(s, k + 1, Len(s)) = SubSeq(s, 1, Len(s))
  <2>1. 1 \in 1 .. Len(s) + 1 /\ k \in 1 - 1 .. Len(s) /\ Len(s) \in k .. Len(s)
    BY <1>1
  <2>. QED BY <2>1, ConcatAdjacentSubSeq
<1>6. SubSeq(s, 1, Len(s)) = s
  BY SubSeqFull
<1>. QED BY <1>2, <1>3, <1>4, <1>5, <1>6 DEF After

LEMMA Associative == \A s, t, u \in Seq(NavItem) : (s \o t) \o u = s \o (t \o u)
BY ConcatAssociative

LEMMA SplitFull ==
  ASSUME suite \in Suites, suite < NavItems
  PROVE  Full(Split(suite))
<1> DEFINE k == suite - 1
<1>1. k \in Nat /\ k <= Len(AllItems)
  BY NavbarAssumption, AllItemsSeq
<1>2. Split(suite) = Put(First(AllItems, k), After(AllItems, k))
  BY DEF Split
<1> HIDE DEF k
<1>3. Complete(First(AllItems, k), After(AllItems, k)) /\ Len(First(AllItems, k)) = k
  BY <1>1, AllItemsSeq, Cut DEF Complete
<1>. QED BY <1>2, <1>3 DEF Full, Put, k

LEMMA FitFull ==
  ASSUME NEW n, NEW a, Complete(n, a), suite \in Suites, suite < NavItems
  PROVE  Full(Fit(Put(n, a)))
<1> DEFINE bar == Put(n, a)
           lis == Len(n) + 1
<1>1. n \in Seq(NavItem) /\ a \in Seq(NavItem) /\ n \o a = AllItems
  BY DEF Complete
<1>2. Len(n) \in Nat /\ Len(a) \in Nat /\ Len(n \o a) = Len(n) + Len(a)
  BY <1>1, ConcatProperties
<1>3. Len(n) + Len(a) = NavItems
  BY <1>1, <1>2, AllItemsSeq
<1>4. suite \in Nat /\ suite > 0 /\ NavItems \in Nat
  BY NavbarAssumption
<1>5. CASE lis < suite
  <2> DEFINE k == suite - lis
             h == First(a, k)
             t == After(a, k)
  <2>1. k \in Nat /\ k <= Len(a)
    BY <1>2, <1>3, <1>4, <1>5
  <2>2. Fit(bar) = Put(n \o h, t)
    BY <1>2, <1>4, <1>5 DEF Fit, Put
  <2>3. Len(n) + k = suite - 1
    BY <1>2, <1>4
  <2> HIDE DEF k
  <2>4. h \in Seq(NavItem) /\ t \in Seq(NavItem) /\ h \o t = a /\ Len(h) = k
    BY <1>1, <2>1, Cut
  <2> HIDE DEF h, t
  <2>5. (n \o h) \o t = n \o (h \o t)
    <3>1. n \in Seq(NavItem) /\ h \in Seq(NavItem) /\ t \in Seq(NavItem)
      BY <1>1, <2>4
    <3>. QED BY <3>1, Associative
  <2>6. (n \o h) \o t = AllItems
    BY <1>1, <2>4, <2>5
  <2>7. n \o h \in Seq(NavItem) /\ Len(n \o h) = Len(n) + k
    BY <1>1, <2>4, ConcatProperties
  <2>8. Complete(n \o h, t)
    BY <2>4, <2>6, <2>7 DEF Complete
  <2>9. Len(n \o h) = suite - 1
    BY <2>3, <2>7
  <2> DEFINE m == n \o h
  <2>10. Fit(bar) = Put(m, t) /\ Complete(m, t)
         /\ Len(m) = suite - 1
    BY <2>2, <2>8, <2>9
  <2> HIDE DEF m
  <2>. QED BY <2>10 DEF Full, Put
<1>6. CASE lis > suite
  <2> DEFINE k == suite - 1
             h == First(n, k)
             t == After(n, k)
  <2>1. k \in Nat /\ k <= Len(n) /\ ~(lis < suite)
    BY <1>2, <1>4, <1>6
  <2>2. Fit(bar) = Put(h, t \o a)
    BY <1>6, <2>1 DEF Fit, Put
  <2> HIDE DEF k
  <2>3. h \in Seq(NavItem) /\ t \in Seq(NavItem) /\ h \o t = n /\ Len(h) = k
    BY <1>1, <2>1, Cut
  <2> HIDE DEF h, t
  <2>4. (h \o t) \o a = h \o (t \o a)
    <3>1. h \in Seq(NavItem) /\ t \in Seq(NavItem) /\ a \in Seq(NavItem)
      BY <1>1, <2>3
    <3>. QED BY <3>1, Associative
  <2>5. t \o a \in Seq(NavItem)
    BY <1>1, <2>3, ConcatProperties
  <2>6. h \o (t \o a) = AllItems
    BY <1>1, <2>3, <2>4
  <2>7. Complete(h, t \o a)
    BY <2>3, <2>5, <2>6 DEF Complete
  <2> DEFINE m == t \o a
  <2>8. Fit(bar) = Put(h, m) /\ Complete(h, m)
        /\ Len(h) = suite - 1
    BY <2>2, <2>3, <2>7 DEF k
  <2> HIDE DEF m
  <2>. QED BY <2>8 DEF Full, Put
<1>7. CASE lis = suite
  <2>1. Fit(bar) = bar
    BY <1>2, <1>4, <1>7 DEF Fit, Put
  <2>2. Len(n) = suite - 1
    BY <1>2, <1>4, <1>7
  <2>. QED BY <2>1, <2>2 DEF Full, Put
<1>. QED BY <1>2, <1>4, <1>5, <1>6, <1>7

\* What is left to show of a bar once its parts are known.
LEMMA NavbarKept ==
  ASSUME suite' \in Suites, checking' \in BOOLEAN, resizes' \in 0 .. MaxResizes,
         more' \in {"absent", "shown", "hidden"},
         Complete(inBar', actions'), NavbarAtRest' => FullNow'
  PROVE  NavbarInv'
BY DEF NavbarInv, NavbarTypeOK, Complete

LEMMA NavbarBegins == NavbarInit => NavbarInv
<1> SUFFICES ASSUME NavbarInit PROVE NavbarInv
  OBVIOUS
<1>1. suite \in Suites /\ checking = FALSE /\ resizes = 0 /\ resizes \in 0 .. MaxResizes
  BY NavbarAssumption DEF NavbarInit
<1>2. PICK config \in Configured :
        BarShows(IF NavItems > config /\ NavItems > suite THEN Split(suite) ELSE Whole)
  BY DEF NavbarInit
<1>3. suite \in Nat /\ NavItems \in Nat
  BY <1>1, NavbarAssumption
<1>4. CASE BarShows(Split(suite)) /\ NavItems > suite
  <2>1. Full(Split(suite))
    BY <1>1, <1>3, <1>4, SplitFull
  <2>2. Complete(inBar, actions) /\ Len(inBar) = suite - 1 /\ more = "shown"
    BY <1>4, <2>1 DEF BarShows, Full
  <2>3. FullNow
    BY <1>3, <1>4, <2>2 DEF FullNow
  <2>. QED BY <1>1, <2>2, <2>3 DEF NavbarInv, NavbarTypeOK, Complete
<1>5. CASE BarShows(Whole)
  <2>1. inBar = AllItems /\ actions = <<>> /\ more = "absent"
    BY <1>5 DEF BarShows, Whole
  <2>2. Complete(inBar, actions)
    BY <2>1, AllItemsSeq, EmptySeq, ConcatEmptySeq DEF Complete
  <2>3. ~NavbarAtRest
    BY <1>1, <2>1 DEF NavbarAtRest
  <2>. QED BY <1>1, <2>1, <2>2, <2>3 DEF NavbarInv, NavbarTypeOK, Complete
<1>. QED BY <1>2, <1>4, <1>5

LEMMA ResizeInv == ASSUME NavbarInv, NEW n \in Suites, Resize(n) PROVE NavbarInv'
<1>1. resizes' \in 0 .. MaxResizes
  BY NavbarAssumption DEF NavbarInv, NavbarTypeOK, Resize
<1>2. Complete(inBar, actions) /\ inBar' = inBar /\ actions' = actions
  BY DEF NavbarInv, NavbarTypeOK, Complete, Resize
<1>3. checking' = TRUE /\ suite' = n /\ more' = more
  BY DEF Resize
<1>4. ~NavbarAtRest'
  BY <1>3 DEF NavbarAtRest
<1>. QED BY <1>1, <1>2, <1>3, <1>4, NavbarKept DEF NavbarInv, NavbarTypeOK

LEMMA CheckInv == ASSUME NavbarInv, CheckNavBarItems PROVE NavbarInv'
<1>1. suite \in Suites /\ suite \in Nat /\ NavItems \in Nat
  BY NavbarAssumption DEF NavbarInv, NavbarTypeOK
<1>2. Complete(inBar, actions) /\ more \in {"absent", "shown", "hidden"}
  BY DEF NavbarInv, NavbarTypeOK, Complete
<1>3. /\ checking' = FALSE /\ suite' = suite /\ resizes' = resizes
      /\ resizes' \in 0 .. MaxResizes
  BY DEF CheckNavBarItems, NavbarInv, NavbarTypeOK
<1>4. CASE suite >= NavItems
  <2>1. inBar' = inBar \o actions /\ actions' = <<>> /\ more' \in {"absent", "hidden"}
    BY <1>2, <1>4 DEF CheckNavBarItems
  <2>2. inBar' = AllItems
    BY <1>2, <2>1 DEF Complete
  <2>3. Complete(inBar', actions')
    BY <2>1, <2>2, AllItemsSeq, EmptySeq, ConcatEmptySeq DEF Complete
  <2>4. FullNow'
    BY <1>3, <1>4, <2>1, <2>2 DEF FullNow, AllItems, NavItem
  <2>. QED BY <1>1, <1>3, <2>1, <2>3, <2>4, NavbarKept
<1>5. CASE suite < NavItems
  <2> DEFINE old == Put(inBar, actions)
             new == Fit(IF more = "absent" THEN Split(suite) ELSE old)
  <2>1. Full(Fit(old))
    BY <1>1, <1>2, <1>5, FitFull
  <2>2. Full(Fit(Split(suite)))
    <3>1. Full(Split(suite))
      BY <1>1, <1>5, SplitFull
    <3>2. Split(suite) = Put(Split(suite).inBar, Split(suite).actions)
      BY DEF Split, Put
    <3> DEFINE n == Split(suite).inBar
               a == Split(suite).actions
    <3>3. Complete(n, a)
      BY <3>1 DEF Full, Put
    <3> HIDE DEF n, a
    <3>4. Full(Fit(Put(n, a)))
      BY <1>1, <1>5, <3>3, FitFull
    <3>. QED BY <3>2, <3>4 DEF n, a
  <2>3. Full(new)
    BY <2>1, <2>2
  <2>4. inBar' = new.inBar /\ actions' = new.actions /\ more' = new.more
    BY <1>1, <1>5 DEF CheckNavBarItems, BarBecomes
  <2> HIDE DEF new
  <2>5. Complete(inBar', actions') /\ Len(inBar') = suite - 1 /\ more' = "shown"
    BY <2>3, <2>4 DEF Full, Put
  <2>6. FullNow'
    BY <1>1, <1>3, <1>5, <2>5 DEF FullNow
  <2>. QED BY <1>1, <1>3, <2>5, <2>6, NavbarKept
<1>. QED BY <1>1, <1>4, <1>5

LEMMA NavbarStep == NavbarInv /\ [NavbarNext]_navbarVars => NavbarInv'
<1> SUFFICES ASSUME NavbarInv, [NavbarNext]_navbarVars PROVE NavbarInv'
  OBVIOUS
<1>1. CASE UNCHANGED navbarVars
  BY <1>1 DEF NavbarInv, NavbarTypeOK, NavbarAtRest, FullNow, navbarVars
<1>2. CASE NavbarNext
  BY <1>2, ResizeInv, CheckInv DEF NavbarNext
<1>. QED BY <1>1, <1>2

LEMMA NavbarHolds == NavbarInv => NavbarFits
BY DEF NavbarInv, NavbarFits, NavbarAtRest, FullNow

\* However the window grows and shrinks, the navbar loses no item, keeps their order, and
\* is as full as the window allows once its timer is over.
THEOREM NavbarKeepsItems == NavbarSpec => []NavbarFits
BY NavbarBegins, NavbarStep, NavbarHolds, PTL DEF NavbarSpec

-----------------------------------------------------------------------------
(* AmTabs: the tab and the panel shown are the same, and one switch is under    *)
(* way at most.                                                                 *)

\* What TabsAgree says is kept by every step.
TabsInv == TabsTypeOK /\ TabsAgree

LEMMA TabsTypes ==
  ASSUME TabsInv
  PROVE  /\ nav \in Tab /\ tabPanel = nav /\ switching \in BOOLEAN /\ ending \subseteq Tab
         /\ swipe \in [{-1, 1} -> Tab \cup {NoTab}] /\ touches \in 0 .. MaxTouches
         /\ switching = (ending # {}) /\ tabPanel \notin ending
         /\ \A s, t \in ending : s = t
         /\ MaxTouches \in Nat /\ Tabs \in Nat /\ Tabs # 0 /\ TabTransition \in BOOLEAN
BY TabsAssumption DEF TabsInv, TabsTypeOK, TabsAgree

LEMMA TouchCounted == ASSUME TabsInv, Touch PROVE touches' \in 0 .. MaxTouches
<1>1. touches \in 0 .. MaxTouches /\ MaxTouches \in Nat
  BY TabsTypes
<1>. QED BY <1>1 DEF Touch

\* open() begins a switch only if none is under way.
LEMMA OpenTabInv ==
  ASSUME TabsInv, NEW t \in Tab, OpenTab(t),
         swipe' \in [{-1, 1} -> Tab \cup {NoTab}], touches' \in 0 .. MaxTouches
  PROVE  TabsInv'
<1>1. CASE switching \/ t = nav
  <2>1. UNCHANGED <<nav, tabPanel, switching, ending>>
    BY <1>1 DEF OpenTab
  <2>. QED BY <2>1 DEF TabsInv, TabsTypeOK, TabsAgree
<1>2. CASE ~(switching \/ t = nav)
  <2>1. ActivateTab(t) /\ t # nav /\ ending = {}
    BY <1>2, TabsTypes DEF OpenTab
  <2>2. /\ nav' = t /\ tabPanel' = t /\ switching' = TabTransition
        /\ ending' = IF TabTransition THEN {tabPanel} ELSE {}
    BY <2>1 DEF ActivateTab
  <2>3. TabsTypeOK'
    BY <2>2, TabsTypes DEF TabsTypeOK
  <2>4. TabsAgree'
    BY <2>1, <2>2, TabsTypes DEF TabsAgree
  <2>. QED BY <2>3, <2>4 DEF TabsInv
<1>. QED BY <1>1, <1>2

LEMMA TabsBegins == TabsInit => TabsInv
<1> SUFFICES ASSUME TabsInit PROVE TabsInv
  OBVIOUS
<1>1. 1 \in Tab /\ touches \in 0 .. MaxTouches
  BY TabsAssumption DEF TabsInit, Tab
<1>. QED BY <1>1 DEF TabsInit, TabsInv, TabsTypeOK, TabsAgree

LEMMA TabsStep == TabsInv /\ [TabsNext]_tabVars => TabsInv'
<1> SUFFICES ASSUME TabsInv, [TabsNext]_tabVars PROVE TabsInv'
  OBVIOUS
<1>1. CASE UNCHANGED tabVars
  BY <1>1 DEF tabVars, TabsInv, TabsTypeOK, TabsAgree
<1>2. ASSUME NEW t \in Tab, ClickTab(t) PROVE TabsInv'
  BY <1>2, OpenTabInv, TouchCounted, TabsTypes DEF ClickTab
<1>3. ASSUME NEW t \in Tab, TabTransitionEnds(t) PROVE TabsInv'
  <2>1. /\ ending' = {} /\ switching' = FALSE /\ UNCHANGED <<nav, tabPanel, swipe, touches>>
    BY <1>3, TabsTypes DEF TabTransitionEnds
  <2>. QED BY <2>1, TabsTypes DEF TabsInv, TabsTypeOK, TabsAgree
<1>4. ASSUME NEW d \in {-1, 1}, Pan(d) PROVE TabsInv'
  <2>1. /\ swipe' = [swipe EXCEPT ![d] = tabPanel] /\ UNCHANGED <<nav, tabPanel, switching, ending>>
        /\ touches' \in 0 .. MaxTouches
    BY <1>4, TouchCounted DEF Pan
  <2>2. swipe' \in [{-1, 1} -> Tab \cup {NoTab}]
    BY <2>1, TabsTypes
  <2>. QED BY <2>1, <2>2 DEF TabsInv, TabsTypeOK, TabsAgree
<1>5. ASSUME NEW d \in {-1, 1}, SwipeHandled(d) PROVE TabsInv'
  <2>1. swipe' = [swipe EXCEPT ![d] = NoTab] /\ touches' = touches
    BY <1>5 DEF SwipeHandled
  <2>2. swipe' \in [{-1, 1} -> Tab \cup {NoTab}] /\ touches' \in 0 .. MaxTouches
    BY <2>1, TabsTypes
  <2>3. CASE swipe[d] + d \in Tab
    BY <1>5, <2>2, <2>3, OpenTabInv DEF SwipeHandled
  <2>4. CASE swipe[d] + d \notin Tab
    <3>1. UNCHANGED <<nav, tabPanel, switching, ending>>
      BY <1>5, <2>4 DEF SwipeHandled
    <3>. QED BY <2>2, <3>1 DEF TabsInv, TabsTypeOK, TabsAgree
  <2>. QED BY <2>3, <2>4
<1>. QED BY <1>1, <1>2, <1>3, <1>4, <1>5 DEF TabsNext

LEMMA TabsHolds == TabsInv => TabsAgree
BY DEF TabsInv

THEOREM TabsAlwaysAgree == TabsSpec => []TabsAgree
BY TabsBegins, TabsStep, TabsHolds, PTL DEF TabsSpec

-----------------------------------------------------------------------------
(* AmOffCanvas: the page that a bar has fixed is given back, where the user     *)
(* was, when the last bar closes.                                               *)

\* The page is fixed by a displayed bar; unless two were open at a time, by the only
\* one, which has saved where the user was.
Fixing ==
  /\ fixed \/ margin # 0 => shown # {}
  /\ ~crowded /\ shown # {} => fixed /\ \A c, d \in shown : c = d
  /\ ~crowded => IF fixed THEN saved = home ELSE scroll = home

\* A closing bar is displayed until all that close are given up together; one that does
\* not take clicks is closing, and then a timer was not told of an end.
Closing ==
  /\ \A i \in DOMAIN completions : completions[i] \in shown
  /\ \A c \in shown \ clickable : \E i \in DOMAIN completions : completions[i] = c
  /\ completions # <<>> => \E i \in DOMAIN bodyTimers : ~bodyTimers[i]
  /\ completions # <<>> => CanvasTransition

CanvasInv == CanvasTypeOK /\ Fixing /\ Closing

LEMMA CanvasTypes ==
  ASSUME CanvasInv
  PROVE  /\ shown \subseteq Canvas /\ clickable \subseteq Canvas
         /\ fixed \in BOOLEAN /\ crowded \in BOOLEAN
         /\ margin \in 0 .. MaxScroll /\ saved \in 0 .. MaxScroll
         /\ scroll \in 0 .. MaxScroll /\ home \in 0 .. MaxScroll
         /\ completions \in Seq(Canvas) /\ bodyTimers \in Seq(BOOLEAN)
         /\ switches \in 0 .. MaxSwitches
BY DEF CanvasInv, CanvasTypeOK

LEMMA CanvasTyped ==
  ASSUME shown' \subseteq Canvas, clickable' \subseteq Canvas,
         fixed' \in BOOLEAN, crowded' \in BOOLEAN,
         margin' \in 0 .. MaxScroll, saved' \in 0 .. MaxScroll,
         scroll' \in 0 .. MaxScroll, home' \in 0 .. MaxScroll,
         completions' \in Seq(Canvas), bodyTimers' \in Seq(BOOLEAN),
         switches' \in 0 .. MaxSwitches
  PROVE  CanvasTypeOK'
BY DEF CanvasTypeOK

LEMMA ZeroScroll == 0 \in 0 .. MaxScroll
BY OffCanvasAssumption

LEMMA SwitchCounted == ASSUME CanvasInv, Switch PROVE switches' \in 0 .. MaxSwitches
<1>1. switches \in 0 .. MaxSwitches /\ MaxSwitches \in Nat
  BY CanvasTypes, OffCanvasAssumption
<1>. QED BY <1>1 DEF Switch

LEMMA UserScrollsInv == ASSUME CanvasInv, UserScrolls PROVE CanvasInv'
<1>1. PICK y \in 0 .. MaxScroll : scroll' = y /\ home' = y
  BY DEF UserScrolls
<1>2. /\ ~fixed
      /\ UNCHANGED <<shown, clickable, fixed, margin, saved, completions, bodyTimers,
                     crowded, switches>>
  BY DEF UserScrolls
<1>3. CanvasTypeOK'
  BY <1>1, <1>2, CanvasTypes, CanvasTyped
<1>4. Fixing'
  BY <1>1, <1>2 DEF CanvasInv, Fixing
<1>5. Closing'
  BY <1>2 DEF CanvasInv, Closing
<1>. QED BY <1>3, <1>4, <1>5 DEF CanvasInv

LEMMA OpenCanvasInv == ASSUME CanvasInv, NEW c \in Canvas, OpenCanvas(c) PROVE CanvasInv'
<1>1. /\ c \notin shown /\ saved' = scroll /\ margin' = scroll /\ scroll' = 0 /\ fixed' = TRUE
      /\ shown' = shown \cup {c} /\ clickable' = clickable \cup {c}
      /\ crowded' = (crowded \/ shown # {})
      /\ UNCHANGED <<completions, bodyTimers, home>>
  BY DEF OpenCanvas
<1>2. switches' \in 0 .. MaxSwitches
  BY SwitchCounted DEF OpenCanvas
<1>3. CanvasTypeOK'
  BY <1>1, <1>2, CanvasTypes, CanvasTyped, ZeroScroll
<1>4. Fixing'
  <2>1. ~crowded' => shown = {} /\ ~crowded
    BY <1>1
  <2>2. ~crowded' => scroll = home
    BY <2>1 DEF CanvasInv, Fixing
  <2>. QED BY <1>1, <2>1, <2>2 DEF Fixing
<1>5. Closing'
  BY <1>1 DEF CanvasInv, Closing
<1>. QED BY <1>3, <1>4, <1>5 DEF CanvasInv

\* complete() of some displayed bars.
LEMMA ClosedFixing ==
  ASSUME CanvasInv, NEW C, C \subseteq shown, CanvasClosed(C), UNCHANGED <<saved, home, crowded>>
  PROVE  /\ Fixing' /\ fixed' \in BOOLEAN /\ shown' \subseteq Canvas
         /\ margin' \in 0 .. MaxScroll /\ scroll' \in 0 .. MaxScroll
<1>1. CASE C = {}
  <2>1. UNCHANGED <<shown, fixed, margin, scroll>>
    BY <1>1 DEF CanvasClosed
  <2>. QED BY <2>1, CanvasTypes DEF Fixing, CanvasInv
<1>2. CASE C # {}
  <2>1. shown' = shown \ C /\ fixed' = FALSE /\ margin' = 0 /\ scroll' = saved
    BY <1>2 DEF CanvasClosed
  <2>2. ~crowded => shown' = {} /\ saved = home
    BY <1>2, <2>1 DEF Fixing, CanvasInv
  <2>. QED BY <2>1, <2>2, CanvasTypes, ZeroScroll DEF Fixing
<1>. QED BY <1>1, <1>2

LEMMA CloseCanvasInv == ASSUME CanvasInv, NEW c \in Canvas, CloseCanvas(c) PROVE CanvasInv'
<1>1. /\ c \in shown /\ clickable' = clickable \ {c} /\ UNCHANGED <<saved, home, crowded>>
  BY DEF CloseCanvas
<1>2. switches' \in 0 .. MaxSwitches
  BY SwitchCounted DEF CloseCanvas
<1>3. CASE CanvasTransition
  <2>1. /\ completions' = Append(completions, c) /\ bodyTimers' = Append(bodyTimers, FALSE)
        /\ UNCHANGED <<shown, fixed, margin, scroll>>
    BY <1>3 DEF CloseCanvas
  <2>2. /\ completions' \in Seq(Canvas) /\ Len(completions') = Len(completions) + 1
        /\ completions'[Len(completions) + 1] = c
        /\ \A i \in 1 .. Len(completions) : completions'[i] = completions[i]
    BY <2>1, CanvasTypes, AppendProperties
  <2>3. /\ bodyTimers' \in Seq(BOOLEAN) /\ Len(bodyTimers') = Len(bodyTimers) + 1
        /\ ~bodyTimers'[Len(bodyTimers) + 1]
    <3>1. FALSE \in BOOLEAN
      OBVIOUS
    <3>. QED BY <2>1, <3>1, CanvasTypes, AppendProperties
  <2>4. /\ DOMAIN completions = 1 .. Len(completions) /\ Len(completions) \in Nat
        /\ DOMAIN completions' = 1 .. Len(completions) + 1
        /\ Len(bodyTimers) + 1 \in DOMAIN bodyTimers'
    BY <2>2, <2>3, CanvasTypes, LenProperties
  <2>5. Closing'
    <3>1. \A i \in DOMAIN completions' : completions'[i] \in shown
      BY <1>1, <2>2, <2>4 DEF CanvasInv, Closing
    <3>2. \A e \in shown \ (clickable \ {c}) : \E i \in DOMAIN completions' : completions'[i] = e
      <4> SUFFICES ASSUME NEW e \in shown \ (clickable \ {c})
                   PROVE  \E i \in DOMAIN completions' : completions'[i] = e
        OBVIOUS
      <4>1. CASE e = c
        <5>1. Len(completions) + 1 \in DOMAIN completions'
          BY <2>4
        <5>. QED BY <2>2, <4>1, <5>1
      <4>2. CASE e # c
        <5>1. PICK i \in DOMAIN completions : completions[i] = e
          BY <4>2 DEF CanvasInv, Closing
        <5>2. i \in 1 .. Len(completions) /\ i \in DOMAIN completions'
          BY <2>4
        <5>. QED BY <2>2, <5>1, <5>2
      <4>. QED BY <4>1, <4>2
    <3>3. \E i \in DOMAIN bodyTimers' : ~bodyTimers'[i]
      BY <2>3, <2>4
    <3>. QED BY <1>1, <1>3, <2>1, <3>1, <3>2, <3>3 DEF Closing
  <2>6. Fixing'
    BY <1>1, <2>1 DEF CanvasInv, Fixing
  <2>7. CanvasTypeOK'
    BY <1>1, <1>2, <2>1, <2>2, <2>3, CanvasTypes, CanvasTyped
  <2>. QED BY <2>5, <2>6, <2>7 DEF CanvasInv
<1>4. CASE ~CanvasTransition
  <2>1. CanvasClosed({c}) /\ UNCHANGED <<completions, bodyTimers>>
    BY <1>4 DEF CloseCanvas
  <2>2. /\ Fixing' /\ fixed' \in BOOLEAN /\ shown' \subseteq Canvas
        /\ margin' \in 0 .. MaxScroll /\ scroll' \in 0 .. MaxScroll
    BY <1>1, <2>1, ClosedFixing
  <2>3. shown' = shown \ {c}
    BY <2>1 DEF CanvasClosed
  <2>4. completions = <<>>
    BY <1>4 DEF CanvasInv, Closing
  <2>5. Closing'
    BY <1>1, <2>1, <2>3, <2>4 DEF CanvasInv, Closing
  <2>6. CanvasTypeOK'
    BY <1>1, <1>2, <2>1, <2>2, CanvasTypes, CanvasTyped
  <2>. QED BY <2>2, <2>5, <2>6 DEF CanvasInv
<1>. QED BY <1>3, <1>4
LEMMA ToldSeq ==
  ASSUME NEW s \in Seq(BOOLEAN)
  PROVE  [i \in DOMAIN s |-> TRUE] \in Seq(BOOLEAN)
<1>1. Len(s) \in Nat /\ DOMAIN s = 1 .. Len(s)
  BY LenProperties
<1>. QED BY <1>1

\* The end of a transition: whatever was closing is closed.
LEMMA AllClosed ==
  ASSUME CanvasInv, CanvasClosed({completions[i] : i \in DOMAIN completions}),
         completions' = <<>>, bodyTimers' \in Seq(BOOLEAN),
         UNCHANGED <<clickable, saved, home, crowded, switches>>
  PROVE  CanvasInv'
<1> DEFINE C == {completions[i] : i \in DOMAIN completions}
<1>1. C \subseteq shown
  BY DEF CanvasInv, Closing
<1>2. shown' = shown \ C
  BY DEF CanvasClosed
<1>3. shown' \subseteq clickable
  BY <1>2 DEF CanvasInv, Closing
<1>4. CanvasClosed(C)
  OBVIOUS
<1> HIDE DEF C
<1>5. /\ Fixing' /\ fixed' \in BOOLEAN /\ shown' \subseteq Canvas
      /\ margin' \in 0 .. MaxScroll /\ scroll' \in 0 .. MaxScroll
  BY <1>1, <1>4, ClosedFixing
<1>6. completions' \in Seq(Canvas) /\ DOMAIN completions' = {}
  OBVIOUS
<1>7. CanvasTypeOK'
  BY <1>5, <1>6, CanvasTypes, CanvasTyped
<1>8. Closing'
  BY <1>3, <1>6 DEF Closing
<1>. QED BY <1>5, <1>7, <1>8 DEF CanvasInv

LEMMA BodyTransitionEndsInv == ASSUME CanvasInv, BodyTransitionEnds PROVE CanvasInv'
<1>1. bodyTimers' \in Seq(BOOLEAN)
  BY CanvasTypes, ToldSeq DEF BodyTransitionEnds
<1>. QED BY <1>1, AllClosed DEF BodyTransitionEnds

LEMMA BodyTimerFiresInv == ASSUME CanvasInv, BodyTimerFires PROVE CanvasInv'
<1>0. bodyTimers \in Seq(BOOLEAN) /\ bodyTimers # <<>>
  BY CanvasTypes DEF BodyTimerFires
<1>1. /\ Tail(bodyTimers) \in Seq(BOOLEAN) /\ Len(Tail(bodyTimers)) = Len(bodyTimers) - 1
      /\ \A i \in 1 .. Len(bodyTimers) - 1 : Tail(bodyTimers)[i] = bodyTimers[i + 1]
      /\ Head(bodyTimers) = bodyTimers[1]
  BY <1>0, HeadTailProperties
<1>2. UNCHANGED <<clickable, saved, home, crowded, switches>>
  BY DEF BodyTimerFires
<1>3. CASE Head(bodyTimers)
  <2>1. /\ bodyTimers' = Tail(bodyTimers)
        /\ UNCHANGED <<shown, fixed, margin, scroll, completions>>
    BY <1>3 DEF BodyTimerFires
  <2>2. /\ Len(bodyTimers) \in Nat /\ DOMAIN bodyTimers = 1 .. Len(bodyTimers)
        /\ DOMAIN bodyTimers' = 1 .. Len(bodyTimers) - 1
    BY <1>0, <1>1, <2>1, LenProperties
  <2>3. ASSUME NEW i \in DOMAIN bodyTimers, ~bodyTimers[i]
        PROVE  \E j \in DOMAIN bodyTimers' : ~bodyTimers'[j]
    <3>1. i # 1
      BY <1>1, <1>3, <2>3
    <3>2. i - 1 \in DOMAIN bodyTimers' /\ bodyTimers'[i - 1] = bodyTimers[i]
      BY <1>1, <2>1, <2>2, <3>1
    <3>. QED BY <2>3, <3>2
  <2>4. Closing'
    BY <1>2, <2>1, <2>3 DEF CanvasInv, Closing
  <2>5. Fixing'
    BY <1>2, <2>1 DEF CanvasInv, Fixing
  <2>6. CanvasTypeOK'
    BY <1>1, <1>2, <2>1, CanvasTypes, CanvasTyped
  <2>. QED BY <2>4, <2>5, <2>6 DEF CanvasInv
<1>4. CASE ~Head(bodyTimers)
  <2>1. /\ CanvasClosed({completions[i] : i \in DOMAIN completions}) /\ completions' = <<>>
        /\ bodyTimers' = [i \in DOMAIN Tail(bodyTimers) |-> TRUE]
    BY <1>4 DEF BodyTimerFires
  <2>2. bodyTimers' \in Seq(BOOLEAN)
    BY <1>1, <2>1, ToldSeq
  <2>. QED BY <1>2, <2>1, <2>2, AllClosed
<1>. QED BY <1>3, <1>4

LEMMA CanvasBegins == CanvasInit => CanvasInv
<1> SUFFICES ASSUME CanvasInit PROVE CanvasInv
  OBVIOUS
<1>1. /\ completions = <<>> /\ completions \in Seq(Canvas) /\ DOMAIN completions = {}
      /\ bodyTimers \in Seq(BOOLEAN)
  BY DEF CanvasInit
<1>2. switches \in 0 .. MaxSwitches
  BY OffCanvasAssumption DEF CanvasInit
<1>3. CanvasTypeOK
  BY <1>1, <1>2, ZeroScroll DEF CanvasInit, CanvasTypeOK
<1>4. Fixing /\ Closing
  BY <1>1 DEF CanvasInit, Fixing, Closing
<1>. QED BY <1>3, <1>4 DEF CanvasInv

LEMMA CanvasStep == CanvasInv /\ [CanvasNext]_canvasVars => CanvasInv'
<1> SUFFICES ASSUME CanvasInv, [CanvasNext]_canvasVars PROVE CanvasInv'
  OBVIOUS
<1>1. CASE UNCHANGED canvasVars
  BY <1>1 DEF canvasVars, CanvasInv, CanvasTypeOK, Fixing, Closing
<1>. QED BY <1>1, UserScrollsInv, OpenCanvasInv, CloseCanvasInv, BodyTransitionEndsInv,
            BodyTimerFiresInv DEF CanvasNext

LEMMA CanvasHolds == CanvasInv => PageGivenBack
<1> SUFFICES ASSUME CanvasInv PROVE PageGivenBack
  OBVIOUS
<1>1. shown = {} => ~fixed /\ margin = 0 /\ completions = <<>>
  <2>1. shown = {} => DOMAIN completions = {}
    BY DEF CanvasInv, Closing
  <2>2. DOMAIN completions = {} => completions = <<>>
    <3>1. Len(completions) \in Nat /\ DOMAIN completions = 1 .. Len(completions)
      BY CanvasTypes, LenProperties
    <3>2. DOMAIN completions = {} => Len(completions) = 0
      BY <3>1
    <3>. QED BY <3>2, CanvasTypes, EmptySeq
  <2>. QED BY <2>1, <2>2 DEF CanvasInv, Fixing
<1>2. ASSUME NEW c \in shown \ clickable
      PROVE  /\ \E i \in DOMAIN completions : completions[i] = c
             /\ \E i \in DOMAIN bodyTimers : ~bodyTimers[i]
  <2>1. \E i \in DOMAIN completions : completions[i] = c
    BY DEF CanvasInv, Closing
  <2>2. completions # <<>>
    BY <2>1
  <2>. QED BY <2>1, <2>2 DEF CanvasInv, Closing
<1>3. ~fixed /\ ~crowded => scroll = home
  BY DEF CanvasInv, Fixing
<1>. QED BY <1>1, <1>2, <1>3 DEF PageGivenBack

THEOREM PageIsGivenBack == CanvasSpec => []PageGivenBack
BY CanvasBegins, CanvasStep, CanvasHolds, PTL DEF CanvasSpec

-----------------------------------------------------------------------------
(* AmPopover: a popover that was placed for the layout of the page lies within  *)
(* the window, by its element. The longest part is arithmetic: where            *)
(* sizePopover() puts it, case by case.                                         *)

Layout == [window : Windows, box : Boxes, spot : Spots]

\* The measures of a layout are numbers.
LEMMA Measures ==
  ASSUME NEW g \in Layout
  PROVE  /\ {g.window.w, g.window.h, g.box.w, g.box.h, Trigger.w, Trigger.h} \subseteq Nat
         /\ g.spot.left \in Int /\ g.spot.top \in Int
<1>1. g.window \in Windows /\ g.box \in Boxes /\ g.spot \in Spots
  BY DEF Layout
<1>2. g.window \in Sizes /\ g.box \in Sizes /\ Trigger \in Sizes /\ g.spot \in [left : Int, top : Int]
  BY <1>1, PopoverAssumption
<1>. QED BY <1>2 DEF Sizes

LEMMA VerticalCases ==
  ASSUME NEW g \in Layout
  PROVE  \/ Vertical(g) = "top" /\ g.box.h + 4 < g.spot.top
         \/ Vertical(g) = "bottom" /\ g.box.h + 8 < g.window.h - g.spot.top - Trigger.h
         \/ Vertical(g) = "middle"
<1>1. /\ g.window.h \in Nat /\ g.box.h \in Nat /\ Trigger.h \in Nat /\ g.spot.top \in Int
  BY Measures
<1>. QED BY <1>1 DEF Vertical, Total

LEMMA SizePopoverType ==
  ASSUME NEW g \in Layout
  PROVE  SizePopover(g) \in Places
<1>1. /\ g.window.w \in Nat /\ g.window.h \in Nat /\ g.box.w \in Nat /\ g.box.h \in Nat
      /\ Trigger.w \in Nat /\ Trigger.h \in Nat /\ g.spot.left \in Int /\ g.spot.top \in Int
  BY Measures
<1>2. Trigger.h \div 2 \in Int /\ g.box.h \div 2 \in Int /\ Trigger.w \div 2 \in Int /\ g.box.w \div 2 \in Int
  BY <1>1
<1>3. PopTop(g) \in Int
  BY <1>1, <1>2 DEF PopTop, Vertical, Total
<1>4. Centred(g) \in Int
  BY <1>1, <1>2 DEF Centred
<1>5. Beside(g) \in Places
  <2> DEFINE side == IF g.spot.left - g.box.w - 8 < 5 THEN "right" ELSE "left"
             kept == IF g.spot.left - g.box.w - 8 < 5 THEN g.spot.left + Trigger.w + 8
                     ELSE g.spot.left - g.box.w - 8
  <2>1. kept \in Int /\ g.window.w - g.box.w - 5 \in Int /\ side \in {"left", "right"}
    BY <1>1
  <2>2. Beside(g) \in {[side |-> "right", left |-> g.window.w - g.box.w - 5, top |-> PopTop(g)],
                      [side |-> side, left |-> kept, top |-> PopTop(g)]}
    BY DEF Beside
  <2> HIDE DEF side, kept
  <2>. QED BY <1>3, <2>1, <2>2 DEF Places
<1>6. Vertical(g) \in {"top", "bottom", "middle"}
  BY VerticalCases
<1>. QED BY <1>3, <1>4, <1>5, <1>6 DEF SizePopover, Places

\* sizePopover() keeps what PopoverReadable asks for.
Readable(g, at) ==
  LET fits == g.box.w + 25 <= g.window.w
      room == g.spot.left + Trigger.w + 8 + g.box.w <= g.window.w
              \/ g.spot.left - g.box.w - 8 >= 5
  IN  /\ fits => at.left + g.box.w <= g.window.w
      /\ fits /\ g.spot.left + Trigger.w + 8 >= 0 => at.left >= 0
      /\ at.side = "top" => at.top >= -5 /\ at.top + g.box.h < g.spot.top
      /\ at.side = "bottom" => /\ at.top > g.spot.top + Trigger.h
                               /\ at.top + g.box.h <= g.window.h + 5
      /\ at.side \in {"left", "right"} /\ room =>
           \/ at.left + g.box.w <= g.spot.left
           \/ at.left >= g.spot.left + Trigger.w

LEMMA SizedReadable ==
  ASSUME NEW g \in Layout
  PROVE  Readable(g, SizePopover(g))
<1> DEFINE ww == g.window.w
           wh == g.window.h
           bw == g.box.w
           bh == g.box.h
           tw == Trigger.w
           th == Trigger.h
           left == g.spot.left
           top  == g.spot.top
<1>1. /\ ww \in Nat /\ wh \in Nat /\ bw \in Nat /\ bh \in Nat /\ tw \in Nat /\ th \in Nat
      /\ left \in Int /\ top \in Int
  BY Measures
<1>2. CASE Vertical(g) = "middle"
  <2>1. SizePopover(g) = Beside(g)
    BY <1>2 DEF SizePopover
  <2> DEFINE kept == IF left - bw - 8 < 5 THEN left + tw + 8 ELSE left - bw - 8
  <2>2. kept \in Int
    BY <1>1
  <2>3. CASE kept + bw > ww
    <3>1. SizePopover(g) = [side |-> "right", left |-> ww - bw - 5, top |-> PopTop(g)]
      BY <2>1, <2>3 DEF Beside
    <3>2. bw + 25 <= ww => ww - bw - 5 >= 0 /\ (ww - bw - 5) + bw <= ww
      BY <1>1
    <3>3. left + tw + 8 + bw <= ww \/ left - bw - 8 >= 5
          => (ww - bw - 5) + bw <= left \/ ww - bw - 5 >= left + tw
      BY <1>1, <2>3
    <3> HIDE DEF kept
    <3>. QED BY <3>1, <3>2, <3>3 DEF Readable
  <2>4. CASE ~(kept + bw > ww)
    <3> DEFINE side == IF left - bw - 8 < 5 THEN "right" ELSE "left"
    <3>1. SizePopover(g) = [side |-> side, left |-> kept, top |-> PopTop(g)]
      BY <2>1, <2>4 DEF Beside
    <3>2. side \in {"left", "right"}
      OBVIOUS
    <3>3. (left + tw + 8 >= 0 => kept >= 0) /\ kept + bw <= ww
      BY <1>1, <2>4
    <3>4. kept + bw <= left \/ kept >= left + tw
      BY <1>1
    <3> HIDE DEF kept, side
    <3>. QED BY <3>1, <3>2, <3>3, <3>4 DEF Readable
  <2>. QED BY <2>3, <2>4
<1>3. CASE Vertical(g) # "middle"
  <2> DEFINE x == Centred(g)
  <2>1. SizePopover(g) = [side |-> Vertical(g), left |-> x, top |-> PopTop(g)]
    BY <1>3 DEF SizePopover
  <2>2. bw + 25 <= ww => x >= 0 /\ x + bw <= ww
    <3>1. tw \div 2 \in Int /\ bw \div 2 \in Int
      BY <1>1
    <3>. QED BY <1>1, <3>1 DEF Centred
  <2>3. Vertical(g) = "top" => PopTop(g) >= -5 /\ PopTop(g) + bh < top
    <3> SUFFICES ASSUME Vertical(g) = "top" PROVE PopTop(g) >= -5 /\ PopTop(g) + bh < top
      OBVIOUS
    <3>1. PopTop(g) = top - (bh + 8) - 2
      BY DEF PopTop, Total
    <3>2. bh + 4 < top
      BY VerticalCases
    <3>. QED BY <1>1, <3>1, <3>2
  <2>4. Vertical(g) = "bottom" => PopTop(g) > top + th /\ PopTop(g) + bh <= wh + 5
    <3> SUFFICES ASSUME Vertical(g) = "bottom"
                 PROVE  PopTop(g) > top + th /\ PopTop(g) + bh <= wh + 5
      OBVIOUS
    <3>1. PopTop(g) = top + th + 8 + 2
      BY DEF PopTop
    <3>2. bh + 8 < wh - top - th
      BY VerticalCases
    <3>. QED BY <1>1, <3>1, <3>2
  <2>5. Vertical(g) \notin {"left", "right"}
    BY VerticalCases
  <2> HIDE DEF x
  <2>. QED BY <2>1, <2>2, <2>3, <2>4, <2>5 DEF Readable
<1>. QED BY <1>2, <1>3

-----------------------------------------------------------------------------
\* An open popover has a handler of resize, and where it is placed is where it should
\* be, unless a timer is running that places it anew.
WellPlaced ==
  /\ popActive => sizers > 0
  /\ popActive /\ sizing = 0 /\ ~drifted => placed = SizePopover(layout)

PopoverInv == PopoverTypeOK /\ WellPlaced

LEMMA PopTypes ==
  ASSUME PopoverInv
  PROVE  /\ layout \in Layout /\ placed \in Places /\ popActive \in BOOLEAN /\ drifted \in BOOLEAN
         /\ sizers \in Nat /\ sizing \in 0 .. sizers /\ pops \in 0 .. MaxPops /\ MaxPops \in Nat
         /\ SizePopover(layout) \in Places
<1>1. layout \in Layout
  BY DEF PopoverInv, PopoverTypeOK, Layout
<1>2. SizePopover(layout) \in Places
  BY <1>1, SizePopoverType
<1>3. popActive \in BOOLEAN /\ drifted \in BOOLEAN
  BY DEF PopoverInv, PopoverTypeOK
<1>4. placed \in Places /\ sizers \in Nat /\ sizing \in 0 .. sizers /\ pops \in 0 .. MaxPops
  BY DEF PopoverInv, PopoverTypeOK
<1>. QED BY <1>1, <1>2, <1>3, <1>4, PopoverAssumption

LEMMA PopCounted == ASSUME PopoverInv, Pop PROVE pops' \in 0 .. MaxPops
BY PopTypes DEF Pop

LEMMA PlacingInv ==
  ASSUME PopoverInv, OpenPopover \/ PopoverSized
  PROVE  PopoverInv'
<1>0. /\ sizers \in Nat /\ sizing \in 0 .. sizers /\ popActive \in BOOLEAN
      /\ popActive => sizers > 0
  BY PopTypes DEF PopoverInv, WellPlaced
<1>1. placed' = SizePopover(layout) /\ drifted' = FALSE /\ layout' = layout
  BY DEF OpenPopover, PopoverSized, Place
<1>2. /\ sizers' \in Nat /\ sizing' \in 0 .. sizers' /\ popActive' \in BOOLEAN
      /\ popActive' => sizers' > 0
  <2>1. CASE OpenPopover
    BY <1>0, <2>1 DEF OpenPopover
  <2>2. CASE PopoverSized
    BY <1>0, <2>2 DEF PopoverSized
  <2>. QED BY <2>1, <2>2
<1>3. pops' \in 0 .. MaxPops
  BY PopTypes, PopCounted DEF OpenPopover, PopoverSized
<1>4. PopoverTypeOK'
  BY <1>1, <1>2, <1>3, PopTypes DEF PopoverTypeOK, Layout
<1>. QED BY <1>1, <1>2, <1>4 DEF PopoverInv, WellPlaced

LEMMA DriftingInv ==
  ASSUME PopoverInv, SetContent \/ PopoverScrolls
  PROVE  PopoverInv'
<1>1. drifted' = TRUE /\ UNCHANGED <<popActive, sizers, sizing>> /\ pops' \in 0 .. MaxPops
  BY PopCounted DEF SetContent, PopoverScrolls
<1>2. layout' \in Layout /\ placed' \in Places
  <2>1. CASE SetContent
    BY <2>1, PopTypes DEF SetContent, Layout
  <2>2. CASE PopoverScrolls
    <3>1. PICK spot \in Spots : /\ layout' = [layout EXCEPT !.spot = spot]
                                /\ placed' = [placed EXCEPT !.top = @ + spot.top - layout.spot.top]
      BY <2>2 DEF PopoverScrolls
    <3>2. layout' \in Layout
      BY <3>1, PopTypes DEF Layout
    <3>3. spot.top \in Int /\ layout.spot.top \in Int /\ placed.top \in Int
      BY PopTypes, Measures, PopoverAssumption DEF Places
    <3>4. placed.top + spot.top - layout.spot.top \in Int
      BY <3>3
    <3>. QED BY <3>1, <3>2, <3>4, PopTypes DEF Places
  <2>. QED BY <2>1, <2>2
<1>. QED BY <1>1, <1>2, PopTypes DEF PopoverInv, PopoverTypeOK, WellPlaced, Layout

LEMMA ClosingInv ==
  ASSUME PopoverInv, ClosePopover
  PROVE  PopoverInv'
BY PopCounted DEF ClosePopover, PopoverInv, PopoverTypeOK, WellPlaced

LEMMA ResizingInv ==
  ASSUME PopoverInv, PopoverResizes
  PROVE  PopoverInv'
<1>1. /\ sizing' = sizers /\ UNCHANGED <<placed, popActive, sizers, drifted>>
      /\ pops' \in 0 .. MaxPops
  BY PopCounted DEF PopoverResizes
<1>2. layout' \in Layout
  BY PopTypes DEF PopoverResizes, Layout
<1>3. PopoverTypeOK'
  BY <1>1, <1>2, PopTypes DEF PopoverTypeOK, Layout
<1>4. popActive' => sizing' # 0 /\ sizers' > 0
  BY <1>1, PopTypes DEF PopoverInv, WellPlaced
<1>. QED BY <1>3, <1>4 DEF PopoverInv, WellPlaced

LEMMA PopoverBegins == PopoverInit => PopoverInv
<1> SUFFICES ASSUME PopoverInit PROVE PopoverInv
  OBVIOUS
<1>1. layout \in Layout /\ placed \in Places
  BY SizePopoverType DEF PopoverInit, Layout
<1>2. sizers \in Nat /\ sizing \in 0 .. sizers /\ pops \in 0 .. MaxPops
  BY PopoverAssumption DEF PopoverInit
<1>. QED BY <1>1, <1>2 DEF PopoverInit, PopoverInv, PopoverTypeOK, WellPlaced, Layout

LEMMA PopoverStep == PopoverInv /\ [PopoverNext]_popVars => PopoverInv'
<1> SUFFICES ASSUME PopoverInv, [PopoverNext]_popVars PROVE PopoverInv'
  OBVIOUS
<1>1. CASE UNCHANGED popVars
  BY <1>1 DEF PopoverInv, popVars, PopoverTypeOK, WellPlaced
<1>2. CASE PopoverNext
  BY <1>2, PlacingInv, DriftingInv, ClosingInv, ResizingInv DEF PopoverNext
<1>. QED BY <1>1, <1>2

LEMMA PopoverHolds == PopoverInv => PopoverReadable
<1> SUFFICES ASSUME PopoverInv, popActive, sizing = 0, ~drifted PROVE Readable(layout, placed)
  BY DEF PopoverReadable, Readable
<1>1. placed = SizePopover(layout)
  BY DEF PopoverInv, WellPlaced
<1>. QED BY <1>1, PopTypes, SizedReadable

THEOREM PopoverIsReadable == PopoverSpec => []PopoverReadable
BY PopoverHolds, PopoverBegins, PopoverStep, PTL DEF PopoverSpec

-----------------------------------------------------------------------------
(* AmProgress: there is a bar whenever there is a status, and something that    *)
(* ends it.                                                                     *)

\* Every status that start() set has a loop that trickles, not only one whose bar was
\* removed meanwhile.
Trickles == status # NoStatus /\ ~direct /\ Trickle => loops > 0

ProgressInv == ProgressTypeOK /\ BarFollowsStatus /\ Trickles

LEMMA ProgressTypes ==
  ASSUME ProgressInv
  PROVE  /\ status \in Level \cup {NoStatus} /\ rendered \in BOOLEAN /\ direct \in BOOLEAN
         /\ loops \in Nat /\ fading \in Nat /\ leaving \in Nat /\ orders \in 0 .. MaxOrders
         /\ rendered /\ status = NoStatus => fading + leaving > 0
         /\ status # NoStatus /\ ~direct /\ Trickle => loops > 0
         /\ MaxOrders \in Nat /\ Levels \in Nat /\ Levels # 0 /\ Trickle \in BOOLEAN
BY ProgressAssumption DEF ProgressInv, ProgressTypeOK, BarFollowsStatus, Trickles

LEMMA ProgressAll ==
  ASSUME status' \in Level \cup {NoStatus}, rendered' \in BOOLEAN, direct' \in BOOLEAN,
         loops' \in Nat, fading' \in Nat, leaving' \in Nat, orders' \in 0 .. MaxOrders,
         rendered' /\ status' = NoStatus => fading' + leaving' > 0,
         status' # NoStatus /\ ~direct' /\ Trickle => loops' > 0
  PROVE  ProgressInv'
BY DEF ProgressInv, ProgressTypeOK, BarFollowsStatus, Trickles

LEMMA OrderCounted == ASSUME ProgressInv, Order PROVE orders' \in 0 .. MaxOrders
<1>1. orders \in 0 .. MaxOrders /\ MaxOrders \in Nat
  BY ProgressTypes
<1>. QED BY <1>1 DEF Order

LEMMA LevelsAreStatus ==
  ASSUME ProgressInv
  PROVE  /\ 1 \in Level /\ NoStatus \notin Level
         /\ \A n \in status .. Levels : status # NoStatus => n \in Level
BY ProgressTypes DEF Level, NoStatus

LEMMA ProgressBegins == ProgressInit => ProgressInv
<1> SUFFICES ASSUME ProgressInit PROVE ProgressInv
  OBVIOUS
<1>1. orders \in 0 .. MaxOrders
  BY ProgressAssumption DEF ProgressInit
<1>. QED BY <1>1 DEF ProgressInit, ProgressInv, ProgressTypeOK, BarFollowsStatus, Trickles

LEMMA ProgressStep == ProgressInv /\ [ProgressNext]_progressVars => ProgressInv'
<1> SUFFICES ASSUME ProgressInv, [ProgressNext]_progressVars PROVE ProgressInv'
  OBVIOUS
<1>1. CASE UNCHANGED progressVars
  BY <1>1 DEF progressVars, ProgressInv, ProgressTypeOK, BarFollowsStatus, Trickles
<1>2. CASE StartBar
  <2>1. orders' \in 0 .. MaxOrders /\ UNCHANGED <<fading, leaving>> /\ AnotherLoop
    BY <1>2, OrderCounted DEF StartBar
  <2>2. loops' \in Nat /\ loops' >= loops /\ (Trickle => loops' > 0)
    BY <2>1, ProgressTypes DEF AnotherLoop
  <2>3. CASE status = NoStatus
    <3>1. status' = 1 /\ rendered' = TRUE /\ direct' = FALSE
      BY <1>2, <2>3 DEF StartBar, SetTo
    <3>. QED BY <2>1, <2>2, <3>1, ProgressTypes, LevelsAreStatus, ProgressAll
  <2>4. CASE status # NoStatus
    <3>1. UNCHANGED <<status, rendered, direct>>
      BY <1>2, <2>4 DEF StartBar
    <3>. QED BY <2>1, <2>2, <2>4, <3>1, ProgressTypes, ProgressAll
  <2>. QED BY <2>3, <2>4
<1>3. CASE IncBar
  <2>1. /\ orders' \in 0 .. MaxOrders /\ UNCHANGED <<loops, fading, leaving, direct>>
        /\ status # NoStatus
    BY <1>3, OrderCounted DEF IncBar
  <2>2. status' \in Level /\ rendered' = TRUE
    BY <1>3, <2>1, LevelsAreStatus DEF IncBar, SetTo
  <2>. QED BY <2>1, <2>2, ProgressTypes, LevelsAreStatus, ProgressAll
<1>4. CASE SetBar
  <2>1. /\ orders' \in 0 .. MaxOrders /\ UNCHANGED <<loops, fading, leaving>>
        /\ direct' = (direct \/ status = NoStatus)
    BY <1>4, OrderCounted DEF SetBar
  <2>2. status' \in Level /\ rendered' = TRUE
    BY <1>4 DEF SetBar, SetTo
  <2>. QED BY <2>1, <2>2, ProgressTypes, LevelsAreStatus, ProgressAll
<1>5. ASSUME NEW force \in BOOLEAN, DoneBar(force) PROVE ProgressInv'
  <2>1. /\ orders' \in 0 .. MaxOrders /\ leaving' = leaving /\ direct' = FALSE
        /\ status' = NoStatus /\ rendered' = TRUE /\ fading' = fading + 1
    BY <1>5, OrderCounted DEF DoneBar, SetFull
  <2>2. loops' \in Nat
    BY <1>5, ProgressTypes DEF DoneBar, AnotherLoop
  <2>3. fading' \in Nat /\ fading' + leaving' > 0
    BY <2>1, ProgressTypes
  <2>. QED BY <2>1, <2>2, <2>3, ProgressTypes, ProgressAll
<1>6. CASE TrickleFires
  <2>1. UNCHANGED <<fading, leaving, direct, orders>> /\ loops > 0
    BY <1>6 DEF TrickleFires
  <2>2. CASE status = NoStatus
    <3>1. loops' = loops - 1 /\ UNCHANGED <<status, rendered>>
      BY <1>6, <2>2 DEF TrickleFires
    <3>2. loops' \in Nat
      BY <2>1, <3>1, ProgressTypes
    <3>. QED BY <2>1, <2>2, <3>1, <3>2, ProgressTypes, ProgressAll
  <2>3. CASE status # NoStatus
    <3>1. loops' = loops /\ status' \in Level /\ rendered' = TRUE
      BY <1>6, <2>3, LevelsAreStatus DEF TrickleFires, SetTo
    <3>. QED BY <2>1, <3>1, ProgressTypes, LevelsAreStatus, ProgressAll
  <2>. QED BY <2>2, <2>3
<1>7. CASE FadeFires
  <2>1. /\ fading' = fading - 1 /\ leaving' = leaving + 1 /\ fading > 0
        /\ UNCHANGED <<status, rendered, loops, direct, orders>>
    BY <1>7 DEF FadeFires
  <2>2. fading' \in Nat /\ leaving' \in Nat /\ fading' + leaving' = fading + leaving
    BY <2>1, ProgressTypes
  <2>. QED BY <2>1, <2>2, ProgressTypes, ProgressAll
<1>8. CASE RemoveFires
  <2>1. /\ leaving' = leaving - 1 /\ rendered' = FALSE /\ leaving > 0
        /\ UNCHANGED <<status, loops, fading, direct, orders>>
    BY <1>8 DEF RemoveFires
  <2>2. leaving' \in Nat
    BY <2>1, ProgressTypes
  <2>. QED BY <2>1, <2>2, ProgressTypes, ProgressAll
<1>. QED BY <1>1, <1>2, <1>3, <1>4, <1>5, <1>6, <1>7, <1>8 DEF ProgressNext

LEMMA ProgressHolds == ProgressInv => BarFollowsStatus
BY DEF ProgressInv

THEOREM BarAlwaysFollows == ProgressSpec => []BarFollowsStatus
BY ProgressBegins, ProgressStep, ProgressHolds, PTL DEF ProgressSpec

-----------------------------------------------------------------------------
(* AmSpy: what follows the scroll position is right once the frames and timers  *)
(* that were asked for are over.                                                *)

SpyState    == [inViewState : BOOLEAN, timer : BOOLEAN, shown : BOOLEAN, raf : BOOLEAN]
NavState    == [active : 0 .. Sections, raf : BOOLEAN]
StickyState == [sticked : BOOLEAN, shown : BOOLEAN, waiting : BOOLEAN, running : BOOLEAN,
                check : BOOLEAN, resize : BOOLEAN]
Loop        == [at : Tops, to : Tops]
SmoothState == [on : BOOLEAN, loops : Seq(Loop)]

\* Unless a frame is asked for, the active section is the next one to begin.
NavRight ==
  ~navSpy.raf /\ scrollTop <= Offset(Sections) =>
    navSpy.active \in 1 .. Sections /\ Offset(navSpy.active) - scrollTop \in {0, 1}

\* Unless a frame is asked for, inViewState is right, and once the delay is over the
\* element is shown accordingly.
ViewRight ==
  /\ ~spy.raf => (spy.inViewState <=> InView(Offset(Sections)))
  /\ spy.timer /\ ~spy.inViewState => late
  /\ ~late /\ ~spy.timer => (spy.shown <=> spy.inViewState)

\* A sticky element shown as such sticks, or its release is under way; and the release
\* is of an element that no longer sticks.
StickyRight ==
  /\ sticky.shown /\ ~sticky.sticked => sticky.waiting /\ sticky.running
  /\ sticky.sticked => sticky.shown
  /\ ~overtaken /\ ~sticky.check => (sticky.sticked <=> Past)
  /\ ~overtaken /\ sticky.waiting => ~sticky.sticked

\* A smooth scroll is at its target or still on its way there.
SentRight ==
  \/ sentTo = NoTop
  \/ smooth.loops = <<>> /\ scrollTop = sentTo
  \/ smooth.on /\ Len(smooth.loops) = 1 /\ smooth.loops[1].to = sentTo

SpyInv == SpyTypeOK /\ NavRight /\ ViewRight /\ StickyRight /\ SentRight

LEMMA SpyTypes ==
  ASSUME SpyTypeOK
  PROVE  /\ scrollTop \in Tops /\ sentTo \in Tops \cup {NoTop}
         /\ smooth \in SmoothState /\ spy \in SpyState /\ navSpy \in NavState
         /\ sticky \in StickyState /\ late \in BOOLEAN /\ overtaken \in BOOLEAN
         /\ scrolls \in 0 .. MaxScrolls
BY DEF SpyTypeOK, SmoothState, Loop, SpyState, NavState, StickyState

LEMMA SpyTyped ==
  ASSUME scrollTop' \in Tops, sentTo' \in Tops \cup {NoTop},
         smooth' \in SmoothState, spy' \in SpyState, navSpy' \in NavState,
         sticky' \in StickyState, late' \in BOOLEAN, overtaken' \in BOOLEAN,
         scrolls' \in 0 .. MaxScrolls
  PROVE  SpyTypeOK'
BY DEF SpyTypeOK, SmoothState, Loop, SpyState, NavState, StickyState

LEMMA ScrollCounted == ASSUME SpyTypeOK, Scroll PROVE scrolls' \in 0 .. MaxScrolls
<1>1. scrolls \in 0 .. MaxScrolls /\ MaxScrolls \in Nat
  BY SpyAssumption DEF SpyTypeOK
<1>. QED BY <1>1 DEF Scroll

\* A scroll event: what was checked for the old position is to be checked again.
LEMMA ScrolledRight ==
  ASSUME SpyInv, Scrolled, UNCHANGED <<late, overtaken>>
  PROVE  /\ NavRight' /\ ViewRight' /\ StickyRight'
         /\ spy' \in SpyState /\ navSpy' \in NavState /\ sticky' \in StickyState
<1>0. spy \in SpyState /\ navSpy \in NavState /\ sticky \in StickyState
  BY SpyTypes DEF SpyInv
<1>1. navSpy' \in NavState /\ navSpy'.raf
  BY <1>0 DEF Scrolled, NavState
<1>2. /\ spy' \in SpyState /\ spy'.raf
      /\ spy'.timer = spy.timer /\ spy'.shown = spy.shown /\ spy'.inViewState = spy.inViewState
  BY <1>0 DEF Scrolled, SpyState
<1>3. /\ sticky' \in StickyState /\ sticky'.check
      /\ sticky'.shown = sticky.shown /\ sticky'.sticked = sticky.sticked
      /\ sticky'.waiting = sticky.waiting /\ sticky'.running = sticky.running
  BY <1>0 DEF Scrolled, StickyState
<1>4. ViewRight'
  BY <1>2 DEF SpyInv, ViewRight
<1>5. StickyRight'
  BY <1>3 DEF SpyInv, StickyRight
<1>. QED BY <1>1, <1>2, <1>3, <1>4, <1>5 DEF NavRight

\* As long as nothing of the followers and of the position changes, all stays right.
LEMMA FollowersStay ==
  ASSUME SpyInv, UNCHANGED <<scrollTop, spy, navSpy, sticky, late, overtaken>>
  PROVE  NavRight' /\ ViewRight' /\ StickyRight'
<1>1. InView(Offset(Sections))' <=> InView(Offset(Sections))
  BY DEF InView, Offset
<1>2. Past' <=> Past
  BY DEF Past
<1>3. NavRight'
  BY DEF SpyInv, NavRight, Offset
<1>4. ViewRight'
  BY <1>1 DEF SpyInv, ViewRight
<1>5. StickyRight'
  BY <1>2 DEF SpyInv, StickyRight
<1>. QED BY <1>3, <1>4, <1>5

LEMMA SmoothTypes ==
  ASSUME SpyTypeOK
  PROVE  smooth.on \in BOOLEAN /\ smooth.loops \in Seq(Loop)
BY SpyTypes DEF SmoothState

LEMMA WindowScrollsInv == ASSUME SpyInv, WindowScrolls PROVE SpyInv'
<1>0. SpyTypeOK
  BY DEF SpyInv
<1>1. /\ scrollTop' \in Tops /\ Scrolled /\ UNCHANGED <<smooth, late, overtaken>>
      /\ scrolls' \in 0 .. MaxScrolls
      /\ sentTo' = IF smooth.loops = <<>> THEN NoTop ELSE sentTo
  BY <1>0, ScrollCounted DEF WindowScrolls
<1>2. sentTo' \in Tops \cup {NoTop}
  BY <1>0, <1>1, SpyTypes
<1>3. SentRight'
  BY <1>1 DEF SpyInv, SentRight
<1>4. SpyTypeOK'
  BY <1>0, <1>1, <1>2, ScrolledRight, SpyTypes, SpyTyped
<1>. QED BY <1>1, <1>3, <1>4, ScrolledRight DEF SpyInv

LEMMA SmoothScrollInv == ASSUME SpyInv, NEW to \in Tops, SmoothScroll(to) PROVE SpyInv'
<1> DEFINE loop == [at |-> scrollTop, to |-> to]
<1>0. SpyTypeOK
  BY DEF SpyInv
<1>1. /\ ~smooth.on /\ smooth' = [on |-> TRUE, loops |-> Append(smooth.loops, loop)]
      /\ sentTo' = IF smooth.loops = <<>> THEN to ELSE NoTop
      /\ UNCHANGED <<scrollTop, spy, navSpy, sticky, late, overtaken>>
      /\ scrolls' \in 0 .. MaxScrolls
  BY <1>0, ScrollCounted DEF SmoothScroll
<1>2. smooth' \in SmoothState
  <2>1. loop \in Loop
    BY <1>0, SpyTypes DEF Loop
  <2> HIDE DEF loop
  <2>2. Append(smooth.loops, loop) \in Seq(Loop)
    BY <1>0, <2>1, SmoothTypes, AppendProperties
  <2>. QED BY <1>1, <2>2 DEF SmoothState
<1>3. SentRight'
  <2>1. CASE smooth.loops = <<>>
    <3>1. Append(smooth.loops, loop) = <<loop>>
      BY <2>1
    <3>2. smooth'.loops = <<loop>> /\ smooth'.on
      BY <1>1, <3>1
    <3>3. Len(smooth'.loops) = 1 /\ smooth'.loops[1].to = to
      BY <3>2
    <3>. QED BY <1>1, <2>1, <3>2, <3>3 DEF SentRight
  <2>2. CASE smooth.loops # <<>>
    BY <1>1, <2>2 DEF SentRight
  <2>. QED BY <2>1, <2>2
<1>4. sentTo' \in Tops \cup {NoTop}
  BY <1>1
<1>5. SpyTypeOK'
  BY <1>0, <1>1, <1>2, <1>4, SpyTypes, SpyTyped
<1>. QED BY <1>1, <1>3, <1>5, FollowersStay DEF SpyInv

LEMMA TouchAbortsInv == ASSUME SpyInv, TouchAborts PROVE SpyInv'
<1>0. SpyTypeOK
  BY DEF SpyInv
<1>1. /\ smooth' = [smooth EXCEPT !.on = FALSE] /\ sentTo' = NoTop
      /\ UNCHANGED <<scrollTop, spy, navSpy, sticky, late, overtaken>>
      /\ scrolls' \in 0 .. MaxScrolls
  BY <1>0, ScrollCounted DEF TouchAborts
<1>2. smooth' \in SmoothState
  BY <1>0, <1>1, SpyTypes DEF SmoothState
<1>3. SpyTypeOK'
  BY <1>0, <1>1, <1>2, SpyTypes, SpyTyped
<1>. QED BY <1>1, <1>3, FollowersStay DEF SpyInv, SentRight

LEMMA WithoutLoop ==
  ASSUME NEW S, NEW s \in Seq(S), NEW i \in DOMAIN s
  PROVE  Without(s, i) \in Seq(S) /\ (Len(s) = 1 => Without(s, i) = <<>>)
<1>1. Len(s) \in Nat /\ DOMAIN s = 1 .. Len(s)
  BY LenProperties
<1>2. SubSeq(s, 1, i - 1) \in Seq(S) /\ SubSeq(s, i + 1, Len(s)) \in Seq(S)
  BY <1>1, SubSeqProperties
<1>3. Without(s, i) \in Seq(S)
  BY <1>2, ConcatProperties DEF Without
<1>4. ASSUME Len(s) = 1 PROVE Without(s, i) = <<>>
  <2>1. i = 1 /\ Len(s) = 1
    BY <1>1, <1>4
  <2>2. Len(SubSeq(s, 1, 0)) = 0 /\ Len(SubSeq(s, 2, 1)) = 0
    BY <1>1, SubSeqProperties
  <2>3. SubSeq(s, 1, 0) = <<>> /\ SubSeq(s, 2, 1) = <<>>
    BY <1>2, <2>1, <2>2, EmptySeq
  <2>. QED BY <2>1, <2>3 DEF Without
<1>. QED BY <1>3, <1>4

LEMMA SmoothFrameInv == ASSUME SpyInv, NEW i \in DOMAIN smooth.loops, SmoothFrame(i) PROVE SpyInv'
<1>0. SpyTypeOK
  BY DEF SpyInv
<1> DEFINE loop == smooth.loops[i]
<1>1. /\ Scrolled /\ smooth.on
      /\ UNCHANGED <<sentTo, late, overtaken, scrolls>>
  BY DEF SmoothFrame
<1>2. PICK top \in (loop.at .. loop.to \cup loop.to .. loop.at) :
        smooth' = [smooth EXCEPT !.loops[i].at = top] /\ scrollTop' = top
  BY DEF SmoothFrame
<1>3. smooth.loops \in Seq(Loop) /\ smooth.loops # <<>>
  BY <1>0, SmoothTypes
<1>4. loop \in Loop
  BY <1>3, ElementOfSeq
<1>5. top \in Tops
  BY <1>2, <1>4, SpyAssumption DEF Loop, Tops
<1> DEFINE on == [loop EXCEPT !.at = top]
           onward == [smooth.loops EXCEPT ![i] = on]
<1>6. on \in Loop /\ on.to = loop.to
  BY <1>4, <1>5 DEF Loop
<1>7. smooth' = [smooth EXCEPT !.loops = onward]
  BY <1>2
<1> HIDE DEF on
<1>8. /\ onward \in Seq(Loop) /\ Len(onward) = Len(smooth.loops)
      /\ \A j \in DOMAIN smooth.loops : onward[j] = IF j = i THEN on ELSE smooth.loops[j]
  BY <1>3, <1>6, ExceptSeq
<1> HIDE DEF onward
<1>9. /\ smooth' \in SmoothState /\ smooth'.on = smooth.on /\ smooth'.loops = onward
  BY <1>0, <1>7, <1>8, SpyTypes DEF SmoothState
<1>10. SentRight'
  <2>1. CASE sentTo = NoTop
    BY <1>1, <2>1 DEF SentRight
  <2>2. CASE Len(smooth.loops) = 1 /\ smooth.loops[1].to = sentTo
    <3>1. i = 1 /\ onward[1] = on
      BY <1>3, <1>8, <2>2
    <3>. QED BY <1>1, <1>6, <1>8, <1>9, <2>2, <3>1 DEF SentRight
  <2>. QED BY <1>3, <2>1, <2>2 DEF SpyInv, SentRight
<1>11. SpyTypeOK'
  BY <1>0, <1>1, <1>2, <1>5, <1>9, ScrolledRight, SpyTypes, SpyTyped
<1>. QED BY <1>1, <1>10, <1>11, ScrolledRight DEF SpyInv

LEMMA SmoothEndsInv == ASSUME SpyInv, NEW i \in DOMAIN smooth.loops, SmoothEnds(i) PROVE SpyInv'
<1>0. SpyTypeOK /\ smooth.loops \in Seq(Loop)
  BY SmoothTypes DEF SpyInv
<1>1. /\ smooth' = [on |-> FALSE, loops |-> Without(smooth.loops, i)]
      /\ UNCHANGED <<sentTo, late, overtaken, scrolls>>
  BY DEF SmoothEnds
<1>2. smooth' \in SmoothState
  BY <1>0, <1>1, WithoutLoop DEF SmoothState
<1>3. smooth.loops # <<>>
  OBVIOUS
<1>4. smooth.loops[i].to \in Tops
  <2>1. smooth.loops[i] \in Loop
    BY <1>0, ElementOfSeq
  <2>. QED BY <2>1 DEF Loop
<1>5. SentRight'
  <2>1. CASE sentTo = NoTop
    BY <1>1, <2>1 DEF SentRight
  <2>2. CASE sentTo # NoTop
    <3>1. smooth.on /\ Len(smooth.loops) = 1 /\ smooth.loops[1].to = sentTo
      BY <1>3, <2>2 DEF SpyInv, SentRight
    <3>2. Len(smooth.loops) = 1 /\ i = 1 /\ smooth.loops[i].to = sentTo
      BY <1>0, <3>1
    <3>3. smooth'.loops = <<>>
      BY <1>0, <1>1, <3>2, WithoutLoop
    <3>4. scrollTop' = sentTo'
      BY <1>1, <3>1, <3>2 DEF SmoothEnds
    <3>. QED BY <3>3, <3>4 DEF SentRight
  <2>. QED BY <2>1, <2>2
<1>6. CASE smooth.on
  <2>1. Scrolled /\ scrollTop' = smooth.loops[i].to
    BY <1>6 DEF SmoothEnds
  <2>2. SpyTypeOK'
    BY <1>0, <1>1, <1>2, <1>4, <2>1, ScrolledRight, SpyTypes, SpyTyped
  <2>. QED BY <1>1, <1>5, <2>1, <2>2, ScrolledRight DEF SpyInv
<1>7. CASE ~smooth.on
  <2>1. UNCHANGED <<scrollTop, spy, navSpy, sticky>>
    BY <1>7 DEF SmoothEnds
  <2>2. SpyTypeOK'
    BY <1>0, <1>1, <1>2, <2>1, SpyTypes, SpyTyped
  <2>. QED BY <1>1, <1>5, <2>1, <2>2, FollowersStay DEF SpyInv
<1>. QED BY <1>6, <1>7

-----------------------------------------------------------------------------
LEMMA SpyActions ==
  ASSUME SpyInv, CheckView \/ SpyTimer
  PROVE  SpyInv'
<1>0. SpyTypeOK /\ spy \in SpyState /\ late \in BOOLEAN
  BY SpyTypes DEF SpyInv
<1>1. UNCHANGED <<scrollTop, smooth, navSpy, sticky, sentTo, overtaken, scrolls>>
  BY DEF CheckView, SpyTimer
<1> DEFINE in == InView(Offset(Sections))
<1>2. in \in BOOLEAN /\ in' = in
  BY <1>1 DEF InView, Offset
<1>3. spy' \in SpyState /\ late' \in BOOLEAN /\ ViewRight'
  <2>1. CASE CheckView
    <3>1. spy' = CASE in /\ ~spy.inViewState -> [spy EXCEPT !.raf = FALSE, !.timer = TRUE, !.inViewState = TRUE]
                   [] ~in /\ spy.inViewState -> [spy EXCEPT !.raf = FALSE, !.shown = FALSE, !.inViewState = FALSE]
                   [] OTHER -> [spy EXCEPT !.raf = FALSE]
      BY <2>1 DEF CheckView
    <3>2. late' = CASE in /\ ~spy.inViewState -> FALSE
                    [] ~in /\ spy.inViewState -> spy.timer
                    [] OTHER -> late
      BY <2>1 DEF CheckView
    <3>3. CASE in /\ ~spy.inViewState
      <4>1. /\ spy' \in SpyState /\ spy'.inViewState /\ spy'.timer /\ late' = FALSE
        BY <1>0, <3>1, <3>2, <3>3 DEF SpyState
      <4>. QED BY <1>2, <3>3, <4>1 DEF ViewRight
    <3>4. CASE ~in /\ spy.inViewState
      <4>1. /\ spy' \in SpyState /\ spy'.inViewState = FALSE /\ spy'.shown = FALSE
            /\ spy'.timer = spy.timer /\ late' = spy.timer /\ late' \in BOOLEAN
        BY <1>0, <3>1, <3>2, <3>4 DEF SpyState
      <4>. QED BY <1>2, <3>4, <4>1 DEF ViewRight
    <3>5. CASE in <=> spy.inViewState
      <4>1. /\ spy' \in SpyState /\ spy'.inViewState = spy.inViewState /\ spy'.shown = spy.shown
            /\ spy'.timer = spy.timer /\ late' = late
        BY <1>0, <3>1, <3>2, <3>5 DEF SpyState
      <4>. QED BY <1>0, <1>2, <3>5, <4>1 DEF SpyInv, ViewRight
    <3>. QED BY <1>0, <3>3, <3>4, <3>5
  <2>2. CASE SpyTimer
    <3>1. /\ spy' \in SpyState /\ spy'.inViewState = spy.inViewState /\ spy'.shown
          /\ spy'.timer = FALSE /\ spy'.raf = spy.raf /\ late' = late /\ spy.timer
      BY <1>0, <2>2 DEF SpyTimer, SpyState
    <3>. QED BY <1>0, <1>2, <3>1 DEF SpyInv, ViewRight
  <2>. QED BY <2>1, <2>2
<1>4. SpyTypeOK'
  BY <1>0, <1>1, <1>3, SpyTypes, SpyTyped
<1>5. NavRight'
  BY <1>1 DEF SpyInv, NavRight, Offset
<1>6. StickyRight'
  BY <1>1 DEF SpyInv, StickyRight, Past
<1>7. SentRight'
  BY <1>1 DEF SpyInv, SentRight
<1>. QED BY <1>3, <1>4, <1>5, <1>6, <1>7 DEF SpyInv

LEMMA Halves == ASSUME NEW n \in Nat PROVE n \div 2 \in Nat /\ 2 * (n \div 2) <= n /\ n <= 2 * (n \div 2) + 1
OBVIOUS

\* There is one section that begins at the window's top or half a window below it.
NextSection == (scrollTop + 2) \div 2

LEMMA NextSectionIs ==
  ASSUME scrollTop \in Tops, scrollTop <= Offset(Sections)
  PROVE  /\ NextSection \in 1 .. Sections /\ Offset(NextSection) - scrollTop \in {0, 1}
         /\ \A i \in 1 .. Sections : Offset(i) - scrollTop \in {0, 1} => i = NextSection
         /\ \A i \in 1 .. Sections : Offset(i) >= scrollTop => NextSection <= i
<1>1. Sections \in Nat /\ scrollTop \in Nat /\ scrollTop + 2 \in Nat
  BY SpyAssumption DEF Tops
<1>2. scrollTop <= 2 * Sections - 1
  BY DEF Offset
<1> DEFINE n == NextSection
<1>3. n \in Nat /\ 2 * n <= scrollTop + 2 /\ scrollTop + 2 <= 2 * n + 1
  BY <1>1, Halves DEF NextSection
<1> HIDE DEF n
<1>4. n \in 1 .. Sections /\ (2 * n - 1) - scrollTop \in {0, 1}
  BY <1>1, <1>2, <1>3
<1>5. \A i \in 1 .. Sections : (2 * i - 1) - scrollTop \in {0, 1} => i = n
  BY <1>1, <1>2, <1>3
<1>6. \A i \in 1 .. Sections : 2 * i - 1 >= scrollTop => n <= i
  BY <1>1, <1>2, <1>3
<1>. QED BY <1>4, <1>5, <1>6 DEF n, Offset

LEMMA NavProcessInv == ASSUME SpyInv, NavProcess PROVE SpyInv'
<1>0. SpyTypeOK /\ scrollTop \in Tops /\ navSpy \in NavState /\ navSpy.active \in 0 .. Sections
  BY SpyTypes DEF SpyInv, NavState
<1>1. UNCHANGED <<scrollTop, smooth, spy, sticky, sentTo, late, overtaken, scrolls>>
  BY DEF NavProcess
<1> DEFINE ins == {i \in 1 .. Sections : InView(Offset(i))}
           below == {i \in ins : Offset(i) >= scrollTop}
           new == IF ins = {} THEN navSpy.active ELSE ActiveSection(ins)
<1>2. navSpy' = [active |-> new, raf |-> FALSE]
  BY DEF NavProcess
<1>3. new = IF below = {} THEN navSpy.active ELSE CHOOSE i \in below : \A j \in below : i <= j
  BY DEF ActiveSection
<1>4. Sections \in Nat /\ scrollTop \in Nat
  BY <1>0, SpyAssumption DEF Tops
<1>5. \A i \in 1 .. Sections : i \in below <=> (2 * i - 1 >= scrollTop /\ 2 * i - 3 <= scrollTop)
  BY <1>4 DEF InView, Offset
<1>6. below \subseteq 1 .. Sections
  OBVIOUS
<1> HIDE DEF ins, new
<1>7. below # {} => new \in below /\ \A j \in below : new <= j
  <2> SUFFICES ASSUME below # {} PROVE \E i \in below : \A j \in below : i <= j
    BY <1>3
  <2>1. PICK k \in below : TRUE
    OBVIOUS
  <2>2. CASE k - 1 \in below
    <3>1. \A j \in below : k - 1 <= j
      BY <1>4, <1>5, <1>6, <2>1, <2>2
    <3>. QED BY <2>2, <3>1
  <2>3. CASE k - 1 \notin below
    <3>1. \A j \in below : k <= j
      <4> SUFFICES ASSUME NEW j \in below, j < k PROVE FALSE
        BY <1>4, <1>6
      <4>1. j \in 1 .. Sections /\ k \in 1 .. Sections
        BY <1>6
      <4>2. 2 * j - 1 >= scrollTop /\ 2 * k - 3 <= scrollTop
        BY <1>5, <4>1
      <4>3. j = k - 1
        BY <1>4, <4>1, <4>2
      <4>. QED BY <2>3, <4>3
    <3>. QED BY <2>1, <3>1
  <2>. QED BY <2>2, <2>3
<1>8. navSpy' \in NavState /\ navSpy'.active = new
  <2>1. new \in 0 .. Sections
    BY <1>0, <1>3, <1>4, <1>6, <1>7
  <2>. QED BY <1>2, <2>1 DEF NavState
<1>9. NavRight'
  <2> SUFFICES ASSUME scrollTop <= Offset(Sections)
               PROVE  new \in 1 .. Sections /\ Offset(new) - scrollTop \in {0, 1}
    BY <1>1, <1>8 DEF NavRight, Offset
  <2>1. NextSection \in 1 .. Sections /\ Offset(NextSection) - scrollTop \in {0, 1}
    BY <1>0, NextSectionIs
  <2>2. NextSection \in below
    BY <1>4, <1>5, <2>1 DEF Offset
  <2>3. new \in 1 .. Sections /\ Offset(new) >= scrollTop /\ new <= NextSection
    BY <1>4, <1>5, <1>6, <1>7, <2>2 DEF Offset
  <2>4. new = NextSection
    BY <1>0, <1>4, <2>1, <2>3, NextSectionIs
  <2>. QED BY <2>1, <2>4
<1>10. SpyTypeOK'
  BY <1>0, <1>1, <1>8, SpyTypes, SpyTyped
<1>11. ViewRight'
  BY <1>1 DEF SpyInv, ViewRight, InView, Offset
<1>12. StickyRight'
  BY <1>1 DEF SpyInv, StickyRight, Past
<1>13. SentRight'
  BY <1>1 DEF SpyInv, SentRight
<1>. QED BY <1>9, <1>10, <1>11, <1>12, <1>13 DEF SpyInv

-----------------------------------------------------------------------------
\* checkPosition() of an element: it sticks if the window is past it; if it is to be
\* released by an animation, complete() waits.
ShownRight(s) == s.shown /\ ~s.sticked => s.waiting /\ s.running

LEMMA StickyChecked ==
  ASSUME NEW s \in StickyState, s.sticked => s.shown, ShownRight(s)
  PROVE  /\ StickyCheck(s) \in StickyState /\ StickyCheck(s).check = s.check
         /\ StickyCheck(s).sticked <=> Past
         /\ Past => StickyCheck(s).shown /\ StickyCheck(s).waiting = s.waiting
         /\ ShownRight(StickyCheck(s))
<1>0. Past \in BOOLEAN /\ StickyAnimated \in BOOLEAN
  BY SpyAssumption DEF Past
<1> DEFINE t == CASE ~s.sticked /\ Past -> [s EXCEPT !.shown = TRUE, !.running = @ \/ StickyAnimated]
                  [] s.sticked /\ ~Past -> StickyReset(s)
                  [] OTHER -> s
<1>1. StickyCheck(s) = [t EXCEPT !.sticked = Past]
  BY DEF StickyCheck
<1>2. CASE ~s.sticked /\ Past
  <2>1. t = [s EXCEPT !.shown = TRUE, !.running = @ \/ StickyAnimated]
    BY <1>2
  <2> HIDE DEF t
  <2>2. t \in StickyState /\ t.shown /\ t.waiting = s.waiting /\ t.check = s.check
    BY <1>0, <2>1 DEF StickyState
  <2>. QED BY <1>0, <1>1, <1>2, <2>2 DEF StickyState, ShownRight
<1>3. CASE s.sticked /\ ~Past
  <2>1. t = IF StickyAnimated THEN [s EXCEPT !.waiting = TRUE, !.running = TRUE]
            ELSE [s EXCEPT !.shown = FALSE, !.sticked = FALSE]
    BY <1>3 DEF StickyReset, Released
  <2> HIDE DEF t
  <2>2. /\ t \in StickyState /\ t.check = s.check
        /\ t.shown => t.waiting /\ t.running
    BY <1>0, <2>1 DEF StickyState
  <2>. QED BY <1>0, <1>1, <1>3, <2>2 DEF StickyState, ShownRight
<1>4. CASE s.sticked <=> Past
  <2>1. t = s
    BY <1>4
  <2> HIDE DEF t
  <2>. QED BY <1>0, <1>1, <1>4, <2>1 DEF StickyState, ShownRight
<1>. QED BY <1>0, <1>2, <1>3, <1>4 DEF StickyState

\* What a handler of sticky alone has to keep.
LEMMA StickyKept ==
  ASSUME SpyInv, sticky' \in StickyState, overtaken' \in BOOLEAN, StickyRight',
         UNCHANGED <<scrollTop, smooth, spy, navSpy, sentTo, late>>,
         scrolls' \in 0 .. MaxScrolls
  PROVE  SpyInv'
<1>0. SpyTypeOK
  BY DEF SpyInv
<1>1. SpyTypeOK'
  BY <1>0, SpyTypes, SpyTyped
<1>2. NavRight'
  BY DEF SpyInv, NavRight, Offset
<1>3. ViewRight'
  BY DEF SpyInv, ViewRight, InView, Offset
<1>4. SentRight'
  BY DEF SpyInv, SentRight
<1>. QED BY <1>1, <1>2, <1>3, <1>4 DEF SpyInv

LEMMA StickyTypes ==
  ASSUME SpyInv
  PROVE  /\ sticky \in StickyState /\ scrollTop \in Tops /\ overtaken \in BOOLEAN
         /\ scrolls \in 0 .. MaxScrolls /\ SpyTypeOK
         /\ {sticky.sticked, sticky.shown, sticky.waiting, sticky.running, sticky.check}
              \subseteq BOOLEAN
         /\ Past \in BOOLEAN
BY SpyTypes DEF SpyInv, StickyState, Past

LEMMA CheckPositionInv == ASSUME SpyInv, CheckPosition PROVE SpyInv'
<1> DEFINE s == [sticky EXCEPT !.check = FALSE]
<1>1. /\ s \in StickyState /\ s.check = FALSE /\ s.sticked = sticky.sticked
      /\ s.shown = sticky.shown /\ s.waiting = sticky.waiting /\ s.running = sticky.running
  BY StickyTypes DEF StickyState
<1>2. sticky' = StickyCheck(s) /\ overtaken' = (Past /\ sticky.waiting)
  BY DEF CheckPosition
<1>3. UNCHANGED <<scrollTop, smooth, spy, navSpy, sentTo, late, scrolls>>
  BY DEF CheckPosition
<1> HIDE DEF s
<1>4. s.sticked => s.shown /\ ShownRight(s)
  BY <1>1 DEF SpyInv, StickyRight, ShownRight
<1>5. ShownRight(s)
  BY <1>1 DEF SpyInv, StickyRight, ShownRight
<1>6. /\ sticky' \in StickyState /\ (sticky'.sticked <=> Past) /\ ShownRight(sticky')
      /\ Past => sticky'.shown /\ sticky'.waiting = sticky.waiting
  BY <1>1, <1>2, <1>4, <1>5, StickyChecked
<1>7. Past' <=> Past
  BY <1>3 DEF Past
<1>8. StickyRight'
  BY <1>2, <1>6, <1>7, StickyTypes DEF StickyRight, ShownRight
<1>9. overtaken' \in BOOLEAN
  BY <1>2, StickyTypes
<1>. QED BY <1>3, <1>6, <1>8, <1>9, StickyKept, StickyTypes

LEMMA StickyResizedInv == ASSUME SpyInv, StickyResized PROVE SpyInv'
<1> DEFINE s == Released([sticky EXCEPT !.resize = FALSE, !.running = FALSE])
<1>1. /\ s \in StickyState /\ s.check = sticky.check /\ s.sticked = FALSE
      /\ s.shown = FALSE /\ s.waiting = sticky.waiting
  BY StickyTypes DEF StickyState, Released
<1>2. sticky' = StickyCheck(s) /\ overtaken' = sticky.waiting
  BY DEF StickyResized
<1>3. UNCHANGED <<scrollTop, smooth, spy, navSpy, sentTo, late, scrolls>>
  BY DEF StickyResized
<1> HIDE DEF s
<1>4. ShownRight(s)
  BY <1>1 DEF ShownRight
<1>5. /\ sticky' \in StickyState /\ (sticky'.sticked <=> Past) /\ ShownRight(sticky')
      /\ Past => sticky'.shown /\ sticky'.waiting = sticky.waiting
  BY <1>1, <1>2, <1>4, StickyChecked
<1>6. Past' <=> Past
  BY <1>3 DEF Past
<1>7. StickyRight'
  BY <1>2, <1>5, <1>6, StickyTypes DEF StickyRight, ShownRight
<1>8. overtaken' \in BOOLEAN
  BY <1>2, StickyTypes
<1>. QED BY <1>3, <1>5, <1>7, <1>8, StickyKept, StickyTypes

LEMMA StickyAnimationEndsInv == ASSUME SpyInv, StickyAnimationEnds PROVE SpyInv'
<1>1. sticky' = [(IF sticky.waiting THEN Released(sticky) ELSE sticky)
                  EXCEPT !.waiting = FALSE, !.running = FALSE]
  BY DEF StickyAnimationEnds
<1>2. UNCHANGED <<scrollTop, smooth, spy, navSpy, sentTo, late, overtaken, scrolls>>
  BY DEF StickyAnimationEnds
<1>3. Past' <=> Past
  BY <1>2 DEF Past
<1>4. CASE sticky.waiting
  <2>1. /\ sticky' \in StickyState /\ sticky'.check = sticky.check /\ sticky'.sticked = FALSE
        /\ sticky'.shown = FALSE /\ sticky'.waiting = FALSE
    BY <1>1, <1>4, StickyTypes DEF StickyState, Released
  <2>2. StickyRight'
    BY <1>2, <1>3, <1>4, <2>1, StickyTypes DEF StickyRight, SpyInv
  <2>. QED BY <1>2, <2>1, <2>2, StickyKept, StickyTypes
<1>5. CASE ~sticky.waiting
  <2>1. /\ sticky' \in StickyState /\ sticky'.check = sticky.check
        /\ sticky'.sticked = sticky.sticked
        /\ sticky'.shown = sticky.shown /\ sticky'.waiting = FALSE
    BY <1>1, <1>5, StickyTypes DEF StickyState, Released
  <2>2. StickyRight'
    BY <1>2, <1>3, <1>5, <2>1, StickyTypes DEF StickyRight, SpyInv
  <2>. QED BY <1>2, <2>1, <2>2, StickyKept, StickyTypes
<1>. QED BY <1>4, <1>5

LEMMA ResizesInv == ASSUME SpyInv, Resizes PROVE SpyInv'
<1>1. /\ sticky' = [sticky EXCEPT !.resize = TRUE]
      /\ UNCHANGED <<scrollTop, smooth, spy, navSpy, sentTo, late, overtaken>>
      /\ scrolls' \in 0 .. MaxScrolls
  BY ScrollCounted, StickyTypes DEF Resizes
<1>2. /\ sticky' \in StickyState /\ sticky'.check = sticky.check
      /\ sticky'.sticked = sticky.sticked /\ sticky'.running = sticky.running
      /\ sticky'.shown = sticky.shown /\ sticky'.waiting = sticky.waiting
  BY <1>1, StickyTypes DEF StickyState
<1>3. StickyRight'
  BY <1>1, <1>2 DEF StickyRight, SpyInv, Past
<1>. QED BY <1>1, <1>2, <1>3, StickyKept, StickyTypes

-----------------------------------------------------------------------------
LEMMA SpyTypeStarts == ASSUME NEW ask \in BOOLEAN, SpyStarts(ask) PROVE SpyTypeOK
<1>1. Sections \in Nat \ {0} /\ MaxScrolls \in Nat
  BY SpyAssumption
<1>2. 0 \in Tops /\ 0 \in 0 .. Sections /\ 0 \in 0 .. MaxScrolls
  BY <1>1 DEF Tops
<1>3. scrollTop \in Tops /\ sentTo = NoTop /\ scrolls \in 0 .. MaxScrolls
  BY <1>2 DEF SpyStarts
<1>4. smooth \in [on : BOOLEAN, loops : Seq([at : Tops, to : Tops])]
  <2>1. <<>> \in Seq([at : Tops, to : Tops])
    OBVIOUS
  <2>. QED BY <2>1 DEF SpyStarts
<1>5. navSpy \in [active : 0 .. Sections, raf : BOOLEAN]
  BY <1>2 DEF SpyStarts
<1>6. spy \in [inViewState : BOOLEAN, timer : BOOLEAN, shown : BOOLEAN, raf : BOOLEAN]
  BY DEF SpyStarts
<1>7. sticky \in [sticked : BOOLEAN, shown : BOOLEAN, waiting : BOOLEAN, running : BOOLEAN,
                  check : BOOLEAN, resize : BOOLEAN]
  BY DEF SpyStarts
<1>8. late = FALSE /\ overtaken = FALSE
  BY DEF SpyStarts
<1>. QED BY <1>3, <1>4, <1>5, <1>6, <1>7, <1>8 DEF SpyTypeOK

LEMMA SpyBegins == SpyInit => SpyInv
<1> SUFFICES ASSUME SpyInit PROVE SpyInv
  OBVIOUS
<1>1. SpyStarts(TRUE) /\ TRUE \in BOOLEAN
  BY DEF SpyInit
<1>2. SpyTypeOK
  BY <1>1, SpyTypeStarts
<1>3. NavRight /\ ViewRight
  BY <1>1 DEF SpyStarts, NavRight, ViewRight
<1>4. StickyRight /\ SentRight
  BY <1>1 DEF SpyStarts, StickyRight, SentRight
<1>. QED BY <1>2, <1>3, <1>4 DEF SpyInv

LEMMA SpyStep == SpyInv /\ [SpyNext]_spyVars => SpyInv'
<1> SUFFICES ASSUME SpyInv, [SpyNext]_spyVars PROVE SpyInv'
  OBVIOUS
<1>1. CASE UNCHANGED spyVars
  <2>1. UNCHANGED <<scrollTop, smooth, spy, navSpy, sentTo, late, scrolls, sticky, overtaken>>
    BY <1>1 DEF spyVars
  <2>2. StickyRight'
    BY <2>1 DEF SpyInv, StickyRight, Past
  <2>. QED BY <2>1, <2>2, StickyKept, StickyTypes
<1>2. ASSUME NEW i \in DOMAIN smooth.loops, SmoothFrame(i) \/ SmoothEnds(i) PROVE SpyInv'
  BY <1>2, SmoothFrameInv, SmoothEndsInv
<1>3. ASSUME NEW to \in Tops, SmoothScroll(to) PROVE SpyInv'
  BY <1>3, SmoothScrollInv
<1>. QED BY <1>1, <1>2, <1>3, WindowScrollsInv, TouchAbortsInv, ResizesInv, SpyActions,
            NavProcessInv, CheckPositionInv, StickyResizedInv, StickyAnimationEndsInv DEF SpyNext

LEMMA SpyHolds == SpyInv => PageFollows
<1> SUFFICES ASSUME SpyInv, SpyQuiet
             PROVE  /\ scrollTop <= Offset(Sections) =>
                         navSpy.active = CHOOSE i \in 1 .. Sections : Offset(i) - scrollTop \in {0, 1}
                    /\ late \/ spy.shown = InView(Offset(Sections))
                    /\ overtaken \/ (sticky.shown = Past /\ sticky.sticked = Past)
                    /\ sentTo \in {NoTop, scrollTop}
  BY DEF PageFollows
<1>0. SpyTypeOK /\ scrollTop \in Tops
  BY StickyTypes
<1>1. ASSUME scrollTop <= Offset(Sections)
      PROVE  navSpy.active = CHOOSE i \in 1 .. Sections : Offset(i) - scrollTop \in {0, 1}
  <2>1. navSpy.active \in 1 .. Sections /\ Offset(navSpy.active) - scrollTop \in {0, 1}
    BY <1>1 DEF SpyInv, NavRight, SpyQuiet
  <2> DEFINE c == CHOOSE i \in 1 .. Sections : Offset(i) - scrollTop \in {0, 1}
  <2>2. c \in 1 .. Sections /\ Offset(c) - scrollTop \in {0, 1}
    BY <2>1
  <2> HIDE DEF c
  <2>3. c = NextSection /\ navSpy.active = NextSection
    BY <1>0, <1>1, <2>1, <2>2, NextSectionIs
  <2>. QED BY <2>3 DEF c
<1>2. late \/ spy.shown = InView(Offset(Sections))
  <2>1. spy.shown \in BOOLEAN /\ InView(Offset(Sections)) \in BOOLEAN
    BY <1>0, SpyTypes DEF SpyState, InView
  <2>. QED BY <2>1 DEF SpyInv, ViewRight, SpyQuiet
<1>3. overtaken \/ (sticky.shown = Past /\ sticky.sticked = Past)
  BY StickyTypes DEF SpyInv, StickyRight, SpyQuiet
<1>4. sentTo \in {NoTop, scrollTop}
  <2>1. smooth.loops = <<>>
    BY DEF SpyQuiet
  <2>2. <<sentTo>> # <<>>
    OBVIOUS
  <2>. QED BY <2>1, <2>2 DEF SpyInv, SentRight
<1>. QED BY <1>1, <1>2, <1>3, <1>4

THEOREM PageFollowsTheWindow == SpySpec => []PageFollows
BY SpyBegins, SpyStep, SpyHolds, PTL DEF SpySpec

-----------------------------------------------------------------------------
(* AmValidator: a form that is submitted is right. A verdict known is that of   *)
(* the field's value, or of one the user has typed over since.                  *)

\* A sequence without its i-th element holds what it held.
LEMMA WithoutPromise ==
  ASSUME NEW S, NEW seq \in Seq(S), NEW i \in DOMAIN seq
  PROVE  SubSeq(seq, 1, i - 1) \o SubSeq(seq, i + 1, Len(seq)) \in Seq(S)
<1>1. Len(seq) \in Nat /\ DOMAIN seq = 1 .. Len(seq) /\ \A j \in 1 .. Len(seq) : seq[j] \in S
  BY LenProperties
<1>2. SubSeq(seq, 1, i - 1) \in Seq(S)
  <2>1. \A j \in 1 .. i - 1 : seq[j] \in S
    BY <1>1
  <2>. QED BY <1>1, <2>1, SubSeqProperties
<1>3. SubSeq(seq, i + 1, Len(seq)) \in Seq(S)
  <2>1. \A j \in i + 1 .. Len(seq) : seq[j] \in S
    BY <1>1
  <2>. QED BY <1>1, <2>1, SubSeqProperties
<1>. QED BY <1>2, <1>3, ConcatProperties

-----------------------------------------------------------------------------
\* The verdict of f may be wrong: nobody will notice, or the change of the field
\* that has the focus is still to be told.
Lags(f) == f \in behind \/ (f # "custom" /\ edited /\ f = focus)

VerdictsKnown == \A f \in Field : verdict[f] = "valid" => Right(f) \/ Lags(f)

\* The promises are about the value there is, if the custom field is not behind.
PromisesFresh == "custom" \notin behind => asked \in Seq({value["custom"]})

ValidatorInv == ValidatorTypeOK /\ VerdictsKnown /\ PromisesFresh /\ SubmittedRight

\* What an event that judges fields leaves true, if it judges the field with the
\* focus or leaves its change pending.
LEMMA JudgedOK ==
  ASSUME ValidatorInv, NEW fs \in SUBSET (Field \cup {NoField}), NEW times \in Nat,
         Judged(fs, times), value' = value,
         focus \in fs \/ ~edited \/ UNCHANGED <<edited, focus>>
  PROVE  /\ VerdictsKnown' /\ PromisesFresh'
         /\ verdict' \in [Field -> Verdict] /\ active' \in [Field -> BOOLEAN]
         /\ asked' \in Seq(Value) /\ behind' \subseteq Field
<1>1. /\ verdict \in [Field -> Verdict] /\ active \in [Field -> BOOLEAN]
      /\ asked \in Seq(Value) /\ behind \subseteq Field /\ value \in [Field -> Value]
  BY DEF ValidatorInv, ValidatorTypeOK
<1>2. /\ verdict' = [f \in Field |-> IF f \in fs \ {"custom"} THEN AsVerdict(Right(f)) ELSE verdict[f]]
      /\ active'  = [f \in Field |-> active[f] \/ (f \in fs \ {"custom"} /\ ~Right(f))]
      /\ asked'   = asked \o [i \in 1 .. times |-> value["custom"]]
      /\ behind' = behind \ (fs \ {"custom"})
  BY DEF Judged, Validate, Verdicts
<1>0. \A S : value["custom"] \in S => [i \in 1 .. times |-> value["custom"]] \in Seq(S)
  OBVIOUS
<1>3. verdict' \in [Field -> Verdict] /\ active' \in [Field -> BOOLEAN] /\ behind' \subseteq Field
  BY <1>1, <1>2 DEF AsVerdict, Verdict
<1>4. asked' \in Seq(Value)
  <2>1. value["custom"] \in Value
    BY <1>1 DEF Field
  <2>. QED BY <1>0, <1>1, <1>2, <2>1, ConcatProperties
<1>5. VerdictsKnown'
  <2> SUFFICES ASSUME NEW f \in Field, verdict'[f] = "valid" PROVE Right(f)' \/ Lags(f)'
    BY DEF VerdictsKnown
  <2>1. Right(f)' = Right(f)
    BY DEF Right
  <2>2. CASE f \in fs \ {"custom"}
    BY <1>2, <2>1, <2>2 DEF AsVerdict
  <2>3. CASE f \notin fs \ {"custom"}
    <3>1. Right(f) \/ Lags(f)
      BY <1>2, <2>3 DEF ValidatorInv, VerdictsKnown
    <3>. QED BY <1>2, <2>1, <2>3, <3>1 DEF Lags
  <2>. QED BY <2>2, <2>3
<1>6. PromisesFresh'
  <2> SUFFICES ASSUME "custom" \notin behind' PROVE asked' \in Seq({value["custom"]})
    BY DEF PromisesFresh
  <2>1. asked \in Seq({value["custom"]})
    BY <1>2 DEF ValidatorInv, PromisesFresh
  <2>2. [i \in 1 .. times |-> value["custom"]] \in Seq({value["custom"]})
    BY <1>0
  <2>. QED BY <1>2, <2>1, <2>2, ConcatProperties
<1>. QED BY <1>3, <1>4, <1>5, <1>6

LEMMA TypeInv ==
  ASSUME ValidatorInv, NEW f \in Field, NEW v \in Value, Type(f, v)
  PROVE  ValidatorInv'
<1>1. /\ value \in [Field -> Value] /\ verdict \in [Field -> Verdict]
      /\ active \in [Field -> BOOLEAN] /\ asked \in Seq(Value) /\ behind \subseteq Field
      /\ keyup \in Field \cup {NoField} /\ edits \in 0 .. MaxEdits /\ submitted \in BOOLEAN
  BY DEF ValidatorInv, ValidatorTypeOK
<1>2. /\ edits < MaxEdits /\ edits' = edits + 1 /\ ~submitted
      /\ focus \in {f, NoField} /\ focus' = f /\ edited' = TRUE
      /\ value' = [value EXCEPT ![f] = v]
      /\ keyup' = IF active[f] THEN f ELSE keyup
      /\ UNCHANGED <<verdict, active, asked, submitted>>
  BY DEF Type, Edit
<1>3. behind' = behind \cup IF f = "pattern" THEN {"equalTo"} ELSE IF f = "custom" THEN {f} ELSE {}
  BY DEF Type
<1>4. ValidatorTypeOK'
  <2>1. behind' \subseteq Field
    BY <1>1, <1>3 DEF Field
  <2>2. edits' \in 0 .. MaxEdits
    BY <1>1, <1>2, ValidatorAssumption
  <2>. QED BY <1>1, <1>2, <2>1, <2>2 DEF ValidatorTypeOK
<1>5. VerdictsKnown'
  <2> SUFFICES ASSUME NEW g \in Field, verdict'[g] = "valid" PROVE Right(g)' \/ Lags(g)'
    BY DEF VerdictsKnown
  <2>1. CASE g = f \/ g \in behind'
    BY <1>2, <1>3, <2>1 DEF Lags
  <2>2. CASE g # f /\ g \notin behind'
    <3>1. Right(g) \/ Lags(g)
      BY <1>2 DEF ValidatorInv, VerdictsKnown
    <3>2. ~Lags(g)
      BY <1>2, <1>3, <2>2 DEF Lags, NoField, Field
    <3>3. g = "equalTo" => f # "pattern"
      BY <1>3, <2>2
    <3>4. Right(g)' = Right(g)
      BY <1>1, <1>2, <2>2, <3>3 DEF Right, Field
    <3>. QED BY <3>1, <3>2, <3>4
  <2>. QED BY <2>1, <2>2
<1>6. PromisesFresh'
  BY <1>1, <1>2, <1>3 DEF ValidatorInv, PromisesFresh, Field
<1>. QED BY <1>2, <1>4, <1>5, <1>6 DEF ValidatorInv, SubmittedRight

LEMMA ScriptSetsInv ==
  ASSUME ValidatorInv, NEW f \in Field, NEW v \in Value, ScriptSets(f, v)
  PROVE  ValidatorInv'
<1>1. /\ value \in [Field -> Value] /\ behind \subseteq Field /\ edits \in 0 .. MaxEdits
  BY DEF ValidatorInv, ValidatorTypeOK
<1>2. /\ edits < MaxEdits /\ edits' = edits + 1 /\ ~submitted
      /\ value' = [value EXCEPT ![f] = v]
      /\ behind' = behind \cup {f} \cup IF f = "pattern" THEN {"equalTo"} ELSE {}
      /\ UNCHANGED <<verdict, active, focus, edited, keyup, asked, submitted>>
  BY DEF ScriptSets, Edit
<1>3. ValidatorTypeOK'
  <2>1. behind' \subseteq Field /\ value' \in [Field -> Value]
    BY <1>1, <1>2 DEF Field
  <2>2. edits' \in 0 .. MaxEdits
    BY <1>1, <1>2, ValidatorAssumption
  <2>. QED BY <1>2, <2>1, <2>2 DEF ValidatorTypeOK, ValidatorInv
<1>4. VerdictsKnown'
  <2> SUFFICES ASSUME NEW g \in Field, verdict'[g] = "valid", g \notin behind'
               PROVE  Right(g)' \/ Lags(g)'
    BY DEF VerdictsKnown, Lags
  <2>1. Right(g) \/ Lags(g)
    BY <1>2 DEF ValidatorInv, VerdictsKnown
  <2>2. Right(g)' = Right(g)
    BY <1>1, <1>2 DEF Right, Field
  <2>. QED BY <1>2, <2>1, <2>2 DEF Lags
<1>5. PromisesFresh'
  BY <1>1, <1>2 DEF ValidatorInv, PromisesFresh, Field
<1>. QED BY <1>2, <1>3, <1>4, <1>5 DEF ValidatorInv, SubmittedRight

LEMMA PromiseInv ==
  ASSUME ValidatorInv, NEW i \in DOMAIN asked, PromiseResolved(i)
  PROVE  ValidatorInv'
<1>1. /\ value \in [Field -> Value] /\ verdict \in [Field -> Verdict]
      /\ active \in [Field -> BOOLEAN] /\ asked \in Seq(Value) /\ behind \subseteq Field
  BY DEF ValidatorInv, ValidatorTypeOK
<1>2. /\ ~submitted
      /\ verdict' = [verdict EXCEPT !["custom"] = AsVerdict(asked[i] = 1)]
      /\ active' = [active EXCEPT !["custom"] = @ \/ asked[i] # 1]
      /\ asked' = SubSeq(asked, 1, i - 1) \o SubSeq(asked, i + 1, Len(asked))
      /\ behind' = IF asked = <<value["custom"]>> THEN behind \ {"custom"} ELSE behind
      /\ UNCHANGED <<value, focus, edited, keyup, submitted, edits>>
  BY DEF PromiseResolved
<1>3. \A S : asked \in Seq(S) => asked' \in Seq(S) /\ asked[i] \in S
  BY <1>2, WithoutPromise, LenProperties
<1>4. "custom" \notin behind' => asked \in Seq({value["custom"]})
  <2>1. CASE asked = <<value["custom"]>>
    <3>1. Append(<< >>, value["custom"]) = <<value["custom"]>>
      OBVIOUS
    <3>. QED BY <2>1, <3>1, EmptySeq, AppendProperties
  <2>2. CASE asked # <<value["custom"]>>
    BY <1>2, <2>2 DEF ValidatorInv, PromisesFresh
  <2>. QED BY <2>1, <2>2
<1>5. ValidatorTypeOK'
  <2>1. verdict' \in [Field -> Verdict] /\ active' \in [Field -> BOOLEAN] /\ behind' \subseteq Field
    BY <1>1, <1>2 DEF AsVerdict, Verdict
  <2>2. asked' \in Seq(Value)
    BY <1>1, <1>3
  <2>. QED BY <1>2, <2>1, <2>2 DEF ValidatorTypeOK, ValidatorInv
<1>6. VerdictsKnown'
  <2> SUFFICES ASSUME NEW g \in Field, verdict'[g] = "valid", g \notin behind'
               PROVE  Right(g)' \/ Lags(g)'
    BY DEF VerdictsKnown, Lags
  <2>0. Right(g)' = Right(g)
    BY <1>2 DEF Right
  <2>1. CASE g = "custom"
    <3>1. verdict'["custom"] = AsVerdict(asked[i] = 1)
      BY <1>1, <1>2 DEF Field
    <3>2. asked[i] = 1
      BY <2>1, <3>1 DEF AsVerdict
    <3>3. asked[i] = value["custom"]
      BY <1>3, <1>4, <2>1
    <3>. QED BY <2>0, <2>1, <3>2, <3>3 DEF Right
  <2>2. CASE g # "custom"
    <3>1. verdict[g] = "valid"
      BY <1>1, <1>2, <2>2
    <3>2. Right(g) \/ Lags(g)
      BY <3>1 DEF ValidatorInv, VerdictsKnown
    <3>. QED BY <1>2, <2>0, <2>2, <3>2 DEF Lags
  <2>. QED BY <2>1, <2>2
<1>7. PromisesFresh'
  BY <1>2, <1>3, <1>4 DEF PromisesFresh
<1>. QED BY <1>2, <1>5, <1>6, <1>7 DEF ValidatorInv, SubmittedRight

LEMMA SubmitInv ==
  ASSUME ValidatorInv, Submit
  PROVE  ValidatorInv'
<1> DEFINE changed  == IF edited THEN {focus} ELSE {}
           unjudged == {f \in Field : verdict[f] = "none"}
           found    == Verdicts(changed \cup unjudged)
           next     == IF AllValid(found) THEN focus ELSE FirstInvalid(found)
           left     == IF next = focus THEN {} ELSE {focus} \ {NoField}
           fs       == changed \cup unjudged \cup left
           times    == PerField(changed) + PerField(unjudged) + PerField(left)
<1>1. /\ ~submitted /\ Judged(fs, times) /\ submitted' = AllValid(found)
      /\ focus' = next /\ edited' = FALSE
      /\ UNCHANGED <<value, keyup, edits>>
  BY DEF Submit
<1>2. fs \in SUBSET (Field \cup {NoField}) /\ (focus \in fs \/ ~edited) /\ times \in Nat
  BY DEF ValidatorInv, ValidatorTypeOK, PerField
<1>a. submitted' => verdict' = found
  BY <1>1 DEF Judged, Validate
<1>b. focus' \in Field \cup {NoField}
  BY <1>1 DEF FirstInvalid, Field, ValidatorInv, ValidatorTypeOK
<1>3. /\ VerdictsKnown' /\ PromisesFresh'
      /\ verdict' \in [Field -> Verdict] /\ active' \in [Field -> BOOLEAN]
      /\ asked' \in Seq(Value) /\ behind' \subseteq Field
  <2>. HIDE DEF fs, times
  <2>. QED BY <1>1, <1>2, JudgedOK
<1>4. ValidatorTypeOK'
  <2>1. submitted' \in BOOLEAN
    BY <1>1 DEF AllValid
  <2>. QED BY <1>1, <1>3, <1>b, <2>1 DEF ValidatorTypeOK, ValidatorInv
<1>5. SubmittedRight'
  BY <1>1, <1>3, <1>a DEF SubmittedRight, AllValid, VerdictsKnown, Lags
<1>. QED BY <1>3, <1>4, <1>5 DEF ValidatorInv

LEMMA JudgingInv ==
  ASSUME ValidatorInv, KeyupFires \/ Leave
  PROVE  ValidatorInv'
<1>1. ~submitted /\ UNCHANGED <<value, submitted, edits>>
  BY DEF KeyupFires, Leave
<1>2. PICK f \in {keyup, focus} :
        Judged({f}, PerField({f})) /\ (f = focus \/ UNCHANGED <<edited, focus>>)
  BY DEF KeyupFires, Leave
<1>3. {focus', keyup'} \subseteq Field \cup {NoField} /\ edited' \in BOOLEAN
  BY DEF KeyupFires, Leave, ValidatorInv, ValidatorTypeOK
<1>4. {f} \in SUBSET (Field \cup {NoField}) /\ PerField({f}) \in Nat
  BY DEF ValidatorInv, ValidatorTypeOK, PerField
<1>5. /\ VerdictsKnown' /\ PromisesFresh'
      /\ verdict' \in [Field -> Verdict] /\ active' \in [Field -> BOOLEAN]
      /\ asked' \in Seq(Value) /\ behind' \subseteq Field
  BY <1>1, <1>2, <1>4, JudgedOK
<1>6. ValidatorTypeOK'
  BY <1>1, <1>3, <1>5 DEF ValidatorTypeOK, ValidatorInv
<1>. QED BY <1>1, <1>5, <1>6 DEF ValidatorInv, SubmittedRight

LEMMA ValidatorBegins == ValidatorInit => ValidatorInv
<1> SUFFICES ASSUME ValidatorInit PROVE ValidatorInv
  OBVIOUS
<1>1. asked \in Seq(Value) /\ asked \in Seq({value["custom"]})
  BY EmptySeq DEF ValidatorInit
<1>2. ValidatorTypeOK
  <2>1. edits \in 0 .. MaxEdits
    BY ValidatorAssumption DEF ValidatorInit
  <2>2. value \in [Field -> Value]
    BY DEF ValidatorInit, Value
  <2>. QED BY <1>1, <2>1, <2>2 DEF ValidatorInit, ValidatorTypeOK, Verdict
<1>. QED BY <1>1, <1>2 DEF ValidatorInit, ValidatorInv, VerdictsKnown, PromisesFresh, SubmittedRight

LEMMA ValidatorStep == ValidatorInv /\ [ValidatorNext]_validatorVars => ValidatorInv'
<1> SUFFICES ASSUME ValidatorInv, [ValidatorNext]_validatorVars PROVE ValidatorInv'
  OBVIOUS
<1>1. CASE UNCHANGED validatorVars
  BY <1>1 DEF ValidatorInv, validatorVars, ValidatorTypeOK, VerdictsKnown, Lags, Right,
              PromisesFresh, SubmittedRight
<1>2. CASE ValidatorNext
  BY <1>2, TypeInv, ScriptSetsInv, JudgingInv, SubmitInv, PromiseInv DEF ValidatorNext
<1>. QED BY <1>1, <1>2

LEMMA ValidatorHolds == ValidatorInv => SubmittedRight
BY DEF ValidatorInv

THEOREM SubmittedFormIsRight == ValidatorSpec => []SubmittedRight
BY ValidatorBegins, ValidatorStep, ValidatorHolds, PTL DEF ValidatorSpec

-----------------------------------------------------------------------------
(* AmDatepicker: the date picked is a day of the calendar and within the month  *)
(* shown. Most lemmas are about the calendar, which is counted in months and    *)
(* days with no bound on the years: the pane of six weeks holds each day of the *)
(* month once, below the name of its day of the week.                           *)

\* The day d of the month with number n, and how many days that month has.
DayAt(n, d) == [y |-> n \div 12, m |-> n % 12, d |-> d]
DaysOf(n)   == DaysInMonth(n \div 12, n % 12)

Date == {t \in [y : Int, m : 0 .. 11, d : 1 .. 31] : t.d <= DaysInMonth(t.y, t.m)}

LEMMA TwelveMonths ==
  ASSUME NEW n \in Int
  PROVE  n \div 12 \in Int /\ n % 12 \in 0 .. 11 /\ 12 * (n \div 12) + (n % 12) = n
OBVIOUS

LEMMA MonthsAdd ==
  ASSUME NEW y \in Int, NEW m \in Int
  PROVE  (12 * y + m) \div 12 = y + (m \div 12) /\ (12 * y + m) % 12 = m % 12
OBVIOUS

LEMMA MonthOfYear ==
  ASSUME NEW m \in 0 .. 11
  PROVE  m \div 12 = 0 /\ m % 12 = m
OBVIOUS

LEMMA WeekDays ==
  ASSUME NEW x \in Int, NEW w \in 0 .. 6
  PROVE  /\ ((x % 7) - w + 7) % 7 \in 0 .. 6
         /\ (x - (((x % 7) - w + 7) % 7)) % 7 = w
OBVIOUS

LEMMA DaysAre ==
  ASSUME NEW y \in Int, NEW m \in 0 .. 11
  PROVE  DaysInMonth(y, m) \in 28 .. 31
BY DEF DaysInMonth
LEMMA DaysOfMonth ==
  ASSUME NEW n \in Int
  PROVE  DaysOf(n) \in 28 .. 31
BY TwelveMonths, DaysAre DEF DaysOf

\* A day of the calendar is the day of the month with its number.
LEMMA DayAtFields ==
  ASSUME NEW n \in Int, NEW d
  PROVE  /\ MonthNumber(DayAt(n, d)) = n /\ DayAt(n, d).d = d
         /\ DayAt(n, d).y \in Int /\ DayAt(n, d).m \in 0 .. 11
         /\ DaysInMonth(DayAt(n, d).y, DayAt(n, d).m) = DaysOf(n)
<1>1. /\ DayAt(n, d).y = n \div 12 /\ DayAt(n, d).m = n % 12 /\ DayAt(n, d).d = d
  BY DEF DayAt
<1>. QED BY <1>1, TwelveMonths DEF MonthNumber, DaysOf

LEMMA DayAtInDate ==
  ASSUME NEW n \in Int, NEW d \in 1 .. DaysOf(n)
  PROVE  DayAt(n, d) \in Date
<1>1. d \in 1 .. 31 /\ d <= DaysInMonth(n \div 12, n % 12)
  BY DaysOfMonth DEF DaysOf
<1>. QED BY <1>1, TwelveMonths DEF DayAt, Date

LEMMA DayAtOnce ==
  ASSUME NEW n \in Int, NEW k \in Int, NEW d, NEW e, DayAt(n, d) = DayAt(k, e)
  PROVE  n = k /\ d = e
BY DayAtFields

LEMMA DateIsDayAt ==
  ASSUME NEW t, t.y \in Int, t.m \in 0 .. 11, t = [y |-> t.y, m |-> t.m, d |-> t.d]
  PROVE  /\ MonthNumber(t) \in Int /\ t = DayAt(MonthNumber(t), t.d)
         /\ DaysOf(MonthNumber(t)) = DaysInMonth(t.y, t.m)
<1> DEFINE n == MonthNumber(t)
<1>1. n \in Int /\ n = 12 * t.y + t.m
  BY DEF MonthNumber
<1>2. n \div 12 = t.y /\ n % 12 = t.m
  BY <1>1, MonthsAdd, MonthOfYear
<1> HIDE DEF n
<1>3. DayAt(n, t.d) = t
  BY <1>2 DEF DayAt
<1>. QED BY <1>1, <1>2, <1>3 DEF n, DaysOf

LEMMA DateFields ==
  ASSUME NEW t \in Date
  PROVE  /\ MonthNumber(t) \in Int /\ t = DayAt(MonthNumber(t), t.d)
         /\ DaysOf(MonthNumber(t)) = DaysInMonth(t.y, t.m)
         /\ t.y \in Int /\ t.m \in 0 .. 11 /\ t.d \in 1 .. DaysInMonth(t.y, t.m)
<1>1. /\ t.y \in Int /\ t.m \in 0 .. 11 /\ t.d \in 1 .. DaysInMonth(t.y, t.m)
      /\ t = [y |-> t.y, m |-> t.m, d |-> t.d]
  <2>1. /\ t.y \in Int /\ t.m \in 0 .. 11 /\ t.d \in 1 .. 31 /\ t.d <= DaysInMonth(t.y, t.m)
        /\ t = [y |-> t.y, m |-> t.m, d |-> t.d]
    BY DEF Date
  <2>2. DaysInMonth(t.y, t.m) \in 28 .. 31
    BY <2>1, DaysAre
  <2>. QED BY <2>1, <2>2
<1>. QED BY <1>1, DateIsDayAt

\* The arithmetic of Date, with the months counted through.
LEMMA InYearIsDayAt ==
  ASSUME NEW y \in Int, NEW m \in Int, NEW d
  PROVE  InYear(y, m, d) = DayAt(12 * y + m, d)
BY MonthsAdd DEF InYear, DayAt

LEMMA RunOnIs ==
  ASSUME NEW n \in Int, NEW d \in Nat
  PROVE  RunOn(DayAt(n, d)) =
           IF d > DaysOf(n) THEN DayAt(n + 1, d - DaysOf(n)) ELSE DayAt(n, d)
<1> DEFINE t == DayAt(n, d)
           k == DaysOf(n)
<1>1. t.y \in Int /\ t.m \in 0 .. 11 /\ t.d = d /\ 12 * t.y + t.m = n /\ DaysInMonth(t.y, t.m) = k
  BY DayAtFields DEF MonthNumber
<1> HIDE DEF t, k
<1>2. RunOn(t) = IF d > k THEN InYear(t.y, t.m + 1, d - k) ELSE t
  BY <1>1 DEF RunOn
<1>3. InYear(t.y, t.m + 1, d - k) = DayAt(12 * t.y + (t.m + 1), d - k)
  BY <1>1, InYearIsDayAt
<1>4. 12 * t.y + (t.m + 1) = n + 1
  BY <1>1
<1>. QED BY <1>2, <1>3, <1>4 DEF t, k

LEMMA NewDateIs ==
  ASSUME NEW y \in Int, NEW m \in Int, NEW d \in 1 .. 72
  PROVE  LET n == 12 * y + m
         IN  NewDate(y, m, d) =
               IF d <= DaysOf(n) THEN DayAt(n, d)
               ELSE IF d <= DaysOf(n) + DaysOf(n + 1) THEN DayAt(n + 1, d - DaysOf(n))
               ELSE DayAt(n + 2, d - DaysOf(n) - DaysOf(n + 1))
<1> DEFINE n == 12 * y + m
           a == DaysOf(n)
           b == DaysOf(n + 1)
<1>1. n \in Int /\ n + 1 \in Int /\ a \in 28 .. 31 /\ b \in 28 .. 31 /\ d \in Nat
  BY DaysOfMonth
<1>2. NewDate(y, m, d) = RunOn(RunOn(DayAt(n, d)))
  BY InYearIsDayAt DEF NewDate
<1> HIDE DEF n, a, b
<1>3. RunOn(DayAt(n, d)) = IF d > a THEN DayAt(n + 1, d - a) ELSE DayAt(n, d)
  BY <1>1, RunOnIs DEF a
<1> SUFFICES NewDate(y, m, d) = IF d <= a THEN DayAt(n, d)
                                ELSE IF d <= a + b THEN DayAt(n + 1, d - a)
                                ELSE DayAt(n + 2, d - a - b)
  BY DEF n, a, b
<1>4. CASE d <= a
  <2>1. ~(d > a)
    BY <1>1, <1>4
  <2>. QED BY <1>2, <1>3, <1>4, <2>1
<1>5. CASE d > a
  <2>1. d - a \in Nat
    BY <1>1, <1>5
  <2> DEFINE e == d - a
             k == n + 1
  <2>2. RunOn(DayAt(k, e)) = IF e > b THEN DayAt(k + 1, e - b) ELSE DayAt(k, e)
    <3>1. k \in Int /\ e \in Nat /\ b = DaysOf(k)
      BY <1>1, <2>1 DEF b
    <3> HIDE DEF k, e
    <3>. QED BY <3>1, RunOnIs
  <2>3. k + 1 = n + 2 /\ (e > b <=> ~(d <= a + b)) /\ ~(d <= a)
    BY <1>1, <1>5
  <2>. QED BY <1>2, <1>3, <1>5, <2>2, <2>3
<1>. QED BY <1>1, <1>4, <1>5

\* So every day that a script may ask for is one of the calendar.
LEMMA NewDateInDate ==
  ASSUME NEW y \in Int, NEW m \in Int, NEW d \in 1 .. 72
  PROVE  NewDate(y, m, d) \in Date
<1> DEFINE n == 12 * y + m
           a == DaysOf(n)
           b == DaysOf(n + 1)
<1>1. /\ n \in Int /\ n + 1 \in Int /\ n + 2 \in Int /\ a \in 28 .. 31 /\ b \in 28 .. 31
      /\ DaysOf(n + 2) \in 28 .. 31 /\ d \in Nat
  BY DaysOfMonth
<1>2. NewDate(y, m, d) = IF d <= a THEN DayAt(n, d)
                         ELSE IF d <= a + b THEN DayAt(n + 1, d - a)
                         ELSE DayAt(n + 2, d - a - b)
  BY NewDateIs
<1> HIDE DEF n, a, b
<1>3. CASE d <= a
  BY <1>1, <1>2, <1>3, DayAtInDate DEF a
<1>4. CASE ~(d <= a) /\ d <= a + b
  <2>1. d - a \in 1 .. b
    BY <1>1, <1>4
  <2>. QED BY <1>1, <1>2, <1>4, <2>1, DayAtInDate DEF b
<1>5. CASE ~(d <= a + b)
  <2>1. d - a - b \in 1 .. DaysOf(n + 2)
    BY <1>1, <1>5
  <2>2. ~(d <= a)
    BY <1>1, <1>5
  <2>. QED BY <1>1, <1>2, <1>5, <2>1, <2>2, DayAtInDate
<1>. QED BY <1>3, <1>4, <1>5

\* A day that every month has stays in the month asked for.
LEMMA NewDateStays ==
  ASSUME NEW y \in Int, NEW m \in Int, NEW d \in 1 .. 28
  PROVE  NewDate(y, m, d) = DayAt(12 * y + m, d) /\ NewDate(y, m, d) \in Date
<1> DEFINE n == 12 * y + m
<1>1. n \in Int /\ d \in 1 .. 72
  OBVIOUS
<1>2. d <= DaysOf(n)
  BY <1>1, DaysOfMonth
<1>3. NewDate(y, m, d) = DayAt(n, d)
  BY <1>1, <1>2, NewDateIs
<1>. QED BY <1>1, <1>3, NewDateInDate

-----------------------------------------------------------------------------
(* The pane of days.  The month in view is n; its first cell is the day e of the     *)
(* month before, which has a days.                                                   *)
Shown == MonthNumber(viewDate)
Before == DaysOf(Shown - 1)
Lead   == (GetDay(DayAt(Shown - 1, Before)) - WeekStart + 7) % 7

\* What day of the week it is goes on with the days of a month, and from month to
\* month, those of February in a leap year too.
Years(y) == LET last == y - 1
            IN  365 * y + (last \div 4) - (last \div 100) + (last \div 400)
Leap(n)  == IF IsLeapYear(n \div 12) /\ n % 12 > 1 THEN 1 ELSE 0
Serial(n) == Years(n \div 12) + DaysBefore[(n % 12) + 1] + Leap(n) - 1

LEMMA Quotients ==
  ASSUME NEW y \in Int
  PROVE  /\ (y \div 4) - ((y - 1) \div 4) = IF y % 4 = 0 THEN 1 ELSE 0
         /\ (y \div 100) - ((y - 1) \div 100) = IF y % 100 = 0 THEN 1 ELSE 0
         /\ (y \div 400) - ((y - 1) \div 400) = IF y % 400 = 0 THEN 1 ELSE 0
         /\ y % 400 = 0 => y % 100 = 0
         /\ y % 100 = 0 => y % 4 = 0
OBVIOUS

LEMMA YearGoesOn ==
  ASSUME NEW y \in Int
  PROVE  /\ Years(y) \in Int
         /\ Years(y + 1) = Years(y) + 365 + IF IsLeapYear(y) THEN 1 ELSE 0
<1> DEFINE a == (y - 1) \div 4
           b == (y - 1) \div 100
           c == (y - 1) \div 400
           i == y \div 4
           j == y \div 100
           k == y \div 400
<1>1. a \in Int /\ b \in Int /\ c \in Int /\ i \in Int /\ j \in Int /\ k \in Int
  OBVIOUS
<1>2. /\ i - a = IF y % 4 = 0 THEN 1 ELSE 0
      /\ j - b = IF y % 100 = 0 THEN 1 ELSE 0
      /\ k - c = IF y % 400 = 0 THEN 1 ELSE 0
      /\ y % 400 = 0 => y % 100 = 0
      /\ y % 100 = 0 => y % 4 = 0
  BY Quotients
<1>3. (y + 1) - 1 = y
  OBVIOUS
<1>4. Years(y) = 365 * y + a - b + c /\ Years(y + 1) = 365 * (y + 1) + i - j + k
  BY <1>3 DEF Years
<1> HIDE DEF a, b, c, i, j, k
<1>5. (i - a) - (j - b) + (k - c) = IF IsLeapYear(y) THEN 1 ELSE 0
  BY <1>2 DEF IsLeapYear
<1>. QED BY <1>1, <1>4, <1>5

LEMMA SerialIs ==
  ASSUME NEW n \in Int
  PROVE  /\ Serial(n) \in Int
         /\ \A d \in Nat : GetDay(DayAt(n, d)) = (Serial(n) + d) % 7
<1> DEFINE y == n \div 12
           before == DaysBefore[(n % 12) + 1]
<1>1. y \in Int /\ n % 12 \in 0 .. 11
  BY TwelveMonths
<1>2. before \in Int
  BY <1>1 DEF DaysBefore
<1>3. Years(y) \in Int /\ Leap(n) \in Int
  BY <1>1, YearGoesOn DEF Leap
<1>4. Serial(n) = Years(y) + before + Leap(n) - 1
  BY DEF Serial
<1>5. ASSUME NEW d \in Nat
      PROVE  GetDay(DayAt(n, d)) = (Years(y) + before + Leap(n) + d - 1) % 7
  <2>1. DayAt(n, d).y = y /\ DayAt(n, d).m = n % 12 /\ DayAt(n, d).d = d
    BY DEF DayAt
  <2>. QED BY <2>1 DEF GetDay, Leap, Years
<1> HIDE DEF y, before
<1>6. ASSUME NEW d \in Nat
      PROVE  GetDay(DayAt(n, d)) = (Serial(n) + d) % 7
  <2> DEFINE p == Years(y)
             l == Leap(n)
  <2>1. p \in Int /\ l \in Int /\ Serial(n) = p + before + l - 1
    BY <1>3, <1>4
  <2>2. GetDay(DayAt(n, d)) = (p + before + l + d - 1) % 7
    BY <1>5
  <2> HIDE DEF p, l
  <2>3. p + before + l + d - 1 = Serial(n) + d
    BY <1>2, <2>1
  <2>. QED BY <2>2, <2>3
<1>. QED BY <1>2, <1>3, <1>4, <1>6

LEMMA MonthGoesOn ==
  ASSUME NEW n \in Int
  PROVE  Serial(n + 1) = Serial(n) + DaysOf(n)
<1> DEFINE y == n \div 12
           m == n % 12
<1>1. y \in Int /\ m \in 0 .. 11 /\ 12 * y + m = n
  BY TwelveMonths
<1>2. Serial(n) = Years(y) + DaysBefore[m + 1] + Leap(n) - 1
  BY DEF Serial
<1>3. Leap(n) = IF IsLeapYear(y) /\ m > 1 THEN 1 ELSE 0
  BY DEF Leap
<1>4. DaysOf(n) = DaysInMonth(y, m)
  BY DEF DaysOf
<1>5. Years(y) \in Int
  BY <1>1, YearGoesOn
<1> HIDE DEF y, m
<1>6. CASE m = 11
  <2>1. (n + 1) \div 12 = y + 1 /\ (n + 1) % 12 = 0
    <3>1. n + 1 = 12 * (y + 1) + 0 /\ y + 1 \in Int
      BY <1>1, <1>6
    <3>. QED BY <3>1, MonthsAdd, MonthOfYear
  <2>2. Serial(n + 1) = Years(y + 1) + 0 + 0 - 1
    BY <2>1 DEF Serial, Leap, DaysBefore
  <2>3. Years(y + 1) = Years(y) + 365 + IF IsLeapYear(y) THEN 1 ELSE 0
    BY <1>1, YearGoesOn
  <2>4. DaysBefore[m + 1] = 334 /\ DaysInMonth(y, m) = 31
    BY <1>6 DEF DaysBefore, DaysInMonth
  <2>5. Leap(n) = IF IsLeapYear(y) THEN 1 ELSE 0
    BY <1>3, <1>6
  <2>. QED BY <1>2, <1>4, <1>5, <2>2, <2>3, <2>4, <2>5
<1>7. CASE m \in 0 .. 10
  <2>1. (n + 1) \div 12 = y /\ (n + 1) % 12 = m + 1
    <3>1. n + 1 = 12 * y + (m + 1) /\ m + 1 \in 0 .. 11
      BY <1>1, <1>7
    <3>. QED BY <1>1, <3>1, MonthsAdd, MonthOfYear
  <2>2. Serial(n + 1) = Years(y) + DaysBefore[m + 2] + Leap(n + 1) - 1
    <3>1. (m + 1) + 1 = m + 2
      BY <1>1
    <3>. QED BY <2>1, <3>1 DEF Serial
  <2>3. Leap(n + 1) = IF IsLeapYear(y) /\ m + 1 > 1 THEN 1 ELSE 0
    BY <2>1 DEF Leap
  <2>4. DaysBefore[m + 1] \in Int /\ DaysBefore[m + 2] \in Int
    BY <1>7 DEF DaysBefore
  <2>5. DaysBefore[m + 2] + Leap(n + 1) = DaysBefore[m + 1] + Leap(n) + DaysInMonth(y, m)
    <3>1. CASE m = 1
      <4>1. DaysBefore[m + 2] = 59 /\ DaysBefore[m + 1] = 31
        BY <3>1 DEF DaysBefore
      <4>2. Leap(n) = 0 /\ Leap(n + 1) = IF IsLeapYear(y) THEN 1 ELSE 0
        BY <1>3, <2>3, <3>1
      <4>3. DaysInMonth(y, m) = IF IsLeapYear(y) THEN 29 ELSE 28
        BY <3>1 DEF DaysInMonth
      <4>. QED BY <4>1, <4>2, <4>3
    <3>2. CASE m # 1
      <4>1. Leap(n + 1) = Leap(n) /\ Leap(n) \in Int
        BY <1>3, <1>7, <2>3, <3>2
      <4>2. DaysBefore[m + 2] = DaysBefore[m + 1] + DaysInMonth(y, m)
        BY <1>7, <3>2 DEF DaysBefore, DaysInMonth
      <4>3. DaysInMonth(y, m) \in Int
        BY <1>1, DaysAre
      <4>. QED BY <2>4, <4>1, <4>2, <4>3
    <3>. QED BY <3>1, <3>2
  <2>6. Leap(n) \in Int /\ Leap(n + 1) \in Int /\ DaysInMonth(y, m) \in Int
    BY <1>1, <1>3, <2>3, DaysAre
  <2> DEFINE p == Years(y)
             b == DaysBefore[m + 1]
             c == DaysBefore[m + 2]
             l == Leap(n)
             k == Leap(n + 1)
             d == DaysInMonth(y, m)
  <2>7. /\ p \in Int /\ b \in Int /\ c \in Int /\ l \in Int /\ k \in Int /\ d \in Int
        /\ c + k = b + l + d /\ DaysOf(n) = d
        /\ Serial(n) = p + b + l - 1 /\ Serial(n + 1) = p + c + k - 1
    BY <1>2, <1>4, <1>5, <2>2, <2>4, <2>5, <2>6
  <2> HIDE DEF p, b, c, l, k, d
  <2>. QED BY <2>7
<1>8. m = 11 \/ m \in 0 .. 10
  BY <1>1
<1>. QED BY <1>6, <1>7, <1>8

LEMMA PaneBegins ==
  ASSUME viewDate \in Date, WeekStart \in 0 .. 6
  PROVE  /\ Shown \in Int /\ Before \in 28 .. 31 /\ Lead \in 0 .. 6
         /\ FirstCell = DayAt(Shown - 1, Before - Lead)
         /\ (Serial(Shown - 1) + (Before - Lead)) % 7 = WeekStart
<1> DEFINE n == Shown
           k == n - 1
           prev == NewDate(viewDate.y, viewDate.m - 1, 28)
           last == [prev EXCEPT !.d = DaysInMonth(prev.y, prev.m)]
<1>1. n \in Int /\ viewDate.y \in Int /\ viewDate.m \in 0 .. 11
  BY DateFields DEF Shown
<1>2. k \in Int /\ 12 * viewDate.y + (viewDate.m - 1) = k
  BY <1>1 DEF Shown, MonthNumber
<1>3. Before \in 28 .. 31 /\ DaysOf(k) = Before
  BY <1>2, DaysOfMonth DEF Before
<1>4. prev = DayAt(k, 28)
  <2>1. viewDate.m - 1 \in Int /\ 28 \in 1 .. 28
    BY <1>1
  <2>. QED BY <1>1, <1>2, <2>1, NewDateStays, ZenonT(40)
<1>5. last = DayAt(k, Before)
  <2>1. DaysInMonth(prev.y, prev.m) = Before
    BY <1>2, <1>3, <1>4, DayAtFields
  <2>. QED BY <1>4, <2>1 DEF DayAt
<1> HIDE DEF n, k, prev
<1> DEFINE x == Serial(k)
<1>6. x \in Int /\ \A d \in Nat : GetDay(DayAt(k, d)) = (x + d) % 7
  BY <1>2, SerialIs
<1> HIDE DEF x
<1>7. GetDay(DayAt(k, Before)) = (x + Before) % 7
  BY <1>3, <1>6
<1>8. Lead = (((x + Before) % 7) - WeekStart + 7) % 7
  BY <1>7 DEF Lead, k, n
<1>9. Lead \in 0 .. 6 /\ ((x + Before) - Lead) % 7 = WeekStart
  <2> DEFINE z == x + Before
  <2>1. z \in Int
    BY <1>3, <1>6
  <2> HIDE DEF z
  <2>2. Lead = ((z % 7) - WeekStart + 7) % 7
    BY <1>8 DEF z
  <2>3. Lead \in 0 .. 6 /\ (z - Lead) % 7 = WeekStart
    BY <2>1, <2>2, WeekDays
  <2>. QED BY <2>3 DEF z
<1>10. FirstCell = [last EXCEPT !.d = @ - ((GetDay(last) - WeekStart + 7) % 7)]
  BY DEF FirstCell, prev
<1>11. FirstCell = DayAt(k, Before - Lead)
  <2> DEFINE l == DayAt(k, Before)
  <2>1. Lead = (GetDay(l) - WeekStart + 7) % 7
    BY DEF Lead, k, n
  <2>2. FirstCell = [l EXCEPT !.d = @ - Lead]
    BY <1>5, <1>10, <2>1
  <2>. QED BY <2>2 DEF DayAt
<1>12. (x + (Before - Lead)) % 7 = WeekStart
  <2>1. x + (Before - Lead) = (x + Before) - Lead
    BY <1>3, <1>6, <1>9
  <2>. QED BY <1>9, <2>1
<1>. QED BY <1>1, <1>3, <1>9, <1>11, <1>12 DEF n, k, x

\* The cells: the rest of the month before, the month in view, and the one behind it.
LEMMA CellIs ==
  ASSUME viewDate \in Date, WeekStart \in 0 .. 6, NEW i \in 0 .. 41
  PROVE  LET d == Before - Lead + i
             a == DaysOf(Shown)
         IN  /\ d \in 1 .. 72 /\ a \in 28 .. 31
             /\ Cell(i) = IF d <= Before THEN DayAt(Shown - 1, d)
                          ELSE IF d <= Before + a THEN DayAt(Shown, d - Before)
                          ELSE DayAt(Shown + 1, d - Before - a)
<1> DEFINE k == Shown - 1
           e == Before - Lead
           d == e + i
<1>1. /\ Shown \in Int /\ k \in Int /\ Before \in 28 .. 31 /\ Lead \in 0 .. 6
      /\ FirstCell = DayAt(k, e) /\ d \in 1 .. 72
  BY PaneBegins
<1>2. /\ FirstCell.y \in Int /\ FirstCell.m \in 0 .. 11 /\ FirstCell.d = e
      /\ 12 * FirstCell.y + FirstCell.m = k
  BY <1>1, DayAtFields DEF MonthNumber
<1>3. Cell(i) = NewDate(FirstCell.y, FirstCell.m, d)
  BY <1>2 DEF Cell
<1>4. k + 1 = Shown /\ k + 2 = Shown + 1 /\ DaysOf(k) = Before /\ DaysOf(Shown) \in 28 .. 31
  BY <1>1, DaysOfMonth DEF Before
<1> HIDE DEF k, d
<1>5. NewDate(FirstCell.y, FirstCell.m, d) =
        IF d <= Before THEN DayAt(k, d)
        ELSE IF d <= Before + DaysOf(Shown) THEN DayAt(k + 1, d - Before)
        ELSE DayAt(k + 2, d - Before - DaysOf(Shown))
  <2> DEFINE y == FirstCell.y
             m == FirstCell.m
  <2>1. y \in Int /\ m \in Int /\ 12 * y + m = k
    BY <1>2
  <2> HIDE DEF y, m
  <2>2. NewDate(y, m, d) =
          IF d <= DaysOf(k) THEN DayAt(k, d)
          ELSE IF d <= DaysOf(k) + DaysOf(k + 1) THEN DayAt(k + 1, d - DaysOf(k))
          ELSE DayAt(k + 2, d - DaysOf(k) - DaysOf(k + 1))
    BY <1>1, <2>1, NewDateIs
  <2>. QED BY <1>4, <2>2 DEF y, m
<1>. QED BY <1>1, <1>3, <1>4, <1>5 DEF k, d

\* What month a cell is of, and which day of it.
LEMMA CellFields ==
  ASSUME viewDate \in Date, WeekStart \in 0 .. 6, NEW i \in 0 .. 41
  PROVE  LET d == Before - Lead + i
             a == DaysOf(Shown)
             n == MonthNumber(Cell(i))
         IN  /\ Cell(i) = DayAt(n, Cell(i).d) /\ Cell(i) \in Date
             /\ \/ d <= Before /\ n = Shown - 1 /\ Cell(i).d = d
                \/ d > Before /\ d <= Before + a /\ n = Shown /\ Cell(i).d = d - Before
                \/ d > Before + a /\ n = Shown + 1 /\ Cell(i).d = d - Before - a
<1> DEFINE d == Before - Lead + i
           a == DaysOf(Shown)
           b == DaysOf(Shown + 1)
           c == Cell(i)
<1>1. /\ Shown \in Int /\ Shown - 1 \in Int /\ Shown + 1 \in Int
      /\ Before \in 28 .. 31 /\ Lead \in 0 .. 6 /\ DaysOf(Shown - 1) = Before
      /\ b \in 28 .. 31
  BY PaneBegins, DaysOfMonth DEF Before
<1>2. /\ d \in 1 .. 72 /\ a \in 28 .. 31
      /\ c = IF d <= Before THEN DayAt(Shown - 1, d)
             ELSE IF d <= Before + a THEN DayAt(Shown, d - Before)
             ELSE DayAt(Shown + 1, d - Before - a)
  BY CellIs
<1>3. d <= Before + 41
  BY <1>1
<1> HIDE DEF c, d, a, b
<1> SUFFICES /\ c = DayAt(MonthNumber(c), c.d) /\ c \in Date
             /\ \/ d <= Before /\ MonthNumber(c) = Shown - 1 /\ c.d = d
                \/ d > Before /\ d <= Before + a /\ MonthNumber(c) = Shown /\ c.d = d - Before
                \/ d > Before + a /\ MonthNumber(c) = Shown + 1 /\ c.d = d - Before - a
  BY DEF c, d, a
<1>4. CASE d <= Before
  <2>1. c = DayAt(Shown - 1, d) /\ d \in 1 .. DaysOf(Shown - 1)
    BY <1>1, <1>2, <1>4
  <2>. QED BY <1>1, <1>4, <2>1, DayAtFields, DayAtInDate
<1>5. CASE d > Before /\ d <= Before + a
  <2> DEFINE e == d - Before
  <2>1. c = DayAt(Shown, e) /\ e \in 1 .. a
    BY <1>1, <1>2, <1>5
  <2> HIDE DEF e
  <2>2. MonthNumber(c) = Shown /\ c.d = e /\ c \in Date
    BY <1>1, <2>1, DayAtFields, DayAtInDate DEF a
  <2>. QED BY <1>5, <2>1, <2>2 DEF e
<1>6. CASE d > Before + a
  <2> DEFINE e == d - Before - a
  <2>1. c = DayAt(Shown + 1, e) /\ e \in 1 .. b
    <3>1. ~(d <= Before) /\ ~(d <= Before + a)
      BY <1>1, <1>2, <1>6
    <3>2. e \in 1 .. b
      BY <1>1, <1>2, <1>3, <1>6
    <3>. QED BY <1>2, <3>1, <3>2
  <2> HIDE DEF e
  <2>2. MonthNumber(c) = Shown + 1 /\ c.d = e /\ c \in Date
    BY <1>1, <2>1, DayAtFields, DayAtInDate DEF b
  <2>. QED BY <1>6, <2>1, <2>2 DEF e
<1>7. (d <= Before) \/ (d > Before /\ d <= Before + a) \/ (d > Before + a)
  BY <1>1, <1>2
<1>. QED BY <1>4, <1>5, <1>6, <1>7

LEMMA CellOnce ==
  ASSUME viewDate \in Date, WeekStart \in 0 .. 6, NEW i \in 0 .. 41, NEW j \in 0 .. 41,
         Cell(i) = Cell(j)
  PROVE  i = j
<1> DEFINE a == DaysOf(Shown)
           d == Before - Lead + i
           e == Before - Lead + j
           n == MonthNumber(Cell(i))
           x == Cell(i).d
<1>1. /\ Shown \in Int /\ Before \in 28 .. 31 /\ Lead \in 0 .. 6 /\ a \in 28 .. 31
  BY PaneBegins, DaysOfMonth
<1>2. \/ d <= Before /\ n = Shown - 1 /\ x = d
      \/ d > Before /\ d <= Before + a /\ n = Shown /\ x = d - Before
      \/ d > Before + a /\ n = Shown + 1 /\ x = d - Before - a
  BY CellFields
<1>3. \/ e <= Before /\ n = Shown - 1 /\ x = e
      \/ e > Before /\ e <= Before + a /\ n = Shown /\ x = e - Before
      \/ e > Before + a /\ n = Shown + 1 /\ x = e - Before - a
  BY CellFields
<1> HIDE DEF a, n, x
<1>4. d = e
  BY <1>1, <1>2, <1>3
<1>. QED BY <1>1, <1>4

\* The pane has 42 days, and every day of the month in view.
LEMMA PaneHasDays ==
  ASSUME viewDate \in Date, WeekStart \in 0 .. 6
  PROVE  Cardinality({Cell(i) : i \in 0 .. 41}) = 42
<1> DEFINE I == 0 .. 41
           S == {Cell(i) : i \in I}
           f == [i \in I |-> Cell(i)]
<1>1. f \in Bijection(I, S)
  <2>1. f \in [I -> S] /\ \A i \in I : f[i] = Cell(i)
    OBVIOUS
  <2>2. \A i, j \in I : f[i] = f[j] => i = j
    BY <2>1, CellOnce
  <2>3. \A t \in S : \E i \in I : f[i] = t
    OBVIOUS
  <2> HIDE DEF f, S
  <2>. QED BY <2>1, <2>2, <2>3, Fun_IsBij
<1>2. IsFiniteSet(I) /\ Cardinality(I) = 42
  <2>1. 0 \in Int /\ 41 \in Int /\ ~(0 > 41) /\ 41 - 0 + 1 = 42
    OBVIOUS
  <2>. QED BY <2>1, FS_Interval
<1>3. ExistsBijection(I, S)
  BY <1>1 DEF ExistsBijection
<1>. QED BY <1>2, <1>3, FS_Bijection

LEMMA PaneHasMonth ==
  ASSUME viewDate \in Date, WeekStart \in 0 .. 6,
         NEW d \in 1 .. DaysInMonth(viewDate.y, viewDate.m)
  PROVE  [viewDate EXCEPT !.d = d] \in {Cell(i) : i \in 0 .. 41}
<1> DEFINE a == DaysOf(Shown)
           i == Lead + d
<1>1. /\ Shown \in Int /\ Before \in 28 .. 31 /\ Lead \in 0 .. 6 /\ a \in 28 .. 31
      /\ d \in 1 .. a /\ viewDate = DayAt(Shown, viewDate.d)
  BY PaneBegins, DaysOfMonth, DateFields DEF Shown
<1> HIDE DEF a
<1>2. i \in 0 .. 41
  BY <1>1
<1> DEFINE e == Before - Lead + i
<1>4. e = Before + d /\ ~(e <= Before) /\ e <= Before + a /\ e - Before = d
  BY <1>1
<1>5. Cell(i) = DayAt(Shown, d)
  <2>1. Cell(i) = IF e <= Before THEN DayAt(Shown - 1, e)
                  ELSE IF e <= Before + a THEN DayAt(Shown, e - Before)
                  ELSE DayAt(Shown + 1, e - Before - a)
    <3> HIDE DEF i
    <3>. QED BY <1>2, CellIs DEF a
  <2>. QED BY <1>4, <2>1
<1>6. [viewDate EXCEPT !.d = d] = DayAt(Shown, d)
  <2> DEFINE n == Shown
             v == viewDate.d
  <2>1. viewDate = DayAt(n, v)
    BY <1>1
  <2> HIDE DEF n, v
  <2>2. [viewDate EXCEPT !.d = d] = DayAt(n, d)
    BY <2>1 DEF DayAt
  <2>. QED BY <2>2 DEF n
<1>. QED BY <1>2, <1>5, <1>6

\* Each below the name of its day.
LEMMA WeekAdds ==
  ASSUME NEW x \in Int, NEW i \in Int, NEW w \in 0 .. 6, x % 7 = w
  PROVE  (x + i) % 7 = (w + i) % 7
OBVIOUS

LEMMA PaneIsWhole ==
  ASSUME viewDate \in Date, WeekStart \in 0 .. 6, NEW i \in 0 .. 41
  PROVE  GetDay(Cell(i)) = (WeekStart + i) % 7
<1> DEFINE a == DaysOf(Shown)
           e == Before - Lead
           d == e + i
           k == Shown - 1
           x == Serial(k)
<1>1. /\ Shown \in Int /\ k \in Int /\ k + 1 = Shown /\ Before \in 28 .. 31 /\ Lead \in 0 .. 6
      /\ DaysOf(k) = Before /\ (x + e) % 7 = WeekStart
  BY PaneBegins DEF Before
<1>2. /\ x \in Int /\ Serial(Shown) = x + Before /\ Serial(Shown + 1) = (x + Before) + a
  BY <1>1, SerialIs, MonthGoesOn
<1>3. /\ d \in 1 .. 72 /\ a \in 28 .. 31
      /\ Cell(i) = IF d <= Before THEN DayAt(k, d)
                   ELSE IF d <= Before + a THEN DayAt(Shown, d - Before)
                   ELSE DayAt(Shown + 1, d - Before - a)
  BY CellIs
<1>4. (x + d) % 7 = (WeekStart + i) % 7
  <2> DEFINE z == x + e
  <2>1. z \in Int /\ z % 7 = WeekStart /\ x + d = z + i /\ i \in Int
    BY <1>1, <1>2
  <2> HIDE DEF z, x, d
  <2>2. (z + i) % 7 = (WeekStart + i) % 7
    BY <2>1, WeekAdds
  <2>. QED BY <2>1, <2>2
<1> HIDE DEF a, d, k, x
<1>5. CASE d <= Before
  <2>1. Cell(i) = DayAt(k, d) /\ d \in Nat
    BY <1>3, <1>5
  <2>. QED BY <1>1, <1>4, <2>1, SerialIs DEF x
<1>6. CASE ~(d <= Before) /\ d <= Before + a
  <2> DEFINE f == d - Before
  <2>1. Cell(i) = DayAt(Shown, f) /\ f \in Nat /\ Serial(Shown) + f = x + d
    BY <1>1, <1>2, <1>3, <1>6
  <2> HIDE DEF f
  <2>2. GetDay(Cell(i)) = (Serial(Shown) + f) % 7
    BY <1>1, <2>1, SerialIs
  <2>. QED BY <1>4, <2>1, <2>2
<1>7. CASE ~(d <= Before) /\ ~(d <= Before + a)
  <2> DEFINE f == d - Before - a
             n == Shown + 1
  <2>1. Cell(i) = DayAt(n, f) /\ f \in Nat /\ Serial(n) + f = x + d /\ n \in Int
    BY <1>1, <1>2, <1>3, <1>7
  <2> HIDE DEF f, n
  <2>2. GetDay(Cell(i)) = (Serial(n) + f) % 7
    BY <2>1, SerialIs
  <2>. QED BY <1>4, <2>1, <2>2
<1>. QED BY <1>5, <1>6, <1>7

\* A click on a cell is one on the day it shows: the class tells the month.
LEMMA ClassTells ==
  ASSUME viewDate \in Date, NEW t \in Date
  PROVE  /\ Class(t) = "old" <=> MonthNumber(t) < MonthNumber(viewDate)
         /\ Class(t) = "new" <=> MonthNumber(t) > MonthNumber(viewDate)
<1>1. /\ viewDate.y \in Int /\ viewDate.m \in 0 .. 11 /\ t.y \in Int /\ t.m \in 0 .. 11
  BY DateFields
<1> DEFINE old == (t.m < viewDate.m /\ t.y = viewDate.y) \/ t.y < viewDate.y
           new == (t.m > viewDate.m /\ t.y = viewDate.y) \/ t.y > viewDate.y
<1>2. old <=> MonthNumber(t) < MonthNumber(viewDate)
  BY <1>1 DEF MonthNumber
<1>3. new <=> MonthNumber(t) > MonthNumber(viewDate)
  BY <1>1 DEF MonthNumber
<1>4. ~(old /\ new)
  BY <1>1
<1>5. Class(t) = CASE old -> "old" [] new -> "new" [] OTHER -> "day"
  BY DEF Class
<1> HIDE DEF old, new
<1>. QED BY <1>2, <1>3, <1>4, <1>5

MonthOfCell(i) ==
  viewDate.m + CASE Class(Cell(i)) = "old" -> -1
                 [] Class(Cell(i)) = "new" -> 1
                 [] OTHER -> 0

LEMMA ClickIsOnCell ==
  ASSUME viewDate \in Date, WeekStart \in 0 .. 6, NEW i \in 0 .. 41
  PROVE  /\ MonthOfCell(i) \in Int
         /\ 12 * viewDate.y + MonthOfCell(i) = MonthNumber(Cell(i))
         /\ NewDate(viewDate.y, MonthOfCell(i), Cell(i).d) = Cell(i)
<1> DEFINE c == Cell(i)
           n == MonthNumber(c)
           m == MonthOfCell(i)
<1>1. c \in Date
  BY CellFields
<1>2. n \in Shown - 1 .. Shown + 1 /\ Shown \in Int
  <2>1. Shown \in Int
    BY PaneBegins
  <2>2. n = Shown - 1 \/ n = Shown \/ n = Shown + 1
    BY CellFields
  <2>. QED BY <2>1, <2>2
<1>3. viewDate.y \in Int /\ viewDate.m \in 0 .. 11 /\ Shown = 12 * viewDate.y + viewDate.m
  BY DateFields DEF Shown, MonthNumber
<1>4. c.d \in 1 .. DaysOf(n) /\ c = DayAt(n, c.d) /\ n \in Int
  BY <1>1, DateFields
<1>5. (Class(c) = "old" <=> n < Shown) /\ (Class(c) = "new" <=> n > Shown)
  BY <1>1, ClassTells DEF Shown
<1>6. m = viewDate.m + CASE Class(c) = "old" -> -1 [] Class(c) = "new" -> 1 [] OTHER -> 0
  BY DEF MonthOfCell
<1> HIDE DEF c, n, m
<1>7. m \in Int /\ 12 * viewDate.y + m = n
  <2>1. CASE n < Shown
    <3>1. n = Shown - 1 /\ m = viewDate.m + (-1)
      BY <1>2, <1>5, <1>6, <2>1
    <3>. QED BY <1>3, <3>1
  <2>2. CASE n > Shown
    <3>1. n = Shown + 1 /\ m = viewDate.m + 1
      <4>1. ~(n < Shown)
        BY <1>2, <2>2
      <4>. QED BY <1>2, <1>5, <1>6, <2>2, <4>1
    <3>. QED BY <1>3, <3>1
  <2>3. CASE n = Shown
    <3>1. m = viewDate.m + 0
      <4>1. ~(n < Shown) /\ ~(n > Shown)
        BY <1>2, <2>3
      <4>. QED BY <1>5, <1>6, <4>1
    <3>. QED BY <1>3, <2>3, <3>1
  <2>. QED BY <1>2, <2>1, <2>2, <2>3
<1>8. c.d \in 1 .. 72 /\ c.d <= DaysOf(n)
  BY <1>4, DaysOfMonth
<1>9. NewDate(viewDate.y, m, c.d) = c
  <2> DEFINE y == viewDate.y
             d == c.d
  <2>1. y \in Int /\ 12 * y + m = n /\ d \in 1 .. 72 /\ d <= DaysOf(n) /\ c = DayAt(n, d)
    BY <1>3, <1>4, <1>7, <1>8
  <2> HIDE DEF y, d
  <2>2. NewDate(y, m, d) = DayAt(n, d)
    BY <1>7, <2>1, NewDateIs
  <2>. QED BY <2>1, <2>2 DEF y, d
<1>. QED BY <1>7, <1>9 DEF c, n, m

-----------------------------------------------------------------------------
(* The picker.                                                                    *)
DateInv ==
  /\ DatepickerTypeOK
  /\ date \in Date
  /\ viewDate \in Date /\ viewDate.d <= 28
  /\ MonthNumber(viewDate) = month
  /\ meant # NoDate => date = meant
  /\ ~typed => text = date

LEMMA DateInvIs ==
  ASSUME options \in Modes, mode \in 0 .. 2, date \in Date, viewDate \in Date, viewDate.d <= 28,
         {open, listening, typed} \subseteq BOOLEAN, picks \in 0 .. MaxPicks,
         MonthNumber(viewDate) = month,
         meant # NoDate => date = meant, ~typed => text = date
  PROVE  DateInv
<1>1. \A t \in {date, viewDate} : t.m \in 0 .. 11 /\ t.d \in 1 .. DaysInMonth(t.y, t.m)
  BY DateFields
<1>. QED BY <1>1 DEF DateInv, DatepickerTypeOK

LEMMA DateInvIsNext ==
  ASSUME options' \in Modes, mode' \in 0 .. 2, date' \in Date, viewDate' \in Date, viewDate'.d <= 28,
         {open', listening', typed'} \subseteq BOOLEAN, picks' \in 0 .. MaxPicks,
         MonthNumber(viewDate') = month',
         meant' # NoDate => date' = meant', ~typed' => text' = date'
  PROVE  DateInv'
<1>1. \A t \in {date', viewDate'} : t.m \in 0 .. 11 /\ t.d \in 1 .. DaysInMonth(t.y, t.m)
  BY DateFields
<1>. QED BY <1>1 DEF DateInv, DatepickerTypeOK

LEMMA ParseIsDate ==
  ASSUME DatepickerAssumption, NEW s \in Typed
  PROVE  ParseDate(s) \in Date
<1>1. CASE s = NoDate
  <2>1. Today \in [y : Nat, m : 0 .. 11, d : 1 .. 31] /\ Today.d <= DaysInMonth(Today.y, Today.m)
    BY DEF DatepickerAssumption
  <2>2. Today \in Date
    BY <2>1 DEF Date
  <2>. QED BY <1>1, <2>2 DEF ParseDate
<1>2. CASE s # NoDate
  <2>1. s \in [y : Nat \ (0 .. 99), m : Nat, d : 1 .. 72]
    BY <1>2 DEF DatepickerAssumption
  <2>2. s.y \in Int /\ s.m \in Int /\ s.d \in 1 .. 72
    BY <2>1
  <2>. QED BY <1>2, <2>2, NewDateInDate DEF ParseDate
<1>. QED BY <1>1, <1>2

LEMMA FirstIsDate ==
  ASSUME NEW t \in Date
  PROVE  FirstOf(t) \in Date /\ FirstOf(t).d <= 28 /\ MonthNumber(FirstOf(t)) \in Int
<1>1. t.y \in Int /\ t.m \in Int /\ 1 \in 1 .. 28
  BY DateFields
<1>2. FirstOf(t) = DayAt(12 * t.y + t.m, 1) /\ FirstOf(t) \in Date
  BY <1>1, NewDateStays DEF FirstOf
<1>3. FirstOf(t).d = 1
  BY <1>2 DEF DayAt
<1>. QED BY <1>2, <1>3, DateFields

LEMMA DateBegins == DatepickerInit => DateInv
<1> SUFFICES ASSUME DatepickerInit PROVE DateInv
  OBVIOUS
<1> USE DatepickerAssumption
<1>1. options \in Modes /\ text \in Typed /\ mode = options.start
  BY DEF DatepickerInit
<1>2. mode \in 0 .. 2 /\ 0 \in 0 .. MaxPicks
  BY <1>1 DEF DatepickerAssumption
<1>3. date \in Date
  BY <1>1, ParseIsDate DEF DatepickerInit
<1>4. viewDate \in Date /\ viewDate.d <= 28
  BY <1>3, FirstIsDate DEF DatepickerInit
<1>5. /\ {open, listening, typed} \subseteq BOOLEAN /\ picks = 0
      /\ MonthNumber(viewDate) = month /\ meant = NoDate /\ typed = TRUE
  BY DEF DatepickerInit
<1>. QED BY <1>1, <1>2, <1>3, <1>4, <1>5, DateInvIs

LEMMA ModeStays ==
  ASSUME DatepickerAssumption, options \in Modes, mode \in 0 .. 2, NEW dir \in {-1, 1}, ShowMode(dir)
  PROVE  mode' \in 0 .. 2
<1>1. options.min \in 0 .. 2
  BY DEF DatepickerAssumption
<1>. QED BY <1>1 DEF ShowMode

LEMMA PickCounted ==
  ASSUME DatepickerAssumption, picks \in 0 .. MaxPicks, Pick
  PROVE  picks' \in 0 .. MaxPicks
BY DEF DatepickerAssumption, Pick

\* A month in view is stayed in whole.
LEMMA ViewMoves ==
  ASSUME DateInv, NEW y \in Int, NEW m \in Int
  PROVE  LET t == NewDate(y, m, viewDate.d)
         IN  t \in Date /\ t.d <= 28 /\ MonthNumber(t) = 12 * y + m
<1> DEFINE d == viewDate.d
<1>1. d \in 1 .. 28
  <2>1. viewDate \in Date /\ d <= 28
    BY DEF DateInv
  <2>2. d \in 1 .. DaysInMonth(viewDate.y, viewDate.m) /\ DaysInMonth(viewDate.y, viewDate.m) \in 28 .. 31
    BY <2>1, DateFields, DaysAre
  <2>. QED BY <2>1, <2>2
<1> HIDE DEF d
<1>2. NewDate(y, m, d) = DayAt(12 * y + m, d) /\ NewDate(y, m, d) \in Date
  BY <1>1, NewDateStays
<1>3. 12 * y + m \in Int
  OBVIOUS
<1>4. NewDate(y, m, d).d = d /\ MonthNumber(NewDate(y, m, d)) = 12 * y + m
  BY <1>2, <1>3, DayAtFields
<1>. QED BY <1>1, <1>2, <1>4 DEF d

LEMMA ChosenKeeps ==
  ASSUME DateInv, DatepickerAssumption, NEW y \in Int, NEW m \in Int,
         Chosen(NewDate(y, m, viewDate.d)), Pick, month' = 12 * y + m
  PROVE  DateInv'
<1> DEFINE t == NewDate(y, m, viewDate.d)
<1>1. t \in Date /\ t.d <= 28 /\ MonthNumber(t) = 12 * y + m
  BY ViewMoves
<1> HIDE DEF t
<1>2. /\ viewDate' = t /\ date' = t /\ meant' = t /\ ShowMode(-1)
      /\ text' = date' /\ typed' = FALSE
      /\ options' = options /\ open' = open /\ listening' = listening
  BY DEF Chosen, SetText, t
<1>3. /\ options \in Modes /\ mode \in 0 .. 2 /\ {open, listening, typed} \subseteq BOOLEAN
      /\ picks \in 0 .. MaxPicks
  BY DEF DateInv, DatepickerTypeOK
<1>4. mode' \in 0 .. 2
  BY <1>2, <1>3, ModeStays
<1>5. picks' \in 0 .. MaxPicks
  BY <1>3, PickCounted
<1>6. {open', listening', typed'} \subseteq BOOLEAN
  BY <1>2, <1>3
<1>. QED BY <1>1, <1>2, <1>3, <1>4, <1>5, <1>6, DateInvIsNext

\* A date set by a script or typed: its month is in view.
LEMMA ParsedKeeps ==
  ASSUME DateInv, DatepickerAssumption, NEW s \in Typed, Pick,
         date' = ParseDate(s), ShowMonth(FirstOf(date')), meant' = NoDate,
         ~typed' => text' = date', typed' \in BOOLEAN,
         UNCHANGED <<options, mode, open, listening>>
  PROVE  DateInv'
<1>1. date' \in Date
  BY ParseIsDate
<1>2. viewDate' = FirstOf(date') /\ month' = MonthNumber(FirstOf(date'))
  BY DEF ShowMonth
<1>3. viewDate' \in Date /\ viewDate'.d <= 28 /\ MonthNumber(viewDate') = month'
  BY <1>1, <1>2, FirstIsDate
<1>4. /\ options \in Modes /\ mode \in 0 .. 2 /\ {open, listening, typed} \subseteq BOOLEAN
      /\ picks \in 0 .. MaxPicks
  BY DEF DateInv, DatepickerTypeOK
<1>5. picks' \in 0 .. MaxPicks
  BY <1>4, PickCounted
<1>. QED BY <1>1, <1>3, <1>4, <1>5, DateInvIsNext

LEMMA DayKeeps ==
  ASSUME DateInv, DatepickerAssumption, NEW i \in 0 .. 41, ClickDay(i)
  PROVE  DateInv'
<1> DEFINE c == Cell(i)
           m == MonthOfCell(i)
           n == MonthNumber(c)
           low == IF c.d < 28 THEN c.d ELSE 28
<1>1. viewDate \in Date /\ WeekStart \in 0 .. 6 /\ viewDate.y \in Int
  <2>1. viewDate \in Date /\ WeekStart \in 0 .. 6
    BY DEF DateInv, DatepickerAssumption
  <2>. QED BY <2>1, DateFields
<1>2. c \in Date
  BY <1>1, CellFields
<1>3. m \in Int /\ 12 * viewDate.y + m = n /\ NewDate(viewDate.y, m, c.d) = c
  BY <1>1, ClickIsOnCell
<1>4. /\ date' = NewDate(viewDate.y, m, c.d) /\ ShowMonth(NewDate(viewDate.y, m, low))
      /\ meant' = c /\ SetText /\ open' = FALSE /\ mode' = options.start
      /\ UNCHANGED <<options, listening>> /\ Pick
  BY DEF ClickDay, MonthOfCell
<1> HIDE DEF c, m, n
<1>5. low \in 1 .. 28
  <2>1. c.d \in 1 .. DaysInMonth(c.y, c.m) /\ DaysInMonth(c.y, c.m) \in 28 .. 31
    BY <1>2, DateFields, DaysAre
  <2>. QED BY <2>1
<1> HIDE DEF low
<1>6. NewDate(viewDate.y, m, low) = DayAt(n, low) /\ NewDate(viewDate.y, m, low) \in Date
  <2> DEFINE y == viewDate.y
  <2> HIDE DEF y
  <2>1. y \in Int /\ 12 * y + m = n
    BY <1>1, <1>3 DEF y
  <2>2. NewDate(y, m, low) = DayAt(n, low) /\ NewDate(y, m, low) \in Date
    BY <1>3, <1>5, <2>1, NewDateStays
  <2>. QED BY <2>2 DEF y
<1>7. viewDate' \in Date /\ viewDate'.d <= 28 /\ MonthNumber(viewDate') = month'
  <2>1. viewDate' = NewDate(viewDate.y, m, low) /\ month' = MonthNumber(NewDate(viewDate.y, m, low))
    BY <1>4 DEF ShowMonth
  <2>2. DayAt(n, low).d = low
    BY DEF DayAt
  <2>. QED BY <1>5, <1>6, <2>1, <2>2
<1>8. /\ options \in Modes /\ {open, listening, typed} \subseteq BOOLEAN
      /\ picks \in 0 .. MaxPicks /\ options.start \in 0 .. 2
  BY DEF DateInv, DatepickerTypeOK, DatepickerAssumption
<1>9. picks' \in 0 .. MaxPicks
  BY <1>4, <1>8, PickCounted
<1>10. date' = c /\ text' = date' /\ typed' = FALSE
  BY <1>3, <1>4 DEF SetText
<1>11. {open', listening', typed'} \subseteq BOOLEAN /\ options' \in Modes /\ mode' \in 0 .. 2
  BY <1>4, <1>8, <1>10
<1>. QED BY <1>2, <1>4, <1>7, <1>9, <1>10, <1>11, DateInvIsNext

LEMMA DateStep == DateInv /\ [DatepickerNext]_dateVars => DateInv'
<1> SUFFICES ASSUME DateInv, [DatepickerNext]_dateVars PROVE DateInv'
  OBVIOUS
<1> USE DatepickerAssumption
<1>1. /\ options \in Modes /\ mode \in 0 .. 2 /\ {open, listening, typed} \subseteq BOOLEAN
      /\ picks \in 0 .. MaxPicks /\ options.start \in 0 .. 2
      /\ date \in Date /\ viewDate \in Date /\ viewDate.d <= 28
      /\ MonthNumber(viewDate) = month
      /\ meant # NoDate => date = meant
      /\ ~typed => text = date
  BY DEF DateInv, DatepickerTypeOK, DatepickerAssumption
<1>2. viewDate.y \in Int /\ viewDate.m \in 0 .. 11 /\ month = 12 * viewDate.y + viewDate.m
  BY <1>1, DateFields DEF MonthNumber
<1>3. CASE OpenPicker
  BY <1>1, <1>3, DateInvIsNext DEF OpenPicker
<1>4. CASE ClickElsewhere
  BY <1>1, <1>4, DateInvIsNext DEF ClickElsewhere
<1>5. CASE ClickSwitch
  <2>1. /\ mode' \in 0 .. 2
    <3>1. ShowMode(1)
      BY <1>5 DEF ClickSwitch
    <3>. QED BY <1>1, <3>1, ModeStays
  <2>2. picks' \in 0 .. MaxPicks
    BY <1>1, <1>5, PickCounted DEF ClickSwitch
  <2>. QED BY <1>1, <1>5, <2>1, <2>2, DateInvIsNext DEF ClickSwitch
<1>6. ASSUME NEW dir \in {-1, 1}, ClickArrow(dir) PROVE DateInv'
  <2> DEFINE months == CASE mode = 0 -> 1 [] mode = 1 -> 12 [] mode = 2 -> 120
             y == viewDate.y
             m == viewDate.m + dir * months
  <2>1. months \in Int
    BY <1>1
  <2>2. /\ viewDate' = NewDate(viewDate.y, m, viewDate.d) /\ month' = month + dir * months
        /\ date' = date /\ text' = date' /\ typed' = FALSE /\ Pick
        /\ UNCHANGED <<options, mode, open, listening, meant>>
    BY <1>6 DEF ClickArrow, SetText
  <2> HIDE DEF months
  <2>3. y \in Int /\ m \in Int /\ month' = 12 * y + m
    <3>1. dir * months \in Int
      <4>1. CASE dir = 1
        BY <2>1, <4>1
      <4>2. CASE dir = -1
        BY <2>1, <4>2
      <4>. QED BY <1>6, <4>1, <4>2
    <3> DEFINE x == dir * months
    <3>2. x \in Int /\ month' = month + x
      BY <2>2, <3>1
    <3> HIDE DEF x
    <3>3. month' = 12 * viewDate.y + (viewDate.m + x) /\ viewDate.m + x \in Int
      BY <1>2, <3>2
    <3>. QED BY <1>2, <3>3 DEF x
  <2> HIDE DEF m
  <2>4. viewDate' \in Date /\ viewDate'.d <= 28 /\ MonthNumber(viewDate') = month'
    BY <2>2, <2>3, ViewMoves
  <2>5. picks' \in 0 .. MaxPicks
    BY <1>1, <2>2, PickCounted
  <2>. QED BY <1>1, <2>2, <2>4, <2>5, DateInvIsNext
<1>7. ASSUME NEW m \in 0 .. 11, ClickMonth(m) PROVE DateInv'
  <2>1. m \in Int
    BY <1>7
  <2>. QED BY <1>2, <1>7, <2>1, ChosenKeeps DEF ClickMonth
<1>8. ASSUME NEW y \in PickYears, ClickYear(y) PROVE DateInv'
  <2>1. y \in Int
    BY <1>8 DEF DatepickerAssumption
  <2>. QED BY <1>2, <1>8, <2>1, ChosenKeeps DEF ClickYear
<1>9. ASSUME NEW i \in 0 .. 41, ClickDay(i) PROVE DateInv'
  BY <1>9, DayKeeps
<1>10. ASSUME NEW s \in Typed, SetValue(s) PROVE DateInv'
  BY <1>10, ParsedKeeps DEF SetValue, SetText
<1>11. ASSUME NEW s \in Typed, NEW inInput \in BOOLEAN, Update(s, inInput) PROVE DateInv'
  BY <1>11, ParsedKeeps DEF Update
<1>12. CASE UNCHANGED dateVars
  BY <1>1, <1>12, DateInvIsNext DEF dateVars
<1>. QED BY <1>3, <1>4, <1>5, <1>6, <1>7, <1>8, <1>9, <1>10, <1>11, <1>12 DEF DatepickerNext

LEMMA DateHolds == DateInv => DateAsPicked
<1> SUFFICES ASSUME DateInv PROVE DateAsPicked
  OBVIOUS
<1>1. viewDate \in Date /\ WeekStart \in 0 .. 6
  BY DatepickerAssumption DEF DateInv, DatepickerAssumption
<1>2. \A i \in 0 .. 41 : GetDay(Cell(i)) = (WeekStart + i) % 7
  BY <1>1, PaneIsWhole
<1> DEFINE cells == {Cell(i) : i \in 0 .. 41}
<1>3. Cardinality(cells) = 42
  BY <1>1, PaneHasDays
<1>4. ASSUME NEW d \in 1 .. DaysInMonth(viewDate.y, viewDate.m)
      PROVE  [viewDate EXCEPT !.d = d] \in cells
  BY <1>1, <1>4, PaneHasMonth
<1> HIDE DEF cells
<1>5. DateAsPicked <=> /\ meant # NoDate => date = meant
                       /\ ~typed => text = date
                       /\ MonthNumber(viewDate) = month
                       /\ \A i \in 0 .. 41 : GetDay(Cell(i)) = (WeekStart + i) % 7
                       /\ Cardinality(cells) = 42
                       /\ \A d \in 1 .. DaysInMonth(viewDate.y, viewDate.m) :
                            [viewDate EXCEPT !.d = d] \in cells
  BY DEF DateAsPicked, cells
<1>. QED BY <1>2, <1>3, <1>4, <1>5 DEF DateInv

\* The datepicker, in every year and month that clicks, keys and scripts lead to: the
\* day clicked is the date it has, and the pane shows every day of the month in view,
\* each below the name of its day of the week.
THEOREM DateIsAsPicked == DatepickerSpec => []DateAsPicked
BY DateBegins, DateStep, DateHolds, PTL DEF DatepickerSpec

-----------------------------------------------------------------------------
(* AmAddToHome: what is stored says truly how often, and when, the visitor was  *)
(* asked.                                                                       *)

VisitState ==
  [session : SessionType, default : SessionType, same : BOOLEAN, ready : BOOLEAN,
   loaded : BOOLEAN, shown : BOOLEAN, waiting : BOOLEAN, loading : BOOLEAN, showing : Nat,
   timer : BOOLEAN, strays : Nat, seen : BOOLEAN, clickable : BOOLEAN, leaving : BOOLEAN]

History ==
  [refused : BOOLEAN, asked : Nat, recently : BOOLEAN, early : BOOLEAN,
   against : BOOLEAN, cleared : BOOLEAN]

Visit == [ath : VisitState, storage : SessionType, visitor : History]

\* What is stored says how often, and when, the visitor q was asked.
AskedRight(q, st) ==
  /\ ~writable => q.asked = 0
  /\ ~q.cleared /\ writable => q.asked <= st.count
  /\ ~q.cleared /\ writable /\ q.recently => st.last = "recent"
  /\ ~q.cleared => ~q.early /\ ~q.against
  /\ ~q.cleared /\ MaxDisplayCount > 0 => q.asked <= MaxDisplayCount

\* The session of the visit is the one that is stored, and a message is shown without
\* force only in a visit that may ask.
SessionRight(h, q, st) ==
  /\ h.default.exists
  /\ st.exists \/ st = NoSession
  /\ writable /\ h.session.exists => st = h.session \/ (q.cleared /\ st = NoSession)
  /\ h.ready => writable /\ h.session.exists /\ ~q.refused

VisitRight(v) ==
  /\ v \in Visit
  /\ AskedRight(v.visitor, v.storage)
  /\ SessionRight(v.ath, v.visitor, v.storage)

HomeInv ==
  /\ HomeTypeOK /\ AskedRight(visitor, storage) /\ SessionRight(ath, visitor, storage)
  /\ visits > 0 => ath.session.exists

\* What is left of v when the session is s.
Written(v, w, s) ==
  /\ w \in Visit
  /\ w.visitor = v.visitor
  /\ w.ath.session = s /\ w.ath.default.exists
  /\ w.ath.ready = v.ath.ready
  /\ w.storage = IF writable THEN s ELSE v.storage

LEMMA SessionWritten ==
  ASSUME NEW v \in Visit, NEW s \in SessionType, s.exists, v.ath.default.exists
  PROVE  Written(v, Updated(v, s), s)
<1> DEFINE a == [v.ath EXCEPT !.session = s, !.default = IF v.ath.same THEN s ELSE v.ath.default]
           w == [v EXCEPT !.ath = a]
<1>1. v.ath \in VisitState /\ v.storage \in SessionType /\ v.visitor \in History
  BY DEF Visit
<1>2. /\ a \in VisitState /\ a.session = s /\ a.ready = v.ath.ready /\ a.shown = v.ath.shown
      /\ a.default = IF v.ath.same THEN s ELSE v.ath.default
  BY <1>1 DEF VisitState
<1>3. Session(v, s) = w
  BY <1>1 DEF Session, VisitState, Visit
<1> HIDE DEF a
<1>4. w \in Visit /\ w.ath = a /\ w.visitor = v.visitor /\ w.storage = v.storage
  BY <1>1, <1>2 DEF Visit
<1> HIDE DEF w
<1>5. Updated(v, s) = IF writable THEN [w EXCEPT !.storage = s] ELSE w
  BY <1>3 DEF Updated
<1>6. a.default.exists
  BY <1>2
<1>7. CASE writable
  <2>1. Updated(v, s) = [w EXCEPT !.storage = s]
    BY <1>5, <1>7
  <2>2. /\ Updated(v, s) \in Visit /\ Updated(v, s).ath = a
        /\ Updated(v, s).visitor = v.visitor /\ Updated(v, s).storage = s
    BY <1>4, <2>1 DEF Visit
  <2>. QED BY <1>2, <1>6, <1>7, <2>2 DEF Written
<1>8. CASE ~writable
  BY <1>2, <1>4, <1>5, <1>6, <1>8 DEF Written
<1>. QED BY <1>7, <1>8

LEMMA AppearsFields ==
  ASSUME NEW h \in VisitState, HomeAssumption
  PROVE  /\ Appears(h) \in VisitState /\ Appears(h).session = h.session
         /\ Appears(h).default = h.default /\ Appears(h).ready = h.ready
<1> DEFINE k == IF HasIcon THEN h.showing ELSE h.showing + 1
<1>1. k \in Nat /\ HasIcon \in BOOLEAN
  BY DEF VisitState, HomeAssumption
<1>2. Appears(h) = [h EXCEPT !.shown = TRUE, !.seen = FALSE, !.leaving = FALSE,
                             !.clickable = FALSE, !.loading = HasIcon, !.showing = k]
  BY DEF Appears
<1> HIDE DEF k
<1>. QED BY <1>1, <1>2 DEF VisitState

LEMMA AskedByFields ==
  ASSUME NEW q \in History, NEW force \in BOOLEAN
  PROVE  /\ AskedBy(q, force) \in History
         /\ AskedBy(q, force).refused = q.refused /\ AskedBy(q, force).cleared = q.cleared
         /\ AskedBy(q, force).recently = TRUE
         /\ AskedBy(q, force).asked = IF force THEN q.asked ELSE q.asked + 1
         /\ AskedBy(q, force).early <=> q.early \/ (~force /\ q.recently)
         /\ AskedBy(q, force).against <=> q.against \/ (~force /\ q.refused)
<1> DEFINE n == IF force THEN q.asked ELSE q.asked + 1
           e == q.early \/ (~force /\ q.recently)
           g == q.against \/ (~force /\ q.refused)
<1>1. n \in Nat /\ e \in BOOLEAN /\ g \in BOOLEAN
  BY DEF History
<1>2. AskedBy(q, force) = [q EXCEPT !.asked = n, !.early = e, !.against = g, !.recently = TRUE]
  BY DEF AskedBy
<1> HIDE DEF n, e, g
<1>3. /\ AskedBy(q, force) \in History
      /\ AskedBy(q, force).refused = q.refused /\ AskedBy(q, force).cleared = q.cleared
      /\ AskedBy(q, force).recently = TRUE /\ AskedBy(q, force).asked = n
      /\ AskedBy(q, force).early = e /\ AskedBy(q, force).against = g
  BY <1>1, <1>2 DEF History
<1>. QED BY <1>3 DEF n, e, g

\* show() of a visit, whose session exists if the call is one by force.
LEMMA ShowRightly ==
  ASSUME NEW v, VisitRight(v), NEW force \in BOOLEAN, NEW loaded \in BOOLEAN,
         force => v.ath.session.exists, HomeAssumption, writable \in BOOLEAN
  PROVE  /\ VisitRight(Show(v, force, loaded))
         /\ Show(v, force, loaded).ath.session.exists <=> v.ath.session.exists
         /\ Show(v, force, loaded).ath.ready = v.ath.ready
<1> DEFINE x == Show(v, force, loaded)
<1>0. /\ v \in Visit /\ v.ath \in VisitState /\ v.storage \in SessionType
      /\ v.visitor \in History /\ v.ath.session \in SessionType /\ v.ath.session.exists \in BOOLEAN
  BY DEF VisitRight, Visit, VisitState, SessionType
<1>1. CASE ~loaded
  <2> DEFINE a == [v.ath EXCEPT !.waiting = TRUE]
  <2>1. x = [v EXCEPT !.ath = a]
    BY <1>1 DEF Show
  <2>2. /\ a \in VisitState /\ a.session = v.ath.session /\ a.ready = v.ath.ready
        /\ a.default = v.ath.default
    BY <1>0 DEF VisitState
  <2> HIDE DEF a
  <2>3. x \in Visit /\ x.ath = a /\ x.storage = v.storage /\ x.visitor = v.visitor
    BY <1>0, <2>1, <2>2 DEF Visit
  <2>. QED BY <2>2, <2>3 DEF VisitRight, SessionRight
<1>2. CASE loaded /\ ~v.ath.shown /\ MayShow(v, force)
  <2> DEFINE u == [v EXCEPT !.ath.loaded = loaded]
             old == v.ath.session
             c == old.count + 1
             s == [old EXCEPT !.last = "recent", !.count = c]
             w == Updated(u, s)
  <2>1. /\ u \in Visit /\ u.visitor = v.visitor /\ u.storage = v.storage
        /\ u.ath.session = old /\ u.ath.default = v.ath.default /\ u.ath.ready = v.ath.ready
    BY <1>0 DEF Visit, VisitState
  <2>2. x = [w EXCEPT !.ath = Appears(w.ath), !.visitor = AskedBy(w.visitor, force)]
    BY <1>2 DEF Show
  <2>3. old.exists
    BY <1>2 DEF MayShow, VisitRight, SessionRight
  <2>4. c \in Nat /\ c = old.count + 1
    <3>1. v.ath.session.count \in Nat
      BY <1>0 DEF SessionType
    <3>. QED BY <3>1
  <2> HIDE DEF c
  <2>5. /\ s \in SessionType /\ s.exists = old.exists /\ s.last = "recent" /\ s.count = c
    BY <1>0, <2>4 DEF SessionType
  <2> HIDE DEF u, s
  <2>6. Written(u, w, s)
    BY <2>1, <2>3, <2>5, SessionWritten DEF VisitRight, SessionRight
  <2> HIDE DEF w
  <2>7. /\ w \in Visit /\ w.visitor = v.visitor /\ w.ath.session = s /\ w.ath.default.exists
        /\ w.ath.ready = v.ath.ready /\ w.storage = IF writable THEN s ELSE v.storage
        /\ w.ath \in VisitState
    BY <2>1, <2>6 DEF Written, Visit
  <2> DEFINE h == Appears(w.ath)
             q == AskedBy(w.visitor, force)
  <2>8. /\ h \in VisitState /\ h.session = s /\ h.default.exists /\ h.ready = v.ath.ready
    BY <2>7, AppearsFields
  <2>9. /\ q \in History
        /\ q.refused = v.visitor.refused /\ q.cleared = v.visitor.cleared
        /\ q.recently = TRUE
        /\ q.asked = IF force THEN v.visitor.asked ELSE v.visitor.asked + 1
        /\ q.early <=> v.visitor.early \/ (~force /\ v.visitor.recently)
        /\ q.against <=> v.visitor.against \/ (~force /\ v.visitor.refused)
    BY <1>0, <2>7, AskedByFields, ZenonT(40)
  <2> HIDE DEF h, q
  <2>10. x \in Visit /\ x.ath = h /\ x.visitor = q /\ x.storage = w.storage
    BY <2>2, <2>7, <2>8, <2>9 DEF Visit, h, q
  <2> HIDE DEF x
  <2>11. SessionRight(h, q, w.storage)
    BY <2>3, <2>5, <2>7, <2>8, <2>9 DEF SessionRight, VisitRight
  <2>12. AskedRight(q, w.storage)
    <3>1. /\ v.visitor.asked \in Nat /\ old.count \in Nat /\ v.storage.count \in Nat
          /\ MaxDisplayCount \in Nat
      BY <1>0 DEF History, SessionType, HomeAssumption
    <3>2. ~force => v.ath.ready /\ old.last # "recent"
                    /\ (MaxDisplayCount = 0 \/ old.count < MaxDisplayCount)
      BY <1>2 DEF MayShow
    <3>3. ~force => writable /\ ~v.visitor.refused
      BY <3>2 DEF VisitRight, SessionRight
    <3>4. writable /\ ~v.visitor.cleared => v.storage = old
      BY <2>3 DEF VisitRight, SessionRight
    <3>5. /\ ~writable => v.visitor.asked = 0
          /\ ~v.visitor.cleared /\ writable => v.visitor.asked <= v.storage.count
          /\ ~v.visitor.cleared /\ writable /\ v.visitor.recently => v.storage.last = "recent"
          /\ ~v.visitor.cleared => ~v.visitor.early /\ ~v.visitor.against
          /\ ~v.visitor.cleared /\ MaxDisplayCount > 0 => v.visitor.asked <= MaxDisplayCount
      BY DEF VisitRight, AskedRight
    <3>6. ~writable => q.asked = 0
      BY <2>9, <3>3, <3>5
    <3>7. ~q.cleared /\ writable => q.asked <= w.storage.count
      BY <2>4, <2>5, <2>7, <2>9, <3>1, <3>4, <3>5
    <3>8. ~q.cleared /\ writable /\ q.recently => w.storage.last = "recent"
      BY <2>5, <2>7
    <3>9. ~q.cleared => ~q.early /\ ~q.against
      BY <2>9, <3>2, <3>3, <3>4, <3>5
    <3>10. ~q.cleared /\ MaxDisplayCount > 0 => q.asked <= MaxDisplayCount
      BY <2>9, <3>1, <3>2, <3>3, <3>4, <3>5
    <3>. QED BY <3>6, <3>7, <3>8, <3>9, <3>10 DEF AskedRight
  <2>13. x.ath.session.exists <=> v.ath.session.exists
    BY <2>3, <2>5, <2>8, <2>10
  <2>. QED BY <2>8, <2>10, <2>11, <2>12, <2>13 DEF x, VisitRight
<1>3. CASE loaded /\ ~(~v.ath.shown /\ MayShow(v, force))
  BY <1>3 DEF Show
<1>. QED BY <1>1, <1>2, <1>3

\* A session that is written leaves a visit right, if it says what it should.
LEMMA WrittenRightly ==
  ASSUME NEW v \in Visit, NEW w, NEW s \in SessionType, Written(v, w, s), s.exists,
         v.storage.exists \/ v.storage = NoSession,
         AskedRight(v.visitor, w.storage),
         v.ath.ready => writable /\ ~v.visitor.refused
  PROVE  VisitRight(w) /\ w.ath.session.exists
<1>1. /\ w \in Visit /\ w.visitor = v.visitor /\ w.ath.session = s /\ w.ath.default.exists
      /\ w.ath.ready = v.ath.ready /\ w.storage = IF writable THEN s ELSE v.storage
  BY DEF Written
<1>2. SessionRight(w.ath, w.visitor, w.storage)
  BY <1>1 DEF SessionRight
<1>. QED BY <1>1, <1>2 DEF VisitRight

\* Of a session only these parts matter.
LEMMA AskedSame ==
  ASSUME NEW q, NEW st, NEW s, AskedRight(q, st), s.count = st.count, s.last = st.last
  PROVE  AskedRight(q, s)
BY DEF AskedRight

\* A visit that has session s, and does not show anything yet.
FreshVisit(v, s) ==
  /\ v \in Visit /\ AskedRight(v.visitor, v.storage) /\ SessionRight(v.ath, v.visitor, v.storage)
  /\ v.ath.session = s /\ s \in SessionType /\ s.exists /\ ~v.ath.ready
  /\ AskedRight(v.visitor, s)

LEMMA FreshWritten ==
  ASSUME NEW v \in Visit, ~v.ath.ready, v.ath.default.exists,
         v.storage.exists \/ v.storage = NoSession,
         AskedRight(v.visitor, v.storage),
         NEW s \in SessionType, s.exists, AskedRight(v.visitor, s)
  PROVE  FreshVisit(Updated(v, s), s) /\ Updated(v, s).visitor = v.visitor
<1> DEFINE w == Updated(v, s)
<1>1. Written(v, w, s)
  BY SessionWritten
<1> HIDE DEF w
<1>2. /\ w \in Visit /\ w.visitor = v.visitor /\ w.ath.session = s /\ w.ath.default.exists
      /\ w.ath.ready = v.ath.ready /\ w.storage = IF writable THEN s ELSE v.storage
  BY <1>1 DEF Written
<1>3. SessionRight(w.ath, w.visitor, w.storage)
  BY <1>2 DEF SessionRight
<1>4. AskedRight(w.visitor, w.storage) /\ AskedRight(w.visitor, s)
  BY <1>2
<1>. QED BY <1>2, <1>3, <1>4 DEF FreshVisit, w

\* A session that is written again, with what matters as it was.
LEMMA FreshAgain ==
  ASSUME NEW v, NEW o, FreshVisit(v, o), NEW s \in SessionType,
         s.exists, s.count = o.count, s.last = o.last
  PROVE  FreshVisit(Updated(v, s), s) /\ Updated(v, s).visitor = v.visitor
<1>1. AskedRight(v.visitor, s)
  BY AskedSame DEF FreshVisit
<1>. QED BY <1>1, FreshWritten DEF FreshVisit, SessionRight

LEMMA FirstSessions ==
  /\ DefaultSession \in SessionType /\ NoSession \in SessionType
  /\ DefaultSession.exists /\ ~NoSession.exists
  /\ DefaultSession.count = NoSession.count /\ DefaultSession.last = NoSession.last
  /\ NoSession.count = 0 /\ NoSession.last = "long ago"
BY DEF DefaultSession, NoSession, SessionType

LEMMA NewVisitFields ==
  /\ NewVisit \in VisitState /\ ~NewVisit.ready /\ NewVisit.default = DefaultSession
  /\ NewVisit.session = NoSession /\ NewVisit.same = FALSE
BY FirstSessions DEF NewVisit, VisitState

\* A change of one part of a session.
LEMMA SessionPart ==
  ASSUME NEW s \in SessionType, NEW b \in BOOLEAN
  PROVE  /\ [s EXCEPT !.optedout = b] \in SessionType
         /\ [s EXCEPT !.optedout = b].exists = s.exists
         /\ [s EXCEPT !.optedout = b].count = s.count
         /\ [s EXCEPT !.optedout = b].last = s.last
         /\ [s EXCEPT !.returning = b] \in SessionType
         /\ [s EXCEPT !.returning = b].exists = s.exists
         /\ [s EXCEPT !.returning = b].count = s.count
         /\ [s EXCEPT !.returning = b].last = s.last
         /\ [s EXCEPT !.added = b] \in SessionType
         /\ [s EXCEPT !.added = b].exists = s.exists
         /\ [s EXCEPT !.added = b].count = s.count
         /\ [s EXCEPT !.added = b].last = s.last
<1>1. /\ [s EXCEPT !.optedout = b] \in SessionType
      /\ [s EXCEPT !.returning = b] \in SessionType
      /\ [s EXCEPT !.added = b] \in SessionType
  BY DEF SessionType
<1>. QED BY <1>1 DEF SessionType

\* The constructor, in a visit that begins.
LEMMA ConstructRightly ==
  ASSUME NEW v \in Visit, v.ath = NewVisit, AskedRight(v.visitor, v.storage),
         v.storage.exists \/ v.storage = NoSession,
         NEW token \in BOOLEAN, NEW standalone \in BOOLEAN, NEW loaded \in BOOLEAN,
         HomeAssumption, writable \in BOOLEAN
  PROVE  /\ VisitRight(Construct(v, token, standalone, loaded))
         /\ Construct(v, token, standalone, loaded).ath.session.exists
<1> DEFINE old   == v.storage.exists
           begin == IF old THEN v.storage ELSE DefaultSession
           first == [v EXCEPT !.ath.session = begin, !.ath.same = ~old]
           stored == Updated(first, first.ath.session)
           opted == [stored.ath.session EXCEPT !.optedout = TRUE]
           out == IF legacy THEN Updated(stored, opted) ELSE stored
           s == out.ath.session
           r == s.optedout \/ s.added
           begun == [out EXCEPT !.visitor.refused = r]
           known == [s EXCEPT !.returning = TRUE]
           added == [s EXCEPT !.added = TRUE]
           again == Updated(begun, known)
           onHome == Updated(begun, added)
           ready == [again EXCEPT !.ath.ready = TRUE]
           x == Construct(v, token, standalone, loaded)
<1>1. v.storage \in SessionType /\ v.visitor \in History /\ old \in BOOLEAN
  BY DEF Visit, SessionType
<1>2. /\ begin \in SessionType /\ begin.exists
      /\ begin.count = v.storage.count /\ begin.last = v.storage.last
  BY <1>1, FirstSessions
<1> HIDE DEF begin
<1>3. /\ first \in Visit /\ first.ath.session = begin /\ first.ath.default = DefaultSession
      /\ ~first.ath.ready /\ first.storage = v.storage /\ first.visitor = v.visitor
  <2> DEFINE b == ~old
             a == [NewVisit EXCEPT !.session = begin, !.same = b]
  <2>1. first = [v EXCEPT !.ath = a]
    BY DEF Visit, VisitState
  <2>2. b \in BOOLEAN
    BY <1>1
  <2> HIDE DEF b
  <2>3. /\ a \in VisitState /\ a.session = begin /\ a.default = DefaultSession /\ ~a.ready
    BY <1>2, <2>2, NewVisitFields DEF VisitState
  <2> HIDE DEF a, first
  <2>. QED BY <2>1, <2>3 DEF Visit
<1>4. AskedRight(v.visitor, begin)
  BY <1>2, AskedSame
<1>5. x = CASE r -> begun
            [] ~r /\ (standalone \/ (DetectHomescreen /\ token /\ old)) -> onHome
            [] /\ ~r /\ ~(~r /\ (standalone \/ (DetectHomescreen /\ token /\ old)))
               /\ ((~s.returning /\ SkipFirstVisit) \/ ~writable) -> again
            [] OTHER -> Show(ready, FALSE, loaded)
  <2> HIDE DEF first, stored, out, begun, again, ready
  <2>. QED BY DEF Construct, begin, first, stored, out, begun, again, ready
<1> HIDE DEF first, x
<1>6. FreshVisit(stored, begin) /\ stored.visitor = v.visitor
  <2>1. first.ath.session = begin
    BY <1>3
  <2>2. FreshVisit(Updated(first, begin), begin) /\ Updated(first, begin).visitor = first.visitor
    BY <1>1, <1>2, <1>3, <1>4, FirstSessions, FreshWritten
  <2>. QED BY <1>3, <2>1, <2>2
<1> HIDE DEF stored
<1>7. opted \in SessionType /\ opted.exists /\ opted.count = begin.count /\ opted.last = begin.last
  <2>1. stored.ath.session = begin /\ TRUE \in BOOLEAN
    BY <1>6 DEF FreshVisit
  <2>. QED BY <1>2, <2>1, SessionPart, ZenonT(40)
<1> HIDE DEF opted
<1>8. FreshVisit(out, out.ath.session) /\ out.visitor = v.visitor
  <2>1. CASE legacy
    <3>1. FreshVisit(out, opted)
      BY <1>6, <1>7, <2>1, FreshAgain
    <3>2. out.visitor = v.visitor
      BY <1>6, <1>7, <2>1, FreshAgain
    <3>. QED BY <3>1, <3>2 DEF FreshVisit
  <2>2. CASE ~legacy
    BY <1>6, <2>2 DEF FreshVisit
  <2>. QED BY <2>1, <2>2
<1> HIDE DEF out
<1>9. s \in SessionType /\ s.exists
  BY <1>8 DEF FreshVisit
<1> HIDE DEF s
<1>10. r \in BOOLEAN
  BY <1>9 DEF SessionType
<1> HIDE DEF r
<1>11. FreshVisit(begun, s) /\ begun.visitor.refused = r
  <2> DEFINE q == [v.visitor EXCEPT !.refused = r]
  <2>1. begun = [out EXCEPT !.visitor = q]
    BY <1>8
  <2>2. /\ q \in History /\ q.refused = r /\ q.asked = v.visitor.asked
        /\ q.cleared = v.visitor.cleared /\ q.recently = v.visitor.recently
        /\ q.early = v.visitor.early /\ q.against = v.visitor.against
    BY <1>1, <1>10 DEF History
  <2> HIDE DEF q, begun
  <2>3. /\ begun \in Visit /\ begun.ath = out.ath /\ begun.storage = out.storage
        /\ begun.visitor = q
    BY <1>8, <2>1, <2>2 DEF FreshVisit, Visit
  <2>4. AskedRight(q, out.storage) /\ AskedRight(q, s)
    BY <1>8, <2>2 DEF FreshVisit, AskedRight, s
  <2>5. SessionRight(begun.ath, q, out.storage)
    BY <1>8, <2>2, <2>3 DEF FreshVisit, SessionRight
  <2>. QED BY <1>8, <1>9, <2>2, <2>3, <2>4, <2>5 DEF FreshVisit, s
<1> HIDE DEF begun
<1>12. /\ known \in SessionType /\ known.exists /\ known.count = s.count /\ known.last = s.last
       /\ added \in SessionType /\ added.exists /\ added.count = s.count /\ added.last = s.last
  <2>1. TRUE \in BOOLEAN
    OBVIOUS
  <2>. QED BY <1>9, <2>1, SessionPart, ZenonT(40)
<1> HIDE DEF known, added
<1>13. /\ FreshVisit(again, known) /\ again.visitor = begun.visitor
       /\ FreshVisit(onHome, added)
  BY <1>9, <1>11, <1>12, FreshAgain
<1> HIDE DEF again, onHome
<1>14. \A w, o : FreshVisit(w, o) => VisitRight(w) /\ w.ath.session.exists
  BY DEF FreshVisit, VisitRight
<1>15. ~r /\ writable =>
         VisitRight(Show(ready, FALSE, loaded)) /\ Show(ready, FALSE, loaded).ath.session.exists
  <2> SUFFICES ASSUME ~r, writable
               PROVE  /\ VisitRight(Show(ready, FALSE, loaded))
                      /\ Show(ready, FALSE, loaded).ath.session.exists
    OBVIOUS
  <2> DEFINE a == [again.ath EXCEPT !.ready = TRUE]
  <2>1. ready = [again EXCEPT !.ath = a] /\ again \in Visit /\ again.ath \in VisitState
    BY <1>13 DEF FreshVisit, Visit
  <2>2. /\ a \in VisitState /\ a.session = again.ath.session /\ a.default = again.ath.default
        /\ a.ready = TRUE
    BY <2>1 DEF VisitState
  <2> HIDE DEF a, ready
  <2>3. /\ ready \in Visit /\ ready.ath = a /\ ready.storage = again.storage
        /\ ready.visitor = again.visitor
    BY <2>1, <2>2 DEF Visit
  <2>4. ~again.visitor.refused /\ again.ath.session.exists
    BY <1>11, <1>13 DEF FreshVisit
  <2>5. SessionRight(ready.ath, ready.visitor, ready.storage)
    BY <1>13, <2>2, <2>3, <2>4 DEF FreshVisit, SessionRight
  <2>6. VisitRight(ready) /\ ready.ath.session.exists
    BY <1>13, <2>2, <2>3, <2>4, <2>5 DEF FreshVisit, VisitRight
  <2>7. FALSE \in BOOLEAN
    OBVIOUS
  <2>. QED BY <2>6, <2>7, ShowRightly
<1>16. VisitRight(x) /\ x.ath.session.exists
  <2>1. CASE r
    <3>1. x = begun
      BY <1>5, <2>1
    <3>. QED BY <1>11, <1>14, <3>1
  <2>2. CASE ~r
    <3>1. \/ x = onHome \/ x = again
          \/ writable /\ x = Show(ready, FALSE, loaded)
      BY <1>5, <2>2
    <3>. QED BY <1>13, <1>14, <1>15, <2>2, <3>1
  <2>. QED BY <2>1, <2>2
<1>. QED BY <1>16 DEF x

-----------------------------------------------------------------------------
LEMMA HomeTypes ==
  ASSUME HomeInv
  PROVE  /\ ath \in VisitState /\ storage \in SessionType /\ visitor \in History
         /\ {writable, legacy} \subseteq BOOLEAN
         /\ visits \in 0 .. MaxVisits /\ homeCalls \in 0 .. MaxHomeCalls
         /\ {MaxVisits, MaxHomeCalls} \subseteq Nat /\ HomeAssumption
<1>1. /\ ath \in VisitState /\ storage \in SessionType /\ visitor \in History
  BY DEF HomeInv, HomeTypeOK, VisitState, History
<1>2. {writable, legacy} \subseteq BOOLEAN
  BY DEF HomeInv, HomeTypeOK
<1>3. visits \in 0 .. MaxVisits /\ homeCalls \in 0 .. MaxHomeCalls
  BY DEF HomeInv, HomeTypeOK
<1>4. {MaxVisits, MaxHomeCalls} \subseteq Nat
  BY HomeAssumption DEF HomeAssumption
<1>. QED BY <1>1, <1>2, <1>3, <1>4, HomeAssumption

LEMMA HomeTyped ==
  ASSUME ath' \in VisitState, storage' \in SessionType, visitor' \in History,
         {writable', legacy'} \subseteq BOOLEAN,
         visits' \in 0 .. MaxVisits, homeCalls' \in 0 .. MaxHomeCalls
  PROVE  HomeTypeOK'
BY DEF HomeTypeOK, VisitState, History

LEMMA NowRight ==
  ASSUME HomeInv
  PROVE  VisitRight(Now) /\ Now.ath = ath /\ Now.storage = storage /\ Now.visitor = visitor
<1>1. Now \in Visit /\ Now.ath = ath /\ Now.storage = storage /\ Now.visitor = visitor
  BY HomeTypes DEF Now, Visit
<1>. QED BY <1>1 DEF HomeInv, VisitRight

\* A step to a visit that is right.
LEMMA Becoming ==
  ASSUME HomeInv, NEW v, VisitRight(v), Becomes(v), UNCHANGED <<writable, legacy>>,
         visits' \in 0 .. MaxVisits, homeCalls' \in 0 .. MaxHomeCalls,
         visits' > 0 => v.ath.session.exists
  PROVE  HomeInv'
<1>1. ath' = v.ath /\ storage' = v.storage /\ visitor' = v.visitor
  BY DEF Becomes
<1>2. ath' \in VisitState /\ storage' \in SessionType /\ visitor' \in History
  BY <1>1 DEF VisitRight, Visit
<1>3. HomeTypeOK'
  BY <1>2, HomeTypes, HomeTyped
<1>4. AskedRight(visitor, storage)'
  BY <1>1 DEF VisitRight, AskedRight
<1>5. SessionRight(ath, visitor, storage)'
  BY <1>1 DEF VisitRight, SessionRight
<1>. QED BY <1>1, <1>3, <1>4, <1>5 DEF HomeInv

LEMMA LoadInv == ASSUME HomeInv, Load PROVE HomeInv'
<1> DEFINE v == [Now EXCEPT !.ath = NewVisit]
<1>1. PICK token, standalone, loaded \in BOOLEAN :
        Becomes(Construct(v, token, standalone, loaded))
  BY DEF Load
<1>2. /\ visits < MaxVisits /\ visits' = visits + 1 /\ UNCHANGED <<writable, legacy, homeCalls>>
  BY DEF Load
<1>3. /\ v \in Visit /\ v.ath = NewVisit /\ v.storage = storage /\ v.visitor = visitor
  BY NowRight, NewVisitFields DEF VisitRight, Visit
<1> HIDE DEF v
<1>4. AskedRight(v.visitor, v.storage) /\ (v.storage.exists \/ v.storage = NoSession)
  BY <1>3 DEF HomeInv, SessionRight
<1>5. writable \in BOOLEAN /\ HomeAssumption
  BY HomeTypes
<1>6. /\ VisitRight(Construct(v, token, standalone, loaded))
      /\ Construct(v, token, standalone, loaded).ath.session.exists
  BY <1>3, <1>4, <1>5, ConstructRightly
<1>7. visits' \in 0 .. MaxVisits /\ homeCalls' \in 0 .. MaxHomeCalls
  BY <1>2, HomeTypes
<1>. QED BY <1>1, <1>2, <1>6, <1>7, Becoming

LEMMA ShowAgainInv == ASSUME HomeInv, ShowAgain PROVE HomeInv'
<1> DEFINE a == [ath EXCEPT !.waiting = FALSE]
           v == [Now EXCEPT !.ath = a]
<1>1. Becomes(Show(v, FALSE, TRUE)) /\ Rest
  <2>1. Now.ath = ath /\ Now \in Visit
    BY NowRight DEF VisitRight
  <2>2. [Now EXCEPT !.ath.waiting = FALSE] = v
    BY <2>1 DEF Visit
  <2>. QED BY <2>2 DEF ShowAgain
<1>2. /\ a \in VisitState /\ a.session = ath.session /\ a.default = ath.default
      /\ a.ready = ath.ready
  BY HomeTypes DEF VisitState
<1> HIDE DEF a
<1>3. v \in Visit /\ v.ath = a /\ v.storage = storage /\ v.visitor = visitor
  BY <1>2, NowRight DEF VisitRight, Visit
<1> HIDE DEF v
<1>4. VisitRight(v) /\ v.ath.session = ath.session
  BY <1>2, <1>3 DEF HomeInv, VisitRight, SessionRight
<1>5. FALSE \in BOOLEAN /\ TRUE \in BOOLEAN /\ writable \in BOOLEAN /\ HomeAssumption
  BY HomeTypes
<1>6. /\ VisitRight(Show(v, FALSE, TRUE))
      /\ Show(v, FALSE, TRUE).ath.session.exists <=> v.ath.session.exists
  BY <1>4, <1>5, ShowRightly
<1>7. visits' = visits /\ homeCalls' = homeCalls /\ UNCHANGED <<writable, legacy>>
  BY <1>1 DEF Rest
<1>8. visits' \in 0 .. MaxVisits /\ homeCalls' \in 0 .. MaxHomeCalls
  BY <1>7, HomeTypes
<1>9. visits' > 0 => Show(v, FALSE, TRUE).ath.session.exists
  BY <1>4, <1>6, <1>7 DEF HomeInv
<1>. QED BY <1>1, <1>6, <1>7, <1>8, <1>9, Becoming

LEMMA HomeCalled ==
  ASSUME HomeInv, HomeCall
  PROVE  /\ visits' = visits /\ visits > 0 /\ ath.session.exists
         /\ visits' \in 0 .. MaxVisits /\ homeCalls' \in 0 .. MaxHomeCalls
         /\ UNCHANGED <<writable, legacy>>
<1>1. /\ visits' = visits /\ visits > 0 /\ homeCalls < MaxHomeCalls /\ homeCalls' = homeCalls + 1
      /\ UNCHANGED <<writable, legacy>>
  BY DEF HomeCall
<1>. QED BY <1>1, HomeTypes DEF HomeInv

LEMMA CallShowInv == ASSUME HomeInv, CallShow PROVE HomeInv'
<1>1. HomeCall /\ \E force, loaded \in BOOLEAN : Becomes(Show(Now, force, loaded))
  BY DEF CallShow
<1>2. PICK force, loaded \in BOOLEAN : Becomes(Show(Now, force, loaded))
  BY <1>1
<1>3. VisitRight(Now) /\ Now.ath.session.exists
  BY <1>1, HomeCalled, NowRight
<1>4. /\ VisitRight(Show(Now, force, loaded))
      /\ Show(Now, force, loaded).ath.session.exists
  BY <1>3, HomeTypes, ShowRightly
<1>. QED BY <1>1, <1>2, <1>4, HomeCalled, Becoming

\* A step of the message alone, not of the session.
LEMMA MessageOnly ==
  ASSUME HomeInv, ath' \in VisitState, ath'.session = ath.session, ath'.default = ath.default,
         ath'.ready = ath.ready, UNCHANGED <<storage, visitor, writable, legacy, visits>>,
         homeCalls' \in 0 .. MaxHomeCalls
  PROVE  HomeInv'
<1>1. HomeTypeOK'
  BY HomeTypes, HomeTyped
<1>2. AskedRight(visitor, storage)'
  BY DEF HomeInv, AskedRight
<1>3. SessionRight(ath, visitor, storage)'
  BY DEF HomeInv, SessionRight
<1>. QED BY <1>1, <1>2, <1>3 DEF HomeInv

LEMMA TimersInv ==
  ASSUME HomeInv, ImageLoads \/ ShowTimerFires \/ BecomesClickable \/ RemoveElements
  PROVE  HomeInv'
<1>1. /\ UNCHANGED <<storage, visitor, writable, legacy, visits>>
      /\ homeCalls' = homeCalls
  BY DEF ImageLoads, ShowTimerFires, BecomesClickable, RemoveElements, Rest
<1>2. ath \in VisitState /\ homeCalls' \in 0 .. MaxHomeCalls
  BY <1>1, HomeTypes
<1>3. CASE ImageLoads
  <2> DEFINE k == ath.showing + 1
  <2>1. ath' = [ath EXCEPT !.loading = FALSE, !.showing = k] /\ k \in Nat
    BY <1>2, <1>3 DEF ImageLoads, VisitState
  <2> HIDE DEF k
  <2>2. /\ ath' \in VisitState /\ ath'.session = ath.session /\ ath'.default = ath.default
        /\ ath'.ready = ath.ready
    BY <1>2, <2>1 DEF VisitState
  <2>. QED BY <1>1, <1>2, <2>2, MessageOnly
<1>4. CASE ShowTimerFires
  <2> DEFINE k == ath.showing - 1
             n == IF ath.timer THEN ath.strays + 1 ELSE ath.strays
             e == ath.shown
  <2>1. ath' = [ath EXCEPT !.showing = k, !.seen = e, !.strays = n, !.timer = TRUE]
    BY <1>4 DEF ShowTimerFires
  <2>2. k \in Nat /\ n \in Nat /\ e \in BOOLEAN
    BY <1>2, <1>4 DEF ShowTimerFires, VisitState
  <2> HIDE DEF k, n, e
  <2>3. /\ ath' \in VisitState /\ ath'.session = ath.session /\ ath'.default = ath.default
        /\ ath'.ready = ath.ready
    BY <1>2, <2>1, <2>2 DEF VisitState
  <2>. QED BY <1>1, <1>2, <2>3, MessageOnly
<1>5. CASE BecomesClickable
  <2>1. /\ ath' \in VisitState /\ ath'.session = ath.session /\ ath'.default = ath.default
        /\ ath'.ready = ath.ready
    BY <1>2, <1>5 DEF BecomesClickable, VisitState
  <2>. QED BY <1>1, <1>2, <2>1, MessageOnly
<1>6. CASE RemoveElements
  <2>1. /\ ath' \in VisitState /\ ath'.session = ath.session /\ ath'.default = ath.default
        /\ ath'.ready = ath.ready
    BY <1>2, <1>6 DEF RemoveElements, VisitState
  <2>. QED BY <1>1, <1>2, <2>1, MessageOnly
<1>. QED BY <1>3, <1>4, <1>5, <1>6

LEMMA RemovedFields ==
  ASSUME NEW h \in VisitState
  PROVE  /\ Removed(h) \in VisitState /\ Removed(h).session = h.session
         /\ Removed(h).default = h.default /\ Removed(h).ready = h.ready
         /\ Removed(h).strays = h.strays
<1> DEFINE b == h.shown
<1>1. Removed(h) = [h EXCEPT !.timer = FALSE, !.loading = FALSE, !.clickable = FALSE, !.leaving = b]
  BY DEF Removed
<1>2. b \in BOOLEAN
  BY DEF VisitState
<1> HIDE DEF b
<1>. QED BY <1>1, <1>2 DEF VisitState

LEMMA RemoveInv ==
  ASSUME HomeInv, Click \/ RemoveTimerFires \/ CallRemove
  PROVE  HomeInv'
<1>1. CASE Click
  <2>1. /\ ath' = Removed(ath) /\ UNCHANGED <<storage, visitor, writable, legacy, visits>>
        /\ homeCalls' \in 0 .. MaxHomeCalls
    BY <1>1, HomeTypes DEF Click, Rest
  <2>. QED BY <2>1, HomeTypes, RemovedFields, MessageOnly
<1>2. CASE CallRemove
  <2>1. /\ ath' = Removed(ath) /\ UNCHANGED <<storage, visitor, writable, legacy, visits>>
        /\ homeCalls' \in 0 .. MaxHomeCalls
    BY <1>2, HomeCalled DEF CallRemove
  <2>. QED BY <2>1, HomeTypes, RemovedFields, MessageOnly
<1>3. CASE RemoveTimerFires
  <2>1. /\ UNCHANGED <<storage, visitor, writable, legacy, visits>>
        /\ homeCalls' \in 0 .. MaxHomeCalls
    BY <1>3, HomeTypes DEF RemoveTimerFires, Rest
  <2>2. CASE ath' = Removed(ath)
    BY <2>1, <2>2, HomeTypes, RemovedFields, MessageOnly
  <2>3. CASE ath.strays > 0 /\ ath' = [Removed(ath) EXCEPT !.strays = @ - 1]
    <3> DEFINE h == Removed(ath)
               k == h.strays - 1
    <3>1. /\ h \in VisitState /\ h.session = ath.session /\ h.default = ath.default
          /\ h.ready = ath.ready /\ h.strays = ath.strays /\ ath.strays \in Nat
      BY HomeTypes, RemovedFields DEF VisitState
    <3>2. k \in Nat /\ ath' = [h EXCEPT !.strays = k]
      BY <2>3, <3>1
    <3> HIDE DEF h, k
    <3>3. /\ ath' \in VisitState /\ ath'.session = ath.session /\ ath'.default = ath.default
          /\ ath'.ready = ath.ready
      BY <3>1, <3>2 DEF VisitState
    <3>. QED BY <2>1, <3>3, MessageOnly
  <2>. QED BY <1>3, <2>2, <2>3 DEF RemoveTimerFires
<1>. QED BY <1>1, <1>2, <1>3

LEMMA ChangeSessionInv == ASSUME HomeInv, ChangeSession PROVE HomeInv'
<1>1. HomeCall /\ ath.session.exists
  BY DEF ChangeSession
<1>2. /\ VisitRight(Now) /\ Now \in Visit /\ Now.ath = ath /\ Now.storage = storage
      /\ Now.visitor = visitor
  BY NowRight DEF VisitRight
<1>3. /\ ath.session \in SessionType /\ ath.default \in SessionType /\ ath.default.exists
      /\ ath \in VisitState /\ storage \in SessionType /\ visitor \in History
      /\ writable \in BOOLEAN
  BY HomeTypes DEF HomeInv, SessionRight, VisitState
<1>4. ASSUME NEW v, VisitRight(v), v.ath.session.exists, Becomes(v) PROVE HomeInv'
  BY <1>1, <1>4, HomeCalled, Becoming
<1>5. ath.ready => writable /\ ~visitor.refused
  BY DEF HomeInv, SessionRight
<1>9. storage.exists \/ storage = NoSession
  BY DEF HomeInv, SessionRight
<1>6. ASSUME NEW out \in BOOLEAN, Becomes(Updated(Now, [ath.session EXCEPT !.optedout = out]))
      PROVE  HomeInv'
  <2> DEFINE s == [ath.session EXCEPT !.optedout = out]
             w == Updated(Now, s)
  <2>1. s \in SessionType /\ s.exists /\ s.count = ath.session.count /\ s.last = ath.session.last
    <3>1. out \in BOOLEAN
      BY <1>6
    <3>. QED BY <1>1, <1>3, <3>1 DEF SessionType
  <2> HIDE DEF s
  <2>2. Written(Now, w, s)
    BY <1>2, <1>3, <2>1, SessionWritten
  <2> HIDE DEF w
  <2>3. AskedRight(visitor, w.storage)
    <3>1. CASE writable /\ ~visitor.cleared
      <4>1. storage = ath.session /\ w.storage = s
        BY <1>1, <1>2, <2>2, <3>1 DEF HomeInv, SessionRight, Written
      <4>. QED BY <2>1, <4>1, AskedSame DEF HomeInv
    <3>2. CASE ~(writable /\ ~visitor.cleared)
      BY <1>2, <2>2, <3>2 DEF HomeInv, AskedRight, Written
    <3>. QED BY <3>1, <3>2
  <2>4. VisitRight(w) /\ w.ath.session.exists
    <3>1. AskedRight(Now.visitor, w.storage) /\ (Now.storage.exists \/ Now.storage = NoSession)
      BY <1>2, <1>9, <2>3
    <3>2. Now.ath.ready => writable /\ ~Now.visitor.refused
      BY <1>2, <1>5
    <3>. QED BY <1>2, <2>1, <2>2, <3>1, <3>2, WrittenRightly
  <2>. QED BY <1>4, <1>6, <2>4 DEF w, s
<1>7. ASSUME Becomes([Updated(Now, [ath.session EXCEPT !.count = 0]) EXCEPT !.visitor.asked = 0])
      PROVE  HomeInv'
  <2> DEFINE s == [ath.session EXCEPT !.count = 0]
             w == Updated(Now, s)
             q == [visitor EXCEPT !.asked = 0]
             x == [w EXCEPT !.visitor = q]
  <2>1. s \in SessionType /\ s.exists /\ s.count = 0 /\ s.last = ath.session.last
    BY <1>1, <1>3 DEF SessionType
  <2>2. Written(Now, w, s)
    BY <1>2, <1>3, <2>1, SessionWritten
  <2> HIDE DEF s, w
  <2>3. /\ w \in Visit /\ w.visitor = visitor /\ w.ath.session = s /\ w.ath.default.exists
        /\ w.ath.ready = ath.ready /\ w.storage = IF writable THEN s ELSE storage
    BY <1>2, <2>2 DEF Written
  <2>4. Becomes(x)
    <3>1. Becomes([w EXCEPT !.visitor.asked = 0])
      BY <1>7 DEF w, s
    <3>2. [w EXCEPT !.visitor.asked = 0] = x
      BY <2>3 DEF Visit
    <3>. QED BY <3>1, <3>2
  <2>5. /\ q \in History /\ q.asked = 0 /\ q.cleared = visitor.cleared
        /\ q.recently = visitor.recently /\ q.refused = visitor.refused
        /\ q.early = visitor.early /\ q.against = visitor.against
    BY <1>3 DEF History
  <2> HIDE DEF q
  <2>6. x \in Visit /\ x.visitor = q /\ x.ath = w.ath /\ x.storage = w.storage
    BY <2>3, <2>5 DEF Visit
  <2> HIDE DEF x
  <2>7. AskedRight(q, w.storage)
    <3>1. w.storage.count \in Nat /\ MaxDisplayCount \in Nat
      BY <2>3, HomeTypes DEF Visit, SessionType, HomeAssumption
    <3>2. ~visitor.cleared => ~visitor.early /\ ~visitor.against
      BY DEF HomeInv, AskedRight
    <3>3. ~visitor.cleared /\ writable /\ visitor.recently => w.storage.last = "recent"
      BY <1>1, <2>1, <2>3 DEF HomeInv, AskedRight, SessionRight
    <3>. QED BY <2>5, <3>1, <3>2, <3>3 DEF AskedRight
  <2>8. SessionRight(w.ath, q, w.storage)
    BY <1>5, <1>9, <2>1, <2>3, <2>5 DEF SessionRight
  <2>9. VisitRight(x) /\ x.ath.session.exists
    BY <2>1, <2>3, <2>6, <2>7, <2>8 DEF VisitRight
  <2>. QED BY <1>4, <2>4, <2>9
<1>8. ASSUME Becomes([Updated([Now EXCEPT !.ath.same = TRUE], ath.default)
                      EXCEPT !.visitor.cleared = TRUE])
      PROVE  HomeInv'
  <2> DEFINE a == [ath EXCEPT !.same = TRUE]
             v == [Now EXCEPT !.ath = a]
             w == Updated(v, ath.default)
             q == [visitor EXCEPT !.cleared = TRUE]
             x == [w EXCEPT !.visitor = q]
  <2>1. [Now EXCEPT !.ath.same = TRUE] = v
    BY <1>2 DEF Visit
  <2>2. a \in VisitState /\ a.default = ath.default /\ a.ready = ath.ready
    BY <1>3 DEF VisitState
  <2> HIDE DEF a
  <2>3. v \in Visit /\ v.ath = a /\ v.storage = storage /\ v.visitor = visitor
    BY <1>2, <2>2 DEF Visit
  <2> HIDE DEF v
  <2>4. Written(v, w, ath.default)
    BY <1>3, <2>2, <2>3, SessionWritten
  <2>5. Becomes([w EXCEPT !.visitor.cleared = TRUE])
    BY <1>8, <2>1
  <2> HIDE DEF w
  <2>6. /\ w \in Visit /\ w.visitor = visitor /\ w.ath.session = ath.default
        /\ w.ath.default.exists /\ w.ath.ready = ath.ready
        /\ w.storage = IF writable THEN ath.default ELSE storage
    BY <2>2, <2>3, <2>4 DEF Written
  <2>7. [w EXCEPT !.visitor.cleared = TRUE] = x
    BY <2>6 DEF Visit
  <2>8. /\ q \in History /\ q.asked = visitor.asked /\ q.cleared = TRUE
        /\ q.refused = visitor.refused
    BY <1>3 DEF History
  <2> HIDE DEF q
  <2>9. x \in Visit /\ x.visitor = q /\ x.ath = w.ath /\ x.storage = w.storage
    BY <2>6, <2>8 DEF Visit
  <2> HIDE DEF x
  <2>10. AskedRight(q, w.storage)
    BY <2>8 DEF HomeInv, AskedRight
  <2>11. SessionRight(w.ath, q, w.storage)
    BY <1>3, <1>5, <1>9, <2>6, <2>8 DEF SessionRight
  <2>12. VisitRight(x) /\ x.ath.session.exists
    BY <1>3, <2>6, <2>9, <2>10, <2>11 DEF VisitRight
  <2>. QED BY <1>4, <2>5, <2>7, <2>12
<1>10. \/ \E out \in BOOLEAN : Becomes(Updated(Now, [ath.session EXCEPT !.optedout = out]))
       \/ Becomes([Updated(Now, [ath.session EXCEPT !.count = 0]) EXCEPT !.visitor.asked = 0])
       \/ Becomes([Updated([Now EXCEPT !.ath.same = TRUE], ath.default)
                   EXCEPT !.visitor.cleared = TRUE])
  BY DEF ChangeSession
<1>. QED BY <1>6, <1>7, <1>8, <1>10

LEMMA RemoveSessionInv == ASSUME HomeInv, RemoveSession PROVE HomeInv'
<1>1. /\ HomeCall /\ storage' = NoSession /\ ath' = ath
      /\ visitor' = [visitor EXCEPT !.cleared = TRUE]
  BY DEF RemoveSession
<1>2. /\ visitor' \in History /\ visitor'.cleared = TRUE
      /\ visitor'.asked = visitor.asked /\ visitor'.refused = visitor.refused
  BY <1>1, HomeTypes DEF History
<1>3. HomeTypeOK'
  BY <1>1, <1>2, HomeCalled, HomeTypes, HomeTyped, FirstSessions
<1>4. AskedRight(visitor, storage)'
  BY <1>1, <1>2, HomeCalled DEF HomeInv, AskedRight
<1>5. SessionRight(ath, visitor, storage)'
  BY <1>1, <1>2, HomeCalled DEF HomeInv, SessionRight, NoSession, DefaultSession
<1>. QED BY <1>1, <1>3, <1>4, <1>5, HomeCalled DEF HomeInv

LEMMA PaceOverInv == ASSUME HomeInv, PaceOver PROVE HomeInv'
<1> DEFINE Aged(s) == [s EXCEPT !.last = "long ago"]
<1>1. /\ UNCHANGED <<writable, legacy, visits, homeCalls>>
      /\ visitor' = [visitor EXCEPT !.recently = FALSE]
      /\ storage' = Aged(storage)
      /\ ath' = [ath EXCEPT !.session.last = "long ago", !.default.last = "long ago"]
  BY DEF PaceOver, Rest
<1>2. /\ ath \in VisitState /\ ath.session \in SessionType /\ ath.default \in SessionType
      /\ storage \in SessionType /\ visitor \in History
  BY HomeTypes DEF VisitState
<1>3. ASSUME NEW s \in SessionType
      PROVE  Aged(s) \in SessionType /\ Aged(s).exists = s.exists /\ Aged(s).count = s.count
  BY DEF SessionType
<1>4. Aged(NoSession) = NoSession
  <2>1. NoSession \in SessionType /\ NoSession.last = "long ago"
    BY FirstSessions
  <2>. QED BY <2>1 DEF SessionType
<1>5. ath' = [ath EXCEPT !.session = Aged(ath.session), !.default = Aged(ath.default)]
  BY <1>1, <1>2 DEF VisitState
<1> HIDE DEF Aged
<1>6. /\ ath' \in VisitState /\ ath'.session = Aged(ath.session)
      /\ ath'.default = Aged(ath.default) /\ ath'.ready = ath.ready
  BY <1>2, <1>3, <1>5 DEF VisitState
<1>7. /\ visitor' \in History /\ visitor'.recently = FALSE
      /\ visitor'.asked = visitor.asked /\ visitor'.refused = visitor.refused
      /\ visitor'.cleared = visitor.cleared /\ visitor'.early = visitor.early
      /\ visitor'.against = visitor.against
  BY <1>1, <1>2 DEF History
<1>8. HomeTypeOK'
  BY <1>1, <1>2, <1>3, <1>6, <1>7, HomeTypes, HomeTyped
<1>9. AskedRight(visitor, storage)'
  BY <1>1, <1>2, <1>3, <1>7 DEF HomeInv, AskedRight
<1>10. SessionRight(ath, visitor, storage)'
  <2>1. SessionRight(ath, visitor, storage)
    BY DEF HomeInv
  <2>2. Aged(ath.session).exists = ath.session.exists
    BY <1>2, <1>3
  <2>3. Aged(ath.default).exists = ath.default.exists
    BY <1>2, <1>3
  <2>4. Aged(storage).exists = storage.exists
    BY <1>2, <1>3
  <2>5. storage'.exists \/ storage' = NoSession
    BY <1>1, <1>4, <2>1, <2>4 DEF SessionRight
  <2>6. writable' /\ ath'.session.exists =>
          storage' = ath'.session \/ (visitor'.cleared /\ storage' = NoSession)
    BY <1>1, <1>4, <1>6, <1>7, <2>1, <2>2 DEF SessionRight
  <2>7. ath'.ready => writable' /\ ath'.session.exists /\ ~visitor'.refused
    BY <1>1, <1>6, <1>7, <2>1, <2>2 DEF SessionRight
  <2>. QED BY <1>6, <2>1, <2>3, <2>5, <2>6, <2>7 DEF SessionRight
<1>. QED BY <1>1, <1>2, <1>3, <1>6, <1>8, <1>9, <1>10 DEF HomeInv

\* The invariant holds at first, and each step keeps it.
LEMMA HomeBegins == HomeInit => HomeInv
<1> SUFFICES ASSUME HomeInit PROVE HomeInv
  OBVIOUS
<1>1. /\ storage = NoSession /\ ath = NewVisit /\ visits = 0 /\ homeCalls = 0
      /\ {writable, legacy} \subseteq BOOLEAN
      /\ visitor = [refused |-> FALSE, asked |-> 0, recently |-> FALSE, early |-> FALSE,
                    against |-> FALSE, cleared |-> FALSE]
  BY DEF HomeInit
<1>2. ath \in VisitState /\ storage \in SessionType
  BY <1>1, FirstSessions, NewVisitFields
<1>3. visitor \in History
  BY <1>1 DEF History
<1>4. visits \in 0 .. MaxVisits /\ homeCalls \in 0 .. MaxHomeCalls /\ MaxDisplayCount \in Nat
  BY <1>1, HomeAssumption DEF HomeAssumption
<1>5. HomeTypeOK
  <2>1. ath \in VisitState /\ storage \in SessionType /\ visitor \in History
    BY <1>2, <1>3
  <2>2. {writable, legacy} \subseteq BOOLEAN
    BY <1>1
  <2>3. visits \in 0 .. MaxVisits /\ homeCalls \in 0 .. MaxHomeCalls
    BY <1>4
  <2>. QED BY <2>1, <2>2, <2>3 DEF HomeTypeOK, VisitState, History
<1>6. AskedRight(visitor, storage)
  <2>1. /\ visitor.asked = 0 /\ ~visitor.early /\ ~visitor.against /\ ~visitor.recently
        /\ storage.count = 0 /\ MaxDisplayCount \in Nat
    BY <1>1, <1>4, FirstSessions
  <2>. QED BY <2>1 DEF AskedRight
<1>7. SessionRight(ath, visitor, storage)
  BY <1>1, FirstSessions, NewVisitFields DEF SessionRight
<1>. QED BY <1>1, <1>5, <1>6, <1>7 DEF HomeInv

LEMMA HomeStep == HomeInv /\ [HomeNext]_homeVars => HomeInv'
<1> SUFFICES ASSUME HomeInv, [HomeNext]_homeVars PROVE HomeInv'
  OBVIOUS
<1>1. CASE Load
  BY <1>1, LoadInv
<1>2. CASE ShowAgain
  BY <1>2, ShowAgainInv
<1>3. CASE ImageLoads \/ ShowTimerFires \/ BecomesClickable \/ RemoveElements
  BY <1>3, TimersInv
<1>4. CASE Click \/ RemoveTimerFires \/ CallRemove
  BY <1>4, RemoveInv
<1>5. CASE CallShow
  BY <1>5, CallShowInv
<1>6. CASE ChangeSession
  BY <1>6, ChangeSessionInv
<1>7. CASE RemoveSession
  BY <1>7, RemoveSessionInv
<1>8. CASE PaceOver
  BY <1>8, PaceOverInv
<1>9. CASE UNCHANGED homeVars
  BY <1>9 DEF homeVars, HomeInv, HomeTypeOK, AskedRight, SessionRight
<1>. QED
  BY <1>1, <1>2, <1>3, <1>4, <1>5, <1>6, <1>7, <1>8, <1>9 DEF HomeNext

LEMMA HomeHolds == HomeInv => AsksAsAgreed
BY DEF HomeInv, AskedRight, SessionRight, AsksAsAgreed

\* AsksAsAgreed holds in every state of the message, for any limits and options.
THEOREM VisitorAskedAsAgreed == HomeSpec => []AsksAsAgreed
BY HomeBegins, HomeStep, HomeHolds, PTL DEF HomeSpec

-----------------------------------------------------------------------------
(* CfcaEnroll: a certificate is installed in the container that made its        *)
(* request.                                                                     *)

EnrollForm == [algorithm : {"RSA", "SM2"}, options : Seq(Provider),
               csp : Provider \cup {NoProvider}, p10 : Key, container : Key, cert : Key]
Post == [p10 : Key, state : {"sent", "done", "failed"}]
Import == [cert : Key, container : Key, csp : Provider, byHand : BOOLEAN]

\* The page names no key that has not been made.
Made == 0 .. Len(keys)
KeysMade ==
  /\ {form.p10, form.cert} \subseteq Made
  /\ \A i \in DOMAIN posts : posts[i].p10 \in Made
  /\ \A import \in imports : import.cert \in DOMAIN keys

\* Left alone, the select shows Enhanced, and every key is made there.
Unchosen == ~chosen /\ Enhanced \in offered
EnhancedKept ==
  Unchosen => /\ form.csp = Enhanced
              /\ \E i \in DOMAIN form.options : form.options[i] = Enhanced
              /\ \A k \in DOMAIN keys : keys[k] = Enhanced

\* The request of the form is for the key of its container.
FormFits == halved \/ form.p10 = form.container

\* So is the last request posted, while an answer is still to come.
PostFits == UnderWay => meddled \/ halved \/ posts[Len(posts)].p10 = form.container

EnrollInv ==
  EnrollTypeOK /\ KeysMade /\ EnhancedKept /\ FormFits /\ PostFits /\ CertificateFits

LEMMA Half == ASSUME NEW n \in Nat PROVE n \div 2 \in Nat /\ 2 * (n \div 2) <= n
OBVIOUS

\* Looking for a provider changes the list and the choice, nothing else.
LEMMA ProviderFound ==
  ASSUME NEW f \in EnrollForm, NEW g \in FindProvider(f), offered \subseteq Provider
  PROVE  g \in EnrollForm /\ g.p10 = f.p10 /\ g.container = f.container /\ g.cert = f.cert
<1> DEFINE left == Thinned(f.options)
<1>1. left \in Seq(Provider)
  <2>1. f.options \in Seq(Provider)
    BY DEF EnrollForm
  <2>2. Len(f.options) \in Nat /\ \A j \in 1 .. Len(f.options) : f.options[j] \in Provider
    BY <2>1, LenProperties
  <2> DEFINE n == Len(f.options) \div 2
             e(i) == f.options[2 * i]
  <2>3. n \in Nat /\ 2 * n <= Len(f.options)
    BY <2>2, Half
  <2> HIDE DEF n
  <2>4. \A i \in 1 .. n : e(i) \in Provider
    <3>1. \A i \in 1 .. n : 2 * i \in 1 .. Len(f.options)
      BY <2>2, <2>3
    <3>. QED BY <2>2, <3>1
  <2> HIDE DEF e
  <2>5. [i \in 1 .. n |-> e(i)] \in Seq(Provider)
    BY <2>3, <2>4, IsASeq
  <2>. QED BY <2>5 DEF Thinned, n, e
<1>2. CASE offered = {}
  <2>1. g = [f EXCEPT !.options = left, !.csp = IF left = <<>> THEN NoProvider ELSE left[1]]
    BY <1>2 DEF FindProvider
  <2>2. left # <<>> => left[1] \in Provider
    <3>1. left # << >> => 1 \in 1 .. Len(left)
      BY <1>1, EmptySeq
    <3>. QED BY <1>1, <3>1, ElementOfSeq
  <2> HIDE DEF left
  <2>. QED BY <1>1, <2>1, <2>2 DEF EnrollForm
<1>3. CASE offered # {}
  <2>1. PICK new \in [1 .. Cardinality(offered) -> offered] :
          g = [f EXCEPT !.options = left \o new, !.csp = (left \o new)[1]]
    BY <1>3 DEF FindProvider
  <2>2. Cardinality(offered) \in Nat /\ Cardinality(offered) # 0
    BY <1>3, EnrollAssumption, FS_Subset, FS_CardinalityType, FS_EmptySet
  <2>3. new \in Seq(Provider) /\ Len(new) = Cardinality(offered)
    <3>1. new \in Seq(offered)
      BY <2>1, <2>2
    <3>2. Len(new) = Cardinality(offered)
      BY <2>1, <2>2, <3>1, LenProperties
    <3>. QED BY <3>1, <3>2, SeqMonotonic
  <2> HIDE DEF left
  <2>4. left \o new \in Seq(Provider) /\ Len(left \o new) = Len(left) + Len(new)
    BY <1>1, <2>3, ConcatProperties
  <2>5. 1 \in 1 .. Len(left \o new)
    BY <1>1, <2>2, <2>3, <2>4, LenProperties
  <2>6. (left \o new)[1] \in Provider
    BY <2>4, <2>5, ElementOfSeq
  <2>. QED BY <2>1, <2>4, <2>6 DEF EnrollForm
<1>. QED BY <1>2, <1>3

\* At the start Enhanced is the first option, if it is offered.
LEMMA EnhancedFirst ==
  ASSUME NEW f \in EnrollForm, f.options = <<Enhanced>>, NEW g \in FindProvider(f),
         offered \in SUBSET Provider, Enhanced \in offered
  PROVE  g.csp = Enhanced /\ \E i \in DOMAIN g.options : g.options[i] = Enhanced
<1> DEFINE left == Thinned(f.options)
<1>1. left = <<>>
  <2>1. Len(f.options) \div 2 = 0
    <3>1. Len(<<Enhanced>>) = 1
      OBVIOUS
    <3>. QED BY <3>1
  <2>2. left = [i \in 1 .. 0 |-> f.options[2 * i]]
    BY <2>1 DEF Thinned
  <2>. QED BY <2>2
<1> HIDE DEF left
<1>2. PICK new \in [1 .. Cardinality(offered) -> offered] :
        new[1] = Enhanced /\ g = [f EXCEPT !.options = left \o new, !.csp = (left \o new)[1]]
  BY DEF FindProvider, left
<1>3. Cardinality(offered) \in Nat /\ Cardinality(offered) # 0
  BY EnrollAssumption, FS_Subset, FS_CardinalityType, FS_EmptySet
<1>4. new \in Seq(offered) /\ 1 \in DOMAIN new
  BY <1>2, <1>3
<1>5. left \o new = new
  BY <1>1, <1>4, ConcatEmptySeq
<1>6. g.options = new /\ g.csp = new[1]
  BY <1>2, <1>5 DEF EnrollForm
<1>. QED BY <1>2, <1>4, <1>6

\* A key is made in its provider and keeps its number.
LEMMA KeyAppended ==
  ASSUME EnrollTypeOK, NEW csp \in Provider, Len(keys) < MaxKeys, keys' = Append(keys, csp)
  PROVE  /\ keys' \in Seq(Provider) /\ Len(keys') = Len(keys) + 1 /\ Len(keys') \in Key
         /\ keys' # keys /\ Made \subseteq Made' /\ Len(keys') \in Made'
         /\ \A k \in DOMAIN keys : keys'[k] = keys[k]
         /\ \A k \in DOMAIN keys' : k \in DOMAIN keys \/ keys'[k] = csp
<1>1. keys \in Seq(Provider) /\ Len(keys) \in Key /\ MaxKeys \in Nat
  BY EnrollAssumption DEF EnrollTypeOK
<1>2. /\ keys' \in Seq(Provider) /\ Len(keys') = Len(keys) + 1
      /\ \A k \in 1 .. Len(keys) : keys'[k] = keys[k]
      /\ keys'[Len(keys) + 1] = csp
  BY <1>1, AppendProperties
<1>3. Len(keys) \in Nat /\ DOMAIN keys = 1 .. Len(keys) /\ DOMAIN keys' = 1 .. Len(keys')
  BY <1>1, <1>2, LenProperties
<1>4. Len(keys') # Len(keys) /\ Len(keys') \in Key /\ Made \subseteq Made' /\ Len(keys') \in Made'
  <2> DEFINE n == Len(keys)
             m == Len(keys')
  <2>1. n \in Nat /\ m = n + 1 /\ n < MaxKeys /\ MaxKeys \in Nat
    BY <1>1, <1>2, <1>3
  <2> HIDE DEF n, m
  <2>2. m # n /\ m \in 0 .. MaxKeys /\ 0 .. n \subseteq 0 .. m /\ m \in 0 .. m
    BY <2>1
  <2>. QED BY <2>2 DEF Key, Made, n, m
<1>5. \A k \in DOMAIN keys' : k \in DOMAIN keys \/ k = Len(keys) + 1
  BY <1>2, <1>3
<1>. QED BY <1>2, <1>3, <1>4, <1>5

\* A request made, or not: the form holds the key of its container, and a new key
\* shows in keys.
LEMMA KeyMade ==
  ASSUME EnrollInv, NEW csp \in Provider, MakeKey(csp), UNCHANGED <<offered, chosen>>,
         Unchosen => csp = Enhanced
  PROVE  /\ form' \in EnrollForm /\ keys' \in Seq(Provider) /\ Len(keys') \in Key
         /\ halved' \in BOOLEAN
         /\ FormFits' /\ (halved => halved')
         /\ keys' = keys => form' = form
         /\ {form'.p10, form'.cert} \subseteq Made' /\ Made \subseteq Made'
         /\ \A k \in DOMAIN keys : keys'[k] = keys[k]
         /\ EnhancedKept'
<1>1. /\ form \in EnrollForm /\ keys \in Seq(Provider) /\ Len(keys) \in Key
      /\ halved \in BOOLEAN /\ MaxKeys \in Nat /\ EnrollTypeOK
  BY EnrollAssumption DEF EnrollInv, EnrollTypeOK, EnrollForm
<1>2. CASE UNCHANGED <<form, keys, halved>>
  <2>1. EnhancedKept' /\ FormFits'
    BY <1>2 DEF EnrollInv, FormFits, EnhancedKept, Unchosen
  <2>. QED BY <1>1, <1>2, <2>1 DEF EnrollInv, KeysMade, Made
<1>3. CASE /\ Len(keys) < MaxKeys /\ keys' = Append(keys, csp)
           /\ \/ form' = [form EXCEPT !.p10 = Len(keys'), !.container = Len(keys')]
                 /\ UNCHANGED halved
              \/ form' = [form EXCEPT !.p10 = Len(keys')] /\ halved' = TRUE
  <2>1. /\ keys' \in Seq(Provider) /\ Len(keys') \in Key
        /\ keys' # keys /\ Made \subseteq Made' /\ Len(keys') \in Made'
        /\ \A k \in DOMAIN keys : keys'[k] = keys[k]
        /\ \A k \in DOMAIN keys' : k \in DOMAIN keys \/ keys'[k] = csp
    BY <1>1, <1>3, KeyAppended
  <2> DEFINE n == Len(keys')
  <2> HIDE DEF n
  <2>2. /\ form' \in EnrollForm /\ form'.p10 = n /\ form'.cert = form.cert
        /\ form'.csp = form.csp /\ form'.options = form.options
        /\ halved' \in BOOLEAN /\ (halved => halved') /\ (halved' \/ form'.container = n)
    <3>1. n \in Key
      BY <2>1 DEF n
    <3>2. CASE form' = [form EXCEPT !.p10 = n, !.container = n] /\ UNCHANGED halved
      BY <1>1, <3>1, <3>2 DEF EnrollForm
    <3>3. CASE form' = [form EXCEPT !.p10 = n] /\ halved' = TRUE
      BY <1>1, <3>1, <3>3 DEF EnrollForm
    <3>. QED BY <1>3, <3>2, <3>3 DEF n
  <2>3. EnhancedKept'
    BY <2>1, <2>2 DEF EnrollInv, EnhancedKept, Unchosen
  <2>4. FormFits'
    BY <2>2 DEF FormFits
  <2>. QED BY <2>1, <2>2, <2>3, <2>4 DEF EnrollInv, KeysMade, n
<1>. QED BY <1>2, <1>3 DEF MakeKey

\* What was installed stays right when keys are made or the user chooses.
LEMMA FitsStill ==
  ASSUME EnrollInv, UNCHANGED <<imports, offered>>, meddled => meddled', halved => halved',
         chosen => chosen', \A k \in DOMAIN keys : keys'[k] = keys[k]
  PROVE  CertificateFits'
BY DEF EnrollInv, CertificateFits, KeysMade

LEMMA MadeStill ==
  ASSUME keys \in Seq(Provider), keys' \in Seq(Provider), UNCHANGED imports,
         \A import \in imports : import.cert \in DOMAIN keys, Made \subseteq Made',
         {form'.p10, form'.cert} \subseteq Made',
         \A i \in DOMAIN posts' : posts'[i].p10 \in Made'
  PROVE  KeysMade'
<1>1. /\ DOMAIN keys = 1 .. Len(keys) /\ Len(keys) \in Nat
      /\ DOMAIN keys' = 1 .. Len(keys') /\ Len(keys') \in Nat
  BY LenProperties
<1>2. DOMAIN keys = Made \ {0} /\ DOMAIN keys' = Made' \ {0}
  BY <1>1 DEF Made
<1>. QED BY <1>2 DEF KeysMade

LEMMA RequestInv ==
  ASSUME EnrollInv, RequestDoubleCert \/ RequestSingleCert
  PROVE  EnrollInv'
<1>1. /\ UNCHANGED <<offered, posts, imports, chosen>>
      /\ meddled' = (meddled \/ (UnderWay /\ keys' # keys))
  BY DEF RequestDoubleCert, RequestSingleCert
<1>2. /\ form \in EnrollForm /\ keys \in Seq(Provider) /\ Len(keys) \in Key
      /\ {meddled, halved, chosen} \subseteq BOOLEAN
      /\ offered \subseteq Provider
  BY DEF EnrollInv, EnrollTypeOK, EnrollForm
<1>3. \/ \E csp \in Provider : MakeKey(csp) /\ (Unchosen => csp = Enhanced)
      \/ /\ form.csp = NoProvider
         /\ form' \in FindProvider(form) /\ UNCHANGED <<keys, halved>>
  <2>1. CASE RequestSingleCert
    BY <2>1, EnrollAssumption DEF RequestSingleCert
  <2>2. CASE RequestDoubleCert
    BY <1>2, <2>2 DEF RequestDoubleCert, EnrollForm, EnrollInv, EnhancedKept
  <2>. QED BY <2>1, <2>2
<1>4. /\ form' \in EnrollForm /\ keys' \in Seq(Provider) /\ Len(keys') \in Key
      /\ halved' \in BOOLEAN
      /\ FormFits' /\ (halved => halved')
      /\ keys' = keys => form'.container = form.container
      /\ {form'.p10, form'.cert} \subseteq Made' /\ Made \subseteq Made'
      /\ \A k \in DOMAIN keys : keys'[k] = keys[k]
      /\ EnhancedKept'
  <2>1. ASSUME NEW csp \in Provider, MakeKey(csp), Unchosen => csp = Enhanced
        PROVE  /\ form' \in EnrollForm /\ keys' \in Seq(Provider) /\ Len(keys') \in Key
               /\ halved' \in BOOLEAN
               /\ FormFits' /\ (halved => halved')
               /\ keys' = keys => form'.container = form.container
               /\ {form'.p10, form'.cert} \subseteq Made' /\ Made \subseteq Made'
               /\ \A k \in DOMAIN keys : keys'[k] = keys[k]
               /\ EnhancedKept'
    BY <1>1, <2>1, KeyMade
  <2>2. CASE /\ form.csp = NoProvider
             /\ form' \in FindProvider(form) /\ UNCHANGED <<keys, halved>>
    <3>1. /\ form' \in EnrollForm /\ form'.p10 = form.p10 /\ form'.cert = form.cert
          /\ form'.container = form.container
      BY <1>2, <2>2, ProviderFound
    <3>2. ~Unchosen
      BY <2>2, EnrollAssumption DEF EnrollInv, EnhancedKept
    <3>3. EnhancedKept' /\ FormFits'
      BY <1>1, <2>2, <3>1, <3>2 DEF EnrollInv, EnhancedKept, Unchosen, FormFits
    <3>. QED BY <1>2, <2>2, <3>1, <3>3 DEF EnrollInv, KeysMade, Made
  <2>. QED BY <1>3, <2>1, <2>2
<1>5. UnderWay \in BOOLEAN /\ meddled' \in BOOLEAN /\ UnderWay' = UnderWay /\ (meddled => meddled')
  BY <1>1, <1>2 DEF UnderWay
<1>6. EnrollTypeOK'
  BY <1>1, <1>4, <1>5 DEF EnrollTypeOK, EnrollForm, EnrollInv
<1>7. PostFits'
  <2> SUFFICES ASSUME UnderWay, ~meddled', ~halved'
               PROVE  posts'[Len(posts')].p10 = form'.container
    BY <1>5 DEF PostFits
  <2>1. keys' = keys /\ ~meddled
    BY <1>1, <1>5
  <2>2. ~halved
    BY <1>4
  <2>. QED BY <1>1, <1>4, <2>1, <2>2 DEF EnrollInv, PostFits
<1>8. CertificateFits'
  <2>1. UNCHANGED <<imports, offered>> /\ (meddled => meddled') /\ (chosen => chosen')
    BY <1>1, <1>5
  <2>. QED BY <1>4, <2>1, FitsStill
<1>9. KeysMade'
  <2>1. /\ UNCHANGED imports /\ \A import \in imports : import.cert \in DOMAIN keys
        /\ \A i \in DOMAIN posts' : posts'[i].p10 \in Made'
    BY <1>1, <1>4 DEF EnrollInv, KeysMade
  <2>. QED BY <1>2, <1>4, <2>1, MadeStill
<1>. QED BY <1>4, <1>6, <1>7, <1>8, <1>9 DEF EnrollInv

LEMMA GenerateInv ==
  ASSUME EnrollInv, GenerateP10Cert
  PROVE  EnrollInv'
<1>1. /\ MakeKey(Enhanced) /\ UNCHANGED <<offered, imports, meddled, chosen>>
      /\ posts' = Append(posts, [p10 |-> form'.p10, state |-> "sent"])
  BY DEF GenerateP10Cert
<1>2. /\ form' \in EnrollForm /\ keys' \in Seq(Provider) /\ Len(keys') \in Key
      /\ halved' \in BOOLEAN
      /\ FormFits' /\ (halved => halved')
      /\ {form'.p10, form'.cert} \subseteq Made' /\ Made \subseteq Made'
      /\ \A k \in DOMAIN keys : keys'[k] = keys[k]
      /\ EnhancedKept'
  BY <1>1, KeyMade, EnrollAssumption
<1>3. /\ posts' \in Seq(Post) /\ posts'[Len(posts')] = [p10 |-> form'.p10, state |-> "sent"]
      /\ \A i \in DOMAIN posts' : posts'[i].p10 \in Made'
  <2> DEFINE new == [p10 |-> form'.p10, state |-> "sent"]
  <2>1. posts \in Seq(Post) /\ new \in Post
    BY <1>2 DEF EnrollInv, EnrollTypeOK, Post, EnrollForm
  <2> HIDE DEF new
  <2>2. posts' = Append(posts, new)
    BY <1>1 DEF new
  <2>3. posts' \in Seq(Post) /\ posts'[Len(posts')] = new
    BY <2>1, <2>2, AppendProperties, LenProperties
  <2>4. new.p10 \in Made' /\ \A i \in 1 .. Len(posts) : posts[i].p10 \in Made'
    BY <1>2, <2>1, LenProperties DEF new, EnrollInv, KeysMade
  <2>5. \A i \in DOMAIN posts' : posts'[i].p10 \in Made'
    <3>1. Len(posts') = Len(posts) + 1 /\ posts'[Len(posts) + 1] = new
          /\ \A i \in 1 .. Len(posts) : posts'[i] = posts[i]
      BY <2>1, <2>2, AppendProperties
    <3>2. DOMAIN posts' = 1 .. Len(posts) + 1 /\ Len(posts) \in Nat
      BY <2>1, <2>3, <3>1, LenProperties
    <3>. QED BY <2>4, <3>1, <3>2
  <2>. QED BY <2>3, <2>5 DEF new
<1>4. EnrollTypeOK'
  BY <1>1, <1>2, <1>3 DEF EnrollTypeOK, EnrollForm, EnrollInv, Post
<1>5. PostFits'
  BY <1>2, <1>3 DEF PostFits, FormFits
<1>6. CertificateFits'
  BY <1>1, <1>2, FitsStill
<1>7. KeysMade'
  <2>1. /\ keys \in Seq(Provider) /\ UNCHANGED imports
        /\ \A import \in imports : import.cert \in DOMAIN keys
    BY <1>1 DEF EnrollInv, EnrollTypeOK, KeysMade
  <2>. QED BY <1>2, <1>3, <2>1, MadeStill
<1>. QED BY <1>2, <1>4, <1>5, <1>6, <1>7 DEF EnrollInv

LEMMA AlgorithmInv ==
  ASSUME EnrollInv, KeyAlgorithmChange
  PROVE  EnrollInv'
<1>1. form \in EnrollForm
  BY DEF EnrollInv, EnrollTypeOK, EnrollForm
<1>2. UNCHANGED <<offered, keys, posts, imports, meddled, halved, chosen>>
  BY DEF KeyAlgorithmChange
<1>3. /\ form' \in EnrollForm /\ form'.p10 = form.p10 /\ form'.container = form.container
      /\ form'.cert = form.cert /\ form'.options = form.options
      /\ form'.csp = form.csp \/ form'.csp = Enhanced
         \/ ~ \E i \in DOMAIN form.options : form.options[i] = Enhanced
  BY <1>1, EnrollAssumption DEF KeyAlgorithmChange, EnrollForm
<1>4. EnrollTypeOK'
  BY <1>2, <1>3 DEF EnrollTypeOK, EnrollForm, EnrollInv
<1>5. KeysMade' /\ EnhancedKept'
  BY <1>2, <1>3 DEF EnrollInv, KeysMade, Made, EnhancedKept, Unchosen
<1>. QED BY <1>2, <1>3, <1>4, <1>5 DEF EnrollInv, FormFits, PostFits, UnderWay, CertificateFits

LEMMA ChooseInv ==
  ASSUME EnrollInv, ChooseProvider
  PROVE  EnrollInv'
<1>1. form \in EnrollForm /\ form.options \in Seq(Provider)
  BY DEF EnrollInv, EnrollTypeOK, EnrollForm
<1>2. /\ chosen' = (chosen \/ form'.csp # form.csp)
      /\ UNCHANGED <<offered, keys, posts, imports, meddled, halved>>
  BY DEF ChooseProvider
<1>3. PICK i \in DOMAIN form.options : form' = [form EXCEPT !.csp = form.options[i]]
  BY DEF ChooseProvider
<1>4. form.options[i] \in Provider
  BY <1>1, <1>3, ElementOfSeq
<1> DEFINE o == form.options[i]
<1> HIDE DEF o
<1>5. /\ form' \in EnrollForm /\ form'.p10 = form.p10 /\ form'.container = form.container
      /\ form'.cert = form.cert /\ form'.options = form.options
  <2>1. form' = [form EXCEPT !.csp = o] /\ o \in Provider
    BY <1>3, <1>4 DEF o
  <2>. QED BY <1>1, <2>1 DEF EnrollForm
<1>6. chosen' \in BOOLEAN /\ (chosen => chosen') /\ (~chosen' => form'.csp = form.csp)
  BY <1>2 DEF EnrollInv, EnrollTypeOK
<1>7. EnrollTypeOK'
  BY <1>2, <1>5, <1>6 DEF EnrollTypeOK, EnrollForm, EnrollInv
<1>8. KeysMade' /\ EnhancedKept'
  BY <1>2, <1>5, <1>6 DEF EnrollInv, KeysMade, Made, EnhancedKept, Unchosen
<1>9. CertificateFits'
  BY <1>2, <1>6, FitsStill
<1>. QED BY <1>2, <1>5, <1>7, <1>8, <1>9 DEF EnrollInv, FormFits, PostFits, UnderWay

\* The agent is given the certificate, the container and the provider of the form.
Installs(f, byHand) ==
  /\ f.csp # NoProvider /\ f.cert # 0
  /\ imports' = {[cert |-> f.cert, container |-> f.container, csp |-> f.csp, byHand |-> byHand]}

LEMMA InstalledIs ==
  ASSUME NEW f \in EnrollForm, NEW byHand \in BOOLEAN, Installs(f, byHand)
  PROVE  \E m \in Import :
           /\ imports' = {m} /\ m.cert = f.cert /\ f.cert # 0 /\ m.byHand = byHand
           /\ m.container = f.container /\ m.csp = f.csp
<1> DEFINE m == [cert |-> f.cert, container |-> f.container, csp |-> f.csp, byHand |-> byHand]
<1>1. m \in Import
  BY DEF Installs, EnrollForm, Import
<1>. QED BY <1>1 DEF Installs

LEMMA InstallInv ==
  ASSUME EnrollInv, InstallButton
  PROVE  EnrollInv'
<1>1. form \in EnrollForm
  BY DEF EnrollInv, EnrollTypeOK, EnrollForm
<1>2. UNCHANGED <<form, offered, keys, posts, meddled, halved, chosen>>
  BY DEF InstallButton
<1>3. imports' = imports \/ Installs(form, TRUE)
  BY DEF InstallButton, InstallCert, Installs
<1>4. form.cert \in Made /\ Len(keys) \in Nat /\ DOMAIN keys = 1 .. Len(keys)
  BY LenProperties DEF EnrollInv, KeysMade, EnrollTypeOK
<1>5. EnrollTypeOK' /\ KeysMade' /\ CertificateFits'
  <2>1. CASE imports' = imports
    BY <1>2, <2>1 DEF EnrollInv, EnrollTypeOK, KeysMade, Made, CertificateFits
  <2>2. CASE Installs(form, TRUE)
    <3>1. PICK m \in Import : /\ imports' = {m} /\ m.cert = form.cert /\ form.cert # 0
                              /\ m.byHand = TRUE
      BY <1>1, <2>2, InstalledIs
    <3>2. m.cert \in DOMAIN keys
      BY <1>4, <3>1 DEF Made
    <3>3. EnrollTypeOK'
      BY <1>2, <3>1 DEF EnrollInv, EnrollTypeOK, Import
    <3>. QED BY <1>2, <3>1, <3>2, <3>3 DEF EnrollInv, KeysMade, Made, CertificateFits
  <2>. QED BY <1>3, <2>1, <2>2
<1>6. EnhancedKept'
  BY <1>2 DEF EnrollInv, EnhancedKept, Unchosen
<1>. QED BY <1>2, <1>5, <1>6 DEF EnrollInv, FormFits, PostFits, UnderWay

LEMMA AnsweredInv ==
  ASSUME EnrollInv, NEW i \in DOMAIN posts, Answered(i)
  PROVE  EnrollInv'
<1>1. form \in EnrollForm /\ posts \in Seq(Post) /\ posts[i].state = "sent"
  BY DEF EnrollInv, EnrollTypeOK, EnrollForm, Post, Answered
<1>2. UNCHANGED <<offered, keys, meddled, halved, chosen>>
  BY DEF Answered
<1>3. PICK state \in {"done", "failed"} :
        LET now == [posts EXCEPT ![i].state = state]
            http == Answer(i, now)
        IN  /\ posts' = now
            /\ IF http.state = "done"
               THEN form' = [form EXCEPT !.cert = http.p10] /\ InstallCert(form', FALSE)
               ELSE UNCHANGED <<form, imports>>
  BY DEF Answered
<1> DEFINE now == [posts EXCEPT ![i].state = state]
           http == now[Len(now)]
<1>4. posts' = now
  BY <1>3
<1>5. /\ now \in Seq(Post) /\ Len(now) = Len(posts) /\ Len(posts) \in DOMAIN posts
      /\ \A j \in DOMAIN posts : now[j].p10 = posts[j].p10
      /\ \A j \in DOMAIN posts : now[j].state = "sent" => posts[j].state = "sent"
      /\ DOMAIN now = DOMAIN posts
  <2>1. i \in 1 .. Len(posts) /\ DOMAIN posts = 1 .. Len(posts) /\ Len(posts) \in Nat
    BY <1>1, LenProperties
  <2>2. posts[i] \in Post
    BY <1>1, <2>1, ElementOfSeq
  <2>3. [posts[i] EXCEPT !.state = state] \in Post
    BY <2>2 DEF Post
  <2>4. now = [posts EXCEPT ![i] = [posts[i] EXCEPT !.state = state]]
    OBVIOUS
  <2>5. now \in Seq(Post) /\ Len(now) = Len(posts)
    BY <1>1, <2>1, <2>3, <2>4, ExceptSeq
  <2>6. \A j \in DOMAIN posts : now[j] = IF j = i THEN [posts[i] EXCEPT !.state = state] ELSE posts[j]
    BY <1>1, <2>1, <2>3, <2>4, ExceptSeq
  <2>7. DOMAIN now = DOMAIN posts
    OBVIOUS
  <2> HIDE DEF now
  <2>8. \A j \in DOMAIN posts : posts[j] \in Post
    BY <1>1, <2>1, ElementOfSeq
  <2>9. \A j \in DOMAIN posts : now[j].p10 = posts[j].p10
    BY <2>2, <2>6, <2>8 DEF Post
  <2>10. \A j \in DOMAIN posts : now[j].state = "sent" => posts[j].state = "sent"
    BY <1>1, <2>6
  <2>. QED BY <2>1, <2>5, <2>7, <2>9, <2>10
<1>6. http \in Post /\ http.p10 = posts[Len(posts)].p10
  <2> HIDE DEF now
  <2>1. Len(now) \in 1 .. Len(now)
    BY <1>5, <1>1, LenProperties
  <2>. QED BY <1>5, <2>1, ElementOfSeq
<1>7. UnderWay' => UnderWay
  BY <1>4, <1>5 DEF UnderWay
<1>8. UnderWay
  BY <1>1 DEF UnderWay
<1>9. meddled \/ halved \/ http.p10 = form.container
  BY <1>6, <1>8 DEF EnrollInv, PostFits
<1>10. posts'[Len(posts')].p10 = http.p10
  BY <1>4
<1>13. http.p10 \in Made /\ \A j \in DOMAIN posts' : posts'[j].p10 \in Made
  BY <1>4, <1>5, <1>6 DEF EnrollInv, KeysMade
<1>14. Len(keys) \in Nat /\ DOMAIN keys = 1 .. Len(keys) /\ Made' = Made
  BY <1>2, LenProperties DEF EnrollInv, EnrollTypeOK, Made
<1>11. CASE http.state = "done"
  <2>1. form' = [form EXCEPT !.cert = http.p10] /\ InstallCert(form', FALSE)
    BY <1>3, <1>11 DEF Answer
  <2> HIDE DEF http, now
  <2>2. form' \in EnrollForm /\ form'.p10 = form.p10 /\ form'.container = form.container
        /\ form'.cert = http.p10 /\ form'.csp = form.csp /\ form'.options = form.options
    BY <1>1, <1>6, <2>1 DEF EnrollForm, Post
  <2>3. imports' = imports \/ Installs(form', FALSE)
    BY <2>1 DEF InstallCert, Installs
  <2>4. EnhancedKept'
    BY <1>2, <2>2 DEF EnrollInv, EnhancedKept, Unchosen
  <2>5. EnrollTypeOK' /\ KeysMade' /\ CertificateFits'
    <3>1. CASE imports' = imports
      <4>1. EnrollTypeOK'
        BY <1>2, <1>4, <1>5, <2>2, <3>1 DEF EnrollTypeOK, EnrollInv, EnrollForm, Post
      <4>2. KeysMade'
        BY <1>2, <1>13, <1>14, <2>2, <3>1 DEF EnrollInv, KeysMade
      <4>3. CertificateFits'
        BY <1>2, <3>1, FitsStill
      <4>. QED BY <4>1, <4>2, <4>3
    <3>2. CASE Installs(form', FALSE)
      <4>1. PICK m \in Import :
              /\ imports' = {m} /\ m.cert = http.p10 /\ http.p10 # 0 /\ m.byHand = FALSE
              /\ m.container = form.container /\ m.csp = form.csp
        <5>1. \E m \in Import :
                /\ imports' = {m} /\ m.cert = form'.cert /\ form'.cert # 0 /\ m.byHand = FALSE
                /\ m.container = form'.container /\ m.csp = form'.csp
          <6>1. form' \in EnrollForm /\ FALSE \in BOOLEAN
            BY <2>2
          <6>. QED BY <3>2, <6>1, InstalledIs
        <5>. QED BY <2>2, <5>1
      <4>2. m.cert \in DOMAIN keys
        BY <1>13, <1>14, <4>1 DEF Made
      <4>3. EnrollTypeOK'
        BY <1>2, <1>4, <1>5, <2>2, <4>1 DEF EnrollTypeOK, EnrollInv, EnrollForm, Post, Import
      <4>4. KeysMade'
        BY <1>2, <1>13, <1>14, <2>2, <4>1, <4>2 DEF EnrollInv, KeysMade
      <4>5. Unchosen => m.csp = keys[m.cert]
        BY <4>1, <4>2 DEF EnrollInv, EnhancedKept
      <4>6. CertificateFits'
        BY <1>2, <1>9, <4>1, <4>5 DEF CertificateFits, Unchosen
      <4>. QED BY <4>3, <4>4, <4>6
    <3>. QED BY <2>3, <3>1, <3>2
  <2>6. FormFits' /\ PostFits'
    BY <1>2, <1>9, <1>10, <2>2 DEF EnrollInv, FormFits, PostFits
  <2>. QED BY <2>4, <2>5, <2>6 DEF EnrollInv
<1>12. CASE http.state # "done"
  <2>1. UNCHANGED <<form, imports>>
    BY <1>3, <1>12 DEF Answer
  <2> HIDE DEF http, now
  <2>2. EnrollTypeOK'
    BY <1>2, <1>4, <1>5, <2>1 DEF EnrollTypeOK, EnrollInv, Post
  <2>3. FormFits' /\ PostFits'
    BY <1>2, <1>9, <1>10, <2>1 DEF EnrollInv, FormFits, PostFits
  <2>4. CertificateFits'
    BY <1>2, <2>1, FitsStill
  <2>5. KeysMade' /\ EnhancedKept'
    BY <1>2, <1>13, <1>14, <2>1 DEF EnrollInv, KeysMade, EnhancedKept, Unchosen
  <2>. QED BY <2>2, <2>3, <2>4, <2>5 DEF EnrollInv
<1>. QED BY <1>11, <1>12

LEMMA EnrollBegins == EnrollInit => EnrollInv
<1> SUFFICES ASSUME EnrollInit PROVE EnrollInv
  OBVIOUS
<1> DEFINE f == [algorithm |-> "RSA", options |-> <<Enhanced>>, csp |-> Enhanced,
                 p10 |-> 0, container |-> 0, cert |-> 0]
<1>1. f \in EnrollForm
  <2>1. 0 \in Key
    BY EnrollAssumption DEF Key
  <2>2. <<Enhanced>> \in Seq(Provider)
    BY EnrollAssumption
  <2>. QED BY <2>1, <2>2, EnrollAssumption DEF EnrollForm
<1>2. form \in EnrollForm /\ form.p10 = 0 /\ form.container = 0 /\ form.cert = 0
  <2> HIDE DEF f
  <2>1. form \in FindProvider(f) /\ offered \subseteq Provider
    BY DEF EnrollInit, f
  <2>2. f.p10 = 0 /\ f.container = 0 /\ f.cert = 0
    BY DEF f
  <2>. QED BY <1>1, <2>1, <2>2, ProviderFound
<1>7. ASSUME Enhanced \in offered
      PROVE  /\ form.csp = Enhanced
             /\ \E i \in DOMAIN form.options : form.options[i] = Enhanced
  <2> HIDE DEF f
  <2>1. f.options = <<Enhanced>>
    BY DEF f
  <2>2. form \in FindProvider(f) /\ offered \in SUBSET Provider
    BY DEF EnrollInit, f
  <2>. QED BY <1>1, <1>7, <2>1, <2>2, EnhancedFirst
<1>3. EnrollTypeOK
  <2>1. /\ keys \in Seq(Provider) /\ Len(keys) = 0 /\ Len(keys) \in Key
        /\ offered \subseteq Provider
    BY EnrollAssumption DEF Key, EnrollInit
  <2>2. posts \in Seq(Post)
    BY EmptySeq DEF EnrollInit
  <2>. QED BY <1>2, <2>1, <2>2 DEF EnrollInit, EnrollTypeOK, EnrollForm, Post
<1>4. ~UnderWay
  <2>1. DOMAIN posts = {}
    BY DEF EnrollInit
  <2>. QED BY <2>1 DEF UnderWay
<1>5. KeysMade
  <2>1. 0 \in Made
    BY DEF EnrollInit, Made
  <2>. QED BY <1>2, <2>1 DEF EnrollInit, KeysMade
<1>6. EnhancedKept
  <2>1. CASE Enhanced \in offered
    BY <1>7, <2>1 DEF EnrollInit, EnhancedKept
  <2>2. CASE Enhanced \notin offered
    BY <2>2 DEF EnhancedKept, Unchosen
  <2>. QED BY <2>1, <2>2
<1>. QED BY <1>2, <1>3, <1>4, <1>5, <1>6 DEF EnrollInit, EnrollInv, FormFits, PostFits, CertificateFits

LEMMA EnrollStep == EnrollInv /\ [EnrollNext]_enrollVars => EnrollInv'
<1> SUFFICES ASSUME EnrollInv, [EnrollNext]_enrollVars PROVE EnrollInv'
  OBVIOUS
<1>1. CASE UNCHANGED enrollVars
  BY <1>1 DEF EnrollInv, enrollVars, EnrollTypeOK, KeysMade, Made, EnhancedKept, Unchosen,
              FormFits, PostFits, UnderWay, CertificateFits
<1>2. CASE EnrollNext
  BY <1>2, RequestInv, GenerateInv, AlgorithmInv, ChooseInv, InstallInv, AnsweredInv DEF EnrollNext
<1>. QED BY <1>1, <1>2

LEMMA EnrollHolds == EnrollInv => CertificateFits
BY DEF EnrollInv

THEOREM CertificateInContainer == EnrollSpec => []CertificateFits
BY EnrollBegins, EnrollStep, EnrollHolds, PTL DEF EnrollSpec
=============================================================================
