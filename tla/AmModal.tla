------------------------------ MODULE AmModal -------------------------------
(* The modal of Amaze UI.  Opening and closing take a CSS transition; what    *)
(* comes after it waits for the browser's transitionend event, and for a       *)
(* timer that triggers the event when the browser does not                     *)
(* (emulateTransitionEnd).  A call that meets a running transition ends it     *)
(* first.                                                                      *)
EXTENDS AmDimmer, Sequences

CONSTANTS
  Modal,               \* the modals of the page
  SupportTransition,   \* UI.support.transition
  MaxCalls             \* bound: calls of open() and close() by the user

ASSUME ModalAssumption ==
  /\ SupportTransition \in BOOLEAN
  /\ MaxCalls \in Nat

VARIABLES modal, modalCalls

modalVars == <<dimmer, modal, modalCalls>>

\* Per modal: the fields active and transitioning, whether it is displayed, the
\* handler that waits for the end of the transition, whether the browser is
\* still animating, the timers of emulateTransitionEnd in the order they will
\* fire (called: its transition has ended; latest: transitionEndTimmer refers
\* to it), and, as history, the events since its last state.
Timer == [called : BOOLEAN, latest : BOOLEAN]
ModalEvent == {"open", "opened", "close", "closed"}
ModalState ==
  [active : BOOLEAN, transitioning : BOOLEAN, shown : BOOLEAN,
   waiting : {"nothing", "opened", "closed"}, moving : BOOLEAN,
   timers : Seq(Timer), log : Seq(ModalEvent)]

ModalTypeOK ==
  /\ dimmer \in [used : SUBSET Modal, shown : BOOLEAN, active : BOOLEAN, lighting : Nat,
                 locked : BOOLEAN, padding : Nat, forced : BOOLEAN]
  /\ modal \in [Modal -> ModalState]
  /\ modalCalls \in 0 .. MaxCalls

\* The constructor.
ModalInit ==
  /\ DimmerInit
  /\ modal = [m \in Modal |->
       [active |-> FALSE, transitioning |-> FALSE, shown |-> FALSE,
        waiting |-> "nothing", moving |-> FALSE, timers |-> << >>,
        log |-> <<"closed">>]]
  /\ modalCalls = 0

\* A new step begins: of the earlier events only the last is remembered.
Fresh(s) == [s EXCEPT !.log = <<@[Len(@)]>>]

Emit(s, e) == [s EXCEPT !.log = Append(@, e)]

-----------------------------------------------------------------------------
(* Transitions.                                                            *)

\* complete() of open() and of close(): the handler runs and is used up.
Completed(s) ==
  CASE s.waiting = "opened" ->
         Emit([s EXCEPT !.waiting = "nothing", !.transitioning = FALSE], "opened")
    [] s.waiting = "closed" ->
         Emit([s EXCEPT !.waiting = "nothing", !.transitioning = FALSE,
                        !.active = FALSE, !.shown = FALSE, !.moving = FALSE], "closed")
    [] OTHER -> s

\* Completing a close takes the modal out of the dimmer's users.
ClosesWith(s) == s.waiting = "closed"

Unreferred(timers) ==
  [i \in DOMAIN timers |-> [timers[i] EXCEPT !.latest = FALSE]]

\* transitionend without a namespace: every timer that waits learns of it.
AllCalled(timers) == [i \in DOMAIN timers |-> [timers[i] EXCEPT !.called = TRUE]]

\* emulateTransitionEnd(duration): a timer that will end the transition if the
\* browser does not.  An older timer goes on running, but nobody refers to it.
Emulated(s) ==
  [s EXCEPT !.moving = TRUE,
            !.timers = Append(Unreferred(@), [called |-> FALSE, latest |-> TRUE])]

\* clearTimeout(transitionEndTimmer): only the timer set last can be referred to.
Cleared(timers) ==
  IF timers # << >> /\ timers[Len(timers)].latest
  THEN SubSeq(timers, 1, Len(timers) - 1) ELSE timers

\* Mutant: the running transition is cut off without completing it.
InterruptedSilently(s) == [s EXCEPT !.timers = Cleared(@)]

\* A call that meets a running transition stops its timer and completes it.
Interrupted(s) == Completed([s EXCEPT !.timers = Cleared(@)])

\* The transition begins: done will run at its end, or at once without support.
Begun(s, done) ==
  LET b == [s EXCEPT !.waiting = done, !.transitioning = TRUE]
  IN  IF SupportTransition THEN Emulated(b) ELSE Completed(b)

-----------------------------------------------------------------------------
(* The calls.                                                              *)

\* What is left of the last transition when a call comes.
Settled(s) == IF s.transitioning THEN Interrupted(s) ELSE s

\* open() ends where the dimmer throws: the modal is active, but not displayed.
Opened(s) ==
  LET b == Emit([Settled(s) EXCEPT !.active = TRUE], "open")
  IN  IF SupportTransition THEN Begun([b EXCEPT !.shown = TRUE], "opened") ELSE b

Closed(s) == Begun(Emit(Settled(s), "close"), "closed")

\* open(): nothing happens to a modal that is active.
OpenModal(m) ==
  LET s == Fresh(modal[m])
      d == IF s.transitioning /\ ClosesWith(s) THEN DimmerClosed(dimmer, {m}, FALSE)
                                               ELSE dimmer
  IN  /\ ~s.active
      /\ modal' = [modal EXCEPT ![m] = Opened(s)]
      /\ dimmer' = DimmerOpened(d, m, SupportTransition)

\* Mutant: the users of a dimmer that is closed by force are kept.
CloseModalsKeepingUsers(M) ==
  LET A == {m \in M : modal[m].active}
      cut == {m \in A : modal[m].transitioning}
  IN  /\ modal' = [m \in Modal |-> IF m \in A THEN Closed(Fresh(modal[m])) ELSE modal[m]]
      /\ dimmer' = [DimmerClosed(dimmer, cut, TRUE) EXCEPT !.used = dimmer.used]

\* close() of each of M, which a click on the dimmer calls for all: a modal that
\* is active, be it on its way in or out, starts to close; one in transition
\* also takes the dimmer away by force.
CloseModals(M) ==
  LET A   == {m \in M : modal[m].active}
      cut == {m \in A : modal[m].transitioning}
  IN  /\ modal' = [m \in Modal |-> IF m \in A THEN Closed(Fresh(modal[m])) ELSE modal[m]]
      /\ dimmer' = IF SupportTransition THEN DimmerClosed(dimmer, cut, TRUE)
                                        ELSE DimmerClosed(dimmer, A, FALSE)

\* toggle(), the API, the Esc key and the buttons close one modal; a click on
\* the dimmer, which has to be there, closes them all.
UserOpens(m) ==
  /\ modalCalls < MaxCalls
  /\ modalCalls' = modalCalls + 1
  /\ OpenModal(m)

UserCloses(M) ==
  /\ modalCalls < MaxCalls
  /\ modalCalls' = modalCalls + 1
  /\ \E m \in M : modal[m].active
  /\ CloseModals(M)

DimmerClicked == dimmer.shown /\ UserCloses(Modal)

-----------------------------------------------------------------------------
(* The browser.                                                            *)

DimmerAfter(m) ==
  IF ClosesWith(modal[m]) THEN DimmerClosed(dimmer, {m}, FALSE) ELSE dimmer

\* The browser has finished the transition.
TransitionEnds(m) ==
  LET s == Fresh(modal[m])
  IN  /\ s.moving
      /\ modal' = [modal EXCEPT ![m] =
           Completed([s EXCEPT !.moving = FALSE, !.timers = AllCalled(@)])]
      /\ dimmer' = DimmerAfter(m)
      /\ UNCHANGED modalCalls

\* Mutant: the timer tests nothing and triggers nothing.
TimerFiresIdle(m) ==
  LET s == Fresh(modal[m])
  IN  /\ s.timers # << >>
      /\ modal' = [modal EXCEPT ![m] = [s EXCEPT !.timers = Unreferred(Tail(@))]]
      /\ UNCHANGED <<dimmer, modalCalls>>

\* The callback of emulateTransitionEnd: it triggers the event unless its
\* transition has ended, and then forgets whichever timer the modal refers to.
TimerFires(m) ==
  LET s == Fresh(modal[m])
      t == Head(s.timers)
      rest == Unreferred(Tail(s.timers))
  IN  /\ s.timers # << >>
      /\ IF t.called
         THEN /\ modal' = [modal EXCEPT ![m] = [s EXCEPT !.timers = rest]]
              /\ UNCHANGED dimmer
         ELSE /\ modal' = [modal EXCEPT ![m] =
                   Completed([s EXCEPT !.timers = AllCalled(rest)])]
              /\ dimmer' = DimmerAfter(m)
      /\ UNCHANGED modalCalls

-----------------------------------------------------------------------------
ModalNext ==
  \/ \E m \in Modal :
       UserOpens(m) \/ UserCloses({m}) \/ TransitionEnds(m) \/ TimerFires(m)
  \/ DimmerClicked
  \/ DimmerLights /\ UNCHANGED <<modal, modalCalls>>

ModalSpec == ModalInit /\ [][ModalNext]_modalVars

\* Timers fire.
ModalFairness == \A m \in Modal : WF_modalVars(TimerFires(m))

-----------------------------------------------------------------------------
\* A modal that is open, or on its way.
NeedsDimmer(s) == s.active /\ s.waiting # "closed"

\* The page is locked exactly as long as a modal needs it, however calls, timers and
\* transition ends of several modals interleave: never under a dimmer nobody uses, and
\* every modal that is active, and not on its way out, uses it. The layer is there
\* as long as it is used, unless a modal closed in the middle of its transition took
\* it away by force; and without transitions, where it never comes.
DimmerHasUser ==
  /\ dimmer.locked => dimmer.used # {}
  /\ dimmer.used # {} => dimmer.locked \/ dimmer.forced
  /\ dimmer.shown = (dimmer.locked /\ SupportTransition)
  /\ \A m \in dimmer.used : modal[m].active
  /\ \A m \in Modal : NeedsDimmer(modal[m]) => m \in dimmer.used
  /\ dimmer.padding = IF dimmer.locked THEN ScrollbarWidth ELSE 0

\* The events that may come one after the other.
Follows == {<<"closed", "open">>, <<"open", "opened">>, <<"opened", "close">>,
            <<"close", "closed">>, <<"closed", "close">>}
           \cup (IF SupportTransition THEN {} ELSE {<<"open", "close">>})

\* A listener sees "open", "opened", "close", "closed" in this order and again;
\* only a modal that is closed while it is closing is said to close once more, and
\* one without transitions, where open() breaks off, is never said to be opened.
InOrder(log) == \A i \in 1 .. Len(log) - 1 : <<log[i], log[i + 1]>> \in Follows
ModalEventsInOrder == \A m \in Modal : InOrder(modal[m].log)

ModalBusy == \E m \in Modal : modal[m].transitioning
=============================================================================
