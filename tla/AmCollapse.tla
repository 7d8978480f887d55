----------------------------- MODULE AmCollapse -----------------------------
(* The collapsible panels of Amaze UI, and the accordion made of them: a       *)
(* parent in which a panel that opens closes the others.  A panel is an        *)
(* element with classes and, once it has been used, a Collapse object; the     *)
(* element's handlers keep a reference to the object they were made by, which  *)
(* need not be the one the element has now.                                    *)
EXTENDS Naturals, Sequences

CONSTANTS
  Panels,           \* the number of panels of one accordion
  InitiallyOpen,    \* those that are open in the page's source
  PanelTransition,  \* UI.support.transition
  MaxClicks         \* bound: clicks of the user

\* Panels in the order of the document.
Panel == 1 .. Panels

ASSUME CollapseAssumption ==
  /\ Panels \in Nat
  /\ InitiallyOpen \subseteq Panel
  /\ PanelTransition \in BOOLEAN
  /\ MaxClicks \in Nat

VARIABLES panel, clicks

collapseVars == <<panel, clicks>>

\* class: am-collapse, am-collapse am-in, or am-collapsing.  handlers: what waits
\* for the end of the transition, in the order of registration; mine tells
\* whether its object is the element's object of now.  timers: those of
\* emulateTransitionEnd, TRUE when their transition has ended.
Handler == [done : {"opened", "closed"}, mine : BOOLEAN]
PanelState ==
  [class : {"closed", "in", "collapsing"}, data : BOOLEAN, transitioning : BOOLEAN,
   handlers : Seq(Handler), timers : Seq(BOOLEAN), moving : BOOLEAN]

CollapseTypeOK ==
  /\ panel \in [Panel -> PanelState]
  /\ clicks \in 0 .. MaxClicks

CollapseInit ==
  /\ panel = [p \in Panel |->
       [class |-> IF p \in InitiallyOpen THEN "in" ELSE "closed", data |-> FALSE,
        transitioning |-> FALSE, handlers |-> << >>, timers |-> << >>,
        moving |-> FALSE]]
  /\ clicks = 0

-----------------------------------------------------------------------------
\* complete() of open() and close().
PanelDone(s, h) ==
  [s EXCEPT !.class = IF h.done = "opened" THEN "in" ELSE "closed",
            !.transitioning = IF h.mine THEN FALSE ELSE @]

\* The end of a transition: all handlers run in their order and are used up, so the
\* last of them has the last word on the class; and every timer learns that its
\* transition has ended.
PanelEnded(s) ==
  LET told  == [s EXCEPT !.handlers = << >>, !.timers = [i \in DOMAIN @ |-> TRUE]]
      freed == IF \E i \in DOMAIN s.handlers : s.handlers[i].mine
               THEN [told EXCEPT !.transitioning = FALSE] ELSE told
  IN  IF s.handlers = << >> THEN told
                            ELSE PanelDone(freed, s.handlers[Len(s.handlers)])

\* Mutant: no timer is set up for a browser that does not report the end.
PanelMovesUnaided(s, done) ==
  [s EXCEPT !.class = "collapsing", !.transitioning = TRUE, !.data = TRUE,
            !.handlers = Append(@, [done |-> done, mine |-> TRUE]), !.moving = TRUE]

\* The common part of open() and close(): the transition begins.
PanelMoves(s, done) ==
  LET b == [s EXCEPT !.class = "collapsing", !.transitioning = TRUE, !.data = TRUE]
      h == [done |-> done, mine |-> TRUE]
  IN  IF PanelTransition
      THEN [b EXCEPT !.handlers = Append(@, h), !.timers = Append(@, FALSE),
                     !.moving = TRUE]
      ELSE PanelDone(b, h)

\* close(): only of a panel that is open and at rest.
PanelClosed(s) ==
  IF s.transitioning \/ s.class # "in" THEN [s EXCEPT !.data = TRUE]
                                       ELSE PanelMoves(s, "closed")

\* open() closes the open panels of the parent first, unless the first of them
\* is in transition.  When that one never had an object, the panels lose theirs
\* again, while they move.
Forgotten(s) ==
  [s EXCEPT !.data = FALSE, !.transitioning = FALSE,
            !.handlers = [i \in DOMAIN @ |-> [@[i] EXCEPT !.mine = FALSE]]]

OpenPanel(p) ==
  LET actives == {q \in Panel \ {p} : panel[q].class = "in"}
      first   == CHOOSE q \in actives : \A r \in actives : q <= r
      hasData == actives # {} /\ panel[first].data
      Other(q) == CASE q \notin actives -> panel[q]
                    [] q \in actives /\ hasData -> PanelClosed(panel[q])
                    [] OTHER -> Forgotten(PanelClosed(panel[q]))
  IN  panel' = IF hasData /\ panel[first].transitioning
               THEN [panel EXCEPT ![p].data = TRUE]
               ELSE [q \in Panel |-> IF q = p THEN PanelMoves(panel[q], "opened")
                                              ELSE Other(q)]

\* A click on the panel's title: it gets its object and toggles.  While the
\* object is in transition nothing happens.
ClickPanel(p) ==
  /\ clicks < MaxClicks
  /\ clicks' = clicks + 1
  /\ ~panel[p].transitioning
  /\ IF panel[p].class = "in"
     THEN panel' = [panel EXCEPT ![p] = PanelClosed(@)]
     ELSE OpenPanel(p)

\* The browser has finished the transition of p.
PanelTransitionEnds(p) ==
  /\ panel[p].moving
  /\ panel' = [panel EXCEPT ![p] = [PanelEnded(@) EXCEPT !.moving = FALSE]]
  /\ UNCHANGED clicks

\* The callback of emulateTransitionEnd.
PanelTimerFires(p) ==
  LET s == [panel[p] EXCEPT !.timers = Tail(@)]
  IN  /\ panel[p].timers # << >>
      /\ panel' = [panel EXCEPT ![p] = IF Head(@.timers) THEN s ELSE PanelEnded(s)]
      /\ UNCHANGED clicks

CollapseNext ==
  \E p \in Panel : ClickPanel(p) \/ PanelTransitionEnds(p) \/ PanelTimerFires(p)

CollapseSpec == CollapseInit /\ [][CollapseNext]_collapseVars

CollapseFairness == \A p \in Panel : WF_collapseVars(PanelTimerFires(p))

-----------------------------------------------------------------------------
\* A panel that moves will come to rest: a handler is there to end it, and a timer
\* that has not been told of any end, whatever other panels did to it, even when
\* its object was taken away and replaced in the middle of the transition.
WillRest(s) ==
  /\ s.transitioning => \E i \in DOMAIN s.handlers : s.handlers[i].mine
  /\ s.class = "collapsing" => s.handlers # << >>
  /\ s.handlers # << >> => \E i \in DOMAIN s.timers : ~s.timers[i]
PanelWillRest == \A p \in Panel : WillRest(panel[p])

PanelsBusy == \E p \in Panel : panel[p].class = "collapsing"
=============================================================================
