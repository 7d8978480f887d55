------------------------------- MODULE AmTabs -------------------------------
(* The tabs of Amaze UI.  A tab opens by a click on its name, or by a swipe     *)
(* over the panels, which is handled when no further pan event has come for a   *)
(* while (debounce).  The panel that leaves reports the end of the transition.  *)
EXTENDS Integers

CONSTANTS
  Tabs,            \* how many there are
  TabTransition,   \* UI.support.transition
  MaxTouches       \* bound: clicks and swipes of the user

ASSUME TabsAssumption ==
  Tabs \in Nat \ {0} /\ TabTransition \in BOOLEAN /\ MaxTouches \in Nat

Tab == 1 .. Tabs
NoTab == 0

\* nav and panel: the tab whose name, and whose panel, has am-active; ending: the
\* panels that wait for transitionend; swipe: per direction the panel the last
\* pan event was seen on, while its timer runs.
VARIABLES nav, tabPanel, switching, ending, swipe, touches

tabVars == <<nav, tabPanel, switching, ending, swipe, touches>>

TabsTypeOK ==
  /\ nav \in Tab /\ tabPanel \in Tab
  /\ switching \in BOOLEAN
  /\ ending \subseteq Tab
  /\ swipe \in [{-1, 1} -> Tab \cup {NoTab}]
  /\ touches \in 0 .. MaxTouches

\* The constructor activates the first tab when the page has not marked one.
TabsInit ==
  /\ nav = 1 /\ tabPanel = 1
  /\ switching = FALSE
  /\ ending = {}
  /\ swipe = [d \in {-1, 1} |-> NoTab]
  /\ touches = 0

\* activate() for the name, which takes no time, and then for the panel.
ActivateTab(t) ==
  /\ nav' = t
  /\ tabPanel' = t
  /\ switching' = TabTransition
  /\ ending' = IF TabTransition THEN ending \cup {tabPanel} ELSE ending

\* open(): not while a switch is under way, and not for the tab that is active.
OpenTab(t) ==
  IF switching \/ t = nav THEN UNCHANGED <<nav, tabPanel, switching, ending>>
                          ELSE ActivateTab(t)

Touch == touches < MaxTouches /\ touches' = touches + 1

ClickTab(t) == Touch /\ OpenTab(t) /\ UNCHANGED swipe

\* A pan event over the panel that is displayed starts the timer again.
Pan(d) ==
  /\ Touch
  /\ swipe' = [swipe EXCEPT ![d] = tabPanel]
  /\ UNCHANGED <<nav, tabPanel, switching, ending>>

\* The timer: the neighbour (getNextNav, getPrevNav) of the panel the pan was
\* seen on opens, if there is one.
SwipeHandled(d) ==
  LET t == swipe[d] + d
  IN  /\ swipe[d] # NoTab
      /\ swipe' = [swipe EXCEPT ![d] = NoTab]
      /\ IF t \in Tab THEN OpenTab(t) ELSE UNCHANGED <<nav, tabPanel, switching, ending>>
      /\ UNCHANGED touches

\* The panel that leaves has faded out.
TabTransitionEnds(t) ==
  /\ t \in ending
  /\ ending' = ending \ {t}
  /\ switching' = FALSE
  /\ UNCHANGED <<nav, tabPanel, swipe, touches>>

TabsNext ==
  \/ \E t \in Tab : ClickTab(t) \/ TabTransitionEnds(t)
  \/ \E d \in {-1, 1} : Pan(d) \/ SwipeHandled(d)

TabsSpec == TabsInit /\ [][TabsNext]_tabVars

\* Browsers report the end of the transitions they run.
TabsFairness == \A t \in Tab : WF_tabVars(TabTransitionEnds(t))

-----------------------------------------------------------------------------
\* The name that is marked is that of the panel that is displayed, whatever
\* clicks and late swipes came in the middle of a switch; and a switch under way
\* waits for exactly one panel, which is not the one that is coming.
TabsAgree ==
  /\ nav = tabPanel
  /\ switching = (ending # {})
  /\ tabPanel \notin ending
  /\ \A s, t \in ending : s = t

TabsBusy == switching
=============================================================================
