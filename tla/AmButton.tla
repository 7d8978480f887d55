------------------------------ MODULE AmButton ------------------------------
(* The buttons of Amaze UI: a group of them that stand for radio or check boxes,  *)
(* whose marks follow the clicks, and one that is made to say that it is loading. *)
EXTENDS Naturals, Sequences

CONSTANTS
  Button,      \* the buttons of the group
  MaxToggles   \* bound: clicks and calls of setState()

ASSUME ButtonAssumption == MaxToggles \in Nat

LoadState == {"loading", "reset", "complete"}

\* radio: the boxes of the group are radios; pressed: the buttons with the class
\* am-active; ticked: the boxes that are checked.  label: the state whose text the
\* loading button shows; disabled: its class and attribute; isLoading; resumes:
\* what the timers of setState() will set.  History: byItself, the buttons whose boxes
\* themselves were clicked.
VARIABLES radio, pressed, ticked, label, disabled, isLoading, resumes, byItself, toggles

groupVars   == <<radio, pressed, ticked, byItself>>
loadingVars == <<label, disabled, isLoading, resumes>>
buttonVars  == <<groupVars, loadingVars, toggles>>

ButtonTypeOK ==
  /\ radio \in BOOLEAN /\ disabled \in BOOLEAN /\ isLoading \in BOOLEAN
  /\ pressed \subseteq Button /\ ticked \subseteq Button /\ byItself \subseteq Button
  /\ label \in LoadState /\ resumes \in Seq(LoadState)
  /\ toggles \in 0 .. MaxToggles

ButtonInit ==
  /\ radio \in BOOLEAN
  /\ pressed = {} /\ ticked = {} /\ byItself = {}
  /\ label = "reset" /\ disabled = FALSE /\ isLoading = FALSE /\ resumes = <<>>
  /\ toggles = 0

ToggleCount == toggles < MaxToggles /\ toggles' = toggles + 1

-----------------------------------------------------------------------------
\* toggle() of b, when the boxes in boxes are checked: a radio that is on stays, and
\* else it takes the mark from the others; a check box follows its own mark.
Toggled(b, boxes) ==
  IF radio
  THEN IF b \in boxes /\ b \in pressed THEN [marks |-> pressed, boxes |-> boxes]
       ELSE [marks |-> {b}, boxes |-> {b}]
  ELSE IF b \in pressed THEN [marks |-> pressed \ {b}, boxes |-> boxes \ {b}]
       ELSE [marks |-> pressed \cup {b}, boxes |-> boxes \cup {b}]

\* A click on the button: its box is set by toggle() alone, the event being prevented.
ClickButton(b) ==
  LET t == Toggled(b, ticked)
  IN  /\ ToggleCount
      /\ pressed' = t.marks /\ ticked' = t.boxes
      /\ byItself' = IF radio THEN {} ELSE byItself \ {b}
      /\ UNCHANGED <<radio, loadingVars>>

\* The space bar on the box itself: the browser has changed it before the event, and
\* as that is prevented puts all boxes back to what they were, after toggle().
ClickBox(b) ==
  LET flipped == IF radio THEN {b}
                 ELSE IF b \in ticked THEN ticked \ {b} ELSE ticked \cup {b}
  IN  /\ ToggleCount
      /\ pressed' = Toggled(b, flipped).marks
      /\ byItself' = byItself \cup {b} \cup IF radio THEN pressed ELSE {}
      /\ UNCHANGED <<radio, ticked, loadingVars>>

-----------------------------------------------------------------------------
\* setState(): the text changes at once, the rest after the events that wait, so
\* that a form can still be sent by the button.
SetState(state) ==
  /\ ToggleCount
  /\ label' = state
  /\ resumes' = Append(resumes, state)
  /\ UNCHANGED <<groupVars, disabled, isLoading>>

\* The oldest timer of setState().
ResumeState ==
  /\ resumes # <<>> /\ resumes' = Tail(resumes)
  /\ CASE Head(resumes) = "loading" -> disabled' = TRUE /\ isLoading' = TRUE
       [] Head(resumes) # "loading" /\ isLoading -> disabled' = FALSE /\ isLoading' = FALSE
       [] OTHER -> UNCHANGED <<disabled, isLoading>>
  /\ UNCHANGED <<groupVars, label, toggles>>

ButtonNext ==
  \/ \E b \in Button : ClickButton(b) \/ ClickBox(b)
  \/ \E state \in LoadState : SetState(state)
  \/ ResumeState

ButtonSpec == ButtonInit /\ [][ButtonNext]_buttonVars

ButtonFairness == WF_buttonVars(ResumeState)

-----------------------------------------------------------------------------
\* The group shows the boxes the form will send: a button is marked exactly if its box
\* is checked, unless that box itself was clicked, and of radios one at most is; and
\* once the timers are over, whatever the order of the calls, the other button is
\* disabled exactly while it says that it is loading.
ButtonsAgree ==
  /\ \A b \in Button \ byItself : b \in pressed <=> b \in ticked
  /\ radio => \A a, b \in pressed : a = b
  /\ resumes = <<>> => (disabled <=> label = "loading")

ButtonBusy == resumes # <<>>
=============================================================================
