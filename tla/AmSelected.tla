----------------------------- MODULE AmSelected -----------------------------
(* The selector of Amaze UI, which stands in for a <select>: a dropdown with an   *)
(* item for each option and a field to search them.  A click on an item marks it *)
(* and sets the options that have its value.  Groups are left out, and destroy(). *)
EXTENDS AmDropdown, Sequences

CONSTANTS
  Selector,      \* the dropdown of the selector
  OptionValue,   \* the values of the options, in their order
  Finds          \* for each text to search, the items that contain it

Item == DOMAIN OptionValue
NoWord == "nothing"

ASSUME SelectedAssumption ==
  /\ Selector \in Drop
  /\ OptionValue \in Seq(STRING) /\ OptionValue # <<>>
  /\ Finds \in [DOMAIN Finds -> SUBSET Item] /\ NoWord \notin DOMAIN Finds

\* multiple: the <select> takes several; checked: the items with the class am-checked;
\* selected: the options that are; searched: the text in the search field; listed: the
\* items displayed; searching: the timer of the last key is running.  History:
\* foreign, options that a script or a reset of the form has changed since.
VARIABLES multiple, checked, selected, searched, listed, searching, foreign

markVars     == <<multiple, checked, selected, foreign>>
searchVars   == <<searched, listed, searching>>
selectedVars == <<dropVars, markVars, searchVars>>

SelectedTypeOK ==
  /\ {multiple, searching} \subseteq BOOLEAN
  /\ checked \subseteq Item /\ selected \subseteq Item /\ foreign \subseteq Item
  /\ searched \in DOMAIN Finds \cup {NoWord}
  /\ listed \subseteq Item

-----------------------------------------------------------------------------
Same(i) == {j \in Item : OptionValue[j] = OptionValue[i]}
Matching(word) == IF word = NoWord THEN Item ELSE Finds[word]

\* The options after those with the value of item i were set one by one: where only
\* one can be selected, it is the last of them.
WithValueOf(i, given) ==
  IF multiple THEN {given \cup Same(i)}
  ELSE {{j} : j \in {last \in Same(i) : \A k \in Same(i) : k <= last}}

\* init() and its syncData(): the options selected make the items checked, and
\* those the options with their values.  One option always is, where only one can be.
SelectedInit ==
  /\ DropInit
  /\ multiple \in BOOLEAN
  /\ IF multiple
     THEN /\ checked \in SUBSET Item
          /\ selected = UNION {Same(i) : i \in checked}
     ELSE \E i \in Item : checked = {i} /\ selected \in WithValueOf(i, {})
  /\ searched = NoWord /\ listed = Item /\ searching = FALSE
  /\ foreign = {}

-----------------------------------------------------------------------------
\* Mutant: the handler of 'closed' empties the field, but leaves the list as it is.
SearchClearedOnly ==
  /\ searched' = IF drop[Selector].shown /\ ~drop'[Selector].shown THEN NoWord ELSE searched
  /\ listed' = listed

\* The handler of 'closed': the search is over.
SearchCleared ==
  IF drop[Selector].shown /\ ~drop'[Selector].shown
  THEN searched' = NoWord /\ listed' = Item
  ELSE UNCHANGED <<searched, listed>>

DropdownMoves == DropNext /\ SearchCleared /\ UNCHANGED <<markVars, searching>>

\* setChecked() and syncData(item) of a click: among several the item changes its
\* mark; a single one closes the dropdown, unless it was the one already.
ClickItem(i) ==
  /\ drop[Selector].shown /\ i \in listed
  /\ IF multiple \/ i \in checked THEN ClickInside(Selector) ELSE ClickOutside
  /\ SearchCleared
  /\ IF multiple
     THEN /\ checked' = IF i \in checked THEN checked \ {i} ELSE checked \cup {i}
          /\ selected' \in IF i \in checked THEN {selected \ Same(i)} ELSE WithValueOf(i, selected)
          /\ foreign' = foreign \ Same(i)
     ELSE IF i \in checked
     THEN UNCHANGED <<checked, selected, foreign>>
     ELSE checked' = {i} /\ selected' \in WithValueOf(i, selected) /\ foreign' = {}
  /\ UNCHANGED <<multiple, searching>>

\* A key in the search field: the items are looked through 100 ms after the last,
SearchKey(word) ==
  /\ Press
  /\ drop[Selector].shown
  /\ word # searched /\ searched' = word
  /\ searching' = TRUE
  /\ UNCHANGED <<drop, markVars, listed>>

\* for the text the field then has.
SearchFires ==
  /\ searching /\ searching' = FALSE
  /\ listed' = Matching(searched)
  /\ UNCHANGED <<dropVars, markVars, searched>>

\* A script, or the reset of the form, sets the options: the list hears nothing.
ScriptSelects(given) ==
  /\ Press
  /\ multiple \/ \E i \in Item : given = {i}
  /\ selected' = given
  /\ foreign' = foreign \cup (selected \ given) \cup (given \ selected)
  /\ UNCHANGED <<drop, multiple, checked, searchVars>>

SelectedNext ==
  \/ DropdownMoves
  \/ \E i \in Item : ClickItem(i)
  \/ \E word \in DOMAIN Finds \cup {NoWord} : SearchKey(word)
  \/ SearchFires
  \/ \E given \in SUBSET Item : ScriptSelects(given)

SelectedSpec == SelectedInit /\ [][SelectedNext]_selectedVars

SelectedFairness == DropFairness /\ WF_selectedVars(SearchFires)

-----------------------------------------------------------------------------
\* What the list shows is what the form will submit: an option with a value of its
\* own is selected exactly if its item is checked, and a single selection has the
\* value of the one item checked, unless a script has set them since.  The list
\* is that of the text searched, once its timer is over; and a selector that is
\* closed is ready to list every item, though the timer of a key may still run.
SelectionAgrees ==
  /\ \A i \in Item \ foreign : Same(i) = {i} => (i \in checked <=> i \in selected)
  /\ ~multiple => \E i \in Item :
       checked = {i} /\ (foreign = {} => \E j \in Same(i) : selected = {j})
  /\ ~searching => listed = Matching(searched)
  /\ ~drop[Selector].shown => listed = Item

SelectorBusy == searching \/ DropsBusy
=============================================================================
