------------------------------ MODULE AmNavbar ------------------------------
(* The navbar of Amaze UI at the foot of a phone's page: the items that the width *)
(* has no room for are moved to a list of actions behind a link 'more', and back   *)
(* when the window has grown.  Unfolding that list moves no item and is left out.   *)
EXTENDS Naturals, Sequences

CONSTANTS
  NavItems,     \* the number of items
  Configured,   \* the numbers of items a class of the navbar may provide for
  Suites,       \* how many items of 60 pixels the windows have room for
  MaxResizes    \* bound: changes of the window's width

\* A window is 76 pixels wide at least, so that one item fits; and there is a widest.
ASSUME NavbarAssumption ==
  /\ NavItems \in Nat /\ Configured \subseteq Nat
  /\ Suites \subseteq Nat \ {0} /\ \E n \in Suites : \A k \in Suites : k <= n
  /\ MaxResizes \in Nat

\* inBar, actions: the items in the bar and in the list, in the order of the page; more:
\* the link, the last in the bar; suite: what calcSuiteItems() returns; checking: the
\* timer of debounce() runs.
VARIABLES inBar, actions, more, suite, checking, resizes

navbarVars == <<inBar, actions, more, suite, checking, resizes>>

NavItem == 1 .. NavItems
AllItems == [i \in NavItem |-> i]

NavbarTypeOK ==
  /\ inBar \in Seq(NavItem) /\ actions \in Seq(NavItem)
  /\ more \in {"absent", "shown", "hidden"}
  /\ suite \in Suites
  /\ checking \in BOOLEAN
  /\ resizes \in 0 .. MaxResizes

-----------------------------------------------------------------------------
\* slice(k) of items: those after the first k.
After(items, k) == SubSeq(items, k + 1, Len(items))
First(items, k) == SubSeq(items, 1, IF k < Len(items) THEN k ELSE Len(items))

\* Items in the bar before the link, and the rest in the list.
Put(items, rest) == [inBar |-> items, actions |-> rest, more |-> "shown"]

\* initActions(): of the items one less stays than there is room for.
Split(n) == Put(First(AllItems, n - 1), After(AllItems, n - 1))

Whole == [inBar |-> AllItems, actions |-> <<>>, more |-> "absent"]

BarShows(bar) == inBar = bar.inBar /\ actions = bar.actions /\ more = bar.more
BarBecomes(bar) == inBar' = bar.inBar /\ actions' = bar.actions /\ more' = bar.more

NavbarInit ==
  /\ suite \in Suites
  /\ \E config \in Configured :
       BarShows(IF NavItems > config /\ NavItems > suite THEN Split(suite) ELSE Whole)
  /\ checking = FALSE /\ resizes = 0

\* A call of what debounce() returned: the timer starts again.
Resize(n) ==
  /\ resizes < MaxResizes /\ resizes' = resizes + 1
  /\ n # suite /\ suite' = n
  /\ checking' = TRUE
  /\ UNCHANGED <<inBar, actions, more>>

\* The items that a bar, with its link, lacks or has too many.
Fit(bar) ==
  LET lis == Len(bar.inBar) + 1
  IN  CASE lis < suite -> Put(bar.inBar \o First(bar.actions, suite - lis),
                              After(bar.actions, suite - lis))
        [] lis > suite -> Put(First(bar.inBar, suite - 1),
                              After(bar.inBar, suite - 1) \o bar.actions)
        [] OTHER -> bar

\* checkNavBarItems(), 150 ms after the last change of the width.
CheckNavBarItems ==
  /\ checking /\ checking' = FALSE
  /\ IF suite >= NavItems
     THEN /\ more' = IF more = "absent" THEN more ELSE "hidden"
          /\ inBar' = inBar \o actions /\ actions' = <<>>
     ELSE BarBecomes(Fit(IF more = "absent" THEN Split(suite) ELSE Put(inBar, actions)))
  /\ UNCHANGED <<suite, resizes>>

NavbarNext == (\E n \in Suites : Resize(n)) \/ CheckNavBarItems

NavbarSpec == NavbarInit /\ [][NavbarNext]_navbarVars

NavbarFairness == WF_navbarVars(CheckNavBarItems)

-----------------------------------------------------------------------------
\* No item is lost, doubled or out of order, however the window grew and shrank; and
\* once the timer is over the bar is full: all items without the link, or as many as
\* fit beside it.  A navbar with no more items than its class provides for is left
\* alone until the window changes.
NavbarFits ==
  /\ inBar \o actions = AllItems
  /\ ~checking /\ (resizes > 0 \/ more # "absent") =>
       IF suite >= NavItems THEN inBar = AllItems /\ more # "shown"
       ELSE Len(inBar) = suite - 1 /\ more = "shown"

NavbarBusy == checking
=============================================================================
