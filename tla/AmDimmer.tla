------------------------------ MODULE AmDimmer ------------------------------
(* The dimmer of Amaze UI: one grey layer over the page that all modals      *)
(* share.  The layer remembers who uses it ($used); while it is shown the     *)
(* page cannot scroll, and the space of the scroll bar is padded.             *)
EXTENDS Naturals

CONSTANT
  ScrollbarWidth   \* the width of the page's scroll bar, 0 when it has none

ASSUME DimmerAssumption == ScrollbarWidth \in Nat

VARIABLE dimmer

\* The singleton: made with nobody using it.  `lighting` counts the calls of
\* setTimeout(.., 0) that have yet to add the class am-active.  History: `forced`,
\* it went by force, and has not come back since.
DimmerInit ==
  dimmer = [used |-> {}, shown |-> FALSE, active |-> FALSE, lighting |-> 0,
            locked |-> FALSE, padding |-> 0, forced |-> FALSE]

\* checkScrollbar(): a page that is locked shows no scroll bar to measure.
Scrollbar(d) == IF d.locked THEN 0 ELSE ScrollbarWidth

\* setScrollbar() and resetScrollbar(): lock the page and make up for the bar.
Locked(d)   == [d EXCEPT !.padding = @ + Scrollbar(d), !.locked = TRUE]
Unlocked(d) == [d EXCEPT !.padding = 0, !.locked = FALSE]

\* open(relatedElement): what the layer is after user has opened it; in a browser
\* without transitions the name of their end is not to be had, so that open()
\* throws when the page is locked and the layer not yet shown.
DimmerOpened(d, user, transition) ==
  LET l == [Locked(d) EXCEPT !.used = @ \cup {user}, !.forced = FALSE]
  IN  IF transition THEN [l EXCEPT !.shown = TRUE, !.lighting = @ + 1] ELSE l

\* close(relatedElement, force), called for each of users in a row: the layer
\* goes when nobody is left, or at once when it is forced.
DimmerClosed(d, users, force) ==
  LET left == d.used \ users
  IN  IF users = {} \/ (~force /\ left # {})
      THEN [d EXCEPT !.used = left]
      ELSE [Unlocked(d) EXCEPT !.used = left, !.shown = FALSE, !.active = FALSE,
                               !.forced = force]

\* The timer of open(): the class comes one turn of the event loop later,
\* whatever has happened since.
DimmerLights ==
  /\ dimmer.lighting > 0
  /\ dimmer' = [dimmer EXCEPT !.lighting = @ - 1, !.active = TRUE]
=============================================================================
