---------------------------- MODULE AmProgress ------------------------------
(* The progress bar of Amaze UI (NProgress).  The bar is drawn when a status    *)
(* is set and creeps on by itself, driven by loops of timers; done() lets it    *)
(* fade and removes it two timers later, whatever has begun by then.            *)
EXTENDS Naturals

CONSTANTS
  Levels,      \* how many values below 1 a status is rounded to
  Trickle,     \* Settings.trickle
  MaxOrders    \* bound: calls of the page's script

ASSUME ProgressAssumption ==
  Levels \in Nat \ {0} /\ Trickle \in BOOLEAN /\ MaxOrders \in Nat

Level == 1 .. Levels
NoStatus == 0

\* status: NProgress.status, NoStatus for null; rendered: the bar is in the page;
\* loops: the chains of timers that trickle; fading, leaving: the timers between
\* the end and the removal, first and second; direct (history): the status
\* was set by the script without start().
VARIABLES status, rendered, loops, fading, leaving, direct, orders

progressVars == <<status, rendered, loops, fading, leaving, direct, orders>>

ProgressTypeOK ==
  /\ status \in Level \cup {NoStatus}
  /\ rendered \in BOOLEAN /\ direct \in BOOLEAN
  /\ loops \in Nat /\ fading \in Nat /\ leaving \in Nat
  /\ orders \in 0 .. MaxOrders

ProgressInit ==
  /\ status = NoStatus /\ rendered = FALSE /\ direct = FALSE
  /\ loops = 0 /\ fading = 0 /\ leaving = 0 /\ orders = 0

\* set(n) for n < 1.  The queue it hands the drawing to takes an element out
\* before it runs it, so it is always empty and everything runs at once.
SetTo(n) == status' = n /\ rendered' = TRUE

\* set(1): the bar is full, and its removal begins.
SetFull == status' = NoStatus /\ rendered' = TRUE /\ fading' = fading + 1

Order == orders < MaxOrders /\ orders' = orders + 1

AnotherLoop == loops' = IF Trickle THEN loops + 1 ELSE loops

\* start(), and inc() without a status: a running bar stays where it is, but
\* gets another loop.
StartBar ==
  /\ Order
  /\ IF status = NoStatus THEN SetTo(1) /\ direct' = FALSE
                          ELSE UNCHANGED <<status, rendered, direct>>
  /\ AnotherLoop
  /\ UNCHANGED <<fading, leaving>>

\* inc(amount) of a running bar: by any amount, but never to the end.
IncBar ==
  /\ Order
  /\ status # NoStatus
  /\ \E n \in status .. Levels : SetTo(n)
  /\ UNCHANGED <<loops, fading, leaving, direct>>

\* set(n) called by the script.
SetBar ==
  /\ Order
  /\ \E n \in Level : SetTo(n)
  /\ direct' = (direct \/ status = NoStatus)
  /\ UNCHANGED <<loops, fading, leaving>>

\* done(force): inc() and set(1).  By force a bar without status is started, with
\* a loop, only to end.
DoneBar(force) ==
  /\ Order
  /\ force \/ status # NoStatus
  /\ SetFull
  /\ IF status = NoStatus THEN AnotherLoop ELSE UNCHANGED loops
  /\ direct' = FALSE
  /\ UNCHANGED leaving

\* A timer of a loop: it ends with the status, and else moves the bar.
TrickleFires ==
  /\ loops > 0
  /\ IF status = NoStatus
     THEN loops' = loops - 1 /\ UNCHANGED <<status, rendered>>
     ELSE UNCHANGED loops /\ \E n \in status .. Levels : SetTo(n)
  /\ UNCHANGED <<fading, leaving, direct, orders>>

\* The two timers of the removal.
FadeFires ==
  /\ fading > 0
  /\ fading' = fading - 1
  /\ leaving' = leaving + 1
  /\ UNCHANGED <<status, rendered, loops, direct, orders>>

RemoveFires ==
  /\ leaving > 0
  /\ leaving' = leaving - 1
  /\ rendered' = FALSE
  /\ UNCHANGED <<status, loops, fading, direct, orders>>

ProgressNext ==
  \/ StartBar \/ IncBar \/ SetBar
  \/ \E force \in BOOLEAN : DoneBar(force)
  \/ TrickleFires \/ FadeFires \/ RemoveFires

ProgressSpec == ProgressInit /\ [][ProgressNext]_progressVars

ProgressFairness ==
  WF_progressVars(TrickleFires) /\ WF_progressVars(FadeFires) /\ WF_progressVars(RemoveFires)

-----------------------------------------------------------------------------
\* The bar and the status belong together: a bar without a status is about to be
\* removed; and a status whose bar was removed, because it was started while
\* the last one faded, has a loop that will draw it again.
BarFollowsStatus ==
  /\ rendered /\ status = NoStatus => fading + leaving > 0
  /\ ~rendered /\ status # NoStatus /\ ~direct /\ Trickle => loops > 0

\* A bar that has no status any more is on its way out.
ProgressBusy == status = NoStatus /\ rendered
=============================================================================
