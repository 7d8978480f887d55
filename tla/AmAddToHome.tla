----------------------------- MODULE AmAddToHome -----------------------------
(* "Add to Homescreen", which Amaze UI bundles: a message that asks the visitor to  *)
(* add the page to the home screen.  A session in localStorage says across visits     *)
(* how often and when it was shown, and whether the visitor has opted out or added    *)
(* the page; a visit may end at any moment.                                           *)
EXTENDS Naturals

CONSTANTS
  MaxDisplayCount,   \* the option: 0 is no limit
  SkipFirstVisit,    \* the option
  DetectHomescreen,  \* the option is one of its three true values
  HasIcon,           \* the page has an icon for the message
  MaxVisits,         \* bound: loads of the page
  MaxHomeCalls       \* bound: calls of the page's script

HomeAssumption ==
  /\ {MaxDisplayCount, MaxVisits, MaxHomeCalls} \subseteq Nat
  /\ {SkipFirstVisit, DetectHomescreen, HasIcon} \subseteq BOOLEAN
ASSUME HomeAssumption

\* _defaultSession.  last: lastDisplayTime, against displayPace.
DefaultSession ==
  [exists |-> TRUE, last |-> "long ago", returning |-> FALSE, count |-> 0,
   optedout |-> FALSE, added |-> FALSE]
NoSession == [DefaultSession EXCEPT !.exists = FALSE]

\* storage: what localStorage holds; writable: it can be written; legacy: an older
\* version has left its mark there.  ath, of this visit: session, with the object
\* _defaultSession (default) which it may be (same); ready and shown; loaded:
\* _DOMReady, as show() has last seen it; waiting: show() tries again when the page
\* has loaded; the message's image is loading, its timers of _show() and remove(), and
\* those of remove() nobody holds any more; clickable; leaving: the ends of
\* transitions are awaited.
\* History: refused, the visit began opted out or added; asked, the messages shown
\* without force; recently, one was shown less than displayPace ago; early, against:
\* one was shown too early, or in a refused visit; cleared, clearSession() or
\* removeSession() was called.
VARIABLES storage, writable, legacy, ath, visitor, visits, homeCalls

homeVars == <<storage, writable, legacy, ath, visitor, visits, homeCalls>>

SessionType ==
  [exists : BOOLEAN, last : {"long ago", "recent"}, returning : BOOLEAN, count : Nat,
   optedout : BOOLEAN, added : BOOLEAN]

HomeTypeOK ==
  /\ storage \in SessionType
  /\ {writable, legacy} \subseteq BOOLEAN
  /\ ath \in [session : SessionType, default : SessionType, same : BOOLEAN, ready : BOOLEAN,
               loaded : BOOLEAN, shown : BOOLEAN, waiting : BOOLEAN, loading : BOOLEAN, showing : Nat,
               timer : BOOLEAN, strays : Nat, seen : BOOLEAN, clickable : BOOLEAN,
               leaving : BOOLEAN]
  /\ visitor \in [refused : BOOLEAN, asked : Nat, recently : BOOLEAN, early : BOOLEAN,
                  against : BOOLEAN, cleared : BOOLEAN]
  /\ visits \in 0 .. MaxVisits /\ homeCalls \in 0 .. MaxHomeCalls

NewVisit ==
  [session |-> NoSession, default |-> DefaultSession, same |-> FALSE, ready |-> FALSE,
   loaded |-> FALSE, shown |-> FALSE, waiting |-> FALSE, loading |-> FALSE, showing |-> 0, timer |-> FALSE,
   strays |-> 0, seen |-> FALSE, clickable |-> FALSE, leaving |-> FALSE]

HomeInit ==
  /\ storage = NoSession /\ writable \in BOOLEAN /\ legacy \in BOOLEAN
  /\ ath = NewVisit
  /\ visitor = [refused |-> FALSE, asked |-> 0, recently |-> FALSE, early |-> FALSE,
                against |-> FALSE, cleared |-> FALSE]
  /\ visits = 0 /\ homeCalls = 0

-----------------------------------------------------------------------------
(* The visit so far is a record [ath, storage, visitor].                    *)

\* A change of the session's object.
Session(v, s) ==
  [v EXCEPT !.ath.session = s, !.ath.default = IF v.ath.same THEN s ELSE @]

\* Mutant: a change of the session is not written.
UpdatedInMemory(v, s) == Session(v, s)

\* updateSession()
Updated(v, s) ==
  LET w == Session(v, s) IN IF writable THEN [w EXCEPT !.storage = s] ELSE w

\* What show() asks of a call without force.
MayShow(v, force) ==
  LET s == v.ath.session
  IN  force \/ /\ v.ath.ready /\ s.last # "recent"
               /\ MaxDisplayCount = 0 \/ s.count < MaxDisplayCount

\* The message's elements appear: an image that loads, or the lack of one, starts
\* the timer of _show().
Appears(h) ==
  [h EXCEPT !.shown = TRUE, !.seen = FALSE, !.leaving = FALSE, !.clickable = FALSE,
            !.loading = HasIcon, !.showing = IF HasIcon THEN @ ELSE @ + 1]

\* What the visitor has seen then.
AskedBy(q, force) ==
  [q EXCEPT !.asked = IF force THEN @ ELSE @ + 1,
            !.early = @ \/ (~force /\ q.recently),
            !.against = @ \/ (~force /\ q.refused),
            !.recently = TRUE]

\* show(): before the page has loaded it tries again later, without force.
Show(v, force, loaded) ==
  LET s == [v.ath.session EXCEPT !.last = "recent", !.count = @ + 1]
      w == Updated([v EXCEPT !.ath.loaded = loaded], s)
  IN  CASE ~loaded -> [v EXCEPT !.ath.waiting = TRUE]
        [] loaded /\ ~v.ath.shown /\ MayShow(v, force) ->
             [w EXCEPT !.ath = Appears(@), !.visitor = AskedBy(@, force)]
        [] OTHER -> v

\* The constructor, behind the check of the browser: what the visitor has decided,
\* whether the page was started from the home screen, and the first visit.
Construct(v, token, standalone, loaded) ==
  LET old   == v.storage.exists
      first == [v EXCEPT !.ath.session = IF old THEN v.storage ELSE DefaultSession,
                         !.ath.same = ~old]
      stored == Updated(first, first.ath.session)
      out == IF legacy THEN Updated(stored, [stored.ath.session EXCEPT !.optedout = TRUE])
             ELSE stored
      s == out.ath.session
      begun == [out EXCEPT !.visitor.refused = s.optedout \/ s.added]
      again == Updated(begun, [s EXCEPT !.returning = TRUE])
      ended  == s.optedout \/ s.added
      atHome == ~ended /\ (standalone \/ (DetectHomescreen /\ token /\ old))
      quiet  == ~ended /\ ~atHome /\ ((~s.returning /\ SkipFirstVisit) \/ ~writable)
  IN  CASE ended  -> begun
        [] atHome -> Updated(begun, [s EXCEPT !.added = TRUE])
        [] quiet  -> again
        [] OTHER  -> Show([again EXCEPT !.ath.ready = TRUE], FALSE, loaded)

Now == [ath |-> ath, storage |-> storage, visitor |-> visitor]
Becomes(v) == ath' = v.ath /\ storage' = v.storage /\ visitor' = v.visitor

-----------------------------------------------------------------------------
\* The page is loaded, anew or in the middle of a visit.
Load ==
  /\ visits < MaxVisits /\ visits' = visits + 1
  /\ \E token, standalone, loaded \in BOOLEAN :
       Becomes(Construct([Now EXCEPT !.ath = NewVisit], token, standalone, loaded))
  /\ UNCHANGED <<writable, legacy, homeCalls>>

Rest == UNCHANGED <<writable, legacy, visits, homeCalls>>

\* show() tries again.
ShowAgain ==
  /\ ath.waiting
  /\ Becomes(Show([Now EXCEPT !.ath.waiting = FALSE], FALSE, TRUE))
  /\ Rest

\* The image has loaded, or failed to.
ImageLoads ==
  /\ ath.loading
  /\ ath' = [ath EXCEPT !.loading = FALSE, !.showing = @ + 1]
  /\ UNCHANGED <<storage, visitor>> /\ Rest

\* _show(), by its timer, whatever has become of the message.
ShowTimerFires ==
  /\ ath.showing > 0
  /\ ath' = [ath EXCEPT !.showing = @ - 1, !.seen = ath.shown,
                          !.strays = IF ath.timer THEN @ + 1 ELSE @, !.timer = TRUE]
  /\ UNCHANGED <<storage, visitor>> /\ Rest

\* A second after it was seen the message may be clicked away.
BecomesClickable ==
  /\ ath.seen /\ ~ath.clickable
  /\ ath' = [ath EXCEPT !.clickable = TRUE]
  /\ UNCHANGED <<storage, visitor>> /\ Rest

\* remove(): the message fades away.
Removed(h) ==
  [h EXCEPT !.timer = FALSE, !.loading = FALSE, !.clickable = FALSE, !.leaving = h.shown]

Click ==
  /\ ath.clickable
  /\ ath' = Removed(ath)
  /\ UNCHANGED <<storage, visitor>> /\ Rest

RemoveTimerFires ==
  /\ \/ ath.timer /\ ath' = Removed(ath)
     \/ ath.strays > 0 /\ ath' = [Removed(ath) EXCEPT !.strays = @ - 1]
  /\ UNCHANGED <<storage, visitor>> /\ Rest

\* _removeElements(), by the end of a transition.
RemoveElements ==
  /\ ath.leaving
  /\ ath' = [ath EXCEPT !.leaving = FALSE, !.shown = FALSE, !.seen = FALSE]
  /\ UNCHANGED <<storage, visitor>> /\ Rest

\* Calls by the page's script.
HomeCall ==
  /\ visits > 0 /\ homeCalls < MaxHomeCalls /\ homeCalls' = homeCalls + 1
  /\ UNCHANGED <<writable, legacy, visits>>

CallShow ==
  /\ HomeCall
  /\ \E force, loaded \in BOOLEAN :
       (ath.loaded => loaded) /\ Becomes(Show(Now, force, loaded))

CallRemove ==
  /\ HomeCall
  /\ ath' = Removed(ath)
  /\ UNCHANGED <<storage, visitor>>

\* optOut(), optIn() and clearDisplayCount(); clearSession() takes _defaultSession,
\* as it has become.
ChangeSession ==
  /\ HomeCall
  /\ ath.session.exists
  /\ \/ \E out \in BOOLEAN : Becomes(Updated(Now, [ath.session EXCEPT !.optedout = out]))
     \/ Becomes([Updated(Now, [ath.session EXCEPT !.count = 0]) EXCEPT !.visitor.asked = 0])
     \/ Becomes([Updated([Now EXCEPT !.ath.same = TRUE], ath.default)
                 EXCEPT !.visitor.cleared = TRUE])

\* removeSession(): of the session that is stored, whatever this visit has.
RemoveSession ==
  /\ HomeCall
  /\ storage' = NoSession
  /\ visitor' = [visitor EXCEPT !.cleared = TRUE]
  /\ UNCHANGED ath

\* displayPace is over.
PaceOver ==
  /\ visitor.recently
  /\ visitor' = [visitor EXCEPT !.recently = FALSE]
  /\ ath' = [ath EXCEPT !.session.last = "long ago", !.default.last = "long ago"]
  /\ storage' = [storage EXCEPT !.last = "long ago"]
  /\ Rest

HomeNext ==
  \/ Load \/ ShowAgain \/ ImageLoads \/ ShowTimerFires \/ BecomesClickable \/ Click
  \/ RemoveTimerFires \/ RemoveElements \/ CallShow \/ CallRemove \/ ChangeSession
  \/ RemoveSession \/ PaceOver

HomeSpec == HomeInit /\ [][HomeNext]_homeVars

\* Timers fire, images load or fail, and transitions end.
HomeFairness ==
  /\ WF_homeVars(ImageLoads) /\ WF_homeVars(ShowTimerFires)
  /\ WF_homeVars(RemoveTimerFires) /\ WF_homeVars(RemoveElements)

-----------------------------------------------------------------------------
\* Across visits that end at any moment, the visitor is not asked more often than
\* maxDisplayCount, nor twice within displayPace, nor in a visit that began opted
\* out or added; and what is stored is what the visit goes by.  (Until
\* clearSession() or removeSession() is called; unless the page's script uses force.)
AsksAsAgreed ==
  /\ ~visitor.cleared /\ MaxDisplayCount > 0 => visitor.asked <= MaxDisplayCount
  /\ ~visitor.cleared => ~visitor.early /\ ~visitor.against
  /\ writable /\ ath.session.exists =>
       storage = ath.session \/ (visitor.cleared /\ storage = NoSession)
  /\ ~writable => visitor.asked = 0

HomeBusy == ath.shown
=============================================================================
