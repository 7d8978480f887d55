--------------------------- MODULE AmazePageProofs ---------------------------
(* What a page of Amaze UI promises, whatever widget it holds: the invariants of the  *)
(* widgets, each kept by its widget's steps, are kept by all steps of the page, for   *)
(* a step of one widget leaves the variables of the others alone.                     *)
EXTENDS AmazePage, AmWidgetProofs, AmTouchProofs, TLAPS

\* The invariant of each widget.  What follows the scroll position asks for its first
\* frames when the page is loaded, and is right about the window only on the page that
\* holds it.
PageInv ==
  /\ page \in Widget
  /\ ModalInv /\ CollapseInv /\ DropInv /\ SelectedInv /\ ButtonInv /\ NavbarInv
  /\ TabsInv /\ CanvasInv /\ PopoverInv
  /\ ProgressInv /\ HammerInv /\ InputInv /\ FastClickInv /\ SliderInv /\ ScrollInv
  /\ PinchInv /\ ViewInv /\ ValidatorInv /\ DateInv /\ HomeInv /\ EnrollInv
  /\ SpyTypeOK /\ (page = "spies" => SpyInv)

\* In a step of one widget the page stays the same, and so do the others.
LEMMA OthersStill ==
  ASSUME NEW w, Only(w)
  PROVE  page = w /\ page' = page /\ \A x \in Widget \ {w} : Still(x)
BY DEF Only

\* A step of the page is one of its widget.
LEMMA StepOfOne ==
  ASSUME page \in Widget, PageNext
  PROVE  /\ Only(page)
         /\ page = "modal" => ModalNext
         /\ page = "accordion" => CollapseNext
         /\ page = "dropdown" => SelectedNext
         /\ page = "buttons" => ButtonNext
         /\ page = "navbar" => NavbarNext
         /\ page = "tabs" => TabsNext
         /\ page = "offcanvas" => CanvasNext
         /\ page = "popover" => PopoverNext
         /\ page = "progress" => ProgressNext
         /\ page = "gestures" => HammerNext
         /\ page = "input" => InputNext
         /\ page = "fastclick" => FastClickNext
         /\ page = "slider" => SliderNext
         /\ page = "scroller" => ScrollNext
         /\ page = "pinchzoom" => PinchNext
         /\ page = "viewer" => ViewNext
         /\ page = "spies" => SpyNext
         /\ page = "form" => ValidatorNext
         /\ page = "datepicker" => DatepickerNext
         /\ page = "home" => HomeNext
         /\ page = "enrolment" => EnrollNext
<1>1. CASE Only("modal") /\ ModalNext
  BY <1>1, OthersStill
<1>2. CASE Only("accordion") /\ CollapseNext
  BY <1>2, OthersStill
<1>3. CASE Only("dropdown") /\ SelectedNext
  BY <1>3, OthersStill
<1>20. CASE Only("buttons") /\ ButtonNext
  BY <1>20, OthersStill
<1>21. CASE Only("navbar") /\ NavbarNext
  BY <1>21, OthersStill
<1>4. CASE Only("tabs") /\ TabsNext
  BY <1>4, OthersStill
<1>5. CASE Only("offcanvas") /\ CanvasNext
  BY <1>5, OthersStill
<1>6. CASE Only("popover") /\ PopoverNext
  BY <1>6, OthersStill
<1>7. CASE Only("progress") /\ ProgressNext
  BY <1>7, OthersStill
<1>8. CASE Only("gestures") /\ HammerNext
  BY <1>8, OthersStill
<1>9. CASE Only("input") /\ InputNext
  BY <1>9, OthersStill
<1>10. CASE Only("fastclick") /\ FastClickNext
  BY <1>10, OthersStill
<1>11. CASE Only("slider") /\ SliderNext
  BY <1>11, OthersStill
<1>12. CASE Only("scroller") /\ ScrollNext
  BY <1>12, OthersStill
<1>13. CASE Only("pinchzoom") /\ PinchNext
  BY <1>13, OthersStill
<1>14. CASE Only("viewer") /\ ViewNext
  BY <1>14, OthersStill
<1>15. CASE Only("spies") /\ SpyNext
  BY <1>15, OthersStill
<1>16. CASE Only("form") /\ ValidatorNext
  BY <1>16, OthersStill
<1>17. CASE Only("datepicker") /\ DatepickerNext
  BY <1>17, OthersStill
<1>18. CASE Only("home") /\ HomeNext
  BY <1>18, OthersStill
<1>19. CASE Only("enrolment") /\ EnrollNext
  BY <1>19, OthersStill
<1>. QED BY <1>1, <1>2, <1>3, <1>4, <1>5, <1>6, <1>7, <1>8, <1>9, <1>10, <1>11, <1>12, <1>13, <1>14, <1>15, <1>16, <1>17, <1>18, <1>19, <1>20, <1>21 DEF PageNext

LEMMA StillMeans ==
  /\ Still("modal") => UNCHANGED modalVars
  /\ Still("accordion") => UNCHANGED collapseVars
  /\ Still("dropdown") => UNCHANGED selectedVars
  /\ Still("buttons") => UNCHANGED buttonVars
  /\ Still("navbar") => UNCHANGED navbarVars
  /\ Still("tabs") => UNCHANGED tabVars
  /\ Still("offcanvas") => UNCHANGED canvasVars
  /\ Still("popover") => UNCHANGED popVars
  /\ Still("progress") => UNCHANGED progressVars
  /\ Still("gestures") => UNCHANGED hammerVars
  /\ Still("input") => UNCHANGED inputVars
  /\ Still("fastclick") => UNCHANGED fastVars
  /\ Still("slider") => UNCHANGED sliderVars
  /\ Still("scroller") => UNCHANGED scrollVars
  /\ Still("pinchzoom") => UNCHANGED pinchVars
  /\ Still("viewer") => UNCHANGED viewVars
  /\ Still("spies") => UNCHANGED spyVars
  /\ Still("form") => UNCHANGED validatorVars
  /\ Still("datepicker") => UNCHANGED dateVars
  /\ Still("home") => UNCHANGED homeVars
  /\ Still("enrolment") => UNCHANGED enrollVars
BY DEF Still

\* So a step of the page is, to every widget, a step of its own or none.
LEMMA StepOfEach ==
  ASSUME page \in Widget, [PageNext]_pageVars
  PROVE  /\ page' = page
         /\ [ModalNext]_modalVars
         /\ [CollapseNext]_collapseVars
         /\ [SelectedNext]_selectedVars
         /\ [ButtonNext]_buttonVars
         /\ [NavbarNext]_navbarVars
         /\ [TabsNext]_tabVars
         /\ [CanvasNext]_canvasVars
         /\ [PopoverNext]_popVars
         /\ [ProgressNext]_progressVars
         /\ [HammerNext]_hammerVars
         /\ [InputNext]_inputVars
         /\ [FastClickNext]_fastVars
         /\ [SliderNext]_sliderVars
         /\ [ScrollNext]_scrollVars
         /\ [PinchNext]_pinchVars
         /\ [ViewNext]_viewVars
         /\ [SpyNext]_spyVars
         /\ [ValidatorNext]_validatorVars
         /\ [DatepickerNext]_dateVars
         /\ [HomeNext]_homeVars
         /\ [EnrollNext]_enrollVars
<1>1. CASE UNCHANGED pageVars
  BY <1>1 DEF pageVars
<1>2. CASE PageNext
  <2>1. page' = page /\ \A x \in Widget \ {page} : Still(x)
    BY <1>2, StepOfOne, OthersStill
  <2>2. [ModalNext]_modalVars
    BY <1>2, <2>1, StepOfOne, StillMeans DEF Widget
  <2>3. [CollapseNext]_collapseVars
    BY <1>2, <2>1, StepOfOne, StillMeans DEF Widget
  <2>4. [SelectedNext]_selectedVars
    BY <1>2, <2>1, StepOfOne, StillMeans DEF Widget
  <2>21. [ButtonNext]_buttonVars
    BY <1>2, <2>1, StepOfOne, StillMeans DEF Widget
  <2>22. [NavbarNext]_navbarVars
    BY <1>2, <2>1, StepOfOne, StillMeans DEF Widget
  <2>5. [TabsNext]_tabVars
    BY <1>2, <2>1, StepOfOne, StillMeans DEF Widget
  <2>6. [CanvasNext]_canvasVars
    BY <1>2, <2>1, StepOfOne, StillMeans DEF Widget
  <2>7. [PopoverNext]_popVars
    BY <1>2, <2>1, StepOfOne, StillMeans DEF Widget
  <2>8. [ProgressNext]_progressVars
    BY <1>2, <2>1, StepOfOne, StillMeans DEF Widget
  <2>9. [HammerNext]_hammerVars
    BY <1>2, <2>1, StepOfOne, StillMeans DEF Widget
  <2>10. [InputNext]_inputVars
    BY <1>2, <2>1, StepOfOne, StillMeans DEF Widget
  <2>11. [FastClickNext]_fastVars
    BY <1>2, <2>1, StepOfOne, StillMeans DEF Widget
  <2>12. [SliderNext]_sliderVars
    BY <1>2, <2>1, StepOfOne, StillMeans DEF Widget
  <2>13. [ScrollNext]_scrollVars
    BY <1>2, <2>1, StepOfOne, StillMeans DEF Widget
  <2>14. [PinchNext]_pinchVars
    BY <1>2, <2>1, StepOfOne, StillMeans DEF Widget
  <2>15. [ViewNext]_viewVars
    BY <1>2, <2>1, StepOfOne, StillMeans DEF Widget
  <2>16. [SpyNext]_spyVars
    BY <1>2, <2>1, StepOfOne, StillMeans DEF Widget
  <2>17. [ValidatorNext]_validatorVars
    BY <1>2, <2>1, StepOfOne, StillMeans DEF Widget
  <2>18. [DatepickerNext]_dateVars
    BY <1>2, <2>1, StepOfOne, StillMeans DEF Widget
  <2>19. [HomeNext]_homeVars
    BY <1>2, <2>1, StepOfOne, StillMeans DEF Widget
  <2>20. [EnrollNext]_enrollVars
    BY <1>2, <2>1, StepOfOne, StillMeans DEF Widget
  <2>. QED BY <2>1, <2>2, <2>3, <2>4, <2>5, <2>6, <2>7, <2>8, <2>9, <2>10, <2>11, <2>12, <2>13, <2>14, <2>15, <2>16, <2>17, <2>18, <2>19, <2>20, <2>21, <2>22
<1>. QED BY <1>1, <1>2

LEMMA OnlySpies ==
  ASSUME page \in Widget, page # "spies", [PageNext]_pageVars
  PROVE  UNCHANGED spyVars
<1>1. CASE UNCHANGED pageVars
  BY <1>1 DEF pageVars
<1>2. CASE PageNext
  BY <1>2, StepOfOne, OthersStill, StillMeans DEF Widget
<1>. QED BY <1>1, <1>2

LEMMA PageBegins == PageInit => PageInv
<1> SUFFICES ASSUME PageInit PROVE PageInv
  OBVIOUS
<1>1. SpyTypeOK
  <2>1. (page = "spies") \in BOOLEAN /\ SpyStarts(page = "spies")
    BY DEF PageInit
  <2>. QED BY <2>1, SpyTypeStarts
<1>2. ASSUME page = "spies" PROVE SpyInv
  <2>1. SpyInit
    BY <1>2 DEF PageInit, SpyInit
  <2>. QED BY <2>1, SpyBegins
<1>. QED BY <1>1, <1>2, ModalBegins, CollapseBegins, SelectedBegins, ButtonBegins, NavbarBegins, TabsBegins, CanvasBegins, PopoverBegins, ProgressBegins, HammerBegins, InputBegins, FastClickBegins, SliderBegins, ScrollBegins, PinchBegins, ViewBegins, ValidatorBegins, DateBegins, HomeBegins, EnrollBegins
     DEF PageInit, PageInv

LEMMA PageStep == PageInv /\ [PageNext]_pageVars => PageInv'
<1> SUFFICES ASSUME PageInv, [PageNext]_pageVars PROVE PageInv'
  OBVIOUS
<1>1. page \in Widget
  BY DEF PageInv
<1>2. ModalInv'
  BY <1>1, StepOfEach, ModalStep DEF PageInv
<1>3. CollapseInv'
  BY <1>1, StepOfEach, CollapseStep DEF PageInv
<1>4. DropInv' /\ SelectedInv'
  BY <1>1, StepOfEach, SelectedStep DEF PageInv
<1>21. ButtonInv'
  BY <1>1, StepOfEach, ButtonStep DEF PageInv
<1>22. NavbarInv'
  BY <1>1, StepOfEach, NavbarStep DEF PageInv
<1>5. TabsInv'
  BY <1>1, StepOfEach, TabsStep DEF PageInv
<1>6. CanvasInv'
  BY <1>1, StepOfEach, CanvasStep DEF PageInv
<1>7. PopoverInv'
  BY <1>1, StepOfEach, PopoverStep DEF PageInv
<1>8. ProgressInv'
  BY <1>1, StepOfEach, ProgressStep DEF PageInv
<1>9. HammerInv'
  BY <1>1, StepOfEach, HammerStep DEF PageInv
<1>10. InputInv'
  BY <1>1, StepOfEach, InputStep DEF PageInv
<1>11. FastClickInv'
  BY <1>1, StepOfEach, FastClickStep DEF PageInv
<1>12. SliderInv'
  BY <1>1, StepOfEach, SliderStep DEF PageInv
<1>13. ScrollInv'
  BY <1>1, StepOfEach, ScrollStep DEF PageInv
<1>14. PinchInv'
  BY <1>1, StepOfEach, PinchStep DEF PageInv
<1>15. ViewInv'
  BY <1>1, StepOfEach, ViewStep DEF PageInv
<1>16. ValidatorInv'
  BY <1>1, StepOfEach, ValidatorStep DEF PageInv
<1>17. DateInv'
  BY <1>1, StepOfEach, DateStep DEF PageInv
<1>18. HomeInv'
  BY <1>1, StepOfEach, HomeStep DEF PageInv
<1>19. EnrollInv'
  BY <1>1, StepOfEach, EnrollStep DEF PageInv
<1>20. page' = page /\ SpyTypeOK' /\ (page' = "spies" => SpyInv')
  <2>1. page' = page /\ [SpyNext]_spyVars
    BY <1>1, StepOfEach
  <2>2. CASE page = "spies"
    BY <2>1, <2>2, SpyStep DEF PageInv, SpyInv
  <2>3. CASE page # "spies"
    <3>1. UNCHANGED spyVars
      BY <1>1, <2>3, OnlySpies
    <3>2. SpyTypeOK'
      BY <3>1 DEF PageInv, spyVars, SpyTypeOK
    <3>. QED BY <2>1, <2>3, <3>2
  <2>. QED BY <2>2, <2>3
<1>. QED BY <1>1, <1>2, <1>3, <1>4, <1>5, <1>6, <1>7, <1>8, <1>9, <1>10, <1>11, <1>12, <1>13, <1>14, <1>15, <1>16, <1>17, <1>18, <1>19, <1>20, <1>21, <1>22 DEF PageInv

LEMMA PageTyped == PageInv => PageTypeOK
BY DEF PageInv, PageTypeOK, ModalInv, CollapseInv, DropInv, SelectedInv, ButtonInv, NavbarInv, TabsInv, CanvasInv, PopoverInv,
       ProgressInv, HammerInv, InputInv, FastClickInv, SliderInv, ScrollInv, PinchInv,
       ViewInv, ValidatorInv, DateInv, HomeInv, EnrollInv

\* What every step of the page keeps, whatever widget it holds.
THEOREM PageInvariant == PageSpec => []PageInv
BY PageBegins, PageStep, PTL DEF PageSpec

\* No variable of a widget leaves its type: whatever the calls, clicks, fingers, frames,
\* timers and ends of transitions, and in whatever order.
THEOREM PageTypes == PageSpec => []PageTypeOK
BY PageInvariant, PageTyped, PTL

\* The page is locked for the sake of an active modal only, a modal tells its events in
\* order, and a panel that moves has what will end its movement, on every page.
THEOREM ModalsAndPanelsOnPage == PageSpec => [](DimmerHasUser /\ ModalEventsInOrder /\ PanelWillRest)
<1>1. PageInv => DimmerHasUser /\ ModalEventsInOrder /\ PanelWillRest
  BY ModalHolds, CollapseHolds DEF PageInv
<1>. QED BY <1>1, PageInvariant, PTL

\* A dropdown, a button, a tab, an off-canvas bar, the progress bar and the image viewer
\* take for true what the page shows, and what is stored of the message that asks to add
\* the page is true, for any number of them and of calls.
THEOREM WidgetsAlwaysAgree == PageSpec => []WidgetsAgree
<1>1. PageInv => WidgetsAgree
  BY DropHolds, ButtonHolds, TabsHolds, CanvasHolds, ProgressHolds, ViewHolds, HomeHolds
  DEF PageInv, WidgetsAgree
<1>. QED BY <1>1, PageInvariant, PTL

\* What the list of a selector shows is what the form will send, and the date of a picker
\* is the one picked, for any options and any dates.
THEOREM ChoicesAreKept == PageSpec => [](SelectionAgrees /\ DateAsPicked)
<1>1. PageInv => SelectionAgrees /\ DateAsPicked
  BY SelectedHolds, DateHolds DEF PageInv
<1>. QED BY <1>1, PageInvariant, PTL

\* The gestures told are those the fingers made, on every page and for any number of
\* inputs.
THEOREM GesturesAlwaysRight == PageSpec => []GesturesRight
<1>1. PageInv => GesturesRight
  BY InputHolds, HammerHolds DEF PageInv, GesturesRight
<1>. QED BY <1>1, PageInvariant, PTL

\* The slider rests on the slide it takes for the current one, for any number of slides.
THEOREM SliderOnPage == PageSpec => []SliderAgrees
<1>1. PageInv => SliderAgrees
  BY SliderHolds DEF PageInv
<1>. QED BY <1>1, PageInvariant, PTL

\* No tap gives the page two clicks, but for those the property names.
THEOREM OneClickOnPage == PageSpec => []OneClickPerTap
<1>1. PageInv => OneClickPerTap
  BY FastClickHolds DEF PageInv
<1>. QED BY <1>1, PageInvariant, PTL

\* What moves over the page ends where it belongs, for any sizes of the page and of
\* what moves.
THEOREM ContentAlwaysInPlace == PageSpec => []ContentInPlace
<1>1. PageInv => ContentInPlace
  BY ScrollHolds, PinchHolds, PopoverHolds, NavbarHolds, SpyHolds DEF PageInv, ContentInPlace
<1>. QED BY <1>1, PageInvariant, PTL

\* A submitted form and an installed certificate are right, whatever is typed, however
\* late the answers are and whatever the order in which they come.
THEOREM FormsAlwaysRight == PageSpec => []FormsRight
<1>1. PageInv => FormsRight
  BY ValidatorHolds, EnrollHolds DEF PageInv, FormsRight
<1>. QED BY <1>1, PageInvariant, PTL
=============================================================================
