------------------------------ MODULE AmazePage ------------------------------
(* A page made with Amaze UI, or the certificate page of the CFCA sample: it holds   *)
(* one of the widgets, and one handler runs at a time.  Widgets of several kinds on   *)
(* one page are left out: most share only the event loop, but modal, image viewer and *)
(* off-canvas bar each lock the scrolling of the same body.                           *)
EXTENDS AmModal, AmCollapse, AmSelected, AmButton, AmNavbar, AmTabs, AmOffCanvas,
        AmPopover, AmProgress, AmHammer, AmHammerInput, AmFastClick, AmSlider, AmScroll,
        AmPinchZoom, AmPureView, AmSpy, AmValidator, AmDatepicker, AmAddToHome, CfcaEnroll

\* page: the widget the page holds; the others stay in their first states.
VARIABLE page

pageVars == <<page, modalVars, collapseVars, selectedVars, buttonVars, navbarVars,
              tabVars, canvasVars, popVars, progressVars, hammerVars, inputVars, fastVars, sliderVars, scrollVars,
              pinchVars, viewVars, spyVars, validatorVars, dateVars, homeVars, enrollVars>>

Widget == {"modal", "accordion", "dropdown", "buttons", "navbar", "tabs", "offcanvas",
           "popover", "progress", "gestures", "input", "fastclick", "slider", "scroller", "pinchzoom", "viewer",
           "spies", "form", "datepicker", "home", "enrolment"}

Still(w) ==
  CASE w = "modal"    -> UNCHANGED modalVars
    [] w = "accordion"-> UNCHANGED collapseVars
    [] w = "dropdown" -> UNCHANGED selectedVars
    [] w = "buttons"  -> UNCHANGED buttonVars
    [] w = "navbar"   -> UNCHANGED navbarVars
    [] w = "tabs"     -> UNCHANGED tabVars
    [] w = "offcanvas"-> UNCHANGED canvasVars
    [] w = "popover"  -> UNCHANGED popVars
    [] w = "progress" -> UNCHANGED progressVars
    [] w = "gestures" -> UNCHANGED hammerVars
    [] w = "input"    -> UNCHANGED inputVars
    [] w = "fastclick"-> UNCHANGED fastVars
    [] w = "slider"   -> UNCHANGED sliderVars
    [] w = "scroller" -> UNCHANGED scrollVars
    [] w = "pinchzoom"-> UNCHANGED pinchVars
    [] w = "viewer"   -> UNCHANGED viewVars
    [] w = "spies"    -> UNCHANGED spyVars
    [] w = "form"     -> UNCHANGED validatorVars
    [] w = "datepicker" -> UNCHANGED dateVars
    [] w = "home"     -> UNCHANGED homeVars
    [] w = "enrolment"-> UNCHANGED enrollVars

\* A step of w alone.
Only(w) ==
  /\ page = w /\ UNCHANGED page
  /\ \A x \in Widget \ {w} : Still(x)

\* A widget the page does not hold has one first state, whichever it may be.
PageInit ==
  /\ page \in Widget
  /\ ModalInit /\ CollapseInit /\ TabsInit /\ CanvasInit /\ ProgressInit
  /\ FastClickInit /\ ScrollInit /\ PinchInit /\ ViewInit /\ SpyStarts(page = "spies")
  /\ SelectedInit  /\ (page # "dropdown" => ~multiple /\ checked = {1})
  /\ ButtonInit    /\ (page # "buttons" => radio)
  /\ NavbarInit    /\ (page # "navbar" => \A n \in Suites : n <= suite)
  /\ HammerInit    /\ (page # "gestures" => required)
  /\ InputInit     /\ (page # "input" => device = CHOOSE d \in Devices : TRUE)
  /\ SliderInit    /\ (page # "slider" => loop)
  /\ HomeInit      /\ (page # "home" => writable /\ ~legacy)
  /\ DatepickerInit /\ (page # "datepicker" =>
       text = NoDate /\ options = CHOOSE o \in Modes : TRUE)
  /\ ValidatorInit /\ (page # "form" => \A f \in Field : value[f] = 1)
  /\ PopoverInit   /\ (page # "popover" =>
       layout = CHOOSE g \in [window : Windows, box : Boxes, spot : Spots] : TRUE)
  /\ EnrollInit    /\ (page # "enrolment" => offered = {})

PageNext ==
  \/ Only("modal")     /\ ModalNext
  \/ Only("accordion") /\ CollapseNext
  \/ Only("dropdown")  /\ SelectedNext
  \/ Only("buttons")   /\ ButtonNext
  \/ Only("navbar")    /\ NavbarNext
  \/ Only("tabs")      /\ TabsNext
  \/ Only("offcanvas") /\ CanvasNext
  \/ Only("popover")   /\ PopoverNext
  \/ Only("progress")  /\ ProgressNext
  \/ Only("gestures")  /\ HammerNext
  \/ Only("input")     /\ InputNext
  \/ Only("fastclick") /\ FastClickNext
  \/ Only("slider")    /\ SliderNext
  \/ Only("scroller")  /\ ScrollNext
  \/ Only("pinchzoom") /\ PinchNext
  \/ Only("viewer")    /\ ViewNext
  \/ Only("spies")     /\ SpyNext
  \/ Only("form")      /\ ValidatorNext
  \/ Only("datepicker") /\ DatepickerNext
  \/ Only("home")      /\ HomeNext
  \/ Only("enrolment") /\ EnrollNext

\* The fairness of the page is that of its widget: timers fire, frames come, and the
\* browser reports the ends the widget has no timer for.
PageSpec ==
  /\ PageInit /\ [][PageNext]_pageVars
  /\ ModalFairness /\ CollapseFairness /\ SelectedFairness /\ ButtonFairness
  /\ NavbarFairness /\ TabsFairness /\ CanvasFairness
  /\ PopoverFairness /\ ProgressFairness /\ SliderFairness /\ ScrollFairness
  /\ PinchFairness /\ ViewFairness /\ SpyFairness /\ ValidatorFairness
  /\ HomeFairness

-----------------------------------------------------------------------------
\* The type of every variable.
PageTypeOK ==
  /\ page \in Widget
  /\ ModalTypeOK /\ CollapseTypeOK /\ DropTypeOK /\ SelectedTypeOK /\ ButtonTypeOK
  /\ NavbarTypeOK /\ TabsTypeOK /\ CanvasTypeOK
  /\ PopoverTypeOK /\ ProgressTypeOK /\ HammerTypeOK /\ InputTypeOK /\ FastClickTypeOK
  /\ SliderTypeOK /\ ScrollTypeOK /\ PinchTypeOK /\ ViewTypeOK /\ SpyTypeOK
  /\ ValidatorTypeOK /\ DatepickerTypeOK /\ HomeTypeOK /\ EnrollTypeOK

\* What a widget's object takes for true is what the page shows: dropdowns, buttons,
\* tabs, off-canvas bars, the progress bar and the image viewer; and what is stored of
\* the message that asks to add the page (see each module).
WidgetsAgree ==
  /\ DropsAgree /\ ButtonsAgree /\ TabsAgree /\ PageGivenBack /\ BarFollowsStatus
  /\ ViewAgrees /\ AsksAsAgreed

\* The gestures told are those the fingers made: the pointers and their way are counted
\* right, and no two gestures that exclude each other are recognized at a time.
GesturesRight == InputsAgree /\ GesturesExclusive

\* What moves over the page ends where it belongs: scrolled content within its bounds,
\* a zoomed picture in its window, a popover beside its element, the items of a navbar in
\* it or behind it, and what follows the window's scroll position where that wants it.
ContentInPlace ==
  /\ ContentInside /\ PictureTidy /\ PopoverReadable /\ NavbarFits
  /\ page = "spies" => PageFollows

\* What is sent is what was meant: the fields of a submitted form are right, and an
\* installed certificate is in the container of its key.
FormsRight == SubmittedRight /\ CertificateFits

\* Whatever moves comes to rest, once the user lets it: no modal, panel, dropdown, tab
\* or bar stays half way because a timer was stopped, forgotten or replaced.
Busy ==
  CASE page = "modal"     -> ModalBusy
    [] page = "accordion" -> PanelsBusy
    [] page = "dropdown"  -> SelectorBusy
    [] page = "buttons"   -> ButtonBusy
    [] page = "navbar"    -> NavbarBusy
    [] page = "tabs"      -> TabsBusy
    [] page = "offcanvas" -> CanvasBusy
    [] page = "popover"   -> PopoverBusy
    [] page = "progress"  -> ProgressBusy
    [] page = "slider"    -> SliderBusy
    [] page = "scroller"  -> ScrollBusy
    [] page = "pinchzoom" -> PinchBusy
    [] page = "viewer"    -> ViewBusy
    [] page = "spies"     -> ~SpyQuiet
    [] page = "home"      -> HomeBusy
    [] OTHER              -> FALSE

ComesToRest == Busy ~> ~Busy
=============================================================================
