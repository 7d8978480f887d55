----------------------------- MODULE AmPureView ------------------------------
(* The image viewer of Amaze UI (pureview): it covers the page with one slide for   *)
(* each image of an element.  Closing takes a transition, and so does each change   *)
(* of the slide, which is refused while another one runs; the images of the element  *)
(* may change, and an observer tells the viewer a little later.                       *)
EXTENDS SequencesExt, Naturals

CONSTANTS
  FirstImages,   \* the images of the element to begin with, a sequence
  NewImage,      \* an image the page's script may add
  MaxViews       \* bound: what the user and the page's script do

ASSUME ViewAssumption ==
  /\ FirstImages \in Seq(ToSet(FirstImages)) \ {<<>>}
  /\ NewImage \notin ToSet(FirstImages)
  /\ MaxViews \in Nat

Image == ToSet(FirstImages) \cup {NewImage}

\* images: those of the page; known: the viewer's $images; slides: one for each image
\* ever seen; view: the class am-active of the viewer, its display, the body's class,
\* the index of the active slide (0 none), transitioning, and how many resetBody()
\* wait.  History: hurried, the viewer was last opened during a transition; shuffled,
\* the order of images and slides differs; wrong, a click showed another image.
VARIABLES images, known, slides, view, hurried, shuffled, wrong, views

viewVars == <<images, known, slides, view, hurried, shuffled, wrong, views>>

ViewTypeOK ==
  /\ {images, known, slides} \subseteq Seq(Image)
  /\ view \in [active : BOOLEAN, displayed : BOOLEAN, body : BOOLEAN,
               slide : 0 .. Len(slides), transitioning : BOOLEAN, closing : 0 .. MaxViews]
  /\ {hurried, shuffled, wrong} \subseteq BOOLEAN
  /\ views \in 0 .. MaxViews

ViewInit ==
  /\ images = FirstImages /\ known = images /\ slides = images
  /\ view = [active |-> FALSE, displayed |-> FALSE, body |-> FALSE, slide |-> 0,
             transitioning |-> FALSE, closing |-> 0]
  /\ hurried = FALSE /\ shuffled = FALSE /\ wrong = FALSE
  /\ views = 0

View == views < MaxViews /\ views' = views + 1

-----------------------------------------------------------------------------
\* activate(): refused during a transition.
ActivateSlide(v, i) == IF v.transitioning THEN v
                  ELSE [v EXCEPT !.slide = i, !.transitioning = TRUE]

\* open()
OpenView(i) ==
  /\ view' = [ActivateSlide(view, i) EXCEPT !.active = TRUE, !.displayed = TRUE, !.body = TRUE]
  /\ hurried' = (view.transitioning \/ view.closing > 0)

\* A click on an image, which the closed viewer does not cover: an image that is not
\* yet known has the index -1, which is the last slide.
ClickImage(k) ==
  LET at == IF images[k] \in ToSet(known)
            THEN CHOOSE i \in DOMAIN known : known[i] = images[k] ELSE Len(slides)
  IN  /\ View
      /\ ~view.displayed
      /\ OpenView(at)
      /\ wrong' = (view'.slide = 0 \/ slides[view'.slide] # images[k])
      /\ UNCHANGED <<images, known, slides, shuffled>>

\* open() called by the page's script.
CallOpenView ==
  /\ View
  /\ OpenView(1)
  /\ wrong' = FALSE
  /\ UNCHANGED <<images, known, slides, shuffled>>

\* nextSlide() and prevSlide(), from a swipe, a click or a key, which works with the
\* viewer closed, too; at either end there is only an animation.
ChangeSlide(step) ==
  LET to == IF step = "next" THEN view.slide + 1
            ELSE IF view.slide = 0 THEN Len(slides) - 1 ELSE view.slide - 1
  IN  /\ View
      /\ Len(slides) # 1
      /\ view' = IF to \in DOMAIN slides THEN ActivateSlide(view, to) ELSE view
      /\ wrong' = (wrong /\ view' = view)
      /\ UNCHANGED <<images, known, slides, hurried, shuffled>>

\* resetBody()
BodyReset(v) == [v EXCEPT !.displayed = FALSE, !.body = FALSE, !.closing = 0]

\* close(), from the button or the Esc key, which works with the viewer closed, too.
CloseView(v) == [v EXCEPT !.active = FALSE, !.slide = 0, !.closing = @ + 1]

ClickClose ==
  /\ View
  /\ view' = CloseView(view)
  /\ wrong' = FALSE
  /\ UNCHANGED <<images, known, slides, hurried, shuffled>>

\* The end of the slide's transition, or of the timer that stands in for it: the event
\* bubbles up to the viewer, where resetBody() takes it for its own.
SlideEnds ==
  /\ view.transitioning
  /\ view' = [(IF view.closing > 0 THEN BodyReset(view) ELSE view) EXCEPT !.transitioning = FALSE]
  /\ UNCHANGED <<images, known, slides, hurried, shuffled, wrong, views>>

\* The end of the viewer's transition, or of its timer.
CloseEnds ==
  /\ view.closing > 0
  /\ view' = BodyReset(view)
  /\ UNCHANGED <<images, known, slides, hurried, shuffled, wrong, views>>

-----------------------------------------------------------------------------
\* The page's script changes the images.
AddImage(first) ==
  /\ View
  /\ NewImage \notin ToSet(images) \cup ToSet(slides)
  /\ images' = IF first THEN <<NewImage>> \o images ELSE Append(images, NewImage)
  /\ shuffled' = (shuffled \/ first)
  /\ UNCHANGED <<known, slides, view, hurried, wrong>>

RemoveImage(k) ==
  /\ View
  /\ images' = RemoveAt(images, k)
  /\ shuffled' = TRUE
  /\ UNCHANGED <<known, slides, view, hurried, wrong>>

\* refreshSlides(), 50 ms after a change: images without one, which only NewImage can
\* be, and once, get slides behind the others, and no slide ever goes.
RefreshSlides ==
  /\ known # images
  /\ known' = images
  /\ slides' = IF NewImage \in ToSet(images) \ ToSet(slides)
                THEN Append(slides, NewImage) ELSE slides
  /\ UNCHANGED <<images, view, hurried, shuffled, wrong, views>>

ViewNext ==
  \/ \E k \in DOMAIN images : ClickImage(k) \/ RemoveImage(k)
  \/ CallOpenView \/ ClickClose \/ SlideEnds \/ CloseEnds \/ RefreshSlides
  \/ \E step \in {"next", "prev"} : ChangeSlide(step)
  \/ \E first \in BOOLEAN : AddImage(first)

ViewSpec == ViewInit /\ [][ViewNext]_viewVars

\* Browsers report the end of transitions, and a timer stands in for them.
ViewFairness == WF_viewVars(SlideEnds) /\ WF_viewVars(CloseEnds) /\ WF_viewVars(RefreshSlides)

-----------------------------------------------------------------------------
\* The viewer and the page agree once it is closed or open: it is displayed, and the
\* body is locked, exactly while it is active, and then it has a slide, that of the
\* image clicked.  (Not if it was opened during a transition, if images came before
\* others or went, or if the image clicked was too new to be known.)
ViewAgrees ==
  /\ view.closing = 0 /\ ~hurried =>
       view.active = view.displayed /\ view.active = view.body
  /\ view.active /\ ~hurried => view.slide # 0
  /\ wrong => hurried \/ shuffled \/ NewImage \in ToSet(images)

ViewBusy == view.closing > 0 \/ view.transitioning
=============================================================================
