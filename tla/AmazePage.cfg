SPECIFICATION PageSpec
CONSTANTS
  ScrollbarWidth = 15
  Modal = {m1, m2}
  SupportTransition = TRUE
  MaxCalls = 4
  Panels = 3
  InitiallyOpen = {1}
  PanelTransition = TRUE
  MaxClicks = 3
  Drop = {d1, d2}
  DropAnimation = TRUE
  MaxPresses = 4
  Selector = d1
  OptionValue <- OptionValueDef
  Finds <- FindsDef
  Button = {b1, b2}
  MaxToggles = 4
  NavItems = 5
  Configured = {4, 5}
  Suites = {1, 3, 4, 5, 6}
  MaxResizes = 4
  Tabs = 3
  TabTransition = TRUE
  MaxTouches = 3
  Canvas = {c1, c2}
  CanvasTransition = TRUE
  MaxScroll = 1
  MaxSwitches = 4
  Windows <- WindowsDef
  Boxes <- BoxesDef
  Spots <- SpotsDef
  Trigger <- TriggerDef
  MaxPops = 3
  Levels = 2
  Trickle = TRUE
  MaxOrders = 4
  Enabled = {"rotate", "pinch", "swipe", "pan", "tap", "doubletap", "press"}
  MaxInputs = 5
  Devices = {"touch", "pointer", "touchmouse"}
  Track = 1
  MaxEvents = 5
  IOS = TRUE
  MaxTaps = 3
  EventPassthrough = TRUE
  Slides = 3
  PlayAfterPaused = TRUE
  MaxMoves = 2
  MaxContent = 2
  MaxDrags = 4
  MaxGestures = 3
  FirstImages <- FirstImagesDef
  NewImage = "c"
  MaxViews = 4
  Sections = 2
  StickyAnimated = TRUE
  MaxScrolls = 2
  MaxEdits = 2
  MaxPromises = 3
  Today <- TodayDef
  Typed <- TypedDef
  Modes <- ModesDef
  WeekStart = 1
  PickYears = {2023, 2024}
  MaxPicks = 3
  MaxDisplayCount = 2
  SkipFirstVisit = FALSE
  DetectHomescreen = TRUE
  HasIcon = TRUE
  MaxVisits = 2
  MaxHomeCalls = 2
  Provider = {"enhanced", "other"}
  Enhanced = "enhanced"
  MaxKeys = 2
  MaxPosts = 2
INVARIANTS
  PageTypeOK
  DimmerHasUser
  ModalEventsInOrder
  PanelWillRest
  WidgetsAgree
  SelectionAgrees
  DateAsPicked
  GesturesRight
  SliderAgrees
  OneClickPerTap
  ContentInPlace
  FormsRight
PROPERTY ComesToRest
CHECK_DEADLOCK FALSE
