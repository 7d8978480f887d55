# A verification development for github.common

The repository is a collection of Java applications: a "study" application with
one package per subject, several Spring applications, an Excel resolving web
application, certificate and TLS tools.  Most of it hands requests to a library.
Logic of its own, and logic that is hard to get right, is in two places.  The
first are its **coordination primitives**: a leader election, a barrier and a
queue on ZooKeeper, and two locks on Redis.  The second are the **pages** its web
applications serve: Amaze UI, of which the repository keeps and serves the whole
source, with widgets that react to clicks, fingers, timers, frames and transition
ends in any order, and the enrolment page of the CFCA sample.  These two are what
this development models.

- [Inventory](#inventory) — the parts of the system and what makes each correct
- [The modules](#the-modules) — which module models what, variable by variable
- [The runs](#the-runs) — what TLC checks, with which bounds, and what it shows
- [Fairness](#fairness)
- [The proofs](#the-proofs) — what holds for every value of the constants
- [Disagreements](#disagreements) — where the code does not do what it says
- [What is not modelled](#what-is-not-modelled)
- [Plan](#plan)

To check one configuration: `tlc -config X.cfg M.tla`, with
the module `M` that `PROJECT.json` names for it; to check the proofs:
`tlapm XProofs.tla`.  Paths below are relative to the repository (`src/`).
`zookeeper/` stands for `study/src/main/java/com/zy/zookeeper/`, `study:` for
`study/src/main/java/com/zy/`, and `redis/` for
`springmvc4_hibernate_anno/src/main/java/com/zy/lock/redis/distributed/`;
`amazeui.js:` is under
`springmvc4_hibernate_anno/src/main/webapp/WEB-INF/static/assets/js/`, `api.js:` under
`cfcaTest/WebContent/script/`.

## Inventory

### A. Leader election — `zookeeper/government/leader/`

- **State.** `LeaderElectionSupport` keeps `state` (START, OFFER, DETERMINE,
  ELECTED, READY, FAILED, STOP) and `leaderOffer` (path, id, host name).
  ZooKeeper keeps the ephemeral sequential znodes, the watches, the sessions.
- **Operations.** `start()` (make an offer, determine the status), `stop()`
  (delete the offer), both synchronized; `process()`, the watcher's callback, not
  synchronized.
- **Interaction.** Two threads per process (the user's and ZooKeeper's event
  thread) share the two fields; the processes interact through znodes, watches
  and `NodeDeleted` notifications.
- **Hard.** The decision "I am first" is taken from children that were read one
  `getChildren()` and many `getData()` calls earlier; calls may be carried out
  although they throw; sessions expire and take offers away; notifications of an
  earlier round arrive in a later one; `process()` races with `stop()`.
- **Correct means.** At most one leader; the leader has the lowest offer; a leader
  is not demoted by a notification; a process that rests in READY is woken when
  its turn comes; when all before it are gone, a process is told; stop is final.

### B. Redis lock on one key — `redis/RedisLockHandler.java`

- **State.** One Redis key with a lifetime; per client, the place in the call.
- **Operations.** `lock(key)`, `tryLock(key)`, `tryLock(key, timeout, unit)`,
  `unLock(key)`; `RedisLockMain` increments a plain static field under the lock.
- **Hard.** setnx and expire are two calls; the lifetime ends while the owner
  works; a client dies between the two calls; Redis throws, before or after it has
  carried the command out; `lock()` swallows exceptions; `unLock()` deletes the
  key of whoever has it.
- **Correct means.** Mutual exclusion (no lost update), no key stays for ever,
  FALSE leaves nothing behind; as an abstract specification: a *lease*.

### C. Redis lock on several keys — `redis/RedisLockHandler.java`

- **State.** The keys; per call the lists `needLocking` and `locked`, and the
  answers of the pipeline.
- **Operations.** `tryLock(keyList)`, `tryLock(keyList, timeout, unit)`,
  `unLock(keyList)`.
- **Hard.** Redis interleaves the commands of two pipelines; a round may get a
  part of the keys; the part must be released; the answers are matched with the
  list by index while the list shrinks.
- **Correct means.** True means all keys, false means none, no key without a
  lifetime is left, nobody deletes the key of another.

### D. ZooKeeper barrier — `zookeeper/government/Barrier.java`, `zookeeper/Barrier/`

- **State.** The children of the root, one per process; the process's place in
  `enter()` or `leave()`; a monitor (`mutex`) between thread and watcher.
- **Operations.** `enter()`, `leave()`, `process()` (notify).
- **Hard.** Notifications between reading the children and waiting; processes
  that leave before slow ones have counted; death, and late expiry of the session;
  the session of a living process that expires (its timeout is 3000 ms).
- **Correct means.** Nobody inside before `Size` have come; of those that keep their
  session nobody gone before the others have left; no lost wake-up, everybody gets
  in and out.

### E. ZooKeeper queue — `zookeeper/government/Queue.java`

- **State.** The children of the root (elements named by a sequence number), a
  monitor per process.
- **Operations.** `produce()`, `consume()`, `process()`.
- **Hard.** Two consumers choose the same element; the delete call uses a number
  computed two calls earlier; elements arrive between reading and waiting; names
  with ten digits against numbers without; an unrelated child under the root.
- **Correct means.** No element twice, none lost, in order, no lost wake-up, every
  element is consumed.

### F. The widgets of a page — `amazeui.js`

All of them live in one page, on one thread: a handler runs to its end, and what is
hard is the order of handlers.  The state is in objects attached to elements, in
the elements' classes, and in timers and bound handlers.

| Widget | State | What is hard | Correct means |
|---|---|---|---|
| modal, dimmer | per modal `active`, `transitioning`, a timer; the dimmer's users, the page's scroll lock | a call meets a running transition and ends it by force; the timer that stands in for `transitionend` is late; several modals share one layer | a locked page has an active modal; listeners see open, opened, close, closed in order |
| accordion (collapse) | per panel its class and a `Collapse` object; the handlers of an element belong to the object that bound them | a panel that opens takes the objects of the others away while they move | a panel that moves will come to rest |
| dropdown | `active`, animations, handlers that stay bound | the handler of an earlier `open()` runs in every `close()` | object and page agree |
| selector | the items checked, the options selected, the search | the search runs 100 ms after the last key; scripts set options behind its back | what the list shows is what the form sends |
| buttons | marks of a group's buttons, their boxes, the timers of `setState()` | states are set in one order and resumed in another | a mark is a checked box; disabled while loading |
| navbar | items in the bar and in the list of actions, a debounced resize | items go back and forth between the two | none is lost, doubled or out of order |
| tabs | the marked name, the panel shown, a switch under way, a debounced swipe | a swipe is handled after a click has moved on | name and panel agree |
| off-canvas bars | shown bars, the shared scroll position, the body's handlers | the body sees the end of every transition | the page is given back |
| popover | active, place, a debounced resize | resizes between opening and placing | it can be read and leaves its element free |
| NProgress | status, the drawn bar, loops of timers | `start()` while the last bar fades | bar and status belong together |
| Hammer | recognizers, each a state machine; sessions of pointers | recognizers block, fail and reset each other; fingers join and leave; mouse events imitate touches | gestures that exclude each other are not told together; distance does not jump |
| FastClick | the tracked touch, its target, clicks on their way | the browser's click comes 300 ms later, perhaps in the next touch, and perhaps although the touch was prevented from it | one click per tap, not two |
| FlexSlider | current slide, row, slideshow timers | slides come and go while the row is on its way to a copy | the slider shows its current slide |
| iScroll | position, bounds, transition, drag | two kinds of pointers, momentum, resizes | content rests within its bounds |
| PinchZoom | zoom factor, offset, loops of frames | a gesture begins while the last one is tidied up | a picture at rest fills its window |
| PureView | open or closing, slides, an observer | opened while it closes; images change | viewer and page agree |
| ScrollSpy, ScrollSpyNav, Sticky, SmoothScroll | what each thinks of the scroll position, delays | each handles a scroll some time later | once all is handled, the page looks as its position wants |
| Validator | verdict per field, debounced keys, promises | edits while a promise is pending; submission by old verdicts | a form let through is right, but for known delays |
| Datepicker | date, month in view, pane, input | date arithmetic by number and class of a cell | the day clicked is the date; no month is left out |
| Add to Homescreen | a session in `localStorage`, the message's timers | a visit ends between two writes | the visitor is asked as agreed |

### G. The certificate page — `api.js`, `cfcaTest/WebContent/`

- **State.** The form (provider, container, request), one global `XMLHttpRequest`,
  the crypto agent's containers with their keys and certificates.
- **Operations.** Load the providers, make a request, post it, install the answer.
- **Hard.** The answer comes later, by a global object, into a form that has gone on.
- **Correct means.** A certificate is installed in the container of its key.

### Parts not modelled

| Part | Source | State and what is hard |
|---|---|---|
| H. Wait and notify demo | `zookeeper/Barrier/Main.java` | three threads waiting on monitors |
| I. Configuration watchers | `zookeeper/watcher/`, `test1/`, `test2/` | one-shot watches set again while the data changes; a server list kept up to date |
| J. Semaphore mutex, monitors | `study:sync/`, `springmvc4_hibernate_anno/.../lock/MyLock.java` | permits, re-entry, exceptions between acquire and release |
| K. Id generators | `study:utils/IdWorker.java`, `SeqUtils.java` | 64-bit fields, sequence overflow in a millisecond, a clock that goes backwards |
| L. NIO download | `study:nio/filedownload`, `nio/socket` | selector loop, partial reads and writes, buffers |
| M. File splitting, multi-thread download | `study:nio/split`, `nio/multithreaddownload` | ranges that partition a file, remainders |
| N. JMS | `study:jms/activemq` | transacted sessions, request and reply by correlation id |
| O. Excel resolution | `resolveexcel/` | workflow of upload, resolve, list, delete on shared directories |
| P. Key store switching | `resolveexcel/.../ssl` | files swapped while Tomcat uses them |
| Q. Timeouts, futures, observers | `study:multithread`, `concurrent`, `observer`, `execmd` | results that come after the timeout, check-then-act on queues |
| R. Other widgets of Amaze UI | `amazeui.js` | uCheck, alert, share, geolocation, map: setters of a class or calls of a browser API |
| S. Certificates, TLS, Axis2, CRUD, utilities | see `PROJECT.json` | calls of libraries, pure I/O |

## The modules

| Module | Models | Extends |
|---|---|---|
| `LeaderElection` | A: library, two threads per process, ZooKeeper | |
| `LeaseLock` | abstract: a lock with a lease | |
| `RedisLock` | B, with the counter of `RedisLockMain`; implements `LeaseLock` | |
| `RedisBatchLock` | C, command by command | |
| `SyncPrimitive` | the root znode, its watches and the watcher D and E share | |
| `DoubleBarrier`, `FifoQueue` | abstract: a double barrier, a queue with atomic put and take | |
| `ZkBarrier` | D with the processes of `Test` and `BarrierTest`; implements `DoubleBarrier` | `SyncPrimitive` |
| `ZkQueue` | E with the producers and consumers of `Test.queueTest`; implements `FifoQueue` | `SyncPrimitive` |
| `AmDimmer`, `AmModal` | the dimmer and the modals that share it | `AmModal`: `AmDimmer` |
| `AmCollapse` | accordion panels and the Collapse objects behind them | |
| `AmDropdown`, `AmTabs`, `AmOffCanvas`, `AmPopover`, `AmProgress`, `AmButton`, `AmNavbar` | the widget of that name | |
| `AmSelected` | the selector that stands in for a `<select>` | `AmDropdown` |
| `AmHammerInput` | Hammer's input side: devices, pointers, sessions, distance | |
| `AmHammer` | Hammer's recognizers and their manager | |
| `AmFastClick`, `AmSlider`, `AmScroll`, `AmPinchZoom`, `AmPureView` | FastClick, FlexSlider, iScroll, PinchZoom, PureView | |
| `AmSpy` | ScrollSpy, ScrollSpyNav, Sticky and SmoothScroll on one window | |
| `AmValidator`, `AmDatepicker`, `AmAddToHome` | the widget of that name | |
| `CfcaEnroll` | G, with the crypto agent | |
| `AmazePage` | composes the widgets and G: a page with one of them | all of the above from `AmModal` on |
| `MC...` | model values, symmetry and definitions for TLC, where a module needs them | the module |
| `...Proofs` | theorems of the module of that name | the module, `TLAPS` |
| `AmWidgetProofs` | theorems of the widgets that are clicked, typed into or scrolled past, and of `CfcaEnroll` | `AmModal`, `AmCollapse`, `AmSelected`, `AmButton`, `AmNavbar`, `AmTabs`, `AmOffCanvas`, `AmPopover`, `AmProgress`, `AmSpy`, `AmValidator`, `AmDatepicker`, `AmAddToHome`, `CfcaEnroll`, `TLAPS` |
| `AmTouchProofs` | theorems of the widgets made for fingers | `AmHammer`, `AmHammerInput`, `AmFastClick`, `AmSlider`, `AmScroll`, `AmPinchZoom`, `AmPureView`, `TLAPS` |
| `AmazePageProofs` | theorems of the page | `AmazePage` and the two above |

Every definition that stands for code is listed in `PROJECT.json` ("map") with its
lines.  Definitions marked *Mutant* are plausible bugs of the code, used to see
that the properties can fail.

### LeaderElection

| Variable | Code |
|---|---|
| `nodes`, `nextId`, `alive`, `watch`, `events` | ZooKeeper: offers per session, sequence counter, sessions, watches, undelivered `NodeDeleted` |
| `state`, `offer` | the fields `state` and `leaderOffer` (`NoOffer` is null) |
| `pc`, `snap`, `todo`, `neighbour` | per thread: next call, `childPaths`, the rest of the loop in `toLeaderOffers`, the neighbour |
| `starts`, `stops`, `faults`, `expiries` | bounds |
| `overlapped` | history: the processes of which both threads have been inside the library at once |

A step of a thread ends at a call to ZooKeeper.  `Start`, `CreateOffer`,
`Determine`, `GetData`, `Decide`, `Exists`, `BecomeReady` are the pieces of
`start()` → `makeOffer()` → `determineElectionStatus()` → `toLeaderOffers()` →
`becomeReady()`; `Process` is `process()` up to the determination it starts;
`Stop` and `DeleteOffer` are `stop()`.  `BecomeReady` is a step of its own because
the assignment of READY comes after the answer of `exists()`, which is where a
notification may get in between.  A call may throw without being carried out
(`CallFails`), be carried out and throw (`LoseConnection` in `CreateOffer` and
`DeleteOffer`), or find the session gone.  A removed znode notifies each watching
session once and uses up the watch (`Remove`).

`process()` is not synchronized, so a notification may be handled while `start()` or
`stop()` runs, or the other way round, and every run contains that.  It is a race which the
library loses in several ways (see [Disagreements](#disagreements)): `overlapped` remembers
the processes it has happened to, and `Orderly` are the others.  `ExclusiveLeader`,
`LeaderIsLowest`, `NoLostWakeup`, `LowestIsToldOrFails` and `LeaderKeepsOffice` are promises to
and about orderly processes, *beside* any number of others; `StopRevokes` is about all.
Two threads of a process interleave at their calls to ZooKeeper; what they could do to
its two fields between these is not modelled, as nothing but `StopRevokes` is claimed
of such a process, and the path of its offer is written by one thread only.

### RedisLock and LeaseLock

| Variable | Code |
|---|---|
| `owner`, `ttl` | the Redis key: the client whose setnx made it, and its lifetime (`NoExpiry` until expire) |
| `call`, `pc` | which of the three methods the client is in, and where |
| `seen`, `count` | the two halves of `count = count + 1` in `Locker.call` |
| `increments`, `rounds`, `faults`, `crashes` | history and bounds |

`TrySetnx` is one turn of the loops at lines 68-90 and 112-124, `SetExpiry` the
second call.  The key's value says nothing about its owner; `owner` is what the
server would know.  `Tick` is Redis' clock.  `Overrun` says whether the lifetime
may end while the owner still works; `Throwing` are the methods in which Redis may
throw.

`LeaseLock` has a holder and a set of clients that work: work starts only as
holder, only the holder stops and gives back, the lease ends only for a client that
does not work any more.  `RedisLock` maps `holder` to `owner` and `working` to the
clients between a successful call and `unLock()`.

### RedisBatchLock

Each pipelined setnx is one step, so Redis interleaves them (`PipelinedSetnx`);
`Answer` handles one answer of `syncAndReturnAll`, with the index arithmetic of
lines 184-190 kept as it is; `EndOfRound` is `removeAll`, the test for "all
locked" and the deadline; `ReleasePart` and `Throw` are the two ways out.  A client
in `Waits` gives a timeout and may do up to `MaxAttempts` rounds.

### SyncPrimitive, ZkBarrier and DoubleBarrier, ZkQueue and FifoQueue

`children`, `watch` and `events` are the root's children, the sessions that watch
them, and undelivered notifications.  The thread holds the monitor from
`getChildren()` to `wait()`, and `process()` needs it to notify: so reading and
starting to wait are one step (`Enter`, `Leave`, `Check`), and `Process` is a step
that turns a waiting thread into one that reads again.

In `ZkBarrier`, `Create`, `Enter`, `EndWork`, `Delete`, `Leave` follow
`enter()`, the sleep of `Test`, and `leave()`; `Crash` and `Expire` are a death and
the later end of its session, which removes the ephemeral znode.  `GoesOn`
distinguishes `Test`, which calls `leave()` although `enter()` threw, from
`BarrierTest`.  `failed` is history: the processes of which `enter()` has thrown.
`LoseSession` is the end of the session of a process that lives: its znode and its
watch go, its watcher is told once, and each of its later calls throws (`Fails`).

`DoubleBarrier` has a place for each process (away, before, inside, behind, out, or
failed) and the set of those that have come.  A process is let in when `Size` have come
and let out when nobody is before or inside; it may fail at any time.
`ZkBarrier` maps `place` to `Place`, which is failed from the exception, the death or the
end of the session on, and `come` to `joined`.

In `ZkQueue`, an element is its sequence number; only sessions of dead processes end.  `consume()` asks for `"element"`
plus the number, which is the name of a child only from 10^9 on (`Unpadded`), as
ZooKeeper pads to ten digits: `Named`.  `First` is the counter at which the queue
starts.  `got` is history: the values a consumer has returned.  `MakeBarrierRoot`
is the child `/app1/barrier` which the barrier of the same `Test` makes under the
queue's root.

`FifoQueue` has a sequence of elements, put at its end and taken from its front, for
the client or, when it fails, for nobody.  `ZkQueue` maps `queue` to the children in
the order of their numbers (`InLine`), `put` to the counter and `returned` to `got`: the
create is the put, and the delete is the take.

### AmDimmer, AmModal, AmCollapse

`modal[m]` has the fields `active` and `transitioning`, what waits for the end of the
transition (`waiting`), whether the browser animates (`moving`), the timers of
`emulateTransitionEnd` in the order they fire, and the events of the last step (`log`).
A timer is `latest` while `transitionEndTimmer` refers to it: a timer that fires forgets
whichever is latest.  `UserOpens` and `UserCloses` are the calls, `DimmerClicked` closes
all modals; `TransitionEnds` and `TimerFires` are the two ways a transition ends (the
timer triggers the event unless it has come); `Completed` is what was bound to it.  A
call that meets a transition completes it first (`Settled`), in the same step.
`dimmer` has the users in `$used`, what is displayed, and the padding of the page.
Where the browser has no transitions, `open()` of the dimmer reads `transition.end` of
`false` (`amazeui.js:3716`) and breaks off with a TypeError, and `open()` of the modal with
it: the page is locked, the modal is active and no layer or event follows.

In `AmCollapse`, `panel[p]` is the element: its class, whether it has a Collapse
object (`data`), whether that one is `transitioning`, its handlers and timers.  A
handler is `mine` if it belongs to the object the element has now.  `ClickPanel` is the
accordion's handler with everything it does to the other panels (`OpenPanel`).

### The other widgets

Each module has one record or a few variables with the names of the code's fields,
an action for each call, event, timer and frame, and a bound on what the user and
the page's script do (`Max...`).  Some points that the code's text does not show:

- **Timers and frames** have no clock: one that is set may fire whenever the page is
  idle, before or after another one, unless the code itself clears it, as a debounce
  does with the timer it replaces.
- **Positions** are as coarse as the comparisons: half windows in `AmSpy`, lines in
  `AmScroll`, the four classes of factors in `AmPinchZoom`, whole pixels in
  `AmPopover`, real calendar days in `AmDatepicker`.
- **Strayed, hurried, drifted, crossed, behind...** are history variables: they say that
  something happened after which the code is known not to keep the promise (see
  [Disagreements](#disagreements)), so that the promise is checked for everything else.
- **External** definitions in the map stand for browsers, the crypto agent, Redis
  and ZooKeeper.

### AmazePage

`page` is the widget the page holds.  Every action of a module is one turn of the
event loop.  Widgets of different kinds share no fields of their objects, so a page
with several runs an interleaving of their behaviours, and a property of one sees only
its own steps: so the page holds one widget, chosen at the start, and the others keep
their first states (`Still`).  What this leaves out: the dimmer, the image viewer and
the off-canvas bars all set the body's padding or lock its scrolling, and two of
them that are open at a time may give the page back to each other's values.
Where a module begins with one of several states, a widget the page does not hold
has a fixed one of them.  The properties of the page are conjunctions of those of
the modules: `SelectionAgrees` and `DateAsPicked` of one, `WidgetsAgree`, `GesturesRight`, `ContentInPlace`, `FormsRight`; `Busy`
says for each widget what "on its way" means.

## The runs

| Run | Instance | Checks |
|---|---|---|
| `LeaderSequential` | 3 configured processes and 1 that is not, 1 lost connection; up to 2 starts and 1 stop for two of the processes, or 1 expiry | `ExclusiveLeader`, `LeaderIsLowest`, `NoLostWakeup`, `LeaderKeepsOffice` of processes without overlap, `StopRevokes` of all |
| `LeaderSuccession` | 3 processes, 1 expiry, fair | `LowestIsToldOrFails`, without overlap |
| `LeaderStopRace` | 2 processes | `StopIsFinal` is violated |
| `RedisLockSafe` | 3 clients, all three methods, 1 exception in tryLock, 1 death | `TypeOK`, `NoLostUpdate`, `NoImmortalKey`, `FalseMeansFree`, `LeaseSpec` |
| `RedisLockFault` | exception in `lock()` | `WorkerOwnsKey` is violated |
| `BatchSafe` | 2 clients, the same 2 keys in opposite orders, one with 3 rounds, 1 exception | `TypeOK`, `TrueMeansAll`, `FalseMeansNone`, `HeldKeysAreMortal`, `OnlyOwnKeysGo` |
| `BatchMisread` | 2 clients with timeouts, 3 keys | `TrueMeansAll` is violated |
| `BarrierSafe` | 3 processes, size 3, 1 exception, 1 death, 1 session of a living process that expires | `BarrierSpec`, `NoLostWakeup`, `LostComeOut`, `EveryoneEnters`, `EveryoneLeaves` |
| `BarrierEarlyLeaver` | no failures at all | `EveryoneJoins` is violated |
| `QueueSafe` | 1 producer of 3 elements, 2 consumers of up to 3, 1 exception, 1 death, a foreign child | `TypeOK`, `ConsumedOnce`, `NothingLost`, `NoLostWakeup`, `FifoSpec`, `EveryElementGoes` |
| `QueueYoung` | elements numbered below `Unpadded` | `EveryElementGoes` is violated |
| `AmazePage` | one of 21 widgets or the enrolment page, 2 to 5 actions of user and script each, with transitions (171,430 states) | `PageTypeOK`, `DimmerHasUser`, `ModalEventsInOrder`, `PanelWillRest`, `WidgetsAgree`, `SelectionAgrees`, `DateAsPicked`, `GesturesRight`, `SliderAgrees`, `OneClickPerTap`, `ContentInPlace`, `FormsRight`, `ComesToRest` |

### Why these bounds are enough

- **Leader election.** The algorithm looks at a process, its neighbour and the
  offers before the neighbour; three processes give a first, a middle and a last
  one, and with one expiry the line closes in every way.  One lost connection
  reaches every error path of every call.  Restarts need a second start, which
  leaves the first round's offers, watches and notifications behind.
  `FewDisturbances` keeps restarts and expiries apart and lets the process that is not
  configured, which makes no offer, try alone.  Symmetry is used where only
  invariants and action properties are checked.  The safety properties are proved
  for every number of everything.
- **Redis lock.** Mutual exclusion is about two clients; the third is the one that
  steals in between.  The lifetime of two ticks tells "just made" from "about to
  end".  What holds for every number of clients is proved.
- **Batch lock.** Two clients with crossed lists show every order in which two
  pipelines can meet; the misread of the answers needs a list that is longer than
  two, hence `BatchMisread`.  All properties are proved for every number of clients:
  for any lists without a timeout, for lists of at most two keys with one.
- **Barrier, queue.** Three processes: one that is early, one that is late, one
  that fails or loses its session.  The safety properties are proved for every number.

- **Page.** What goes wrong between handlers takes two of them and something that is
  still pending: two modals, dropdowns or bars, three panels or tabs (one that opens,
  one that closes, one that rests), three slides with a copy at either end, two visits,
  three taps (one whose late click meets the next two).  The selector has three options,
  two of them with the same value; the navbar five items, and windows that have room for
  one, for fewer, for just as many and for more.
  The number of actions is chosen so that the shortest violation by a plausible bug
  (the mutants) fits in, and is larger where the run's time allows it.  All invariants of
  the page are proved for every number of elements and of actions, every size and date
  and every option; the run is left with liveness, and with showing that the cases the
  invariants are about happen.

`CHECK_DEADLOCK FALSE` is set in every configuration: all of these programs end.

## Fairness

Liveness is checked with weak fairness of each thread (`Run`, `AppThread`,
`EventThread`: threads are scheduled and ZooKeeper answers), of `Process`
(ZooKeeper delivers notifications) and of `Expire` of a dead process (ZooKeeper
expires its session).  No fairness is assumed for what the user or the environment
decides: `start()`, `stop()`, failures, deaths, and the end of the work between
`enter()` and `leave()` (`EndWork`).

On the page, timers that are set fire and frames that are asked for come, as
browsers promise (`TimerFires`, `TrickleFires`, `PopoverSized`, `ResizeFires`,
`KeyupFires`, `SearchFires`, `ResumeState`, `CheckNavBarItems`...).  The end of a
transition is reported for sure only where the code relies on it without a timer of its own: animations of dropdowns and of a sticky element,
transitions of tabs, of the scroller and of the message of Add to Homescreen, whose
icon loads or fails to.  For modals, panels, bars and slides the browser may never report it: the
timer does.  Nothing is assumed of the user, the script, answers of servers or the
resolution of promises.  `ComesToRest` (`Busy ~> ~Busy`) says that no widget stays
half way; for the spies it is the handling of what was scrolled, not the end of
scrolling.

`EveryoneEnters` and `EveryoneLeaves` hold under the condition `[]Smooth`: no
failures, and nobody deletes its znode while another is still on its way in;
`EveryoneLeaves` also supposes that all work ends.  `LostComeOut` asks for nothing but
the threads and notifications.  Without the condition the code does not guarantee it (`EveryoneJoins`).
`EveryElementGoes` allows that all consumers have finished their turns or died.
`LowestIsToldOrFails` allows that a call of the process failed.

## The proofs

Checked with TLAPS, for every value of the constants that meets the named
assumptions (`LeaderElectionAssumption`, `RedisLockAssumption`,
`RedisBatchLockAssumption`, `ZkBarrierAssumption`, `ZkQueueAssumption`, `DimmerAssumption`,
and one for each widget, such as `ModalAssumption`: finite or arbitrary sets of processes,
natural numbers as bounds).  Those that say more: `PopoverAssumption` (sizes are numbers),
`DatepickerAssumption` (today is in the calendar, years typed or clicked are 100 or more: the
years below, which `Date` counts from 1900, are not modelled), `ViewAssumption` (there is an image),
`EnrollAssumption` (the providers are finite in number), `SelectedAssumption` (there is an option),
`NavbarAssumption` (a window has room for one item, and there is a widest window).

| Module | Theorem | States |
|---|---|---|
| `LeaderElectionProofs` | `TypeCorrect` | `Spec => []TypeOK` |
| | `LeaderHasLowest`, `LeaderIsExclusive`, `WakeupsArrive` | `LeaderIsLowest`, `ExclusiveLeader`, `NoLostWakeup` always hold (of processes without overlap, beside any others) |
| | `LeaderStays` | `Spec => LeaderKeepsOffice` (likewise) |
| | `StopRevokesOffer` | `StopRevokes` always holds, of every process |
| `RedisLockProofs` | `TypeCorrect` | `Spec => []TypeOK`, without any trust |
| | `KeyOfTheWorker` | trusted: `WorkerOwnsKey` and `MutualExclusion` always hold |
| | `CounterIsExact` | trusted: `NoLostUpdate` always holds |
| | `ImplementsLease` | trusted: `Spec => LeaseSpec` |
| | `KeysDoNotStay`, `RefusedIsFree` | `NoImmortalKey`, `FalseMeansFree` always hold, without any trust |
| `RedisBatchLockProofs` | `NothingIsLeft`, `KeysAreMortal` | `FalseMeansNone`, `HeldKeysAreMortal` always hold |
| | `TypeCorrect` | `TypeOK` always holds |
| | `TrueOwnsAll`, `OwnKeysAlone` | if lists locked with a timeout have at most two keys (`ShortLists`): `TrueMeansAll` always holds, `Spec => OnlyOwnKeysGo` |
| `ZkBarrierProofs` | `TypeCorrect`, `WakeupsArrive`, `NobodyEntersEarly` | `TypeOK`, `NoLostWakeup`, `NoneInsideEarly` always hold |
| | `ImplementsBarrier` | `Spec => BarrierSpec` |
| `ZkQueueProofs` | `TypeCorrect`, `WakeupsArrive`, `NobodyShares`, `NoElementLost` | `TypeOK`, `NoLostWakeup`, `ConsumedOnce`, `NothingLost` always hold |
| | `FirstInFirstOut`, `ImplementsFifo` | `Spec => FirstOut`, `Spec => FifoSpec` |
| `AmWidgetProofs` | `ModalInvariant` | `ModalInv`, types included, always holds of modals and dimmer |
| | `DimmerIsUsed`, `EventsInOrder` | `DimmerHasUser`, `ModalEventsInOrder` always hold |
| | `PanelsWillRest` | `PanelWillRest` always holds of an accordion |
| | `SelectorAlwaysAgrees`, `DateIsAsPicked` | `SelectionAgrees`, `DateAsPicked` always hold |
| | `DropdownsAgree`, `ButtonsAlwaysAgree`, `TabsAlwaysAgree`, `PageIsGivenBack`, `BarAlwaysFollows`, `VisitorAskedAsAgreed` | parts of `WidgetsAgree`: `DropsAgree`, `ButtonsAgree`, `TabsAgree`, `PageGivenBack`, `BarFollowsStatus`, `AsksAsAgreed` |
| | `PopoverIsReadable`, `NavbarKeepsItems`, `PageFollowsTheWindow` | parts of `ContentInPlace`: `PopoverReadable`, `NavbarFits`, `PageFollows` |
| | `SubmittedFormIsRight`, `CertificateInContainer` | the parts of `FormsRight`: `SubmittedRight`, `CertificateFits` |
| `AmTouchProofs` | `GesturesStayApart`, `ManagerSeesThePointers` | the parts of `GesturesRight`: `GesturesExclusive`, `InputsAgree` |
| | `TapIsOneClick`, `SliderAlwaysAgrees` | `OneClickPerTap`, `SliderAgrees` always hold |
| | `ContentStaysInside`, `PictureEndsTidy` | parts of `ContentInPlace`: `ContentInside`, `PictureTidy` |
| | `ViewerAgrees` | part of `WidgetsAgree`: `ViewAgrees` |
| `AmazePageProofs` | `PageInvariant` | every widget's inductive invariant holds on every page |
| | `PageTypes`, `WidgetsAlwaysAgree`, `ChoicesAreKept`, `GesturesAlwaysRight`, `ContentAlwaysInPlace`, `FormsAlwaysRight` | `PageTypeOK`, `WidgetsAgree`, `SelectionAgrees` with `DateAsPicked`, `GesturesRight`, `ContentInPlace`, `FormsRight` |
| | `ModalsAndPanelsOnPage`, `SliderOnPage`, `OneClickOnPage` | the other invariants of the run, on every page |

**LeaderElection.** The decision to take office rests on an old list of children.
`SnapClosed` says why it is right all the same: sequence numbers only grow, so a list
that contains an offer contains every offer before it that is still there.  With
`Numbering` (numbers are given once), `OneOwner` (no znode belongs to two sessions),
`IdIsPath` and `Creating` it makes `OrderInv`, which is inductive and implies
`LeaderIsLowest`.  Every action but `Start`, `CreateOffer`, `Determine` and `Decide`
satisfies `Quietly` and preserves it for one and the same reason.  For
`ExclusiveLeader` a leader whose session lives must still hold its offer:
`ProcInv` says of each process that one thread is inside the library, that lists
are used only while data is read, and that what a thread has read as its own offer
is still there.  Two leaders then hold the lowest offer, and `OneOwner` makes them
one.  All this is said of the processes in `Orderly`: what `ProcInv` says of one process
does not depend on the threads of another, only on its offers, and offers are numbered
right (`Numbering`, `OneOwner`, `Creating`) whatever the threads do; a process that
overlaps leaves `Orderly` for good and takes nothing with it.
`StopRevokesOffer` is about every process.  Only the user's thread writes the path of
its offer and STOP; `Revoking` says that in STOP its offer is gone, or that thread is at
the `delete()` which ends in FAILED when it throws (`StopInside`, `Revoked`).  For
`WakeupsArrive`, `Behind` says that nothing stands between the neighbour and the own
offer, which stays true because later offers have higher numbers; `WakeInv` follows the
neighbour from `Decide` (`Waking`) to the process that rests in READY (`Resting`): it is
watched, or its end has been notified.  For `LeaderStays`, `OfficeInv` says that in its
first round a process awaits one offer at a time, and none while it determines its
place and when it is elected; a later round may find a notification of the round before,
which is why the property is about the first.

**RedisLock.** "Trusted" is `~Overrun /\ "lock" \notin Throwing`: work ends within
the lifetime of the key, and `lock()` does not throw.  Without the first the lock
is a lease by design, without the second it is wrong (`RedisLockFault`): the two
conditions are exactly what a user has to guarantee, and any number of deaths and
of exceptions in `tryLock()` are allowed.  `WorkerOwnsKey` is not inductive: a
client becomes a worker one call after its setnx.  `ExpirerOwnsKey` closes the gap:
a client between the two calls owns a key that does not run out.  `SeenIsFresh`
(what a client has read is still the count) gives the counter.  The refinement maps
each action to `Acquire`, `Work`, `Release`, `LeaseEnds` or a stutter.
`NoImmortalKey` and `FalseMeansFree` need no trust but end with the first exception or
death: until then a key that does not run out was made by a client that is about to set
its lifetime, and every key by one that has not returned (`OwnerIsBusy`).

**RedisBatchLock.** The answers of the pipeline mean something only together with the
list they are matched with by index.  `CallInv` says which answer is about which key for a
call without a timeout, which makes one round; `LeftInv`, that the keys it made are
among those answered with 1, then among those locked; `HeldInv`, that all of these are
still its own.  A call with a timeout misreads its second round and may delete keys of
others (`BatchMisread`).  That takes a key away, but never makes one: so what a call
without a timeout leaves behind (`LeftInv`) holds whatever other calls do.

With timeouts, `needLocking` is what is left of it after `removeAll()`, with the whole list
behind.  `ListInv` says that there is a key for every answer, for any list; it
rests on what `removeAll()` leaves (`WithoutIs`, `WithoutNone`), shown by induction over the
list, which `Induction` derives from the library's theorem of least elements.  `HeldInv` says
that the keys answered with 1, locked or held are the client's own.  It needs that answers
and keys are `Aligned`: either index by index, or one of at most two keys is the client's own
already, so the setnx that succeeds can only be for the other, and there is no third
(`TwoKeys`).  That is where `ShortLists` is needed; `BatchMisread` shows three keys.

**ZkBarrier.** A process counts znodes; the promise is about processes that have
come.  `BarrierInv` relates them: every znode belongs to a process that has come
(`ZnodesJoined`), a process about to create has not come (`CreateIsFirst`), whoever is
in and has not failed has its znode (`InsideHasZnode`), and whoever has passed was
let in by `Size` processes (`PassedAfterSize`).  `InsideHasZnode` is about processes that
have kept their session: the znode of any other is gone, and `Place` counts it as failed.
For the refinement (`AbstractStep`), each action moves the place of one process
(`OneMoves`) or none: `PassStep` gives the guard of `LetIn`, and `InsideHasZnode` that of
`LetOut`, since who finds no znodes finds nobody before or inside.

`NoneInsideEarly` and, below, `FirstOut` are what the abstract specifications say in
particular: the runs check them as part of `BarrierSpec` and `FifoSpec`.

**ZkQueue.** `Numbered` (elements are numbered in the order they are made, and what
was returned is not in the queue) and `MinIsFirst` (the element a consumer has
chosen stands before all that are there, even if it is gone by now) are inductive,
and imply `ConsumedOnce` and `FirstOut`.  `TurnsLeft` gives the type of the turns.
For the refinement, `Gapless` says that the children are all the numbers from the first
to the last, since only the first ever goes: then `InLine` counts them
(`LineIs`), a create appends to it (`LineGrows`) and a delete leaves its tail
(`LineShrinks`).

**Wake-ups.** In both modules `NoLostWakeup` is inductive with the types: a step
that changes the children adds a notification for every session that watches
(`NotifiedWakes`), and a thread starts to wait in the step that sets its watch.

**The page.** The proof has the shape of the model.  For each widget `X` there is an
inductive invariant `XInv`, with the lemmas `XBegins` (the first state has it), one for
each action (`...Inv`: the action keeps it), `XStep`, and `XHolds` (it implies what the run
checks).  On the page, `StepOfEach` says that a step is to every widget a step of its own
or none, so `PageInv`, the conjunction of all, is inductive by the lemmas `XStep`, and
every invariant of the run follows.  What follows the scroll position is the one widget
whose first state depends on the page (`SpyStarts`): on other pages only its types are kept.
TLC has checked `PageInv` on the instance of the run.  What each `XInv` adds to the
property, and why:

**AmModal, AmCollapse.** `ModalInv` is the types, `DimmerHasUser`, and `Consistent` for
each modal: what it waits for, the last event it told and the field `active` say the same
about its place in the cycle.  `Consistent` is what `ModalEventsInOrder` lacks to be
inductive, and what makes a modal leave the dimmer's users whenever it becomes inactive.
`PanelWillRest` is inductive with the types as it stands: whatever takes an object away
leaves the handler, and whatever ends a transition tells all handlers and all timers.

**AmSelected, AmButton, AmNavbar.** `SelectionAgrees` needs that two items with one value
are selected alike and that the options a single selection can have are items
(`SelectedInv`); a closed selector lists every item because closing clears the search and
the timer of a key looks for the text the field then has.  For the buttons, `ButtonInv`
says what the timers that are pending will set: the last of them decides.  For the navbar,
`inBar \o actions = AllItems` is inductive since `First` and `After` cut a sequence in two
(`Cut`); that the bar is full is the arithmetic of `Fit` (`FitFull`).

**AmDropdown, AmTabs, AmOffCanvas, AmProgress.** `DropOK` adds that what is animated is
displayed; `TabsAgree` and the content of `BarFollowsStatus` are inductive but for the
loops of a status whose bar is still there (`Trickles`).  For the bars, `Fixing` says who
has fixed the page and where the user was when it did, `Closing` that a bar that closes
stays displayed until all that close are given up together.

**AmPopover.** `WellPlaced`: unless a debounce is pending, the place is the one
`sizePopover()` gives for the layout.  `SizedReadable` is then arithmetic about that
function, for all sizes.  The proof found that an earlier form of the property was false
beside an element that is scrolled out of the window to the left, which the instance did
not contain then; the property says so now, and the instance has such a place.

**AmSpy.** What is right is right *unless a frame or a timer is pending* that will look
again: `NavRight`, `ViewRight`, `StickyRight`, `SentRight`, one for each of the four.

**AmValidator.** `VerdictsKnown`: a verdict of valid is about a value that is right, or the
field lags, which is written in `behind`; `PromisesFresh`: unless the field with the custom
validation is behind, the promises that are pending are about the value it has.

**AmDatepicker.** Most of this proof is a calendar.  A month is counted by its number
(12 × year + month), `DayAt` is a day of it; the lemmas say where `RunOn`, the way
JavaScript carries a day beyond the end of its month, leads, that the day of the week goes
on from day to day and from each month to the next (`MonthGoesOn`, the leap years of four,
a hundred and four hundred years included), and that the 42 cells, which begin with the
last days of the month before, contain every day of the month once, below the name of its
day of the week.  Then `DateInv` is the property with `date` and `viewDate` in
the calendar, and the day of the month in view not above 28.

**AmAddToHome.** `AskedRight`: what is stored says how often the visitor was asked, at
least, and that it was of late if it was; nobody was asked too early or against what they
chose.  `SessionRight`: the session stored is that of the visit, unless the visitor has
cleared it, and only a visit that may ask is `ready`.  A write of the session brings one
to the other (`Updated`).

**CfcaEnroll.** `FormFits` and `PostFits` follow the key from the form to the request
under way to the certificate.

**AmHammer.** The recognizers have their turns in a loop within one step.  `Given` is what
every input satisfies, `By` what an input may make of one recognizer, and `TurnsTaken` what
the turns done so far leave: as long as none is current, all have done without telling; one
that became current tells, and decides which of the others have done.  The seven turns are
a recursive function; the proof gives that function explicitly, turn by turn.  Between
inputs, `CurrentOnly` says that what is active is the current recognizer, or may go on
beside it, and `TapsApart`, which makes tap and doubletap exclusive, that the timer of a
tap does not tell once the other tap has been told.

**AmHammerInput.** `PointersRight` (who is told is who is down, or the mouse) and
`WayRight` (the distance told is the one travelled from the centre the session goes by,
and the next input starts from there).

**AmFastClick.** `PendingOnce`, `Counted`, `TouchTracked` and `ClickAwaited` say of each
tap where its one click is: sent, pending in the browser, to be sent when the finger
lifts, or excused; and of each click the browser may still send beside FastClick's own
(`ghost`), that the flag or the element is there that will stop it, or that its tap is one
of the exceptions (`twice`).

**AmSlider.** `RowOK`: the row rests on the current slide, or it is on its way to the
next, over the end to a copy, and `ensure` or a finger will end that; `InRow`: the numbers are
those of slides, as long as none was removed badly.

**AmScroll, AmPinchZoom, AmPureView.** `ContentInside` is inductive with its types.
`PictureOK` says the same of the loops of frames that `PictureTidy` says of the picture:
what each of them will leave.  `AllKnown` and `EnoughSlides` relate the viewer's list of
images to the page's.

**Model-checked only.** Liveness (`LowestIsToldOrFails`, `EveryoneEnters`,
`EveryoneLeaves`, `LostComeOut`, `EveryElementGoes`, `ComesToRest`), since the prover does not reach
fairness.  Nothing is claimed of `TrueMeansAll` and `OnlyOwnKeysGo` for three or more keys
and a timeout: they are false there (`BatchMisread`).

## Disagreements

Five are runs that TLC violates, and findings in `PROJECT.json`: `StopIsFinal`
(`LeaderStopRace`), `WorkerOwnsKey` (`RedisLockFault`), `TrueMeansAll`
(`BatchMisread`), `EveryoneJoins` (`BarrierEarlyLeaver`) and `EveryElementGoes`
(`QueueYoung`).  Others that the models show, with the constants to see them:

| Where | What happens | To see it |
|---|---|---|
| `LeaderElectionSupport.java:241` | READY is written after `exists()`: a notification handled in between is overwritten, and a process that is first rests in READY for ever | `NoLostWakeup`, `LowestIsToldOrFails` for `Proc` instead of `Orderly` |
| `LeaderElectionSupport.java:317` | a notification that has passed the test of the state makes a stopped process ELECTED again, beside the successor that its `stop()` let in; and the same race takes READY or DETERMINE to a leader | `ExclusiveLeader`, `LeaderKeepsOffice` for `Proc` instead of `Orderly` |
| `LeaderElectionSupport.java:318` | only `NodeDeleted` is handled: a leader whose session has expired is not told | drop `p \in alive` from `ExclusiveLeader` |
| `LeaderElectionSupport.java:184` | the answer of create is lost: an offer stays that `stop()` cannot delete (it raises IllegalArgumentException for the missing path), and those behind it wait for the session to end | `MaxFaults = 1` |
| `LeaderElectionSupport.java:302` | a child that goes between `getChildren()` and `getData()` fails the process, even the first in line | drop FAILED from `LowestIsToldOrFails` |
| `RedisLockHandler.java:74` | the lifetime ends while the owner works: two work, and `unLock()` deletes the other's key | `Overrun = TRUE`, `LeaseSpec` |
| `RedisLockHandler.java:115` | death between setnx and expire: the key stays for ever | drop `crashes = 0` from `Undisturbed` |
| `RedisLockHandler.java:91` | the answer of setnx is lost: FALSE is returned and a key without a lifetime stays | drop `faults = 0` from `Undisturbed` |
| `RedisLockHandler.java:208` | after a second round the shifted answers make a call release or keep the wrong keys | the constants of `BatchMisread`, `OnlyOwnKeysGo`, `FalseMeansNone` over all clients |
| `RedisLockHandler.java:219` | `tryLock(keyList)` returns true after an exception | drop `faults = 0` from `TrueMeansAll` |
| `SyncPrimitive.java:24` | the session of a living process expires while it is inside: its znode goes, the others are let out, and it works on until its next call throws | `LetOut` without those in `lost` among the failed |
| `Test.java:51` | the answer of delete is lost: the element is gone and nobody has it | drop the condition of `NothingLost` |
| `Queue.java:78` | barrier and queue of `Test` share `/app1`: consumers die of NumberFormatException | `Shared = TRUE`, and no "dead" in `EveryElementGoes` |

On the page, the code departs from what its user expects in the following ways.  But for
one they contradict no doc, comment or test of the repository.  The one is
SmoothScroll: "only allow one scroll to top operation to be in progress at a time"
(`amazeui.js:9981`) is said of `smoothScrollInProgress`; but a touch only resets that flag,
and a scroll that begins before the next frame of the one it aborted sets it again for both:
two are under way, each sets its own position, and the first to end stops the other.  The
models contain all of these, and the properties leave them out by name.

| Where | What happens | In the model |
|---|---|---|
| `LeaderElectionSupport.java:319` | after a restart a notification of the round before demotes the leader, which then determines its place again | `starts[p] = 1` in `LeaderKeepsOffice` |
| `amazeui.js:448` | a modal's stale timer makes it forget the timer of a later transition, which is then neither stopped nor reset and may end the one after it early | `Unreferred` |
| `amazeui.js:6700` | a modal closed in the middle of a transition takes the dimmer away while another modal is open | `forced` in `DimmerHasUser` |
| `amazeui.js:3716` | without transitions `open()` throws: the page is locked, and no layer and no modal come | `DimmerOpened`, `Opened` |
| `amazeui.js:2842` | two panels of an accordion are open when the second was clicked while the first opened | `OpenPanel` |
| selector | options of one value are set together, the last of them where one can be selected; what a script or a reset selects is not seen in the list | `foreign` and `Same` in `SelectionAgrees` |
| buttons | a click on the box itself, not on its button, leaves the mark as it was | `byItself` |
| navbar | a bar with no more items than its class provides for overflows a narrow window until the first resize; a list of actions that stays unfolded when the window grows is empty | `NavbarFits` |
| dropdown | quick toggles leave two open at once, and a close tells `opened` too | `DropsAgree` is per dropdown |
| tabs | a switch waits for the end of a transition with no timer to stand in for it; a late swipe goes by the panel of its time | `TabsFairness` |
| off-canvas | two bars share one saved scroll position; the one that closes takes away the Esc handlers of both | `PageGivenBack` |
| popover | not placed again by scrolling or new contents, up to 5 pixels above the window, out of it beside an element that is scrolled out to the left; its resize handlers stay | `drifted`, exceptions of `PopoverReadable` |
| NProgress | `queue` never queues; `start()` within 400 ms of `done()` loses its bar until the next trickle; several loops run | `BarFollowsStatus` |
| Hammer | `stop()` leaves timers; a cancelled recognizer may block the others; a cancelled input may begin a pan; with the preset's order a doubletap comes out as a tap | `AmHammer` |
| Hammer's inputs | the first move after a release is swallowed, and cancelling one finger of several makes the distance jump; the mouse click that follows a touch counts as a second tap | exceptions of `InputsAgree` |
| FastClick | the page sees two clicks of a tap if the browser's own comes in spite of `preventDefault()`: on a text field, whose element FastClick has forgotten; on a label of iOS; when the next touch has begun; behind an earlier click, which used up the flag.  A tap within 200 ms on an element that needs clicks is lost | `twice`, `excused` |
| `amazeui.js:5001` | FlexSlider's `play()` while playing replaces the timer and kills the slideshow later | `history` |
| `amazeui.js:5263` | removing a slide before the current one counts the current one up, perhaps out of range | `strayed` |
| `amazeui.js:4809`, `:5027` | with `animationLoop` off, next at the last slide wraps all the same | `AmSlider` |
| iScroll | a touch that catches the content beyond an end and then goes in the direction left to the page (`eventPassthrough`, set by Amaze UI's menu and by its scrolled tabs, `amazeui.js:1473`, `:1780`) leaves it there; a drag that ends without momentum leaves `isInTransition`; `disable()` in a drag ends it half way | `ScrollBusy` |
| PinchZoom | an offset becomes NaN; a loop of frames outlives the animation it belongs to | `crossed`, "nan" |
| PureView | opened within 300 ms of closing it is hidden when the close is over; a slide is refused in a transition; images and slides come apart when images are added before others | `hurried` and the exceptions of `ViewAgrees` |
| ScrollSpy | shows an element that has left again during the delay; Sticky is released though the window is past it; two smooth scrolls fight; a scroll by the user in the middle of one is taken back by its next frame; the last section stays active beyond its end | `late`, `overtaken` |
| Validator | `equalTo` is matched as a regular expression made of its model's value, and passes when empty; it is not judged again when its model changes; answers of promises come out of order; values set by script are not judged | `behind` |
| Datepicker | navigating writes today's date into an input that is empty or incomplete, with no `changeDate`; `update(date)` leaves the input; years below 100 become 19xx; a date with a time of day marks no cell | `DateAsPicked` is about clicks |
| Add to Homescreen | the default session is aliased, so `clearSession()` in a first visit clears nothing; two tabs overwrite each other's session; a reload after the '#ath' token counts as added; a stray timer removes a later message early | exceptions of `AsksAsAgreed` |
| `api.js` | `FindProvider` removes every second option; a button pressed while a request is under way changes the container the certificate goes to; a failure to read the container's name leaves the one before; the certificate is asked of the provider that is selected when the answer comes | exceptions of `CertificateFits` |

## What is not modelled

- Listeners and logging of the election, `getLeaderHostName()`: no state.
- The host name an offer carries: no property tells offers apart by it.
- The overflow of ZooKeeper's sequence counter (2^31) and the clock arithmetic of
  `tryLock` (`System.nanoTime`): a client with a timeout may try again or give up
  after any failed attempt, which covers every value of the clock.
- In the batch lock, the lifetime of 60 s does not end: what happens at its end is
  modelled in `RedisLock`, per key.
- Of the page: layout but for the popover's place, colours, texts; adding and removing
  recognizers at run time, Hammer's velocities and angles beyond two values; FlexSlider's
  fade and carousel; iScroll without bounce; the datepicker's place and disabled days; the
  browser checks of Add to Homescreen.
- Two widgets of different kinds on one page: their objects share no state, see
  [AmazePage](#amazepage), but modals, viewer and off-canvas bars share the body's
  padding and scrolling, and an element could have two widgets on it.
- Groups of options and `destroy()` of the selector; the unfolding of the navbar's list of
  actions and its QR code.
- Parts H to S, see the inventory and the reasons in `PROJECT.json`.

## Plan

The order followed: the coordination primitives with the theorems above, first what
matters most; then the page, widget by widget, composed in `AmazePage`; then the proofs of
all widgets and of the page.  What could be added, in the order of its use:

1. **Shared locks of the body**: modal, image viewer and off-canvas bar on one page, with
   the padding and the scroll lock as one variable of the three.
2. **K. IdWorker**: a 64-bit layout with small widths, threads, a clock that may go
   backwards; identifiers are unique and grow.
3. **I. Configuration watchers**: the cache is stale only while a notification is on its
   way.
4. **N. JMS**: transacted consumers with rollback and redelivery, as the broker does it.
5. **O and P. Excel workflow, key store switching**: two users on one directory.
