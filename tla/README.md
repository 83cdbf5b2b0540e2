# A formal model of React Native Skia

React Native Skia runs React Native applications on embedded Linux: JavaScript
and the shadow tree come from React Native, and this repository supplies what
is below them. `ReactSkia/` mounts views, loads images, serves timers, keys and
notifications; `rns_shell/` owns the window, the layer tree, the compositor and
the main loop. Nearly every part is shared by several threads that talk through
flags, mutexes and queued functions. That is where the code is hard to test and
what this project models: TLA+ modules, TLC runs on small instances, and TLAPS
proofs for every instance.

All paths below are relative to `src/`.

## 1. The system

### Threads

| thread | made by | what it does |
|---|---|---|
| main | `rns_shell/platform/linux/shell.cpp` | `TaskLoop::run()`: transactions, view commands, scheduled renderings |
| JavaScript | React Native | commits revisions, calls native modules, runs completion callbacks |
| event loop | `Window::createEventLoop` | X11 / libWPE events: keys, new window size |
| notifier | `NotificationCenter` | inserts listeners and calls them |
| key worker | `RSkInputEventManager` | takes throttled keys |
| timer | `sdk/FollyTimer` | one event base with a timer wheel per `Timer` |
| curl worker | `CurlNetworking` | drives libcurl, calls completion callbacks |
| text input | `RSkComponentTextInput`, one per editing session | edits a controlled input's text |
| keyboard | `OnScreenKeyboard`, `WindowDelegator` | window tasks; repeated keys |
| others | animation, web sockets | change layers or call JavaScript on their own |

### Components

| component | state | operations | talks to |
|---|---|---|---|
| Task loop (`TaskLoop.cpp`) | event base, running or not | `dispatch`, `run` | everyone who needs the main thread |
| Compositor (`Compositor.cpp`) | mutex `isMutating`, `renderState_`, `surfaceDamage_`, history, attributes | `begin`, `commit`, `renderLayerTree`, `setViewportSize` | layers, window context, task loop |
| Layer tree (`layers/*.cpp`) | children, frame, cached bounds and matrix, `invalidateMask_`, damage of a scroll layer's content | insert, remove, invalidate, `preRoll`, `prePaint`, `paint` | compositor, components |
| Mounting manager (`MountingManager.cpp`) | `transactionInFlight_`, `followUpTransactionRequired_` | `schedulerDidFinishTransaction`, `performTransaction`, `schedulerDidDispatchCommand` | React Native's coordinator, compositor, components |
| Notification center (`sdk/NotificationCenter.*`) | table of listeners, last identifier, mutex | `addListener`, `removeListener`, `emit` | every module |
| Key input (`RSkInputEventManager.cpp`) | key queue, count of active clients, semaphore, repeat state | `keyHandler`, `processKey`, worker thread, `onEventComplete` | notification center, spatial navigator, JavaScript |
| Timers (`sdk/FollyTimer.*`, `RSkTimingModule.cpp`) | `jsTimers_`, one `Timer` | `createTimer`, `deleteTimer`, `timerDidFire` | JavaScript |
| Networking (`CurlNetworking.cpp`, `RSkNetworkingModule.cpp`, `RSkImageLoader.cpp`, `RSkComponentImage.cpp`) | libcurl's handles, a semaphore, each client's current request | `sendRequest`, `abortRequest`, the worker, the callbacks | compositor, JavaScript, the caches |
| Caches (`ThreadSafeCache.h`, `RSkImageCacheManager.cpp`) | responses and decoded images with their expiry | `setCache`, `expiryTimerCallback` | timer thread, networking |
| Spatial navigation (`RSkSpatialNavigator*.cpp`, `RSkComponent.cpp`) | focused component, a list of candidates per container | mount, unmount, update, keys | key input, mounting, scroll views |
| Scroll view (`RSkComponentScrollView.cpp`) | offset, content and frame size, snap offsets | props, state, commands, scrolling to a candidate | navigator, layer |
| Text input (`RSkComponentTextInput.cpp`) | edit mode, text, cursor, key queue, semaphore | keys, commands, props, its thread | key input, JavaScript, on-screen keyboard |
| On-screen keyboard (`OnScreenKeyBoard.cpp`, `WindowDelegator.cpp`) | state, a sub-window with a worker, repeat queue and thread | `launch`, `exit`, `updatePlaceHolderString`, keys | window system, notification center, text input |
| Alerts (`Alert.cpp`) | a list of messages in a sub-window | add, dismiss | window delegator |
| Web sockets (`NopollWebsocket.cpp`) | connections | connect, send, close | JavaScript |
| Text layout, drawing, platform contexts, plugins | none of interest | pure calls into libraries | |

### What is hard

* Five kinds of threads change the layer tree. A mutex protects it, but the
  code that releases the mutex is not always the code that took it
  (`Compositor.cpp:320`).
* Two atomic flags hand revisions from JavaScript to the main thread, without
  a lock (`MountingManager.cpp:30-46, 83-105`). `renderState_` does the same for
  renderings. A flag that suppresses a dispatch must never outlive the work it
  stands for.
* `begin()` throws away a damage list that a rendering on another thread has
  just filled, and buffers that come back after some frames must be repaired
  from a bounded history.
* A layer repairs the place it leaves from bounds it cached earlier, in the
  coordinates of its parent at that time; removed layers stay in the lists until
  the next pre-paint.
* `addListener` and `emit` leave their work to another thread, `removeListener`
  does not.
* The key worker counts completions that are delivered by another language on
  another thread, or not delivered at all.
* Timers are created on one thread and served on another, between the locks.
* The curl worker is woken by a semaphore that is read and posted in two steps,
  and reads finished transfers outside the mutex that an abort takes.
* The lists that keys are navigated with are changed by mounting on the main
  thread while the input thread searches them, without a lock.
* `exit()` of the keyboard joins two threads that may want the mutex it holds.
* A text input's keys go through a queue, a thread, the script and back, and
  the next key is edited into whatever text is there.

`PROJECT.json` lists these hazards with their lines and the properties that
would catch them going wrong.

## 2. Modules

| module | models | extends |
|---|---|---|
| `TaskLoop` | `TaskLoop.cpp` | |
| `Compositor` | locking, scheduling and damage of `Compositor.cpp` | `TaskLoop` |
| `MountingManager` | `MountingManager.cpp` | `Compositor` |
| `RenderPipeline` | the three together, with JavaScript, main, worker and event threads | `MountingManager` |
| `RenderPipelineProofs` | theorems about `RenderPipeline` | `RenderPipeline`, `TLAPS` |
| `FrameDamage` | `Layer::addDamageRect`, `beginClip`, the frame damage history | |
| `LayerTree` | `Layer.cpp`, `ScrollLayer.cpp`, the mount instructions that change them | |
| `NotificationCenter` | `NotificationCenter.h`, `.cpp` | |
| `KeyInput` | `RSkInputEventManager`, focus notifications, TV event emitter | |
| `FollyTimer` | the `Timer` of `FollyTimer.cpp` | |
| `TimingModule` | `RSkTimingModule.cpp` | `FollyTimer` |
| `Cache` | what a cache promises: stored keys are dropped in the end | |
| `ExpiringCache` | `ThreadSafeCache.h` with its timer; implements `Cache` | `FollyTimer` |
| `CurlNetworking` | `CurlNetworking.cpp`: senders, worker, cached answers, aborts | (instance of `Cache`) |
| `Networking` | an image component and scripts as clients of it | `CurlNetworking` |
| `ScrollView` | `RSkComponentScrollView.cpp` | |
| `SpatialNavigation` | `RSkSpatialNavigator*.cpp`, the mounting part of `RSkComponent.cpp` | `ScrollView` |
| `WindowDelegator` | the sub-window, its worker and its callback | |
| `OnScreenKeyboard` | `OnScreenKeyBoard.cpp` | `WindowDelegator` |
| `TextInput` | `RSkComponentTextInput.cpp` | |
| `DisplayProofs` | theorems about what is on the screen | `FrameDamage`, `ScrollView`, `SpatialNavigation`, `OnScreenKeyboard`, `TLAPS` |
| `NetworkingProofs` | theorems about `Networking` and `ExpiringCache` | these two, `TLAPS` |
| `NotificationCenterProofs`, `KeyInputProofs`, `TimingModuleProofs`, `TextInputProofs`, `LayerTreeProofs` | theorems about one module each | that module, `TLAPS` |
| `MCFrameDamage`, `MCLayerTree`, `MCSpatialNavigation` | symmetry; symmetry; a scene | `FrameDamage`, `LayerTree`, `SpatialNavigation` |

Definitions named `Mutant_...` are the definitions that follow them with a
plausible mistake. They are used by no specification; putting one in the place
of its original must violate the property that `PROJECT.json` names for it.

### Correspondence of state and steps

**Rendering pipeline.** A thread is a program counter `pc[t]`; a value of it
names the next statement. A step is what the code does between two points
where another thread can come in: one read or write of an atomic flag, one lock,
one queueing of a function. So `schedulerDidFinishTransaction` is
`CheckInFlight` then `SetFollowUp`, or `SetInFlight` then `DispatchPerform`; the
body of the loop in `performTransaction` is `ResetFollowUp`, `RaiseInFlight`,
`PullTransaction`, a transaction, `ClearInFlight`, `CheckFollowUp`. A
transaction is `begin()`, one `ProcessMutation` per mount instruction and an
immediate `commit(true)`. A worker thread does `begin()`, a change,
`commit(false)` and perhaps `dispatch`. `isMutating` holds the thread that locked
it last; an unlock frees it whoever calls it, which is what glibc does with a
`std::mutex` in the case the standard leaves undefined.
The layer tree is three sets: layers with an invalidate mask, layers in
`surfaceDamage_`, layers whose pixels are old (a history variable that only the
properties read). React Native's coordinator is two numbers: the newest revision
and the newest one pulled; a pull may yield no mutation.
`windowContext` is chosen at the start: without it every rendering returns early.

**Partial updates.** The surface is a row of tiles, a rectangle is a set of
adjacent tiles. A tile's content is the number of the frame that changed it
last, so "old pixels" is visible as a smaller number. `ClipHistory` models the
assignment through the reference `dirtyRects`. One rendering is one step, since
`RenderPipeline` shows that renderings exclude each other (without resizes).

**Layer tree.** A transaction is `BeginTransaction`, mount instructions, `PrePaint`
and `Paint`, which are alone with the tree (`TreeExclusive` of `RenderPipeline`).
`mounted` is the tree React believes in, `children` and `parent` are the layers'
own links; the difference between the two is what the properties are about.
A frame is an interval in the parent's coordinates, `origin` and `bounds` are what
`preRoll` caches. `PrePaint` is the whole recursion from the root: new origins and
bounds where a layout bit is set or forced, the damage, the masks cleared to the
remove bit, the removed layers taken out. A scroll layer has its children's damage
in `pending`, in the coordinates of its content, until it is painted. A tile of
`screen` holds the pictures drawn there and which of them is over which, so that
missing, old and wrongly ordered layers differ. What paint passes down, the scroll
offset, the clip and the visit itself, is written as what a layer has from the layer
above it (`ScrollOffset`, `ClipTo`, `Visited`). React's list of mutations is kept to what its differentiator emits:
removals from a parent before insertions into it, insertions by increasing
index. A view may be removed and inserted again in one transaction (`Moves`).

**Notification center.** A critical section reads the table when it locks
and writes when it unlocks. Under a working mutex that is atomic; when a second
unlock lets another thread in, it is the lost update that the data race may
produce. The event base keeps functions of other threads in order, and its own
thread's functions in order, and may run either kind first. An emit carries the
set of registrations that were complete when it was called.

**Key input.** Keys and focus notifications pass through one queue of the
notifier thread, keys then through `keyQueue_` to the worker. Both builds are
initial states (`throttling`). The focused component and the spatial navigator
are a choice: a press may or may not move the focus. Several keys may be held at
once; `chord` is a history variable that says whether this has happened. The event
emitter remembers the id of one handler (`navEventId`), the notification center may have
more of them (`listed`): `HandleFocus` copies their list, `SendEventWithName` is one call
of one of them.

**Timers.** Time is discrete and passes only when both threads are at rest:
code is faster than a millisecond, and what remains is the order of the steps of
the two threads. `createTimer` is two steps, because the alarm is set before the
lock is taken; `timerDidFire` is three (`Scan`, `Update`, `RescheduleNext`). A
use of a dangling or null pointer puts the thread into the state `Undefined`.

**Caches.** The map is a function from keys to expiry times. `setCache` is one
step, since it holds the lock; the expiry callback, which does not, is two: the
walk over the map (`Expire`) and the decision about the next alarm (`EndWalk`).
A response without an age gets a duration for a time (`Default`), which is long
past. `Promise` instantiates `Cache` with the domain of the map.

**Networking.** A request has a phase: with libcurl (`multi`), finished (`done`),
in the worker's hands (`read`), answered by a detached thread (`cached`), or over;
one that `sendRequest` returns false for is `refused` and never reaches libcurl.
`sendRequest` is three steps (the handle is added under the mutex, the semaphore
is read, it is posted), the worker four (`Wake`, `Perform`, `Read`, `NoMessage`).
`NoMessage` is the end of the loop body, where the worker goes back to sleep or
performs again. The image component's callbacks are steps of their own, so
that a new source, an unmount or a paint on the main thread comes in
between. A URL stands for what the server answers: with or without a body, with
or without an age. Pointers that are used after their request was deleted set
`crashed`, which ends a behaviour. The caches are sets of URLs; a response
leaves by the `Drop` of `Cache`, which `ExpiringCache` implements.

**Scroll view and navigation.** Points are functions of the axis, which keeps
the four directions one definition. What moves the offset ends in `Clamped`, the model
of `handleScroll(x, y)`, or sets a position as it is (`HandleScroll`, snapping). The main
thread performs one mutation of a transaction per step: `todo` holds the components that
it still has to insert, to delete, to move and to update. React Native works a subtree
off from its leaves (`Foremost`; the constant `Before` orders siblings): a new one is
built and attached last, a component that is moved is removed and inserted, and what is
below it is updated between the two. A key is up to five steps per container, one for
each place where the main thread can come in between two decisions: the search for a
candidate (`Search`), `isVisible` (`Test`), `scrollInDirection` up to the position that
it chooses (`Scroll`), the setting of that position (`Set`), and the move of the focus
(`Take`). `look` is what the key carries from `Test` or `Scroll` to the later steps: the
position, and, for the properties only, the sizes and properties it was found with. No
lock orders these steps, so that React may scroll, resize or unmount at any of them. The
search has the code's rules: validity, projected overlap, the comparator, the choice
between overlapping and non-overlapping candidates, preferred and first candidates. The
frames of components are constants, except the frame of the scroll view. `beyond` and
`missed` are history variables: the offset was set by a key from a snap offset that the
code does not cut or from a decision under other sizes; the last update of the component
found no container above it.

**On-screen keyboard.** `mutex` names the client inside `exit()`; a `launch()` holds
it for one step, and a drawing is one step that needs it free. The window's
tasks are a queue that its worker takes from. On X11 the callback that the
window is ready runs on the thread of the expose event, otherwise on the worker;
both are initial states. A key moves the highlight, or is emitted, or both: which
is a choice per key, and so is the number of drawings (none, or up to two in the
case of a layout change or of the return key). Starting a thread over a joinable one, or using the deleted
queue, sets `crashed`.

**Text input.** A text is a sequence over two characters. An input is controlled
(the script gives it a value) or not. For an input that is not controlled, `processEventKey` runs on the thread of the keys,
takes no mutex and is a step per access (`PressEdit`, `Test`, `EditText` or
`MoveCursor`, `StoreText`, `StoreEnd`): the text is read at its beginning, the cursor is
tested, read again and written, and the text and its length are stored at the end. The
record `handler` is the place where it is and what it has read; where the code reads
the cursor a second time, the build may use either value. `requestForEditingMode`
(`entering`, per thread that calls it) is a step per write as well; its clearing of text and
cursor holds the mutex that `updateComponentProps` and the commands take. A controlled input
edits on its session thread in one step (`ThreadKey`): under the premises of `KeysKept` no
other thread writes the text or the cursor while it does. A session thread is a record with
its position and its `waitForupdateProps`. The script answers a reported text
with that text, refuses it, or sets a text on its own. `processed`, `overruled` and `raced`
are history variables: the keys taken, whether the script has set or
refused a text on its own, and whether a clear has met an edit.

## 3. Runs

Run them with `tlc -config <cfg> <module>`. Every run is a question of its own.

| run | shows | distinct states |
|---|---|---|
| `RenderPipeline` | The tree has one user at a time (`TreeExclusive`); old pixels are always covered by a mask or by a damage list that is about to be painted (`DamageKept`); `Scheduled` and `transactionInFlight_` are backed by work still to come (`ScheduledBacked`, `InFlightBacked`); an unmounted revision is on its way or flagged (`RevisionAccounted`); every change is shown (`ChangesShown`), no thread hangs (`ThreadsFinish`), a revision is mounted at the latest with the next commit (`EarlierRevisionsMounted`). JavaScript runs before the loop does; a transaction that the loop dropped then is the exception of `InFlightBacked`, `RevisionAccounted` and `EarlierRevisionsMounted` | 101 000 |
| `RenderPipelineResize` | with two size changes, which may come before the loop runs, no thread hangs | 57 000 |
| `FrameDamageDouble` | with two buffers the screen shows the tree (`FrontUpToDate`), damage lists have no redundant rectangle (`DamageListsMinimal`), the history holds each frame's own damage (`HistoryComplete`) | 14 000 |
| `LayerTree` | after every frame the screen shows what a repainting of the whole tree would (`ScreenCurrent`), parents and children agree (`LinksConsistent`), paint reaches exactly the mounted views, except below a view that was moved (`LayersShown`) | 748 000 |
| `NotificationCenter` | an emit reaches every earlier registration (`DeliveryComplete`), the queue is served (`QueueServed`) | 18 000 |
| `KeyInput` | while the emitter has one handler no key overtakes an earlier key's focus change (`KeyThrottled`), the count is exact while JavaScript listens (`CountIsOutstanding`), the newest key survives a flush (`NewestKeyKept`), a repeat is a press of the key before it, or of another one in the middle of a repetition after two keys were held together (`RepeatIsSameKey`), keys are served (`KeysServed`) | 735 000 |
| `TimingModule` | one-shot timers are called at most once (`OneShotCalledOnce`), a timer seen by a scan is called (`ScannedTimersCalled`) | 406 000 |
| `ExpiringCache` | while anything is stored, an alarm is set, queued or being handled (`WakeUpPending`), and the cache implements `Cache` (`ImplementsCache`): every entry leaves in the end | 38 000 |
| `Networking` | the worker does not sleep on work (`WorkerAwake`), an abort silences (`AbortSilences`), a request is answered or aborted (`Answered`) | 311 000 |
| `SpatialNavigation` | lists are complete, except for what was updated while a component above it was being moved (`ListsComplete`), a key goes to the nearest candidate (`PicksNearest`), a component of the scroll view that a key focuses is in view if the view is as the key saw it (`FocusShown`), the offset is in range unless a key set it from an uncut snap offset or a decision under other sizes (`OffsetInRange`) | 2 226 000 |
| `OnScreenKeyboard` | the state agrees with window and threads (`StateMatchesWindow`), an exit returns unless one of three named waits holds it for ever (`ExitReturns`) | 454 000 |
| `TextInput` | keys are applied in order to the text the script confirmed (`KeysKept`), the cursor lies in the text unless a clear has met an edit (`CursorInText`), the start of a repetition lies in the queue (`TypeOK`) | 4 666 000 |

`CHECK_DEADLOCK FALSE` appears everywhere: a system that nobody asks for
anything rests, and the bounds end the frames and the clock.

### Bounds

* Rendering: one worker, two layers, three revisions, one command, two updates.
  Three revisions are needed for one to be lost behind the follow-up flag
  although another follows it; the worker and the main thread's view command are
  the two clients of which one finds the state `Scheduled` set by the other; two
  layers are needed for a rendering that shows somebody else's change. The same
  instance with two workers passes too (171 000 states),
  and the proofs remove these bounds for the safety properties.
* Resize: two size changes, so that the second finds `Scheduled` set by the
  first; the threads are reduced to one worker and one layer.
* Damage: three tiles allow disjoint, nested and overlapping rectangles; two
  rectangles per frame let the second erase the first; four frames exceed the
  history of two (the code's bound is larger and configurable:
  `RNS_SHELL_MAX_FRAME_DAMAGE_HISTORY`). The violation needs three buffers and a
  history of at least three.
* Layers: three views, two tiles, two transactions, four mutations in all, frames that
  start at 0 or 1. Three views are a parent with two children or a chain
  through a scroll layer; the second transaction finds the caches of the first.
  A child lies inside a parent that does not clip (`Overflow = FALSE`), and a view
  is moved among its siblings (`Moves = "reorder"`): the other choices are violated,
  see section 5. The same properties also pass with three tiles (1 787 000
  states), with three transactions (1 676 000), and with two views, three
  tiles, five mutations and three transactions (1 321 000).
* Notifications: two listeners, one removal, two emits, two clients besides the
  notifier: enough for an unlock under somebody else's critical section.
* Keys: three key events are a press, its repeat and its release, or the press of
  another key instead; one focus change by mounting, three calls of
  `addListener`/`removeListeners`, which take the listener away, add it, and take it away
  before its insertion. A fourth call gives the emitter two handlers; `KeyThrottled` does
  not speak of that case, which `KeyInputTwoHandlers.cfg` shows.
* Timers: see `TimingModule.cfg`; a shorter timer behind a longer one, an
  immediate timer, an interval, a late `createTimer`, one deletion.
  `MsPerSecond` stands for the 1000 of `getTimeRemaining`.
* Cache: two keys, three ages (none, short, long), stores in the first two ticks;
  the clock runs until everything can have expired. Two keys are needed for an
  alarm to be replaced by the alarm of another entry.
* Networking: two requests, two changes of the source, three URLs (a cacheable
  one, one without a body, a file). Two requests are an old one and the new one
  that its completion disturbs, or an image and a script at the worker together.
* Navigation: a scroll view with an item and a plain view, which holds two items side by
  side (they tie at the same distance), an item outside; two transactions, of which each
  mounts anything from one component to the whole screen (with one item that is not
  focusable), unmounts, moves, updates, moves and updates below what it moves, or scrolls:
  the second one comes in between any two steps of a key that works on what the first one
  mounted. Two content sizes (one scrolls down,
  one across), two frame sizes, with and without snap offsets. `FocusShown` asks for a
  component that fits into the frame across the axis that scrolls (`Fits`): the view
  scrolls along one axis only. The premises leave room: the exceptions are reached, and
  violate the properties without them, in the four cases of section 5.
* Keyboard: two clients, three calls (launch, exit and one more), three keys (a
  press, its repeat, another).
* Text: two characters, four keys, two commands, texts of the script of at most
  one character, no limit or a limit of two.

### Fairness

Liveness is checked for the pipeline, notifications, keys, timers, the cache, the
networking and the keyboard. Weak fairness of each thread's own steps: an operating system gives a runnable
thread time, an event base serves its queue, a blocked thread is not required
to step. Nothing that a user, JavaScript or the window system decides to do is
fair. Weak fairness suffices for the mutex because the bounds leave each
waiting thread a state in which the mutex stays free. Time passes
(`ExpiringCache`). Two conditions of `Networking` are strong: the end of a
transfer, because libcurl is driven again and again and the answer comes during one
of these calls, and a callback, because it may wait for the rendering mutex, which is
taken and released by others. The first assumes that the server answers or the
connection fails: an image request has no timeout, a script's only the one it asks for
(`CurlNetworking.cpp:313`, `RSkComponentImage.cpp:343`). Nothing is assumed
about the keyboard's clients except that a call they made goes on.

## 4. Proofs

The modules named `...Proofs` hold what TLAPS proves for every value of the
constants. Each one states an invariant that is inductive, shows it for the
initial states and for every action, and derives the properties of the runs from
it. TLC has checked the invariants on the instances of section 3 first.

| module | theorem | property | from |
|---|---|---|---|
| `RenderPipelineProofs` | `TypeCorrect`, `MutualExclusion`, `NoDamageLost` | `TypeOK`, `TreeExclusive`, `DamageKept` | `LockHeld` |
| | `ScheduledRenderExists`, `InFlightTransactionExists`, `NoRevisionForgotten` | `ScheduledBacked`, `InFlightBacked`, `RevisionAccounted` | `Backed` |
| `DisplayProofs` | `ListsMinimal` | `DamageListsMinimal` | `DamageInv` |
| | `HistoryHolds`, `ScreenUpToDate` | `HistoryComplete`, `FrontUpToDate` | `DoubleInv` |
| | `ScrollSafety`, `NavOffsetInRange` | `OffsetInRange` | `ScrollInv` |
| | `ListsCompleteHolds`, `PicksNearestHolds`, `FocusShownHolds` | `ListsComplete`, `PicksNearest`, `FocusShown` | `NavInv` |
| | `KeyboardStateTrue` | `StateMatchesWindow` | `KeyboardInv` |
| `NotificationCenterProofs` | `DeliveryHolds` | `DeliveryComplete` | `CenterInv` |
| `KeyInputProofs` | `ThrottleHolds`, `CountHolds`, `NewestHolds` | `KeyThrottled`, `CountIsOutstanding`, `NewestKeyKept` | `KeyInv` |
| | `RepeatsAreSame` | `RepeatIsSameKey` | `KeysInOrder` |
| `TimingModuleProofs` | `OneShotHolds` | `OneShotCalledOnce` | `TimingInv` |
| `NetworkingProofs` | `AbortHolds`, `AwakeHolds` | `AbortSilences`, `WorkerAwake` | `NetInv` |
| | `TypesHold`, `WakeUpHolds` | `TypeOK`, `WakeUpPending` of the cache | `CacheInv` |
| | `StepsOfCache` | the steps of `Cache` | `CacheInv` |
| `TextInputProofs` | `TypesHold`, `CursorHolds` | `TypeOK`, `CursorInText` | `InputInv` |
| | `KeysKeptHolds` | `KeysKept` | `KeysInv` |
| `LayerTreeProofs` | `LinksHold`, `LayersShownHolds` | `LinksConsistent`, `LayersShown` | `TreeInv` |
| | `ScreenCurrentHolds` | `ScreenCurrent` | `ShownInv` |

**Rendering pipeline.** From `ThreadAssumption` (the threads are distinct) and
`BoundAssumption` (the bounds are numbers), for any sets of layers and workers.
`TypeOK` is inductive as it stands. Exclusion alone is not: a thread could be in
its critical section with the mutex free. `LockHeld` says that whoever is in one
holds `isMutating`; it is inductive and implies exclusion. No damage is lost
because the only thread that can clear the list while the main thread is
between pre-paint and paint would have to hold the mutex. The last three theorems
share the invariant `Backed`: the three properties and `BeforeLoop`, which says that
until the loop runs nothing has been mounted, the state is `Idle`, and neither the main
thread nor a worker has begun anything. It makes `ScheduledBacked` true without an exception
although `dispatch` drops functions before the loop runs: whoever asks for a rendering
belongs to a component, and a component exists only after a transaction, which the loop
has run. JavaScript has no such guard, so the other two except a transaction that was
dropped (`"perform" \in lost`). Three lemmas speak of the queue: what keeps it keeps what
is in it, dispatch adds one task to a running loop or drops it, taking a task drops only
that one.

**Partial updates.** For any surface, history length, number of layers and of
frames. The damage lists are computed by recursion over a list; the lemma
`Recursion` says that such a function exists, `Induction` that a property passes
along it. With them `UncoveredRects`, `AddedRect`, `AddedRects` and
`MissedCovered` say what `addDamageRect` and the loops around it return: they cover
what they should, no more and no less, and a minimal list stays minimal. The
early return at a rectangle that contains the new one comes too late if
something was erased before; minimality is why that cannot happen. `DamageInv`
adds types, and that no tile is newer than the last frame. For the screen
there may be at most two buffers (`TwoBuffers`), and `DoubleInv` adds `Alternate`,
the buffer that is not on the screen is unknown or one frame older, and `Current`,
a known buffer shows every tile that has not changed since it was painted. So
an age is at most two, which is when the assignment through `dirtyRects` changes
nothing. With three buffers the property fails (`FrameDamageTriple.cfg`).

**Scroll view.** For all sizes, frames, properties, snap offsets, commands and
candidates, and any order of the steps of a key and of React. `ScrollInv` is types,
`OffsetInRange`, `AxisFollowsSizes`, without which a horizontal scroll view could have
nothing to scroll and paging would leave the range, and `DecisionInRange`: what a key has
decided is in the range of the sizes it was found with, unless it may not be
(`doubtful`). The lemmas follow the code's functions: what `handleScroll` makes of any
point is in range, so is what paging and scrolling to a candidate choose (`NextGood`,
`ToFrameGood`), and what snapping chooses unless the offset is one that the code does not
cut (`SnapGood`). `ScrollAssumption` gives the constants their types and says that a set of
snap offsets has a least and a greatest element; the offsets themselves may be anything.
Nothing holds for a position that was decided under sizes which are gone
(the first `OffsetAlwaysInRange` of section 5) or for a snap offset behind the range
(`SpatialNavigationSnapBack.cfg`), which is why the property excepts both.

**Spatial navigation.** For any tree of components, frames, tags and order of the
siblings. `SceneAssumption` says that the components are a tree, that the frames
are frames, and that the tags differ. `ListsComplete` speaks of components that are
mounted and is not inductive: while a subtree is put together, its
focusable components are collected in lists of components that are no containers,
and a component that is moved takes what is below it off the screen and back. `NavInv`
says for every component whose last update found a container where it is listed,
whether it is mounted or not (`ListsCover`): in the list of the first container above it, or of the first component
above it that is still to be inserted. That this is where the code puts it follows
from `AttachedSomewhere`, a part of the tree the transaction leaves alone, on
which everything it inserts or moves hangs, and from `TreeOK`, what a transaction
may still have to do. For `PicksNearest` the comparator is proved to be a strict
order (`ComparatorOrders`, from its four numbers and the tags), so that the sorted set
has a first member (`FirstInList`, by induction over the list), and the rules of
`isValidCandidate` are put into numbers (`ValidForm`). For `FocusShown`, `NavInv` says
what the key in hand and its last look have to do with each other (`KeyLook`): what it
found visible, or decided to scroll to, is shown by the position that it found
(`LookShows`), since bringing a frame to the edge leaves it in view (`ToFrameShows`). A
step of the main thread changes neither of the two (`MainKeepsLook`).
What navigation does to the scroll view is a step of `ScrollView`
(`NavImplementsScroll`), so its theorem holds while keys and React scroll at the same time.

**On-screen keyboard.** Where the display is libWPE and nothing has crashed, `KeyboardInv`
adds to types who holds the mutex in an exit, that an exit joins only the worker it
closed, that after a join no worker is left, and that readiness is reported by the
worker itself (`ReadyOnWorker`). Its main part, `StateOfWindow`, says what state, window, queue and
worker may be together at each point of a call; a task that closes the window is in
the queue or has been taken whenever the state was reset.

**Layer tree.** For any views and bounds, the first two for any moves. `parent_` and `children_` agree whatever
the index is, because `insertChild` takes a layer out of the list of its parent
first. `LayersShown` compares the lists with what React has mounted: the
invariant `TreeInv` says that a mounted view is linked to the layer above it unless it
was moved (`MountedLinked`), that what is still in a list without being mounted
is marked (`LeftMarked`), that the mark is on nothing else that is mounted
(`MarksOfMoved`), that a view which may be created has a new layer (`NewUnmarked`),
and that a removed view is in the list of a view the transaction knows. `Below` is
the least set that is closed under the lists, and the lemmas about it
(`SubtreeIsLeast`, `ReachedFromList`) replace an induction over the tree.

`ScreenCurrent` is proved for the transactions and layouts of `InPlace`: a view that is
inserted again comes back below its old parent, and no child sticks out of a parent that
does not clip it. Without either it is false (`LayerTreeReparented.cfg`,
`LayerTreeOverflow.cfg`, section 5). The invariant `ShownInv` has three parts:

* `TreeInv`, as above;
* `SideInv`: a view has its layer below one parent only, the mounted one or the one it
  was removed from (`HomesKept`); the ways up and down the tree end (`TreeEnds`);
  `skipParentMatrix_` is set below scroll layers only (`SkipsTrue`), which is why a view
  that changes to another kind of parent is excluded; what may be created is a new layer
  (`NewReady`); and children lie in parents that do not clip (`FitsMounted`);
* `PixelInv`: bounds that no layout is to refresh are right (`Exact`); after pre-paint
  nothing that is reached is out of date (`Cleared`); and, the heart of it, a
  tile which is neither below a layer that is out of date (`TopDirty`, `Region`) nor
  about to be painted shows the layers that are up to date (`ScreenTrue`).

A mutation marks one layer and leaves alone everything that is not below it
(`Mutates`, `MutationTouches`); pre-paint hands the damage of a layer out of every
scroll layer above it or finds one of them damaged as a whole (`DamageClimbs`,
`DirtyDamaged`), so that what it moves is painted (`PrePaintScreen`); and paint, with its
cached bounds and pruned visits, draws in the damage what the frames ask for
(`Clipped`, `PaintDraws`, `WantedDraws`). What a layer has from those above it is
written as a function of the layer; `UpwardRecursion` and `DownwardRecursion` show that
these recursive functions exist, because the tree ends.

**Notification center.** `DeliveryComplete` speaks of the callbacks that have
been made. The invariant follows a registration from its call through the queue
into the table: it is in progress, queued, or listed (`AddedComing`); what a
queued emit owes is listed or queued in front of it by the same kind of thread
(`OwedComing`); and without a removal only the notifier writes the table
(`TableOwned`), which is where the second unlock of `dispatchHandler` does harm.

**Key input.** A count is the cardinality of the set of places of a queue;
three lemmas say how it changes when the queue grows at the end or
shrinks in front. `CountSteps` says what a step does to the count `active` and to what it stands
for, queued notifications, deliveries and completions: nothing, one more of both, one
less of both, or a notification that is dropped. `CountCovers` follows: with one handler
the count is never too small, so that nothing is outstanding when the worker sees a
count of zero, and until it has processed its key no other thread makes a focus change on
behalf of a key (`NoKeyChange`). A handler that was left behind stays
(`OneHandlerBefore`, because the emitter remembers the newest id, `IdsBelow`), so a state
with one handler never had two. `KeysInOrder` is about the notifier's queue: unless two
keys have been held together, the event that follows a press belongs to the same key.

**Timers.** `OneShotCalledOnce` is not inductive, since a timer lives in several
places. `TimingInv` says that a timer that does not repeat is in one at most: on
its way into the table, in the table, or in one function of the queue; and only
before its call. The lemmas say what `reschedule`, `abort` and the event base
do to the queue: they add no function that calls a timer and double none.

**Caches.** `WakeUpPending` fails for a queue with an abort in it: when it runs,
it empties the wheel the map relies on. `CancelsFire` says why that does no harm:
`reschedule()` queues an abort only in front of a call of the callback, by
the same thread, and functions of one thread run in order. The assumptions are those
of `ExpiringCache` (ages are numbers; no age is as long as `Year`, the
alarm without entries) and `TimeoutAssumption` (no time is the empty wheel).
`StepsOfCache` is the safety half of the refinement: the initial states of
`ExpiringCache` are initial states of `Cache`, and each step is a step of it
or leaves the keys alone.

**Networking.** `AbortSilences` needs that callbacks begin only after libcurl
has let go of a request, and that nothing leads back (`Silent`). `WorkerAwake`
needs to know of the worker's local variable `stillAlive`: a handle that is
added while the worker reads messages is not seen by it, so a post must be
under way before the worker sleeps (`Awake`). The many actions are of a few
kinds (a request begins to be sent, is sent, is aborted, ends, is answered, none of
these), and the proofs go by kind. `SenderAssumption` says that the three
threads that send in the code are among the senders.

**Text input.** `TypeOK` is inductive with the types of the variables it leaves out. For the
cursor, `CursorKept` follows the key and the focus through their steps: while the text is
being cleared it is empty, and the cursor is reset before the length; at any other time
(`Kept`) the cursor lies in the text that is shown or, once the key has edited its copy,
in the one that it is going to store, and what the key has tested is still true when it
edits. The copy has the length of the text unless the text was cleared since
(`ReadText`), and without a focus that clears the text keeps its length until the key
stores one (`Uncut`), which is why the copying of a text that is too long stays inside.
The exception `raced` is the behaviour that `CursorAlwaysInText` of section 5 shows. `TextAssumption`: characters are
not names of keys, and the bounds are numbers. `KeysKept` compares the text with a
recursion over the keys taken (`TypedAll`), which the lemmas unfold at its end; `KeysInv`
says that with one editing thread the keys taken lead from a text of the script to the
text that is on its way to the script or shown (`KeysInOrder`), and that the cursor is
at its end unless the thread still waits for an answer.

What stays with TLC:

* liveness, here and in the refinement of `Cache` (`ImplementsCache`, of which
  `StepsOfCache` is the rest): fairness and `ENABLED` are out of the prover's
  reach;
* `ScreenCurrent` where views are moved to other parents or children stick out: it is
  violated there;
* the liveness properties by name: `ChangesShown`, `ThreadsFinish`,
  `EarlierRevisionsMounted`, `QueueServed`, `KeysServed`, `ScannedTimersCalled`,
  `Answered` and `ExitReturns`;
* everything under size changes, where mutual exclusion does not hold, and
  partial updates with three buffers, where the property does not.

## 5. What disagrees with the code's own words

The following properties are violated under the configurations named, which are kept
beside those of the runs; run them with the module given. Where the configuration is
that of a run, put the property in the place of those it checks.

| configuration | module | property | what happens |
|---|---|---|---|
| `RenderPipelineFollowUpLost.cfg` | `RenderPipeline` | `EveryRevisionMounted` | JavaScript reads `transactionInFlight_` as true; the main thread clears it and finds no follow-up; JavaScript sets the flag. The revision stays unmounted until the next commit (`MountingManager.cpp:35-37` against `102-104`). |
| `RenderPipelineResizeDamage.cfg` | `RenderPipeline` | `DamageKept` | `setViewportSize` calls `commit()` without `begin()`, and `commit()` unlocks a mutex that a rendering holds; `begin()` of another thread clears the damage between pre-paint and paint. |
| `RenderPipeline.cfg` | `RenderPipeline` | `InFlightAlwaysBacked` | `main` starts the application, and with it JavaScript (`shell.cpp:87`), before it enters the loop (`:95`). A first commit in between dispatches `performTransaction` to a loop that drops it (`TaskLoop.cpp:41`); `transactionInFlight_` stays set, no later commit dispatches again, and nothing is ever mounted. |
| `FrameDamageTriple.cfg` | `MCFrameDamage` | `FrontUpToDate` | With three buffers, `beginClip` writes through a reference into the newest history entry, and a buffer of age 3 misses a frame's damage. |
| `NotificationErased.cfg` | `NotificationCenter` | `ErasedNotListed` | `dispatchHandler` unlocks the mutex by hand and its `unique_lock` unlocks it again; two threads change the table and an erased listener comes back. |
| `KeyInputUnobserved.cfg` | `KeyInput` | `CountExact` | A focus notification that finds no JavaScript listener is counted and never completed; the key worker waits for ever. |
| `KeyInputTwoHandlers.cfg` | `KeyInput` | `Throttled` | JavaScript adds a listener, removes it before the notifier thread has inserted its handler, and adds one again: the removal finds nothing, the emitter has two handlers (`RSkTVNavigationEventEmitter.cpp:38, 42`), each completes a notification, and the worker takes a key although a focus change is still to be completed. |
| `KeyInputChord.cfg` | `KeyInput` | `RepeatIsKeyBefore` | A key pressed while another one repeats is handled as a repeat: `keyRepeat` stays set until a release (`RSkInputEventManager.cpp:87-101`). |
| `TimingLost.cfg` | `TimingModule` | `EveryTimerCalled` | The alarm is set before the timer is in the table that the alarm's handler scans. |
| `NetworkingLoadStuck.cfg` | `Networking` | `ChangedSourceLoads` | `isRequestInProgress_` is set after `sendRequest` (`RSkComponentImage.cpp:400-401`) and cleared by the completion (`:388`), of an older request too: a component can be left with the flag set and no request, and its new source is never loaded, against the comment at `:180-181`. |
| `SpatialNavigationDangling.cfg` | `MCSpatialNavigation` | `ListsCurrent` | `mergeComponent` takes its list by value, so the `candidates.clear()` at its end clears a copy (`RSkSpatialNavigatorContainer.cpp:23`). A plain view keeps its list after it was merged into its container; when React moves that view the list is merged again, and the removal of a candidate erases only the first of its two entries. The other one points to a deleted component, and the next key reads it. |
| `SpatialNavigation.cfg` | `MCSpatialNavigation` | `ListsAlwaysComplete` | One transaction moves a view and makes an item below it focusable. The update comes between the removal and the insertion of the view, where the item has no container (`RSkComponent.cpp:251-253`), and mounting the view copies only the view's own list (`:306-309`): no key reaches the item until its next update. |
| `SpatialNavigation.cfg` | `MCSpatialNavigation` | `OffsetAlwaysInRange` | A key decides where to scroll (`RSkComponentScrollView.cpp:275-294`); React hands over a smaller content or a command; the key sets its position (`:513`), which the content no longer has. |
| `SpatialNavigationSnapBack.cfg` | `MCSpatialNavigation` | `OffsetAlwaysInRange` | Going forward, `handleSnapToOffsetScroll` cuts a snap offset that lies behind the range (`RSkComponentScrollView.cpp:430-432`); going back it takes it as it is (`:434-460`), and the view shows less than a frame of content. |
| `SpatialNavigation.cfg` | `MCSpatialNavigation` | `FocusAlwaysShown` | A key finds the candidate visible (`RSkSpatialNavigator.cpp:394`) or scrolls to it (`:395`); React scrolls or resizes the view; the key focuses the candidate (`:429`), which is out of view. |
| `TextInput.cfg` | `TextInput` | `CursorAlwaysInText` | Delete finds the cursor behind a character (`RSkComponentTextInput.cpp:340`); a focus on the main thread clears the text and the cursor (`:553-555`); the key erases what lies before the first character of its copy (`:341`). In the same way left and right may move a cursor that was just reset, and a key may store the length of a text that is cleared at that moment. |
| `LayerTreeMoved.cfg` | `MCLayerTree` | `MovedViewsShown` | A view that one transaction removes and inserts again keeps `LayerRemoveInvalidate` (`insertChild` does not clear it); the next pre-paint takes it out of the list although it is mounted (`Layer.cpp:220`). |
| `LayerTreeOrder.cfg` | `MCLayerTree` | `OrderFollowsReact` | Removed layers are still in `children_` when the insertions of the transaction count their indices: `[A, B]` without `A` and with `C` behind `B` becomes `[C, B]`, and `C` is drawn below `B`. |
| `LayerTreeOverflow.cfg` | `MCLayerTree` | `ScreenCurrent` | A child that sticks out of a parent that does not clip is not painted when only its outer part is damaged, because `needsPainting` of the parent looks at the parent's own bounds. |
| `LayerTreeReparented.cfg` | `MCLayerTree` | `ScreenCurrent` | A view moved out of or into a scroll layer has bounds in the coordinates of its old parent; they are added to the damage of the new one, and the old pixels stay. |
| `OnScreenKeyboardExitStuck.cfg` | `OnScreenKeyboard` | `ExitNeverBlocks` | `exit()` takes the mutex and joins the worker while the worker's callback has passed its check of the state and waits for the mutex to draw. The comments at `OnScreenKeyBoard.cpp:100` and `:104` mean to avoid this. |

The same models show more of the kind:

* A size change before `TaskLoop::run()` sets `Scheduled` for a rendering that the
  loop drops, and no commit schedules one any more (`ScheduledBacked` under
  `ResizeSpec`).
* With size changes two threads can be in the tree at once (`TreeExclusive`
  under `ResizeSpec`), and a size change between pre-paint and the end of a
  scheduled rendering sets `needsResize` for a rendering nobody schedules
  (`Compositor.cpp:183`).
* `getTimeRemaining` divides by 1000 and is compared with milliseconds
  (`FollyTimer.cpp:108, 169`): a shorter timer does not replace the longer
  one and comes late. For the cache this delays the expiry and loses nothing
  (`ImplementsCache`).
* `deleteTimer` frees timers whose pointers `timerDidFire` still uses
  (`RSkTimingModule.cpp:112-130`); deleting two immediate timers dereferences a
  null `timer_` (line 176). `PointersValid` names these states.
* A cached response without a body is never answered
  (`CurlNetworking.cpp:289`), and neither is a request that `sendRequest` refuses
  (`:297-299, 332-333, 338-340`), whose result the image component ignores: it
  stays in progress until its source changes. The phases `unanswered` and
  `refused` are these ends, and `Answered` does not promise anything for them.
* A script's request is listed only after `sendRequest` has returned
  (`RSkNetworkingModule.cpp:99`). If it was completed before, the list holds a
  deleted request, and an abort uses it (`ScriptAbort`). The header callback of an
  image dereferences `remoteCurlRequest_` after it was cleared
  (`RSkComponentImage.cpp:367`, `HeaderCallback`).
* The component that the input thread has found may be deleted before it gets
  the focus, and `currentContainer_` is never cleared
  (`RSkSpatialNavigator.cpp:430`): `UseDeleted`.
* The text input's thread tests the queue without its mutex and may take the
  front of a queue that was emptied (`ThreadNoKey`). A navigation key turns
  `waitForupdateProps` off for the rest of the session
  (`RSkComponentTextInput.cpp:336`), and a text that is too long, or that the script
  refuses, leaves the thread waiting for the next text of the script. A text set by
  the script that is shorter than the cursor's distance from the end leaves the
  cursor outside of it (`:511`). `KeysKept` and `CursorInText` name these
  conditions as their premises.

## 6. Not modelled

`PROJECT.json` says for every component what is left out. Pure drawing, text
layout, plugins and the calls of X11, libWPE, EGL and Skia have no state that
other threads can disturb; their events are inputs of the models. Of the layer
tree, transforms, shadows, opacity, hidden layers, the scroll bar and the build
with scroll bitmaps are left out: they change what a layer covers and how it is
drawn, not when. Alerts and web sockets are on the plan. Several text inputs at once share the file-level queue
and semaphore of `RSkComponentTextInput.cpp`; the model has one.

Most of the repository's C++ is not this program. Of some 51 000 lines, about
16 000 are `ReactSkia/` and `rns_shell/`; the others are Chromium's compiler plugins
and rewriting tools (`tools/clang`), its Skia extensions (`skia/ext`), Skia's
sample application framework (`sk_app`), and their tests. They are used to build
or are vendored; they hold no logic of this program and are not modelled. Of
the program's own lines many draw, lay out keys, convert between
types or talk to a platform.

## 7. Plan

Done: the rendering pipeline, partial updates, the layer tree, notifications,
keys, timers, caches, networking and images, scroll views, spatial navigation, the
on-screen keyboard with its window, text input; and proofs for all of them.

Next:

1. `Alert` on top of `WindowDelegator`, and two text inputs that share a queue.
2. Web sockets.
3. Shadows and transforms in `LayerTree`, and the build with scroll bitmaps.

Proofs to come: that `RenderPipeline` implements an abstract specification of mounting
in which a revision is committed, then pulled, then shown.
