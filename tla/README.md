# React's schedulers, reconciler and event systems, specified in TLA+

This directory holds a TLA+ specification of the parts of this repository (React 16.6) that decide
*when* work runs, *which* work runs, what must not get lost on the way, and what the user sees in the end.
The code is single-threaded JavaScript, but its difficulty is that of a concurrent program: work is cut
into slices, thrown away and restarted, suspended on promises, requested from inside the work itself,
interrupted by exceptions, and handed from one queue to another by flags that several functions set.

Paths below are relative to `src/packages/`. `PROJECT.json` names, for every definition, the lines it stands for.

## 1. Inventory

| component | state | operations | interacts with | hard because | correct when |
|---|---|---|---|---|---|
| callback queue, `scheduler/src/Scheduler.js:10-410` | circular list of callbacks, priority context (3 globals), 2 flags | scheduleCallback, cancelCallback, runWithPriority, wrapCallback, flushWork, flushImmediateWork | requests the host, is called back by it; calls user code, which calls it again | re-entrance, exceptions through nested loops, continuations | list ordered, no callback forgotten, context restored |
| hosts, `Scheduler.js:412-704` | one request, 3 flags, frame heuristic; messages, frames and timers in the browser | requestHostCallback, cancelHostCallback, idleTick, animationTick | called by the queue; calls flushWork | frame and timeout race, cancelled requests whose message is in flight, frames that never come | no wakeup lost, request served, flushWork never re-entered |
| levels of a root, `react-reconciler/src/ReactFiberPendingPriority.js` | the ends of two ranges of levels, a ping, an error flag, two derived times | the mark functions, findNextExpirationTimeToWorkOn, queries | called by the root scheduler at every turn | only ends are kept: the levels between are hidden | consistent ends, work forgotten by commits only |
| root scheduler, `ReactFiberScheduler.js` | list of roots, callback of the queue, render in progress, finished trees, timers | requestWork, scheduleWork, performWork, renderRoot, commitRoot, onSuspend, onTimeout, retrySuspendedRoot, batchedUpdates, flushSync | schedules callbacks on the queue; calls begin and complete work; called by updates from anywhere | yields, interruptions, batches, errors, promises and timeouts in any order | roots with work are scheduled, sync work done before the task ends, no stale commit, no starvation |
| update queue, `ReactUpdateQueue.js` | two linked lists per component, base state | enqueueUpdate, processUpdateQueue, enqueueCapturedUpdate, commitUpdateQueue | read while rendering, extended by updates at any time | skipping by priority and rebasing, two queues that share a tail, renders thrown away | every update applied exactly once, in order, in the end |
| child reconciler, `ReactChildFiber.js` | the sibling list of a parent | reconcileChildFibers and its cases | called by begin work; marks effects for the commit | keys, moves, holes | the committed list is the list of elements, state is kept by key |
| fiber walk, `ReactFiberBeginWork.js`, `ReactFiberCompleteWork.js`, `ReactFiberUnwindWork.js`, `ReactFiberStack.js` | two trees of fibers, cursor, stacks, effect list | beginWork, completeUnitOfWork, throwException, unwindWork, push and pop | driven by renderRoot; result read by commitRoot | bailouts, errors and suspense in the middle, resuming after a yield | stacks balanced, no work skipped, effects complete |
| class components, `ReactFiberClassComponent.js` | instance shared by all attempts at a render | construct, mount, resume, update, lifecycles | begin work, commit | attempts given up leave their traces on the instance | each commit is heard once, with the values before it |
| commit phase, `ReactFiberCommitWork.js` | effect list | three passes, detaching, refs, lifecycles | calls user code, which may throw or schedule | one effect of several failing | every effect carried out once, errors to a boundary |
| contexts, `ReactFiberNewContext.js`, `ReactFiberContext.js` | stacks of values, dependency lists | pushProvider, propagateContextChange, readContext; legacy push, pop, invalidate | begin work | bailouts between provider and reader | readers of a changed value re-render |
| search of the current fiber, `ReactFiberTreeReflection.js` | none | findCurrentFiberUsingSlowPath | findDOMNode, events | half of the tree is relinked | the fiber on the screen is found |
| hydration, `ReactFiberHydrationContext.js` | cursor over DOM nodes | enter, tryToClaim, pop | begin and complete work; markup of the server | mismatches, errors, restarts | the document shows the element |
| ReactDOM roots and batches, `react-dom/src/client/ReactDOM.js` | batches sorted by expiration, their callbacks | render, commit, then, _onComplete | flushRoot, completeRoot's deferral | batches committed out of order or while rendering | nothing rendered is lost |
| controlled inputs, `react-dom/src/client/inputValueTracking.js`, `events/ReactControlledComponent.js` | tracked values, restore queue, batching flag | change events, restore | events, interactive updates | the user types between a render and its commit | fields show the state, no change goes unreported |
| event system, `events/`, `react-dom/src/events/` | queue of synthetic events, pool, first error | dispatchEvent, handleTopLevel, extractEvents, runEventsInBatch | listeners call everything | nested roots, nested dispatch, handlers that throw | listeners called once, in order |
| text and selection events, `BeforeInputEventPlugin.js`, `SelectEventPlugin.js` | flags of the plugin, fallback composition | extractEvents | event system | each browser sends other events | what is typed or selected is told once |
| responder system, `events/ResponderEventPlugin.js` | current responder, touch bank | negotiation | event system | order of grant, terminate, reject | one responder at a time, each released or terminated |
| hosts of the commit, `ReactDOMHostConfig.js`, `ReactNativeHostConfig.js` and others | children of nodes | append, insert, remove | commit phase | indices, containers that are comments | children in order |
| properties, `ReactDOMComponent.js`, `ReactNativeAttributePayload.js` | what the host last got | diffing, commitUpdate | complete work, commit | nested styles, offscreen, order of writes | the node shows its props |
| server renderer, `react-dom/src/server/ReactPartialRenderer.js` | stack of frames, context stack; global values | read, destroy, pushProvider | components, each other | interleaved streams, errors | each stream is what a lone one would be |
| interaction tracing, `scheduler/src/Tracing.js` | counts of outstanding work | trace, wrap, cancel | root scheduler | work that is restarted or never done | count exact, completed once |
| react-cache, `react-cache/src/` | LRU list, thenables | read, add, cleanup | the queue, for clean-up | eviction of entries in use | used entries are kept |
| create-subscription | source, unsubscribe | commit hooks, callbacks | | source changes before commit, late values | the source's value is shown |
| isomorphic API, dev tools, profiling, tooling | | | | constructors, warnings, timing | not modelled |

## 2. Plan

The order follows the importance of the behaviour for the user of the library; everything but the last item is done.

1. `HostCallback`, `SchedulerHostDOM`, `Scheduler`: when code gets to run at all, with proofs.
2. `PendingPriority`, `RootLevels`, `RootScheduler`: from an update to its commit, with proofs.
3. `UpdateQueue`: the two linked lists of a component, with proofs.
4. `FiberTree`, `Suspense`, `SyncSuspense` (with proofs), `TreeReflection`: the walk through the tree of fibers.
5. `ChildReconciler`, `ClassComponent` and `LegacyContext` (both with proofs), `Hydration`: what single fibers do.
6. `ControlledInputs` (with proofs), `Events`, `TextEvents`, `SelectEvents`, `Responder`, `HostChildren` and `DomProperties` (the five with proofs),
   `NativeProps`, `ServerRenderer`: the renderers.
7. `Batches`, `Tracing`, `Subscription` and `Cache`, all with proofs.
8. *(left)* `ReactChildren`, the shallow renderer, selects and text areas, persistent mode, the host without a DOM;
   a refinement of `UpdateQueue` to a plain list of updates.

## 3. The modules and the code

### When code runs

**`HostCallback`** is the contract between the callback queue and its environment: one request at a time,
a later one replaces it; it is served by one call of flushWork, during which nothing else runs; a call claims a timeout only
if the request's timeout has passed. It is at once the abstract specification of the hosts and, by EXTENDS, the
environment of `Scheduler`.

**`SchedulerHostDOM`** is the polyfill of requestIdleCallback. Its variables are those of the code (lines 553-566),
and the browser's: posted messages, outstanding frames and outstanding frame timeouts. Actions: a request
(`RequestHostCallback`, with or without the cancellation that precedes it), the two outcomes of `idleTick`, the return of
flushWork, `animationTick` reached by the frame or by its timeout, and the clock. A frame's timestamp may be older than the
clock by up to `FrameLag`.

**`Scheduler`** is the callback queue. What is in progress is a call stack of four kinds of frames: the two loops,
a callback, a handler. User code on top of the stack may do anything the API allows. The order of the steps inside a
function is kept where it can be observed, i.e. around calls of user code: `flushFirstCallback` is `CallFirst` up to
the call, and `CallbackReturns`, `CallbackReturnsContinuation` or an exception after it; `finally` blocks are actions enabled
whether or not an exception is passing (`throwing`). Whether the frame is over is the host's business, so a loop in a frame
may stop after any callback. A handler is `runWithPriority` or a wrapped callback, which differ only in where the priority
comes from. Continuations keep the id of the callback they continue.

**`PendingPriority`** has the functions of ReactFiberPendingPriority.js, from a record of levels to a record of
levels; **`RootLevels`** the specification that results when they are called in any order with any level, under the
only conditions their callers establish (a ping is for a suspended level). **`RootScheduler`** uses the functions and
is shown to implement `RootLevels` for every root. `RootLevels` allows nearly every order of calls: the refinement says that the scheduler never
touches a root's levels in another way, not that it calls at the right time.

**`RootScheduler`** has one action per entry point (events, batches, promises, timers, the queue's callback) and one per
point at which user code runs or the outcome of a render is decided. A fiber tree is abstracted to the levels at which
it has updates (`work`): a render at a level processes those up to it, and an update that arrives after it began may or may
not be seen by it. A finished tree remembers what is left in it. `performing` is the caller of performWorkOnRoot,
`phase` the place in it. Variables that the code leaves set after a performWork and sets again before reading
(nextFlushedRoot, nextFlushedExpirationTime) are reset, to keep the state space small. Timers and the `didTimeout` of the
queue's callback are not tied to the clock: a timer may fire at any time after it was set, which allows more behaviours
than the code has and is sound for safety.

**`Batches`** has the rest of the root scheduler that ReactDOM's batches need: `createBatch`, `render`, `commit` and `then`
of a batch, `render` of the root, `completeRoot`'s deferral, `flushRoot` and the completion callbacks of `finishRendering`.

### What is rendered

**`UpdateQueue`** has the queues of one mounted fiber and its alternate. Updates and queues live in heaps and have names, because
what can go wrong is in the pointers: both fibers may hold one queue, two queues share a list, an update is in a list of
effects that another render left. The state is free: the sequence of the updates applied, of which the result of any payload
(partial state, replacement, updater function) is a function; so "the same state" means the same updates in the same order.
Actions: `EnqueueUpdate` (setState and its relatives, on either fiber, with scheduleWorkToRoot's effect on the two fibers),
`CreateWorkInProgress` (also of a render that starts over; it may come at any time, as renders are interrupted at any time),
`BailOut` and `BeginWork` (beginWork with processUpdateQueue), `ThrowException` (an error below the fiber, captured by it),
`BeginAgain` (unwindWork hands the boundary back to beginWork) and `CommitRoot` with commitUpdateQueue, whose callbacks may
throw. A commit that cannot end is the phase `"hung"`. The loops of processUpdateQueue are written as what they compute
(`Due`, `Skipped`, `BeforeSkipped`); only the pushing of effects, whose links depend on what is there, goes step by step.
Which level is rendered is left to the root scheduler: here it is any.

**`FiberTree`** walks a small tree of roots, classes, providers, consumers and hosts, fiber by fiber: one action per unit of
work and per turn of completeUnitOfWork, with bailouts, cloning of children, child expiration times, context propagation,
the cursors of the context stacks, the effect list, errors in render, creation, lifecycles and unmounts, unwinding,
interruption, and a commit effect by effect. **`Suspense`** adds boundaries in concurrent mode with their two sets of
children, promises and retries. **`TreeReflection`** is evaluated on its states.

**`SyncSuspense`** has a boundary outside of concurrent mode around one component of any type (function, factory, class, pure
class, forwardRef, memo and simple memo, and any of them loaded lazily): mountIndeterminateComponent, mountLazyComponent,
mountIncompleteClassComponent, updateMemoComponent and its simple form, the two commits of a timeout, and the retry.

**`ChildReconciler`** reconciles any two children values one after the other, and commits the effects to a DOM: the three
single cases, arrays and iterators with their maps by key, fragments, portals and holes; `commitPlacement`,
`getHostSibling` and `unmountHostComponents`.

**`ClassComponent`** follows one instance through attempts, renders given up, captured errors and commits.
**`LegacyContext`** is a chain of class components that provide, pass on or consume legacy context.
**`Hydration`** adopts the server's nodes for an element, with mismatches, an error boundary and restarts; the markup is what
`ReactPartialRenderer` makes of an element.

### What the user sees

**`ControlledInputs`**, **`Events`** (on **`HostTree`**), **`TextEvents`**, **`SelectEvents`** and **`Responder`** (on `HostTree`) have one
action per native event, or per call of a listener where listeners can act in between. **`HostChildren`** has the mutation
methods of four host configurations; **`NativeProps`** and **`DomProperties`** compute the difference of two sets of props
and apply it to a view or an element that only knows what it was sent. **`ServerRenderer`** lets streams take turns.

### Small libraries

**`Tracing`** has trace, wrap and cancel, nested in each other and in slices and commits of a root that records the
interactions per level. **`Cache`** has one resource with its circular list and the clean-up
callback, one step for each entry it deletes (`cleaning`): onDelete could throw between two of them. **`Subscription`** has
one component whose source changes at any time.

### Modules for TLC

`MC_Scheduler`, `MC_SchedulerHostDOM`, `MC_RootScheduler`, `MC_FiberTree` and `MC_ChildReconciler` define the values of
constants that a .cfg cannot write. `MC_Parts` and `MC_Dom` put components side by side that share nothing: the initial
state chooses the one that moves (`part`), the others keep one value. So a run of `dom` is thirteen models, one for each
value of `part`, and its properties are about the one they name. `*_proofs` hold theorems.

## 4. Runs

| run | specification | what it shows | bounds |
|---|---|---|---|
| `dom_host` | `FairSpec` | types, `HostInv`, the heuristic's action property, refinement of `HostCallback`, `RequestIsServed` | clock 0..8, frames of 4 then down to 2 (the code: 33 and 8), timeouts negative, past and future, 2 messages in flight |
| `scheduler` | `FairSchedulerSpec` | order and overtaking, no lost work, restored context, waiting callbacks are called | 3 callbacks (continued any number of times), stack up to 3 entered and a callback, clock 0..1 with timeouts in the order of the code's |
| `parts` | `PartsSpec` | levels, batches, tracing, cache, subscription, update queue, one at a time | 4 levels; 2 batches, 3 updates; 2 interactions, 2 wrapped functions, 2 updates, 3 nested calls; 3 keys, limits 1 and 2, 3 results; 2 sources of which one cannot be unsubscribed from, 2 changes; 3 updates at 2 levels, one of them captured |
| `root_scheduler` | `Spec` | roots with work wait for the right callback, no update out of reach, no stale tree, refinement of `RootLevels` | one root with suspense, 1 update; two roots with errors, fatal errors, updates from renders and lifecycles, 3 updates; clock 2..3 |
| `root_scheduler_live` | `FairSpec` | updates are committed | one root, 3 updates, clock 2..6 |
| `dom` | `DomSpec` | inputs, streams, events, responder, hosts, properties, suspense in synchronous mode, hydration, classes, legacy context, one at a time | see `MC_Dom`: trees of 4 nodes with roots in roots, 2 dispatches, a pool of 2; 3 views and 2 touches; 3 streams; texts of 3 letters in 4 kinds of browsers; 3 attempts and 1 setState; chains of 3 classes |
| `fiber_tree` | `Spec` | nothing is passed over, effect list, stacks, lifecycles, concealment, the current fiber is found, state is kept | two applications of 8 places, 2 levels and Never, up to 2 updates and 2 errors |
| `child_reconciler` | `Spec` | the DOM shows the tree, only what changed has effects | any two of the children values of `MC_ChildReconciler`, rows of up to 3 |
| `root_scheduler_timeout`, `suspense_stuck`, `child_reconciler_portal`, `update_queue_hang` | | violations, section 7 | |

Why the bounds are enough. The queue compares expirations of two callbacks at a time and a third is needed for one that
overtakes; depth 3 lets a handler run inside a callback inside a handler, the least nesting at which the two loops nest.
The ranges of levels have two ends: four levels give two ends and a level on either side, or two between. Two roots are
what the list's early stop at synchronous work needs (a root before and one after it), and interruptions need two
updates, a third one for a lifecycle's. The clock needs to pass one expiration. In a queue, one update is skipped, one applied
behind it, and a third arrives, or an error is captured, before or after a render is thrown away; a priority is either
sufficient or not, for which two levels do. In a tree, one update is skipped and one rendered, and the second error is the one
in the boundary that handles the first; each application has one Suspense boundary at most, so `PrimaryIsConcealed` says nothing of a
boundary inside the primary children of another. A row of three children has a move, a node that stays and one that is inserted between
them. A list in the cache of three keys and limit 1 or 2 has a head, a tail and one between. What the theorems of section 6 say does
not depend on these bounds.

CHECK_DEADLOCK is off where counters and clocks are bounded: the instance stops when they are used up.

## 5. Fairness

- `SchedulerHostDOM`: the browser delivers messages and runs timers (weak fairness), time passes and flushWork returns. Nothing is
  assumed of animation frames: in a background tab they do not come, which is why the code pairs each with a timeout.
- `Scheduler`: the host serves a request even if other tasks come first (strong fairness: the property `RequestIsServed`
  is what a host provides); the loops run on; a callback or handler returns in the end (strong, because handlers it enters
  may disable the return again and again).
- `RootScheduler`: what has been started goes on and ends (synchronous code); the queue's callback and the timers are
  called in the end although events may come first (strong); batches end; time passes. A slice need *not* make progress: the
  deadline may have passed when it starts, so that `UpdatesAreCommitted` rests on expiration alone.

The other specifications state no fairness and are checked for safety only.

## 6. Proofs

Every proof has the same outline: an invariant `IInv` that TLC checked on the instance of the run first, a lemma per action
that it is preserved, and the theorem from `IInv` and PTL. Clocks, counters and nesting are bounded in the specifications, by
constants of which the proofs assume only that they are natural numbers; so the theorems hold for any number of callbacks,
updates, roots and levels.

**`Parts_proofs`** is about what `MC_Parts` checks. *The levels of a root* (with the lemmas of **`PendingPriority_proofs`**), for every set of levels. `IInv` says that the record has its
type, both ranges are ordered with ends set and cleared together, a ping lies within the suspended range, and there is a level to
work on while work is known. A lemma per function (Extend, Withdraw, DropBefore, FindNext) says what it preserves; one step per
action of `Next` combines them. `LevelsAreSound` is `Spec => []LevelsInv`; `WorkIsForgottenByCommits` and `CommitsKeepTheRest`
are the two action properties, from the same invariant: without the order of the ends, a commit in the case "later than
all suspended work" could drop what it should keep. The only assumption is `TimesAssumption` (levels are positive, Sync is one of them). *Batches*, of any number and at any levels: `WorkIsKept`
says that a root which is not scheduled keeps a finished tree, and is strengthened by what that tree knows (`TreeFits`: every child it has
seen it has rendered or left in the queue, and what it left is later than its level, so that the commit finds a level that remains) and by what
the queue holds (`QueueFits`). One lemma per function of the scheduler says what it keeps of these; the rounds of performWork are a
recursive function, for which they are an induction by the least round that fails. That the batch being committed does not wait for itself is
carried through them (`StaysFit`), which is why `BatchCommit` leaves the root scheduled or with nothing to do. Nothing is assumed of the constants.

**`SchedulerHostDOM_proofs`**, for every frame length, lag, timeouts and clock. `IInv` is the types, `HostInv` (exactly one pair of
frame and timeout while the flag is set; a flagged message exists; a standing request has something on its way), and that
the last frame has started (frameDeadline - activeFrameTime is not in the future), which makes the heuristic's subtraction safe.
`TypeCorrect`, `NoWakeupIsLost` and `FrameTimeNeverGrows` follow. `DOMHostKeepsContract` is the refinement of `HostCallback`:
the initial state maps to its initial state, each action to one of its steps or to a stutter.

**`Scheduler_proofs`**, for every host that keeps the contract, any timeouts and any users. Three invariants over the stack of what is in
progress: the frames alternate as calls do and the bottom one saved the idle context (`ContextRestored`: induction over the
stack is not needed, since each frame says what the one below has saved); the queue is ordered by expiration and age, and what
stands before a callback that is being called came later and is more urgent (`CallbacksKeepTheirTurn`); the flags of a
request and of the loops under way agree with the stack (`NoWorkIsLost`).

**`RootScheduler_proofs`**, for any set of roots, clock, behaviours and delays. `TypeOK` and the properties are not inductive. `IInv` adds
what holds at each place of performWork: in the loop, the next root is the highest in the list (`LoopOK`); while a root is
performed, that it is scheduled or flushed (`PerformOK`); that a render belongs to the root being performed or is behind it
(`WipOK`); that during a commit the root's new levels, its work and its place in the list may disagree only in the way that the last
step of the commit repairs (`CommitOK`); that between tasks the callback comes no later than any root's expiration (`TaskOK`); and, per root,
that work, levels, finished trees, timers and promises fit (`RootsOK`). `WorkIsScheduled`, `WorkIsInReach` and
`LevelsImplemented`, the refinement of `RootLevels` for each root, follow. The proofs need from `RootSchedulerAssumption` that
MaxTime exceeds Sync.

**`UpdateQueue_proofs`**, for any number of updates and captured updates and any levels. The links of a list ascend, so that a list is the
set of its members in their order and reachability needs no induction over data: `TailOf` is a set defined by the order of
creation, and `LinksAscend` says the links visit it. `IInv` says of each queue that base state and list are all updates there have
been, in order (`ListFits`), of the lists of captured updates that they belong to the render under way (`CaughtFits`), of each fiber
that what is pending and not shown is scheduled (`FiberFits`), and that the queue of a render has nothing that the current one has not
(`RenderFits`). `UpdatesAreKept` is the property of the run; nextEffect links are not constrained beyond their type, because renders
that were given up leave arbitrary ones. This is also why `CallbacksRunWithTheirUpdate` is not proved: the order of an effect list that
is pushed to twice depends on what earlier renders left in it (`update_queue_hang` is a case where it goes wrong).

**`Parts_proofs`** also has *tracing*, for any levels and any nesting. That the counts are exact is preserved by each step alone, but that a count
never falls below zero is not: `TracingFits` says for every call on the stack what keeps the interactions of the code above it alive, a call of
its own or one around it (`Held`), that a wrapped function is on the stack at most once, and that the render's interactions are
pending at some level. The count of a set of calls and levels is a cardinality; the lemmas on them use `FiniteSetTheorems`.
*Create-subscription*, for any sources, of which any may be impossible to
unsubscribe from: `ShowsItsSource` speaks of the time when no update waits, the invariant of the time when some do. Of the updates in the queue
that apply to the base state the last is about the current value (`UpToDate`); behind a finished render there are only events of
sources that are listened to, the last of each current (`NewsFit`), so that what the component is told and what subscribe finds by
itself make up every change. A lemma says how `UpToDate` passes to what a render leaves (`AppliedInPart`), one how a change adds to it (`OneMoreUpdate`). *react-cache*, for any keys, limits and number of
results: the entries in the order of their last use are a ring (`Ring`), whose pointers in both directions go from each place to the one after
it, the last one to the first, and no two places have one entry; all nodes that are linked are in it, and the map has no other ones.
`RingGrows`, `RingShrinks` and `RingEnds` say what linking in a node, taking one out and cutting off the end do to a ring, for rings of one and
of two nodes too, where the neighbours coincide; adding, moving and each single deletion follow from them. The proof assumes
nothing of the constants.

**`Dom_proofs`** is about what `MC_Dom` checks one at a time. *Legacy context*, for any chain of components: `PassFits` says of a render that the components behind it fit the new context, those before it
still the old one, and that the two are equal where the flag on the stack says that nothing changed; equal contexts stay equal along
components that give the same (`ContextStaysTheSame`), so that a bailout leaves everything below as it should be. From `ContextAssumption` it needs
that chains are not empty and the key of no provider is none. *The selection*, for any text fields: the button counts as released only if it is, and the last
selection is the one listeners know of. *Text*, for any browsers, letters and length of text: `TextInv` says of the native events that are
still to come that they report what the user typed (`TypingIsDue`), have done so (`Rests`), or go through a composition by events with or
without textInput, or by keys (`InComposition`, stage by stage). That the plugin finds as many characters as were composed is a fact about texts with a head
and a tail in common (`DataAreFound`): though they may not be the ones typed, they explain the text. Asking the plugin again about the same event, for a root around,
changes nothing (`AskedTwice`). `TextAssumption` says, as the flags of the plugin do, that the data of compositions are not relied on where there are no such
events, and are relied on where there is textInput; and of browsers that those with textInput have composition events. *Class components*, for every kind of component and every queue of updates:
`Due` says of the work in progress, next to the fiber that is shown, that it has the effects of what it would show, or shows the props that are shown
already, or rendered again only because of an error. The step that needs an argument is the second attempt after an error: the state it
shows is a new object (`FreshIsNew`), so that a component that always updates does so, whatever else is in its queue. What the queue computes
stays a function of which nothing is known.
*Controlled inputs*, for any group of radio buttons, a text field and any nesting of events: `InputsInv` says that of the group at most one button
is checked, in the nodes, in what is rendered and in every update; that a field that waits for its restore has its value tracked; and that
all the others, but for the group of one that waits, show what is rendered. An update of a field loses nothing that another one shows
(`Follows`), so that the loops of a commit and of the restore, recursive functions that exist by a least counterexample, leave all of the
group shown (`UpdatedInTurnFits`, `FieldsRestored`). The step that needs an argument is the user's change: either the flush before its
event left the field alone, and it differs from its tracker, or it rendered the field (`UserChangesFits`). From `InputsAssumption` the proof
needs that the group is finite and has not got the text field in it.
*Responders*, for any tree of views and any number of fingers: `ResponderInv` says how far the plugin's count is behind or ahead of the
fingers while the events of a group are dispatched one by one (`Pending`), that the touch history is wrong about the touches of the group alone,
and that the one who was granted the touches is the responder. That whoever is asked is another view than the responder,
and around it, is a fact about trees (`AskedAreAround`): the paths of two views that meet go on alike (`LinesMeet`), and no view is around
itself (`NothingIsInItself`). From `HostTreeAssumption` the proof needs that nothing goes up forever, so that the recursive function that
collects a path exists and is the line of parents (`PathsAreLines`); from `ResponderAssumption` that there are finitely many identifiers.
*Elements*, for any sets of props in which every attribute has one name and every style is a property of its own: `ElementInv` says that an
element has the attributes, properties and styles that its props make (`Wears`), and one that has lost no child the content that the child it has
makes, even while the child is not the one asked for (offscreen). What was written before is undone name by name: a name that did not change is written in neither
or alike in both, and one that did is written as in a new element (`ChangedAttributes`, `ChangedStyles`); the content goes through deletion,
placement, reset and text in the order of the commit (`UpdatesKeepInv`). autoFocus is the exception: only updates write it, and it stays when it is
dropped, so the comparison with a new element leaves it out (`FocusIsApart`: what is set of it disturbs no other attribute), and it is only
said to be right where it is given and written (`FocusIsWritten`). From `PropsAssumption` the proof needs that no two names have
one attribute, so that no deletion takes what another name has set, and that HTML and children exclude each other.
*Suspense in synchronous mode*, for any components, props, promises and refs: `SuspenseInv` says of the component's fiber, alone (`LoneFits`) or with
the fiber of memo around it (`InnerFits`), that it has the props the element asks for, and of what it shows that it was
rendered with the props it is said to have last been rendered with; that is what bailouts, which compare with these, need. What a render can
come to (`RendersLeaf`, `Throws`, `IsSkipped`, `Stays`) fits in each of the ways a fiber begins it; and while the fiber is empty a
promise that will call knows it and schedules it (`BoundaryInv`): if an attempt cuts the fiber off from the ones that know it, it
has thrown again or completed. From `SuspenseAssumption` the proof needs that no
value and no default is the one for "nothing", and that only what memo makes has defaults inside; the rest of it says which types the model is faithful for.

**`HostChildren_proofs`**, for any number of instances and children, on each host. That every instance shows the children asked
for is not enough for the next call to do the same: `HostsInv` adds that the next tag is larger than all there are (`TagsAreNew`), so that an
instance never takes another one's place; that a child stands once in one list and that what is taken out with it stands nowhere else (`HasOnePlace`), so that a
removed subtree leaves nothing behind; that the lists fit in instances that are not attached as well; and of React Native that
each view has the children of its instance and that an instance without a place has a view without a parent (`ViewsMirror`), which is why no operation
is refused. The lemmas under it are about lists, entry by entry: what is left after a removal and what an insertion puts where, that
the index before a sibling, computed in the list without the child, is the place asked for, and that it is moved by one in the DOM's
container, a comment with foreign nodes on both sides. `HostAssumption` (the bound on first children is a number) is needed for nothing but the
type of what instances are created with; it bounds the runs.

Only model-checked, and why:

- liveness (`RequestIsServed`, `WorkIsCalled`, `UpdatesAreCommitted`): needs fairness and ENABLED, beyond the prover;
- `ChildReconciler`, `Events`, `FiberTree`, `Hydration`, `NativeProps`, `ServerRenderer`, `Suspense`, `TreeReflection`: trees and
  recursive operators; what a recursive definition yields for every input needs induction over data;
- `CallbacksRunWithTheirUpdate`, for the reason above.

## 7. Findings

Violations that a run shows:

- **A suspended tree without a timeout** (`root_scheduler_timeout`). If the timeout has passed when the tree is finished, but
  so has the slice, onSuspend neither keeps the tree nor sets a timer, and the fallback never shows unless the promise resolves.
- **A boundary that stays on its fallback** (`suspense_stuck`). `alreadyCaptured` is reset only when didTimeout changes. A boundary that
  is retried and suspends again keeps it; the retry after the data have arrived renders the fallback without a look at its children.
- **The container of an empty portal** (`child_reconciler_portal`). The walk over a deleted subtree takes the portal's container for the
  parent to remove from and returns from it only if the portal had a child; what follows an empty portal is removed from the wrong parent.
- **A commit that never ends** (`update_queue_hang`). An error boundary skips a less urgent update and applies a more
  urgent one with a callback; a child throws; the boundary is begun a second time with the same queue. The update is applied and
  pushed to the list of effects again, and being the only one in it is linked to itself: commitUpdateEffects calls the
  callback once and then goes round for ever. With two callbacks in the list the relinking happens to come out right.

Also met, modelled where the properties allow it, and not kept as runs. Where a model has a variable that excuses such a case, its name is given.

*Scheduling.*
- `isExecutingCallback` is reset by the inner loop while the callback of the outer one is running; the only effect is a
  superfluous request to the host. Immediate callbacks behind one that has expired earlier wait for the next frame, though
  `Scheduler.js:256` promises otherwise.
- A ping that arrives between two slices of a render at its level or a later one is forgotten at the end of that render
  (`ReactFiberPendingPriority.js:123`, with a TODO).
- A failure of the creation of a host instance in a later round of completeUnitOfWork is taken for a fatal error
  (`ReactFiberScheduler.js:966`).
- `Batches`: finishedWork is not cleared by later updates, so that a synchronous update behind a batch's finished tree commits it without
  commit(); batch.commit() then throws "Cannot commit an incomplete root" and leaves `isRendering` set. After its timeout, performAsyncWork
  renders batches that came earlier. Committing a later batch shows the earlier one's finished tree. commit() of an empty batch cuts
  off the batches behind it. flushRoot renders only nextExpirationTimeToWorkOn, though `ReactDOM.js:257` says otherwise.

*Queues and trees.*
- `UpdateQueue`: captured updates are lost by a rebase, which finds them applied already (`ReactUpdateQueue.js:595`); an update that is rebased keeps
  its own priority, and what was on the screen may disappear until it is processed again (82-85 promise only the final state).
- `SyncSuspense`: memo bails out with the props of the leaf's last completed render, which are stale after it threw
  (`ReactFiberBeginWork.js:300-311`; `misled`). A component whose parent goes back to the earlier props stays blank until the promise
  calls. A custom compare gets null as previous props if the leaf suspended on mount. A class that suspends with a new ref never gets
  it attached. Lazily loaded memo objects lose their outer defaultProps on updates (1850-1871 against 914-922).
- `ClassComponent`: a boundary with shouldComponentUpdate false, or pure, that captures an error renders its fallback without componentDidUpdate;
  an instance keeps props and state of a render given up until the next begin or commit.
- `LegacyContext`: the merged child context stays on the instance even if the render is given up; a root update with the same element and another
  parent context is dropped; a completed but uncommitted render consumes pendingContext.
- `TreeReflection`: a boundary that suspends wraps its children in a fragment without alternate; findCurrentFiberUsingSlowPath takes the fragment for
  the root and throws "Unable to find node on an unmounted component" for mounted components. The run excludes fibers below such a fragment.
- `Hydration`: an error captured by a boundary while hydrating leaves hydrationParentFiber at a discarded fiber, although
  `ReactFiberHydrationContext.js:43-44` calls it the deepest one on the stack; hosts above it complete as not hydrated, or deletions name a node of
  another parent. Attributes are not patched.
- `Subscription`: a source that changes in a render that leaves updates out may have a stale value shown for good (`switchedOver`).

*Renderers.*
- `ControlledInputs`: pending interactive updates are flushed before the event; if that renders the field first, the user's change is undone, or is
  taken for the program's, and onChange is not called (`overtaken`); two radio changes of one group in a batch are missed.
- `Events`: an error in an inner root's listener keeps the outer roots' listeners from being called; a nested dispatch throws the outer one's first
  error; elements around a nested root get leave and enter although the mouse stays in them (`ReactTreeTraversal.js:107`).
- `TextEvents`: hasSpaceKeypress is never reset, so that a space of a keyboard without keypress is lost after a real one; with nested roots the outer
  root misses what the inner one took from the fallback composition.
- `SelectEvents`: a mouse button released where the document does not hear it silences select events until it is pressed and released again.
- `Responder`: `trackedTouchCount >= 0` lets the count reach -1; the grant is called before the old responder is asked to terminate.
- `NativeProps`: undefined in nested styles sends nothing, though `ReactNativeAttributePayload.js:291` says it is removed.
- `DomProperties`: text of an offscreen element is overwritten (`lost`). autoFocus is passed over by the first loop of diffProperties
  ("It doesn't work on updates anyway", `ReactDOMComponent.js:684`) and for new elements (308), but not by the second loop (699-799): an update that
  adds or changes it writes the attribute, although `DOMProperty.js:282` says that it is never written on the client, and dropping it leaves
  the attribute behind. So an updated element and a new one with the same props differ in it, and `ElementShowsProps` makes the exception.
- `ServerRenderer`: an error inside a provider leaves its value behind for later requests; interleaved streams see each other's context values
  (766-770); the finally block of a nested renderToString sets currentDispatcher to null for the outer read. The property speaks of streams
  that no other disturbs.
- `Tracing`: cancel after the wrapped function has run decrements a second time; a subscriber that throws leaves counts undecremented. `Cache`: add never
  calls scheduleCleanUp, so that the limit is exceeded until something else does (comment at `LRU.js:30`).

## 8. Not modelled

Section 1's remaining rows, for the reasons in `PROJECT.json`. Within the modelled components: the nested update limit (50 in the code, beyond a
small instance), development-only code, warnings and profiling, persistent mode, observed bits of contexts, `this.state =`,
attributes in hydration, two names of one attribute and shorthands together with the styles they contain (styleUpdates goes by name, so that
unsetting a shorthand also takes a longhand that did not change: `DomProperties` takes every style for a property of its own), callbacks of
a batch's completion that run inside the flush of its commit(), before the batch is popped (`ReactDOM.js:259-264`; `Batches` runs them
between its actions), the registry of event plugins, stale references to released events, Google Input Tools and the Korean composition
path of IE, selects, text areas and number inputs, class components on the server. Arithmetic of expiration times (units of 10 ms, buckets) is
abstracted to delays.
