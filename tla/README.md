# Verification of simple_scheduler

TLA+ models of the parts of `simple_scheduler` whose correctness depends on
interleavings, failures or long runs, the TLC configurations that check them,
and TLAPS proofs. The repository has no design document: every definition is
read off the source, and what the source promises is taken from its comments,
its exceptions, its tests and the names of its classes and functions.

The repository has two kinds of program. The Java modules are queues, locks,
semaphores and small algorithms. The scripts under `src/tmp/plugins/admin/webapp/js`
are the pages of an administration console: they run in the one thread of a
page, and what is hard there are events, timers, answers of the server and
callbacks in an order that nobody wrote a test for, and dates.

## Inventory

Paths: *ED* is `src/enterprise_db/src/main/java/org/allesoft/enterprise_db`,
*SS* is `src/src/main/java/org/allesoft/simple_scheduler`, *JS* is
`src/tmp/plugins/admin/webapp/js`.

| Part | State | Operations | Interacts by | What is hard | What makes it correct |
|---|---|---|---|---|---|
| Asynchronous persist queue (*ED*`/queue/service`) | data queue (unbounded), control queue (one token), the batch | `save` by any thread; `flush`, an endless loop run by a scheduler | two shared queues; a call of `QueueConsumer.save` | producers offer during the scan and between the polls; tokens are dropped; the consumer throws half-way; the context closes | nothing lost, nothing reordered, nothing stored twice without a failure, no lost wakeup, everything stored in the end |
| Legacy persist queue (*ED*) | two queues, a batch that is never cleared | `fill`, `flush` | as above | one entry peeked repeatedly, one polled too few | what it loses is bounded, the queue is emptied |
| Concurrent transaction manager (*ED*`/queue/service/impl`, a copy in *SS*`/scheduler/cache/low`) | one 0/1 lock per `Lockable`, the references | `commit`, `GraphDelete.delete` | compare-and-set on shared locks | locks taken one by one, cleanup after a refusal, retries, lists that overlap | exclusion, exact cleanup, updates in place together, some commit gets through |
| Allocation (*SS*`/scheduler/Algorithm.java`) | the cost matrix, overwritten | `allocateMatrix` | called by the scheduler | fixpoint marking, rounds that change the matrix, backtracking | the search ends; what it returns is an optimal allocation |
| Scheduler (*SS*`/scheduler`) | option cache, options with results, assignments | `run` | an executor, the allocation | results read before the executor has set them; an index that is not reset | every option is calculated in the end; one worker per job |
| Binary semaphores (*ED*`/queue/service/impl`, six variants) | a flag, and parking, permits, a monitor, a condition, a synchronizer or a queue | `signal`, `await` / `wait` | shared flag, wakeups | a signal between the test and the sleep, spurious wakeups, interrupts, several waiters | a signal lets exactly one waiter through, and does in the end |
| Mesh emulation queue (*SS*`/nrf52/mesh`) | ring of 100, write position, one read position per thread | `put`, `take` | a lock and a condition | wrap-around, slow readers | every reader sees every message once |
| JMS consumer (`enterprise_message`) | message list, session | `onMessage`, `flushMessages`, timed waits, start and stop | monitor, broker | test and wait are two steps; sessions that are never committed | nothing skipped within a session; the wait ends for a reason |
| Effects (*JS*`/effects.js`) | queues of effects, a timer, styles to put back | `start`, `add`, `loop`, `cancel`, the combination effects, `toggle` | timers, callbacks | late timers, effects added in callbacks, overlapping effects | order of the queue, nothing drawn after the end, styles put back |
| Drag and drop (*JS*`/dragdrop.js`) | active drag, marks, clones, order of lists | press, move, release, Escape; `Sortable` | the mouse, the page, scroll timers | an element on its way home, droppables removed in a drag, Escape at any time | items conserved, dropped where released, nothing left over |
| Autocompletion and editing (*JS*`/controls.js`) | menu, timers, requests; element or form | keys, pointer, focus, answers; edit, save, load | server, timers | answers out of order, timers that nobody clears | the menu belongs to the field and its focus; saving ends |
| Slider (*JS*`/slider.js`) | handles, values | press, drag, `setValue` | the mouse and the page at once | fitting and snapping, neighbours | order of the handles; the page knows the values |
| Requests (*JS*`/prototype.js`, `Ajax`) | transports, count of requests, updaters | request, state changes, stop and start | browser, server, callbacks | repeated signals, callbacks that throw or block | each completes once; the count; one loop |
| Event registry (*JS*`/prototype.js`) | responders in a cache and in the browser | `observe`, `stopObserving`, `fire`, `purge` | handlers that do any of it | changes while an event is on its way | cache and browser agree |
| Calendar (*JS*`/jscalendar`) | date, grid, popup, listeners | keys, clicks, drags, `parseDate`, `print` | the field, the document, other calendars | ends of weeks, months and years, disabled dates, drags that end elsewhere | what is shown is the date, what is stored is read again |
| Tooltips (*JS*`/tooltips`) | a tip per owner, timers, fader, hidden lists | activate, show, deactivate, trail, drag | timers, the page | timers that fire late, fades that cross, tips near the edge | timers belong to a tip, lists come back, tips stay on the page |
| Test runner (*JS*`/unittest.js`) | counters, current test | `runTests`, `wait`, assertions | timers, callbacks of tests | parts that throw, wait and fail | isolation, the result agrees with the log |
| Simplex graph, green threads, JDBC templates, parser combinators, executor experiment, exercises, `PrioritizedLock`, servers, behaviours, lightbox, forms, the rest of prototype.js, small scripts | | | | | see "Not modelled" |

`PROJECT.json` lists the hazards of this code line by line, with the properties
that cover each.

## Modules

| Module | Models |
|---|---|
| `PersistLog` | abstract: a log with at-least-once delivery in order |
| `AsyncPersist` | `QueueFrontServiceImpl.save`, `AsyncPersistServiceImpl.flush`, the scheduled task, the consumer |
| `LegacyPersist` | the earlier `flush` and `QueueFillerProvider` |
| `TransactionManager` | `ConcurrentTransactionManager.commit` and `cleanup`, the call of `GraphDelete.delete` |
| `Allocation` | `Algorithm.allocateMatrix` |
| `SchedulerRun` | `SchedulerImpl.run`, the option cache, the executor |
| `BinaryEvent` | abstract: a flag raised by `signal` and consumed by one waiter |
| `BinarySemaphore`, `SimpleBinarySemaphore`, `MonitorBinarySemaphore`, `BlockingQueueBinarySemaphore`, `LockBinarySemaphore` | the classes of these names |
| `Broadcast` | abstract: every reader receives every message from where it started |
| `MeshQueue` | `ThreadLocalArrayBackedQueue` as `Emulate` uses it |
| `MessageConsumer` | `ConsumerBean`, `SpringConsumer` |
| `EffectQueue`, `EffectStyle` | `Effect.ScopedQueue` and `Effect.Base`; what the combination effects change and put back |
| `DragDrop`, `Sortable` | `Draggables`, `Draggable`, `Droppables`; `Sortable` |
| `Autocompleter`, `InPlaceEditor` | the objects of `controls.js` of these names |
| `Slider` | `Control.Slider` |
| `AjaxRequest`, `PeriodicalUpdater` | `Ajax.Request` with its responders; `Ajax.PeriodicalUpdater` |
| `EventRegistry` | `Event.observe`, `stopObserving`, `fire` and the purge of an element |
| `CivilDate`, `CalendarParse` | `Date` of the browser with the patches of `calendar.js`; `print` and `parseDate` |
| `CalendarNav`, `CalendarPopup` | the grid and its navigation; the popup, its listeners and combos |
| `DomTooltip` | the life of tips, and where a tip is put |
| `TestRunner` | `Test.Unit.Runner`, `Testcase.run` |
| `AsyncPersistProofs` | theorems about `AsyncPersist` and the log it implements |
| `TransactionManagerProofs` | theorems about `TransactionManager` |
| `SemaphoreProofs` | theorems about the five semaphores and `MCSemaphores` |
| `RequestsProofs` | theorems about requests, updater, completer, editor and `MCRequests` |
| `ServicesProofs` | theorems about allocation, scheduler, rings, consumer, legacy queue and `MCServices` |
| `MotionProofs` | theorems about drags, lists, sliders, effects and `MCMotion` |
| `WidgetsProofs` | theorems about tips, the grid of dates, pop-ups and `MCWidgets` |
| `ScriptsProofs` | theorems about the test runner, the event registry and `MCScripts` |
| `MCTransactionManager` | lists and symmetry for TLC, and a second instance whose lists overlap in a cycle |
| `MCSemaphores`, `MCServices`, `MCRequests`, `MCMotion`, `MCWidgets`, `MCScripts` | compositions of components with the constants of each, and what they promise together |

Each component's module has a section of *faulty variants*: a helper with a slip
in it (an index off by one, a forgotten reset, two statements swapped). No
action uses them. Putting one in the place of its helper makes TLC refute the
property that guards against the slip; the pairs are in `PROJECT.json`,
"mutants", one for each property of each passing run.

## How the models correspond to the code

### AsyncPersist

A step is one access to shared state. `save` is two steps, `OfferData` and
`OfferControl`; between them `flush` may do anything. `flush` goes through
`BeginScan`, `ScanEntry` once per copied entry, `EndScan`, the consumer's
`SaveReturns` or `SaveThrows`, `PollEntry` once per entry, and `TakeControl`.

* The iterator of `ConcurrentLinkedQueue` holds the entry that `next` will
  return, prefetched. `iterator` is its position in the queue, 0 when there is
  none; `hasNext` once false stays false though producers go on offering. Only
  `flush` removes entries, and not while it iterates, so a position suffices.
* `SaveThrows` leaves any prefix of the batch stored. The exception leaves
  `flush`, and the scheduled task is repeated after its delay (`RunFlush`): it is
  one task with a fixed delay, so runs never overlap.
* `Shutdown` is the closing of the application context: the flush thread is
  interrupted, `take` throws, and no new run starts. A run that is not in `take`
  goes on until it gets there.
* `accepted` is a history of what the data queue took, in its order; `stored` is
  what the consumer made durable, repetitions included.

`Log` instantiates `PersistLog` with `done <- Done`, the number of entries in a
batch whose save returned: those already polled and those still to be polled.
`SaveReturns` maps to `Confirm`, `SaveThrows` to `Attempt`, everything else but
`OfferData` to a stutter.

### TransactionManager

One transaction is one thread with the lists it passes to `commit`; `lock` is
the 0/1 integer of each `Lockable`. Every `compareAndSet`, `set(0)` and reference
update is a step. `Begin` sorts the concatenated lists, in the stable order of
`List.sort`; `Refuse` and `CleanupOne` clear the prefix that was set; a
successful commit then executes `cleanup(readLocks, writeLocks.size())` as
written: it clears *as many read locks as there are write locks* (`ReleaseOne`),
or indexes past the read locks (`ThrowIndex`). `Retry` is the caller doing what
the exception says. The reference guarded by a write lock is identified with the
lock; `value` says which transaction set it last.

`Held(t)` is what a transaction has set and not cleared, computed from its
position in the code. `LockTableExact` compares it with the locks themselves.
After a successful commit `Held` is not empty: the write locks, and the read
locks beyond that count, stay set for ever. So `MutualExclusion` and
`UpdatesTogether` speak of transactions that are updating, and `RetryHelps` shows
what the leftover locks do.

### Allocation and the scheduler

The two reductions of `allocateMatrix` are one step (nothing can observe the
array between them), a round of marking and adjusting is one step, and each turn
of the backtracking loop is one step. The marking loops compute a least fixpoint
and are written as one: `MarkedRows` is the least set with the rows that got no
zero, closed under "column with a zero in a marked row" and "row assigned a
marked column". The operators of the marking take the matrix as a parameter, so
that a round can be compared with the one after it. Costs are integers, so the
equality with zero that the code applies to `double` is exact.

`SchedulerRun` calls it as an external function. Each `run` submits one task per
option it finds in the cache, an executor thread works them off (`Calculate`) in
their order, and the run reads the results without waiting (`ReadResult`), so it
may read the 0 of an option that was never calculated. Between runs the snapshot
is replaced; a distance names the snapshot it was taken from, which is how
`ZeroOrFirstDistance` tells old positions from new ones.

### Semaphores

`BinaryEvent` is what the class names promise. In `BinarySemaphore` and
`SimpleBinarySemaphore` each access to the flag, the field and the permits is a
step, and the statements of `signal` follow the order given by `SignalOrder`. In
`MonitorBinarySemaphore` and `LockBinarySemaphore` all state is accessed inside
one monitor or lock, so a stretch inside it is a step, and entering it is
another. `BlockingQueueBinarySemaphore` is a queue with room for one token.
Waits and parks may end for no reason or by an interrupt; the last two classes
catch the interrupt and set `retry`, which nothing clears.

### Legacy queue, mesh queue, message consumer

`LegacyPersist` keeps `flush` statement by statement: it peeks the same entry
again and again, never clears its batch and polls one entry fewer than it
counted. `MeshQueue` is the ring with one position per reader, under one lock;
`Broadcast` is what `Emulate` expects of it. `MessageConsumer` has the buffer,
both timed waits whose test and sleep are two steps, `flushMessages`, and a
session that is rolled back by `stop`, so that the next one receives everything
again.

### The scripts

A page has one thread: an event handler, a timer or a callback runs to its end,
so it is one action, except where the code hands control to something that lets
other events in (a dialog in a callback of a request, a handler of `fire` that
calls the registry, a timer's pass over the effects that calls back into the
queue). Then the stretch up to the call is one action and what follows another.
The options that an application passes to drags, lists, sliders, queues,
effects, tips and calendars are a variable of their module, chosen in the initial state from a set
and never changed: one run covers several options, and a theorem covers all of
them.

* `EffectQueue`: time counts frames; `Tick` passes time, by more than one frame
  when the timer is late; a pass (`Loop`) goes effect by effect through `Wait`,
  `Render` and `Finish`. While the callback `afterFinish` of the effect in `chain`
  runs, it may `Add` and `Cancel` any number of effects, also those that the pass
  has still to visit, until `AfterFinish` returns. The other callbacks are taken
  to leave the queue alone. `stopped` is history: what a script has cancelled.
  `EffectStyle` is the style of one element and of its first child, with the
  values each effect has kept to put back. `lost` is history: the attributes that
  an effect found in the middle of another's animation when it kept them, and
  those that `SlideUp` changes. `Puff` keeps the position it finds on the element,
  also one that another effect has just written, so it is not run beside others.
* `DragDrop`: a point stands for the place of the pointer and of an element drawn
  there. `Sortable` uses its drag and moves items between lists. `Slider` has
  handles, values, and a page that sets values during a drag.
* `Autocompleter`: keys, clicks, focus, the observer's timer, blur timers, the
  fade, and requests whose answers come in any order or in theirs.
  `InPlaceEditor`: the element, its form, text loaded from the server, saves that
  succeed or fail.
* `AjaxRequest`: the transport may signal its last state again. The end of a
  request is two steps, because the first callback may hold the page up.
  `PeriodicalUpdater` asks again after each answer, later when the answer is the
  same, until it is stopped. The page may start it at any moment, also while it
  runs: `start` does not look. `extra` is history: starts without a stop since the
  one before, each of which leaves one more loop, since `stop` knows the last
  request and the last timer only (`oldTimers` are those it has forgotten).
* `EventRegistry`: for each element of a document, which is any finite tree, the
  cache of prototype.js has the entries by event name and the browser one list of
  responders. `frames` is the stack of dispatches, so that handlers can observe,
  stop, purge and fire. A dispatch copies the responders of the element it is at,
  drops those that were removed since, and goes up to the parent unless it was
  stopped. Two fields of it are history: what it has `called`, and what it `owed`
  a call to when it began. What the scripts of a page use (names, handlers, how
  many responders) is the variable `page`.
* `CivilDate` is the browser's `Date` with the patches of calendar.js;
  `CalendarNav` is the grid with its keys, buttons and combos; `CalendarParse`
  prints a date word by word and reads it; `CalendarPopup` is the mouse: what is
  pressed, dragged and highlighted, and the listeners on the document, which all
  calendars share.
* `DomTooltip` has a tip per owner (pending, active, inactive), its timers, its
  opacity and the list of the page that is hidden while a tip covers it; and,
  from the position of the mouse, where a tip goes, in pixels (`X`, `Y`).
* `TestRunner` goes through tests, each with parts between which it waits on a
  timer; callbacks of a test may assert when the runner is elsewhere.

### Composition

The components of one run stand side by side in a composing module
(`MCTransactionManager`, `MCSemaphores`, `MCServices`, `MCRequests`, `MCMotion`,
`MCWidgets`, `MCScripts`). They do not share state in the code either: an
application uses one semaphore, and a page with a slider and a tooltip has one
event at a time. So the variable `part` (`used` for the semaphores) names the
component, or the configuration of it, that moves, and the others keep one of
their initial states. The state spaces add up and do not multiply, each part
reaches all it reaches alone, and a property of the composition is the
conjunction of what its parts promise. Configurations that differ in values only
are inside the component, in its variable of options; where a promise is made
for some options only, the property is guarded by `part` or by the options.

Three kinds of real interaction are inside the components: producers, flush and
consumer in `AsyncPersist`; the run and the executor in `SchedulerRun`; handlers
and registry in `EventRegistry`.

## Runs

| Run | Instance | Shows |
|---|---|---|
| `async_persist` | 2 producers, 2 entries each, batches of 2, 1 failure | the six safety properties, every entry is stored in the end, and `AsyncPersist` implements `PersistLog` |
| `transactions` | 3 locks, 2 attempts: 2 transactions with any of 64 pairs of lists each while the third rests; 3 transactions with lists that overlap in a cycle | exclusion, exact lock table, updates together; a refused transaction always has a winner, in the cycle too |
| `semaphores` | 2 waiters, one interrupted at some time, 2 signallers, 2 signals by each (3 in all of the lock variant), 1 spurious wakeup; five classes | no lost wakeup; the flag variants implement `BinaryEvent` (liveness for `Simple` and `Monitor`); who is served, and who is not |
| `services` | all matrices of size 0, size 1 over {0,1}, size 2 over 0..2, size 3 over {0,1}; 1 job and 3 workers, 2 runs; a ring of 3 slots with 7 puts and 2 readers, one of 5 with 4 puts and 3 readers; 3 messages in 2 sessions; 2 fillers, 4 entries, batches of 4 | allocations of least cost, options never mixed, messages in order, the ring is a broadcast while it is not full, work ends |
| `requests` | 3 requests, the callbacks of one of which may throw; 5 updates; 3 words, 2 requests, 2 blurs, answers in and out of order; 5 requests of an editor over 4 texts | requests complete once and are counted, one loop of updates, a menu that can be used, editing that ends |
| `motion` | 2 draggables, 3 droppables, 3 places, with ghosts and Escape or with scrolling; 2 lists of 4 items, three sets of options; 3 restricted or 2 free handles; queues of 2 or 3 effects; fifteen combination effects on one element, alone, in pairs or toggled | drags, lists, sliders, queues and styles |
| `widgets` | 2 tips of each of four types, or one that is put on a page of 30 by 30; two years, one of them a leap year, with no or 2 disabled dates, 2 or 3 clicks or keys; 2 openings of a calendar for each field, or of one for all; 120 days in five formats | tips: timers, lists, place (`WidgetsSound`), every tip is shown and every fade ends (`TipsEnd`); the grid and the pop-up (`WidgetsSound`, `WidgetsMove`); what is printed is read again (`DatesAreRead`) |
| `scripts` | 3 tests of up to 2 parts, 2 late callbacks; 2 nested elements with 3 responders of two custom events, or 2 of a custom event and a click with 2 handlers; 2 events inside each other | isolation and results of tests; registry and browser agree, and an event calls, once, every handler that stays registered on its way |
| `allocation_test` | the matrix of `AlgorithmTest.check1` | **violated** (`Returns`): the call never returns |
| `transaction_overlap` | 2 transactions whose lists share a lock | **violated** (`DuplicatesFiltered`) |
| `transaction_delete` | 2 deletions that share a neighbour | **violated** (`RetryHelps`): a retry cannot succeed |
| `in_place_editor_empty` | an editor whose element may be empty | **violated** (`SavingEnds`): "Saving..." stays |

Why the bounds suffice. In the queue, a batch of two with four entries has full
and partial batches, entries that arrive behind the iterator, more than one
batch after a failure, and two producers that race for the one token. In the
manager, three locks and lists of up to two have overlaps in either order,
duplicates within and across the lists, and lists of different length (the index
past the read locks); three transactions are the least that can overlap in a
cycle without any two sharing more than one lock. The park variant has no
counter: its part covers all behaviours of two and two threads. Three-row
matrices over {0, 1} are the smallest with a round that changes the matrix and
with a search that runs off the first row. Seven puts go twice round a ring of
three, past slow readers. Two requests of a completer are the least with a late
answer; three effects the least in which one added in front moves another one
behind a third. Two years, one a leap year, with dates at the end of February
and of December, have every border an arrow can cross. Two tips have owners to
pass between; two events on the stack are a handler that fires while it is
fired.

`CHECK_DEADLOCK FALSE` everywhere: these programs really stop. Producers have a
bounded number of entries and `flush` then waits; commits, requests, tests and
searches end; a page may rest for ever.

Fairness. `AsyncPersist`: the scheduler repeats the task and its thread runs, a
call of the consumer comes back, a producer inside `save` finishes it; nobody
has to call `save`, and the context need not close. Weak fairness of the flush
thread is enough, since nobody else takes tokens or entries. Semaphores: a
thread inside `signal` or `await` runs when it can; for the monitor and the lock
this includes that whoever asks for it gets it in the end, which any use of them
relies on. Services: the executor works off its queue, a reader takes in an
endless loop, a timed wait ends, the legacy flush loops; nobody has to send or to
put. Scripts: timers and intervals fire, the server answers well or badly, a
handler comes to its end; the user may do nothing for ever. `Allocation` is
sequential: the search goes on. In the composing modules a component that rests
has no enabled fair step, or its fairness is asked for only when it moves.

## Findings

1. `commit` carries the comment `// and filter duplicates` beside a sort that
   filters nothing. A lock named twice makes the commit refuse itself, always.
2. A successful commit leaves locks set. `GraphDelete.delete` passes all its
   locks as read locks, so none is cleared, and any later deletion that shares a
   neighbour is refused for ever: "locked -> retry" cannot help.
3. `allocateMatrix` repeats its rounds until *all* rows are marked. Where the
   first pass finds a zero for every row (the good case, the matrix of
   `AlgorithmTest.check1` among them) none is marked and it loops for ever. Rounds
   make no progress: where the first marking leaves a row unmarked, so does
   every later one (`RoundsComeToNothing`, proved for every square matrix), so
   an allocation only comes from a matrix without any round. What is returned
   costs least (`Optimal` holds).
4. `InPlaceEditor.onFailure` puts the old text back only if it is not empty, so
   after a failed save of an empty element "Saving..." stays, which the comment
   at controls.js:658 names as what must not happen.

The models take these steps of the code too, which a reader of its comments or its
interface would not expect; the properties above are stated so that they hold
beside them:

* `SchedulerImpl.java:57`: `j` is not reset between jobs, so a run with two jobs
  writes past the end of its row (the run here has one job).
* `BinarySemaphore.java:16`: a second waiting thread can be left parked.
* `Algorithm.java:70`: the search does not give back the last column of a row
  that is tried again, and can throw although an allocation exists.
* `effects.js:290`: an effect that a callback cancels is still visited when it
  stands later in the same pass, and then has `finish` and `afterFinish` called,
  undrawn (`EndsAtFull` excepts it; a Highlight that was never set up throws there
  and ends the pass).
* `effects.js:546`: an effect that is created in the middle of another's animation
  keeps what it finds and puts that back (an element that fades out while it
  appears stays half transparent). `effects.js:759`: `SlideUp` puts the bottom of
  the child on the element, and a child that was positioned already keeps the
  bottom of the last frame. (`Restored` excepts both, and nothing else.)
* `prototype.js:2014`: `start` of a periodical updater that runs leaves two loops,
  and `stop` (2020) ends the last one only (`OneLoop` counts such starts;
  `QuietWhenStopped` asks that there were none).
* `calendar.js:1754`, `1778`: at midnight `%k` is printed as "k", since the hour 0
  counts as missing, and is read back as the present hour (`SaidHour`).
* `effects.js:213`: an unstarted effect whose time has come is moved too little
  when another one is added in front.
* `dragdrop.js:363`, `330`: Escape during a drag that scrolls leaves the interval
  of scrolling running (so a drag scrolls or may be escaped from, not both).
* `calendar.js:594`, `688`: a click with the first date disabled tells nobody; the
  buttons and combos store disabled dates at once when `electric` is true.
* `calendar.js:1151`: a disabled cell keeps the date it had in an earlier grid, so
  where days of other months are shown too, the calendar may come back to a date
  outside its years (hence `KeepsYears`).
* `calendar.js:1609`: a two-figure year from 30 on is read as one of the last
  century.
* `calendar.js:1349`: `hide` takes the listeners away though another calendar is
  shown, which a trigger by focus can open (`ShownListens` is checked with a
  trigger by click, and with one calendar for all fields).
* `domTT.js:933`, `787`: the timers of a lazy trail outlive the tip, and hide the
  list again after it was recovered; `domLib.js:396`: a trail that takes the tip
  far in one move leaves the list hidden; `domTT.js:770`: with fade "out" the tip
  stays invisible; `domTT.js:1024`: a northern tip is flipped above the mouse
  again (`OnPage` and `BesideMouse` speak of southern tips).

## Proofs

All theorems hold for every value of the constants, under the named assumptions
of the modules only, and every obligation is checked by TLAPS. Each invariant
of a run is the conjunction of what the parts promise; the proofs take the parts
one by one and put them together with a lemma `EachAlone`, which says that a
behaviour of the composition is, for each part, a behaviour of that part alone.
In each case the property is not inductive as it stands. What follows names the
invariant that is, and why the property needs it.

**The persist queue** (`AsyncPersistProofs`). `AsyncInv` adds to `TypeOK`,
`NoLostWakeup` and `BatchHeadsQueue`: the data queue is a suffix of `accepted`
(`QueueIsTail`), producers number their entries, so all are distinct
(`EntriesNumbered`), and where the iterator and the counters stand at each label
(`FlushControl`). Without the last, "the batch is the head of the queue" is not
inductive: `ScanEntry` needs to know that the prefetched position is the one
after the batch. Under `AsyncInv` each step is a step of `PersistLog` or a
stutter (`Refinement`). For the log, `LogInv` adds to the order that every
stored entry was accepted, which is what makes an appended batch continue it.
`OrderKept` and `NoEntryLost` are inherited through the refinement mapping.
`StoredOnce` (`OnceUnlessFailed`) goes by the kind of the log's step: only an
attempt leaves `stored` other than the confirmed prefix, and it counts as a
failure.

**The transaction manager** (`TransactionManagerProofs`), for any number of
transactions and any lists. `LockTableExact` needs `Control`: the locks set so
far are distinct (one named twice would have refused the commit), the ordered
list is a rearrangement of the arguments, and the loops stay within them.
`Exclusion` follows: an updating transaction holds all the locks it was given,
and held sets are disjoint. `UpdatesTogether` adds `Updated`: the updates made
so far are in place, and another transaction's update is made under a lock it
holds, so it touches none of them. `OrderHasWinner` (`SomeoneWins`) is the
reason for the sort: `OrderInv` says that for whoever was refused there is a
transaction, under way or through, which has acquired the lock that refused it
or one that comes later in the order (`Beaten`). When that one is refused in
turn, it is at a lock further on, and so is whoever holds that: no circle
closes. The
theorem has the hypothesis `PositionsDiffer`, which is what the counter of
`GraphNode` gives, and speaks, as the property does, of lists that name no lock
twice.

**The semaphores** (`SemaphoreProofs`), for any number of threads. The types and
`NoLostWakeup` are inductive together. For the lock variant "no more passes than
signals" needs `PassesPaid`: a woken thread that has not gone on yet counts as a
pass that a signal or a spurious wakeup has paid for. `Implementation`,
`SimpleIsEvent` and `MonitorIsEvent` show every step of the three variants to be
a step of `BinaryEvent` or a stutter; `OnlySwallowed` shows what the queue
variant does beside that, `NobodyOvertaken` that the condition wakes in order.

**Requests** (`RequestsProofs`). `IInv` adds to the kinds of the variables how
often a request was reported at each stage (`Reported`) and which stages exclude
each other (`Stages`); `CountExact` then follows by adding or removing one
element of a finite set, for any set of requests, some of which may throw. The
loops of updates (`LoopInv`): what runs has the last request expected or the
remembered timer pending, which is what `stop` ends, so that each stop takes away
one loop and each start adds one; `OneLoop` is that count. When it is stopped and
no start came without a stop, none is left (`NoneIsLeft`), and no answer counts.
The completer (`MenuInv`): what is active has the focus; and with
answers in order (`LatestInv`) the last request under way is the last one asked,
and with none under way the list is its answer. The editor (`EditInv`): a save
is under way exactly while "Saving..." is shown, or was when the editor was
disposed of, and no form is open beside it. `ChangeIsNoticed` and `AnswersStayAway` are
parts of `AnswersHandled`: what an answer may never do.

**Services** (`ServicesProofs`).
* The allocation, for every square matrix of integers. What the reductions
  subtract from rows and columns bounds the cost of every permutation from
  below, and a permutation of zeros of the reduced matrix reaches the bound
  (`Optimal`). The sums are folds over the rows; what is needed of them, that a
  sum over a permutation is the same sum and that sums respect the order, is
  proved from a definition of the partial sums by well-founded recursion over
  finite sets. `AllocInv` adds `Hopeless`: a round changes the marked columns
  only; a marked row has no zero left after it, and an unmarked one still finds a
  column that is not marked, so the rows that were marked are closed again and
  some row stays unmarked (`SomeRowStaysUnmarked`). So rounds lead nowhere
  (`RoundsComeToNothing`).
  `Placed` and `Complete` keep the columns of the rows above `pos` apart.
* The scheduler. What is read was calculated from the first snapshot
  (`FirstSnapshot`, `Reading`), and a job's worker points back at it
  (`PointBack`).
* The full ring (`RingInv`): the slots before `putptr` hold the messages of this
  round, the others those of the last one (`SlotsFilled`), nobody is past the
  writer in the first round (`NobodyAhead`), and what a reader took last is not
  newer than what the slot it took it from holds now (`TakenBehind`).
* The ring that is not full (`MeshInv`): slot *k* holds message *k*, and
  `takeptr` is where the most advanced reader stands, so a new reader starts
  there. Under it every step is one of `Broadcast` (`RingIsBroadcast`).
* The consumer (`ConsumerInv`): the next message of the session follows the last
  one received, and what is still to come in it was received at most once by each
  session before.
* The legacy queue (`LegacyInv`): the queue holds the entries not yet polled, in
  order, and where peeking and polling stand.

**Motion** (`MotionProofs`), for any elements, lists, handles, effects and
options that meet the assumptions.
* Drags (`DragInv`): what is scrolled is dragged, and only where options ask for
  it, so that drawing it at the pointer again moves nothing that rests.
  `HomesStay` is the action property.
* Lists (`ListInv`): what the observer saw at the start of a drag is what the
  page knows, or has the dragged item twice while a ghost of it is in the page,
  and then cannot be equal to what it sees at the end.
* Sliders: a value moved between its neighbours and then snapped is still the
  nearest the handle may come to, which is what `GoesToNearest` says and what
  keeps the order (`MayComeTo`). `MovesAreSound` joins the action properties of
  lists and sliders.
* Queues of effects (`QueueInv`): what was queued before an effect at "end"
  stands in front of it and is due no later (`QueueOrder`); what a pass has gone
  by was not over (`PassOrder`); what it has still to visit is queued or was
  cancelled, and has not fired its `afterFinish` (`StillToEnd`). Hence no frame
  after the end (`NoFramesAfterEnd`), though effects are added, cancelled and
  moved in the middle of a pass, and `EndsAtFull`.
* Styles. Of clipping and positioning (`StyleInv`): undoing what is on the element
  brings back the page's own style (`Undoable`), for everything that was made there
  is a live effect that undoes it (`Undoer`), and an effect that runs alone has
  kept the position it will put back (`Returns`, `Lone`). Of sizes, places and
  opacity (`ComesBack`): what is not as the page gave it and is not lost, a live
  effect will put back (`WillPut`), from a value that is the page's (`KeptOwn`);
  this holds when effects overlap, since whatever a frame touches its own effect
  puts back at its end (`TouchedComesBack`), and an end puts back the page's values
  or what counts as lost. With no effect live, nothing is left to undo or to put
  back: `NoTraceLeft` and `Restored`. The pair that toggle plays has one effect at
  a time (`PairInv`).

**Widgets** (`WidgetsProofs`), for any owners of tips, pages, fields and options
that meet the assumptions, and any range of years.
* Tips (`TipsInv`): what a tip shows agrees with its status and its fader
  (`Seen`): an active tip is displayed and has faded in or is about to, another
  one is transparent or fades out. Its timers are those of its status (`Timed`),
  unless a lazy trail sets others. A closed tip is sound again and waits for no
  more timers than before (`ClosedOf`), which is what closing the last tip,
  leaving an element and `domTT_closeAll` have in common. For the place, the
  corrections at the four edges are compared case by case (`BelowOrAbove`).
* The grid (`GridInv`): the grid begins on a first of a month within the years;
  the cell that is selected shows the date it keeps, unless it is disabled
  (`ElShowsItsDate`), and while nothing is disabled that is the calendar's date
  (`ElShowsDate`). This rests on arithmetic of dates that the solvers do not find
  by themselves. `Days` and `FromDays` are shown to be inverse for every date, of
  any year: a day has one place *(era, century, four years, year, day)* in the
  calendar of 400 years, and the formulas are computed at a place. From it follow
  the lengths of the months, the leap days, what the setters do to a date, and
  that 42 cells show every day of a month.
* The pop-up (`PopupInv`): what is pressed is an element of one calendar, which
  is dragged just while its title is pressed (`PressedOne`); only that calendar
  waits for a combo or shows one, that of its button (`Awaited`); what is
  highlighted is under the mouse and is what is pressed (`Hilited`); with one
  calendar shown at a time the listeners are its own (`OneCalendar`).

`WidgetsMove` follows: an arrow that leaves the grid sets the date to the same
number of days further as one that finds its cell, a button goes to the same day
of the month beside or to its last one, and a click takes the date of a cell that
is not disabled. `WithinYears` and `MonthMovesByOne` ask that dates are disabled
or days of other months are shown, but not both (`KeepsYears`): with both, a
selected cell may keep a date of the next year.

**Scripts** (`ScriptsProofs`).
* The test runner, for any number of tests, parts and late callbacks. The
  invariant adds what the log holds (`Logged`: the tests before the current one),
  that a test not passed has something counted (`Blamed`), that only a callback
  can count something for a test that passed (`Told`), and that nothing runs after
  the result (`Finished`).
* The registry, for any finite tree of elements, any names and handlers. Of each
  element the entries by name and the responders of the browser are the same set,
  and both in the order of their creation (`ElementSound`); two ordered sequences
  of the same responders are equal, so the browser's list, filtered by a name, *is*
  the list of entries (`Mirrored`). Ids are handed out once (`IdsSound`), a registry
  is that of the element with its id (`CacheSound`). Of each dispatch, what it owes
  a call to and is still registered was called, or is queued at the element the
  event is at, or is registered higher up (`FrameSound`); this is `ServedAll` at the
  end of its way, and it is kept by every change a handler may make. The filter is
  a function that is recursive over its sequence; what it returns (the chosen
  elements, in order) is proved from a least counterexample.

`ScriptsAreSteady` joins the two action properties: no handler is called that is
not registered any more, and what a test failed is remembered.

Only model-checked:
* `DatesAreRead`: printing and reading a date are folds over the words of a text,
  and what a fold computes for every text is an induction over data; the run
  checks every date of four months at every hour. With `%k` the hour of midnight
  is excepted (`SaidHour`), as the list above says.
* All liveness, and with it everything that needs `ENABLED`: `EventuallyStored`,
  `EventsImplemented` (its safety is `SimpleIsEvent` and `MonitorIsEvent`),
  `WorkEnds`, `TipsEnd`, `ScriptsEnd`, and the liveness in `Served`,
  `AnswersHandled` and `MovesSound`.

The theorems of induction in the library take an operator as a parameter, which
the provers at hand do not instantiate. Where a proof needs an induction over
numbers or finite sets, it takes a least counterexample instead, from
well-founded orders and functions.

## Not modelled

* `SyncQueueBinarySemaphore`: a hand-over through a synchronous queue, which
  blocks the signaller; a component of its own that nothing uses.
* `GraphDelete`'s reading of the neighbours and the counter that numbers nodes:
  nothing in the repository creates nodes or links them. The simplex graph
  itself: what concurrent inserts should keep is stated nowhere.
* Green threads, the JDBC templates, the executor experiment, the exercises,
  `PrioritizedLock` (its field is never created), the servers and clients: no
  caller, no state, or no promise to check.
* Parser combinators, `getElementsBySelector`, the serialization of forms: pure
  functions of their input; `Behaviour.apply`, the lightbox, the timed observers
  of fields: short handlers over parts that are modelled. (Behaviour.js throws
  for an attribute selector when an element lacks the attribute, line 204, and
  replaces the context at an id, line 127, against its comments at 90 and 99.)
* Of the calendar: the clock row, the numbers of the week and of the day in the
  year, calendars of many dates, layout. Of `controls.js`: the local completer,
  which only searches strings, the delayed observer, the collection editor. Of
  tooltips: grids and the z order. Of `prototype.js`: the extension of strings,
  arrays, hashes and elements, the selector engine, simulated mouseenter and
  Internet Explorer.
* Of the test runner: a wait that is called in a tear down, and a test that throws
  null, which `error` cannot describe and throws for in its turn.
* Colours, transitions, layout and wording everywhere; the bodies of servers and
  brokers, which appear as answers and deliveries only.
