# A verification of libmacro

libmacro runs *macros*: lists of signals that a trigger, or a call of the
program, sends from threads the library creates. This project models it in
TLA+: the threads at work on a macro, the registration of macros and triggers
with the dispatchers that start them, the names and registries of a context,
and the contexts themselves. It model-checks small instances with TLC and
proves with TLAPS, for every number of macros, clients, threads, triggers,
names and contexts, what can be proved for all of them: the thread limit, the
count and the queue of a macro, the bookkeeping of the dispatchers, of the
registries and of the contexts; and, of the calls a program may keep to, that
no wakeup is lost, no handle erased unjoined and no freed macro used.

Line numbers are those of the repository, whose root `PROJECT.json` calls `src`:
`macro.cpp` is its `src/macro.cpp`, `mcr/macro.h` its header.

## 1. The system

| Component | State | Operations | Talks to |
|---|---|---|---|
| **Macro** (`macro.cpp`, `mcr/macro.h`, `mcr/signal/interrupt.h`) | interruptor, `_queued`, `_threadCount`, `_threadMax`, sticky, `_signals`, `_threads`, a mutex and a condition variable | `start`, `run`, `setInterruptor`, `setSignals`, `setThreadMax`, `setSticky`, `copy`, destructor; the detached reset thread of INTERRUPT_ALL | its own threads, the clients' threads, signals that call it back, the dispatchers |
| **Global thread limit** (`macro.cpp:22`, `mcr/libmacro.h`) | `g_activeThreadCount`, `g_threadMax`, a global mutex | reservation in `trySpawnThread()`, release in `onRunComplete()`, `setGlobalThreadLimit()` | every macro |
| **Dispatch registration** (`macro.cpp:376-525`) | a macro's activators and triggers, the macro each trigger acts on | `setActivators`, `setTriggers`, `applyDispatch`, `removeDispatch`, `copy` | the dispatchers |
| **Generic dispatcher** (`dispatcher.cpp`, `mcr/dispatcher.h`, `mcr/trigger*`) | receivers by signal type | `add`, `remove`, `clear`, `dispatch` | triggers, whose `receive()` starts a macro |
| **Modifiers and trigger modes** (`mcr/inline.h`, `mcr/types.h`, `signal/modifier.cpp`) | the modifier flags of a context | `Modifier::send()`, the mode predicates of a trigger | the context |
| **Names** (`serial.cpp`, `mcr/serial.h`) | tables of names, two extension maps for each of modifiers and trigger modes | value to name, name to value, set, remove, counts | the program |
| **Registries** (`*_registry.cpp`, `mcr/allocator.h`) | allocators of signals and of triggers by the name of the type, macros by name | map, allocate, another, deallocate, unmap, interrupt all | macros, signals, triggers |
| **Context** (`libmacro.cpp`, `mcr/libmacro.h`) | a stack and a set of all contexts under a global mutex; flags and modifiers of each | construct, destroy, `instance`, `hasInstance`, the setters | all of the above |
| **Other signals**, platform, errors, player | none that changes | | |

What is hard here is nearly all in one file. `MacroImpl` holds its mutex for a
few lines at a time, reads several members without it, notifies a condition
variable sometimes with it and sometimes not, lets a signal call the macro that
is sending it, and hands itself to a detached thread. `PROJECT.json` lists
every such hazard with its line.

What makes each component correct:

* Macro: every run is counted in and out once; nobody waits for a notification
  that has already happened; INTERRUPT_ALL and the clearing of threads end; a
  `std::thread` is joined before its handle goes; a macro that is disabled, with
  no older command on its way, stays disabled and out of the dispatchers; a
  run's signals do not change under it.
* Global limit: the count is exact on every way out of `start()` and `run()`,
  and all macros together stay within the limit.
* Dispatch: what a macro registered it can remove again, under whatever members
  it has then; nothing registered outlives its owner; a trigger acts on a macro
  that holds it.
* Modifiers: no change of the flags is lost; each mode decides as documented.
* Names: the name of a value, looked up, means that value; an edit reaches the
  name in every spelling, and changes the meaning of no other.
* Registries: what is deallocated goes to the allocator it came from; every
  macro that has a name is interrupted, once.
* Context: `instance()` returns the last created of the living contexts, and
  only one that is constructed.

## 2. The modules

| Module | What it is |
|---|---|
| `ThreadPool` | The abstract promise: places are reserved, filled, given back, and never exceed a limit. |
| `MacroState` | Constants and their assumptions, the four variables, the types, the arithmetic of the counters, and the helpers steps are made of. |
| `MacroApi` | One action for each visible step of every member function except `run()`. EXTENDS `MacroState`. |
| `MacroRun` | One action for each visible step of `run()`. EXTENDS `MacroApi`. |
| `MacroThreads` | The composition: Init, clients, Next, fairness, all properties, and the refinement mapping to `ThreadPool`. |
| `MCMacro` | Values for TLC: what each client calls, lists of signals, states of a macro. |
| `MacroThreadsProofs` | The types and the global thread limit: theorems and proofs. |
| `MacroQueueProofs` | The queue of a macro. EXTENDS `MacroThreadsProofs`. |
| `MacroCountProofs` | `_threadCount`, its waiters, and the signals it protects. EXTENDS `MacroControlProofs`. |
| `MacroControlProofs` | What controls a macro: its interruptor, registration, mutex, handles and the clearing of its threads. EXTENDS `MacroThreadsProofs`. |
| `Dispatching` | Macros, triggers, activators and dispatchers: one action for each member function, the trigger modes, and what a `dispatch()` starts, with a generic dispatcher the context may replace. Independent of the modules above. |
| `MCDispatching` | Values for TLC. |
| `DispatchingProofs` | The theorems about `Dispatching` and their proofs. |
| `Names` | The tables, the extension maps, the lookups in both directions and the edits of `SerialImpl`. |
| `Registries` | The three registries: allocators of signals and triggers by name, macros by name. |
| `MCTables` | Values for TLC, and the composition of `Names` and `Registries`: they share no state, so `part` says which one a behaviour uses. |
| `NamesProofs`, `RegistriesProofs` | Their theorems and proofs. |
| `LatestContext` | The abstract promise of `instance()`: contexts come and go in any order, and the youngest of the living is returned. |
| `Contexts` | Construction, destruction, registry, flags and modifiers of contexts, with several threads at work, and the `Modifier` signal. Shown to implement `LatestContext`. |
| `MCContexts` | Values for TLC. |
| `ContextsProofs` | The theorems about `Contexts` and their proofs, the refinement among them. |

### State

A disjunction of steps (`StartStep`, `RunStep`, `Next` and their like) stands for
the lines of its actions, and has no entry of its own in the map of `PROJECT.json`.

`macro[m]` is the data members of a `MacroImpl` under the names of the code
without the underscore; `handles` is `_threads`, `waiting` is who is blocked in
`_cndThreadCount`, `mutex` is who holds `_mutex` *between* two steps, and
`registered` says whether the dispatchers hold the macro. `active` is
`g_activeThreadCount`.

An actor is a client's thread, a thread of `start()` or a reset thread. Each
has two frames: `run[a]`, its place in `run()`, and `call[a]`, its place in
another member function. When a signal (or `consumeInterrupt()`) calls the
macro, the call frame lies above the run frame, and the run waits for it.

The labels of the frames follow the code:

| Function (lines of `macro.cpp`) | Labels, in order | Actions |
|---|---|---|
| `start`, `trySpawnThread` (299-320, 656-681) | `start`, `resume`, `reserve`, `test`, `increment`, `check`, `emplace`, `limit` | `StartLock`, `Resume`, `Reserve`, `IncQueuedTest`, `IncQueued`, `CheckQueued`, `Spawn`/`SpawnFails`, `LimitMaxThreads` |
| `setInterruptor` (241-263) | `interrupt`, `compare`, `write`, `apply`, `detach` | `ReadInterruptor`, `CompareInterruptor`, `WriteInterruptor`, `ApplyDispatch`, `DetachReset`/`DetachFails` |
| `resetThread` (561-570) | `reset`, `drain`, `resetting`, `clear`, `wait`, `join`, `erase`, `restore` | `ResetReads`, `Dequeue`, `TestRunning`, `WaitThreadsChanged`, `JoinAll`, `EraseHandles`, `Restore` |
| destructor, `copy` (229-232, 347-374, 539-559, 693-712) | `disable`, `unregister`, `clear`, `sticky`, then `drainAgain`, `wait`, `waited` or `unset`, `forget`; `join`, `erase`, `assign` | `Dequeue`, `Unregister`, `TestRunning`, `TestUnsetStatus`, `ForgetThreads`, `WaitThreadsChanged`, `JoinAll`, `EraseHandles`, `Assign` |
| `run` and its helpers (144-198, 322-345, 572-654) | `enter`, `consume`, `signals`, `pause`, `pausing`, `block`, `loop`, `stop`, `idle`, `test`, `decrement`, `clamp`, `send`, `leave`, `release`, `notify` | the actions of `MacroRun` |

### Granularity

* A section under `_mutex` in which nothing waits and nothing unlocked
  interferes is one step. `start()` keeps `_mutex` over several steps, because
  `dequeue()` and `decQueued()` change `_queued`, and `dequeue()` the
  interruptor, without it: CONTINUE may be written over the DISABLE that has come
  after the INTERRUPT it read. `pauseLoop()` keeps it over two, because
  `dequeue()` notifies without it (`macro.cpp:168`). `setInterruptor()` and
  `start()` notify with it.
* An unlocked read or write is a step of its own; so is what a thread gives back
  under the global mutex (`macro.cpp:584-588`), and the notification after it
  (`:589`).
* These are one step although the code has more, because no property tells
  them apart: the three writes of `dequeue()`, which are in a row;
  `limitMaxThreads()`, whose test and store a queued start may fall between and
  be lost as it is lost later; the increment of `incQueued()` and the
  `limitMaxThreads()` after it; a write under `_mutex` and the notification
  directly after it; the joins of `joinAllThreads()`, one after the other. A
  thread that `start()` adds *while* the loop joins is joined by the model; the
  code iterates over a vector that has changed. One added after the loop is not
  joined, and destroying its handle, its thread ended or not, terminates.
* `waitThreadsChanged()` tests and blocks in one step, since `_threadCount`
  only changes under the lock. Spurious wakeups are left out: each waiter tests
  its predicate again, so one only repeats a step.
* `unsigned` counters wrap at `Wrap`, and `limitMaxThreads()` compares an `int`
  that has become unsigned: -1 is above every maximum.
* `threadStatus` in `clearThreadsSticky()` is read uninitialised when its loop
  did not run. `Garbage` is the values it may hold.
* When a `std::thread` is destroyed joinable, the program ends: `life` becomes
  `terminated` and there are no more steps.

Left out: blocking (`_isBlocking`), names and the context pointer, on which no
control of these functions depends; `setGlobalThreadLimit()`, a plain
unsynchronised write, so the limit is constant; what a sent signal does other
than call its macro. The macro `copy()` reads is one nobody is using, and a
client destroys a macro that no client is inside.

### Dispatching

`macro[m]` is the members of a macro that matter to dispatching (`apply` is
`_applyDispatchFlag`, `enabled` stands for an interruptor other than DISABLE,
`alive` for an object not yet destroyed), `actor[t]` is `actorPtr` of a trigger,
`receivers[d]` is `_receivers` of a dispatcher. `started` holds the calls of
`start()` the last `dispatch()` made: from which dispatcher, by which receiver,
of which macro. `generic` is the generic dispatcher of the context. There are two
history variables: `shared`, the triggers that `copy()` or `setTriggers()` has
given to a macro while another had them, and `replaced`, the dispatchers that
have been the generic one and are no more.

| Function (lines of `macro.cpp`, `dispatcher.cpp`) | Action or operator |
|---|---|
| `setInterruptor` where it enables or disables (241-263) | `SetEnabled` |
| `setActivators`, `setTriggers` (376-385, 398-409) | `SetActivators`, `SetTriggers` |
| `_removeDispatch`, `_addDispatch`, `_applyDispatch` (411-478) | `Removed`, `Added`, `Applied` |
| `setApplyDispatchEnabled`, `applyDispatch`, `addDispatch`, `removeDispatch` (480-525) | the actions of these names; `AddOne` for the three overloads |
| `copy`, destructor (347-374, 229-232) | `Copy`, `Destroy` |
| `Dispatcher::dispatch`, `clear`, `remove` (82-111), `Action::receive`, `Trigger::trigger` | `Dispatch`, `Clear`, `Remove` |
| `mcr_TriggerMode_match_inl` (`mcr/inline.h:26-77`) | `Matches`, on sets of flags |
| `LibmacroImpl::setGenericDispatcher` (`libmacro.cpp`) | `SetGenericDispatcher` |

The dispatchers have no lock at all, and most of these functions reach them
under the lock of one macro only: a program has to call them from one thread at
a time. So each member function is one step. `MacroThreads` is where the
functions interleave, with the registration reduced to one flag. The receivers
are an `unordered_set`: `Visits` lets `dispatch()` reach any of them before the
first that blocks. The overloads of `addDispatch()` are called with the macro's
own activators and triggers; with others nothing the macro holds could ever find
the registration again. Which dispatcher a signal has is constant, and may be
none. The generic one changes by `setGenericDispatcher()`, which moves nobody:
who stands in the old one stays there, and the properties ask nothing of a
dispatcher that has been replaced.

### Names

A name is a spelling. `Fold` takes each to the one spelling that stands for its
lower-case text, and `Rank` gives the place of these texts in lexicographic order.
The code compares names in two ways, and so does the model: the tables by
`ci_equal`, which asks for equal texts, the maps by `string_less_ci`, which asks
which text comes first. Flags are sets of bits. The four maps are functions whose
domain is the keys there are. The maps of names keep a name under the spelling
that came first, as `operator[]` does: `Matching` is the keys neither less nor
greater than a name, and `Place` the one that is found. The lookups are the
operators of the functions' names (`applyValue`, `dimension`, `interrupt`,
`modifiers`, `triggerMode` and `...Name`), `nameValue` is the search of a table,
and `caseName` one of the `switch` statements, written out in the order of the
code so that a table and its `switch` may disagree. Every edit is an action, one
step each: nothing is locked, and the program edits from one thread at a time.

### Registries

A map has `Nothing` where the code's has no entry. An object is known by the
allocator that made it, and `OwnName` gives what its `name()` returns, which may
be the empty name of a hidden type. `allocate()` and `another()` may fail, as an
allocator may; `deallocate()` of an object whose name is unknown throws and
leaves it. `interrupt()` of the macro registry goes through the names in
any order and calls each macro at the first name it meets it under. History
variables: `lastUse`, the allocator that made the last object
`another()` or `deallocate()` was given and the one they used; `ownNamed`, that
`map()` was called for types under their own names only, none of them taken;
`calls`, how often the last `interrupt()` called each macro.

### Contexts

A step is what one thread does under `_registryMutex`, or one access of the
members of a context, which nothing protects. A thread has a frame with its
place in a constructor (`register`, `enable`), a destructor (`unregister`,
`free`) or a `Modifier::send()` (`store`); between calls it is a `client`.

| Function | Actions |
|---|---|
| constructor (`libmacro.cpp:99-114`) | `Construct`, `Register`, `Enable` |
| destructor (`libmacro.cpp:117-138`) | `Destroy`, `Unregister`, `Free` |
| `instance`, `hasInstance` | `instance`, `hasInstance` |
| `setEnabled`, `setBlockable`, ..., `setModifiers` | `setFlag`, `setModifiers` |
| `Modifier::send` (`signal/modifier.cpp`) | `send` reads, `SendStores` stores |

The program uses a context from when `instance()` may return it until somebody
destroys it (`Usable`), and destroys one that no thread uses (`Unused`): the
code can check neither. `seen` is a history variable: the modifiers a send that
is under way has overlapped with.

## 3. The runs

In the runs of `MacroThreads` two clients act on one macro, or on two in `limits`. The first starts it, the
second controls it, and either may call again as soon as its last call has
returned. Threads are 2 or 3 and `g_threadMax` is 2: one below three threads
(so the limit can be exceeded), one above one (so two runs share a queue of at
most 2). `Wrap` is 8, above every legal count, so a count that goes below zero
shows up as 7. Nothing else is bounded: the sets of states are finite by
themselves. Two threads suffice for every race between two runs of a macro and
two clients for every race with a controller; a third thread is needed only for
the global limit.

| Run | Situation | Properties |
|---|---|---|
| `controlled` | CONTINUE, PAUSE, DISABLE, an invalid type, `setThreadMax`, `setSignals`, `setSticky` and `copy()` from an enabled and from a disabled macro, on a sticky macro and on a disabled one, whatever an unset `cv_status` holds | `TypeOK`, `QueuedRepaired`, `RegisteredMatches`, `QueuedWithinMax`, `NoLostResume`, `SignalsStable` |
| `limits` | two macros, both started, three threads, thread creation may fail | `ActiveExact`, `GlobalLimit`, `PoolSpec` (refinement of `ThreadPool`) |
| `reset` | INTERRUPT_ALL again and again, two reset threads | `WaitersServed`, `NeverTerminates`, `JoinedByOne`, `InterruptAllEnds` |
| `destroys` | CONTINUE, INTERRUPT and the destructor, whatever an unset `cv_status` holds | `FreedIsUntouched`, `NeverTerminates`, `ClearReturns` |
| `runs` | a client calls `run()`, CONTINUE, PAUSE and DISABLE; signals that call `start()`, `setInterruptor(INTERRUPT)` and `setSignals()`, which throws, and one that calls `setInterruptor(INTERRUPT_ALL)`, whose reset thread cannot be created; thread creation may fail | `ThreadCountExact`, `NoLostUnpause`, `PauseEnds`, `DisableSettles` |
| `dispatching` | two macros, a trigger, one activator with a dispatcher and one without, the generic dispatcher and its replacement; every member function in every order | `TypeOK`, `MacrosRemovable`, `TriggersRemovable`, `StartsAsAsked` |
| `tables` | a built-in name under two spellings and one of the program's own under two, flags with and without a name, a mode; a hidden and a named type of signal and of trigger, a key that is neither's, two objects; two macros under three names | `NamesTypeOK`, `RegistriesTypeOK`, `ReadBack`, `UsesMaker`, `InterruptedOnce`, `EditsApart`, `EditsReach` |
| `contexts` | two threads create, use and destroy three contexts, and send to one of them modifiers of every kind while the program sets its modifiers | `ContextsTypeOK`, `RegisteredBuilt`, `LastCreated` (refinement of `LatestContext`), `SendsOneMoment` |

In `controlled`, `reset` and `destroys` no signal calls the macro that sends it:
`runs` has those that do, and the theorems about the properties of the other
three exclude them (section 4).

`runs` has one thread of `start()` besides the client's own `run()`, which is
two runs of one macro and keeps the liveness small. Its signals set INTERRUPT
while the client sets DISABLE, so a run that has seen INTERRUPT writes CONTINUE
over a DISABLE here (`macro.cpp:601`): the macro is disabled, and is not a moment
later. `DisableSettles` says what is left of DISABLE: when nobody is on the way to
such a write any more, the macro stays disabled, and nobody takes one up, until
a client calls `setInterruptor()` or `copy()`. `interrupt_enables` shows the
stronger reading of the documentation failing.

`controlled` has no liveness, so it bears all the calls at once. The unlocked
`dequeue(DISABLE)` of its `copy()` can fall between the test and the wait of
`pauseLoop()`, and its notification be missed: `NoLostResume` says that the macro
is then disabled, and that no later CONTINUE can be missed too. `NoLostUnpause`,
that nobody sleeps unless the macro is paused, is for programs that do not clear
threads, as `runs`; with a destructor it fails, which is `destroy_hangs`.

In `dispatching`, two macros are what it takes for one to take over what the
other registered, one trigger is enough to be theirs both, and two activators
let a macro move from one dispatcher to another, or to none. The mode of
the trigger is ANY, which lets it receive with and without starting. The macros
are interchangeable, and TLC uses it. Nothing is bounded besides the sets.

In `tables` two names, values and objects of a kind are what it takes for an
edit to reach the wrong one, and a third key is what it takes for a type to be
mapped under a name not its own. In `contexts` three contexts
are what it takes for one that is neither the first nor the last to go, and two
threads for a send to overlap with another.

Four runs show the code breaking what its own documents say:

| Run | Property | What happens |
|---|---|---|
| `interrupt_enables` | `DisabledStays` | A run sees INTERRUPT, a client sets DISABLE, the run sets CONTINUE (`macro.cpp:601`): the macro is enabled and registered again. `interrupt.h:40`: "No longer able to trigger". |
| `destroy_hangs` | `ClearReturns` | A run tests PAUSE under the lock; before it blocks, the destructor's `dequeue()` writes DISABLE and notifies without the lock (`macro.cpp:164`). The run sleeps for ever and the destructor waits for it. `TODO.md:30` calls this wait fixed. |
| `erase_unjoined` | `NeverTerminates` | The reset thread is between the loop and the `clear()` of `joinAllThreads()` (`macro.cpp:608`), without the lock, when `start()` adds a thread. `SPEC.md:88`. |
| `generic_stays` | `AllStartsAsAsked` | A macro without activators has its trigger in the generic dispatcher. `_removeDispatch()` takes only the macro out of it (`macro.cpp:414-416`): after `setTriggers()` without that trigger, or the destruction of the macro, the trigger starts it all the same. `mcr/macro.h:206`: "Remove all dispatch relationships." |

`destroys`, `destroy_hangs` and `controlled` do not check deadlock: a destroyed
macro has nobody left to call it, and `copy()` may wait for ever (below). All
other runs do.

### Fairness

`FairSpec` gives each actor strong fairness on its own step: the scheduler runs
every thread, and a thread that waits for a mutex that is free again and again
gets it some time. `std::mutex` is not fair by its standard, but the critical
sections are a few lines long and every platform the library names schedules
waiters in practice. No fairness is assumed of a client: nobody has to call
`setInterruptor(CONTINUE)`. Hence `PauseEnds` says only that a run goes on once
the macro is no longer paused, and `destroys` has no PAUSE: with it the
liveness fails, which is `destroy_hangs`.

### Other disagreements met while modelling

The model shows these too, or has the code's side of them in a definition. Their
properties are not kept, one run being enough for each kind of defect. The
counts of `serial.cpp`, which return constants, are only described here.

Macros and the thread limit:

* A client's own `run()` gives back a thread it never reserved (`macro.cpp:586`),
  and one more than `g_threadMax` threads start (`mcr/defines.h:43`: "macros will
  never create more than this number of threads").
* `threadMax` is exceeded by starts in a row: a thread counts itself only in
  `runPreamble()` (`macro.cpp:305` and `:641`, against `mcr/macro.h:104`).
* A run that INTERRUPT ends leaves its queued start behind (`:644`), and two
  runs may end by one INTERRUPT (`:598`), against `interrupt.h:34`.
* `resetThread()` overwrites a DISABLE set after INTERRUPT_ALL (`:564`).
* With two controllers, `setInterruptor()` reads the type twice without the
  lock (`:245`), and an enabled macro may be in no dispatcher.
* INTERRUPT_ALL becomes CONTINUE while a created thread that has not counted
  itself goes on to run (`:686`, against `interrupt.h:37`).
* The detached reset thread may be inside the macro when the destructor has
  returned (`:259`, against `SPEC.md:88`).
* `copy()` racing with `start()`: the uninitialised `threadStatus` (`:705`) sets
  `_threadCount` to 0 with a run inside; the count wraps when that run ends, and
  the next `copy()` waits for ever. The same race can destroy a joinable thread.
* A client's `run()` can give back a reservation that `start()` is about to undo
  itself: `g_activeThreadCount` wraps (`:677`).
* A client's `run()` of a macro nobody started sends nothing (`:332`, against
  `mcr/macro.h:173`).
* `copy()` onto the macro whose signal calls it waits for its own run (`:530`).
* `incQueued()` takes the transient -1 for a huge queue and the start is lost
  (`:668`, against `SPEC.md:305`).

Dispatching and modifiers:

* `copy()` makes the triggers of the other macro act on this one (`:370`), and
  they are left pointing to it when it is destroyed first: what `shared` excludes
  from `StartsAsAsked`.
* A signal with a dispatcher is dispatched instead of sent (`:629`), where
  `mcr/libmacro.h:38` says that it is sent unless a receiver blocks it.
* `MCR_TM_ANY` is "Always trigger" in `mcr/types.h:128` and asks for a common
  flag in `mcr/inline.h:70`; `MCR_TM_MATCH` is documented as a mode
  (`mcr/types.h:126`) and never matches; EXCLUSIVE is documented to need all
  flags (`:120`) and accepts any subset of them.
* `setGenericDispatcher()` leaves the receivers in the old dispatcher, where
  `removeDispatch()` no longer looks for them (`macro.cpp:414`).
* `dispatchSignals()` passes no modifiers to the dispatcher (`macro.cpp:630`), so
  a trigger whose mode asks for any does not start by a macro's signal.
* Two sends of modifiers, or a send and `setModifiers()`, may lose one of the
  changes (`signal/modifier.cpp`): the value read is stored later.
  `SPEC.md:446` calls this "a single local read". `SendsOneMoment` is what
  remains true of it.
* `mcr/signal/modifier.h:32` says that `MCR_UNSET` "will set the modifier"; it
  clears it, as its name says.

Names, registries, contexts:

* `mcr/serial.h:165` says that the names the program gives to values are looked
  up "as fallback after switch statements"; they come before them
  (`serial.cpp`, `modifiersName()`, `triggerModeName()`), which
  `test/tserial.cpp:144` expects.
* `keyPress(keyPressName(v))` is no key press: the names are "Press" and
  "Release", which the table of `applyValue()` does not have
  (`serial.cpp:246`, `mcr/serial.h:57`).
* `triggerModeCount()` is 2 (`serial.cpp:386`), against "Total trigger mode
  entries" (`mcr/serial.h:134`): it counts the bits of an ordinal. The dimension W
  has a name and is not counted. `modifiersCount()` is 17 and leaves out NONE,
  ANY and USER (`mcr/serial.h:111`).
* A name that is none means every modifier (`MCR_MF_ANY`), and there is no way to
  remove the name of a value, only the value of a name.
* `Libmacro::hasInstance()` is documented as "is the current instance"
  (`mcr/libmacro.h:70`) and affirms every living context.
* `factory::createMacro()` "uses instance() if nullptr" (`mcr/factory.h:35`);
  it stores the null pointer (`macro.cpp:748`).
* A signal or trigger whose type is mapped under another name than its own, or
  whose name another type has taken, cannot be deallocated, or goes to the other
  type's allocator (`signal_registry.cpp:97`): what `ownNamed` excludes from
  `UsesMaker`.
* A context can be had from `instance()` before its constructor has enabled it
  (`libmacro.cpp:110` and `:113`).

## 4. The proofs

Every invariant and action property that a passing run checks is the conclusion
of a theorem, except `NoLostUnpause`, which `NoResumeIsLost` replaces where
`dequeue()` is called without the lock; liveness is left to TLC.

`MacroThreadsProofs`, `MacroQueueProofs`, `MacroCountProofs` and
`MacroControlProofs` prove, for every set of macros, clients, threads and reset
threads, every list of signals, every limit and every width above it:

| Theorem | Statement |
|---|---|
| `TypeCorrect` | `Spec => []TypeOK` |
| `ActiveCountExact` | `NoSyncRun => (Spec => []ActiveExact)` |
| `GlobalLimitHolds` | `NoSyncRun => (Spec => []GlobalLimit)` |
| `ImplementsPool` | `NoSyncRun => (Spec => PoolSpec)` |
| `QueueWithinMax` | `Spec => []QueuedWithinMax` |
| `NegativeQueuesAreRepaired` | `RoomBelowZero => (Spec => []QueuedRepaired)` |
| `ThreadCountCounts` | `FewRuns`, `Steady` `=> (Spec => []ThreadCountExact)` |
| `WaitersAreServed` | the same `=> (Spec => []WaitersServed)` |
| `SignalsAreStable` | the same and `CopyFree` `=> (Spec => SignalsStable)` |
| `SignalsOutlastCopies` | `NoSyncRun`, `NobodyInterrupts`, `OneCommander`, and `Steady` or `RoomBelowZero` `=> (Spec => SignalsStable)` |
| `NoResumeIsLost` | `NobodyCopies` `=> (Spec => []NoLostResume)` |
| `DisableStaysSettled` | `Spec => DisableSettles` |
| `IdleMacrosAreRegistered` | `NobodyInterrupts`, `OneCommander` `=> (Spec => []RegisteredMatches)` |
| `FreedMacrosAreLeft` | `NobodyResets`, `NoSignalCopies` `=> (Spec => []FreedIsUntouched)` |
| `DestructorNeverTerminates`, `DestructorJoinsAlone` | `NobodyResets`, `NobodyCopies`, `NoSignalStarts` `=> (Spec => []NeverTerminates)`, and `[]JoinedByOne` |
| `ResetNeverTerminates`, `ResetJoinsAlone` | `NobodyClears`, `OneCommander`, `OnlyInterruptAll` `=> (Spec => []NeverTerminates)`, and `[]JoinedByOne` |

The assumptions are those of `MacroState`: the kinds of actors are finite and
disjoint, the limit is positive and below `Wrap - 1`, and calls and setups are
well formed. The hypotheses say which calls the program makes. Without them the
property fails, or is not proved, for the reason given, and each is satisfied
by a run that checks the property, or one that implies it (but for `CopyFree`,
which `SignalsOutlastCopies` does without). `NobodyCopies` leaves the resets and
the destructor to `NoResumeIsLost`, so it covers the unlocked `dequeue()` of both;
TLC covers that of `copy()` in `controlled`.

| Hypothesis | Meaning | Without it |
|---|---|---|
| `NoSyncRun` | no client calls `run()` itself | such a run gives back a place nobody reserved, and three threads exceed `GlobalLimit` |
| `FewRuns` | `NoSyncRun`, or `RoomToCount`: the actors are fewer than an `unsigned` can count | the count wraps |
| `RoomBelowZero` | the actors and the limit together are fewer than an `unsigned` can count | -2 looks like 2 to `limitMaxThreads()` when `Wrap` is 4 |
| `Steady` | an unset `threadStatus` does not read as a timeout | the count is set to 0 with threads inside (`:705`) |
| `NobodyResets` | no call sets INTERRUPT_ALL, or there are no reset threads | the reset thread is inside the macro after the destructor has returned (`macro.cpp:259`) |
| `NobodyClears` | no call of `copy()` or of the destructor | they join the threads of a macro that a reset thread is joining (`:605`) |
| `NobodyInterrupts` | no call sets INTERRUPT or INTERRUPT_ALL, no signal controls the macro | `interrupt_enables` |
| `OneCommander` | one client calls `setInterruptor()`, `copy()` and the destructor | two controllers leave an enabled macro unregistered (`:245`) |
| `OnlyInterruptAll` | `setInterruptor()` sets INTERRUPT_ALL and nothing else | `erase_unjoined` |
| `CopyFree`, `NobodyCopies`, `NoSignalCopies`, `NoSignalStarts` | no call, or no signal, of that name | `copy()` racing with `start()` erases a joinable handle (`:608`); it sets the interruptor it copies without notifying a client's own `run()`, which it has not joined |

`ActiveExact` is not inductive. A step that gives a thread back decrements a
counter that wraps, and whether it wraps depends on the run frame being one of
a thread of `start()`; a reservation adds one, and whether it wraps depends on
the limit. The invariant is `PoolInv`:

* `PoolOK`: `TypeOK`, and nobody but `Threads` has a run frame;
* `ActiveExact`: the count is the live threads plus the reservations;
* `ActiveWithinLimit`: the count is at most `g_threadMax`.

Every action falls in one of five groups: it reserves a place (`Reserve`), gives
up a reservation (`CheckQueued`, `SpawnFails`), turns one into a thread
(`Spawn`), ends a thread (`Release`), or leaves both sets alone. Four lemmas
about cardinalities (`ReservesCounts`, `GivesUpCounts`, `FillsCounts`,
`EmptiesCounts`) carry the counts over the first four; each action is then one
step of the proof. The same five groups are the five cases of `ThreadPool!Next`,
which is why the refinement follows from the same invariant.

`QueuedWithinMax` is not inductive either: `limitMaxThreads()` compares an `int`
that has become unsigned, so its test is worth something only while the queue is
far below `Wrap`. `MacroQueueProofs` adds `QueueSmall`, that every queue is at
most `g_threadMax`, and sorts the steps into those that leave the queues alone,
take one or empty one (`Calms`), end with `limitMaxThreads()` (`Limits`), or
lower `_threadMax` and go on to `limit` (`Lowers`). For `QueuedRepaired` it adds
`DebtInv`: a queue and the runs that have decremented it and not yet looked
(`Clamping`) are together at least 0, so a queue below zero has somebody about to
repair it. `limitMaxThreads()` keeps this only because a negative queue, which
is at least minus the number of actors, never looks small enough to keep: the
reason for `RoomBelowZero`.

The invariant of `MacroCountProofs` is `CountInv`: `ThreadCountExact`, a `Base`
that keeps the count below `Wrap` (types, no reset thread inside `run()`, and
`PoolInv` unless there is `RoomToCount`), and

* `Served`: whoever is blocked in the condition variable is in
  `waitThreadsChanged()` while some thread is inside `run()` or has not notified
  yet, or is paused in its own `run()`;
* `NobodyForgets`: no `clearThreadsSticky()` takes the branch of a timeout, which
  sets the count to 0 (it is where `Garbage` comes in);
* `NoCopyNow`: with `CopyFree`, nobody is inside `copy()`.

The steps are sorted by what they do to the count and the waiters: nothing
(`Plains`), one more waiter (`Blocks`), other signals (`Edits`), a thread counted
in (`Joins`) or out (`Quits`), a thread that ends and notifies (`Ends`), a count
set to 0 (`Forgets`). The point
of `Served` is that a waiter tests the count in the step in which it blocks, that
`_threadCount` reaches 0 only in `RunComplete`, and that this thread
notifies after it. `SignalsAreStable` follows from the same invariant: what
changes the signals requires a count of 0, and whoever is sending is counted.
That argument is without `copy()`, which does not look at the count when it assigns.

`SignalsOutlastCopies` is about programs that call `copy()`, where an unset
status may have made the count useless. Its invariant is `OutlastInv`: on top of
`ObeyInv` and `FreeInv` of `MacroControlProofs` (below)

* `CopiesDisabled`: from its first `dequeue()` until it assigns, `copy()` has the
  macro disabled, so a thread that `start()` makes meanwhile stops at its test;
* `NoneSends`: who is about to assign has joined every thread there was, so that
  none is past that test;
* `UnsetAlone`: where the status is unset, no thread is past the test either: the
  count was 0 with the macro disabled;
* `Reckoned`: the count is too small by some number, and if that is not 0 the
  macro is `Shut`: nobody is inside `start()`, no thread is past the test, and
  either somebody is still joining the threads or there are none. In the first
  case the macro is disabled; in the second the count is negative, and
  `RoomBelowZero` puts it above `_threadMax`. Either way `start()` does nothing.

`MacroControlProofs` first says, for each action, what it may do to an
interruptor, a mutex, a handle or a frame: a catalogue of some fifty places and
the places each leads to (`Moves`), of what is written there (`Effects`) and of
what a call begins with (`InvokeEffect`). `NextEffects` proves the catalogue from
the actions, once, and everything after it argues from the catalogue alone. All its
invariants contain `StructInv`: a frame's label fits its function (`FrameInv`,
`OpsOK`), whoever is between two steps of a section holds the mutex (`HeldOK`),
a thread that is live or gone and not joined is in its macro's handles
(`HandlesOK`), and a call is one its client or its signal makes (`Provenance`,
which is how a hypothesis on the calls of the program reaches the states). On
top of it, for each theorem:

* `ResumeInv`: a waiter waits for threads to end or sleeps in `pauseLoop()`
  (`WaitPlaces`), and on the macro of one that is about to block (`BlockHalted`)
  or sleeps (`SleepersHalted`) the interruptor is neither CONTINUE nor INTERRUPT.
  The unlocked `dequeue()` of a reset thread or a destructor can be missed, but
  writes INTERRUPT_ALL or DISABLE; whoever lets the macro go on holds the mutex,
  which keeps it out between test and block, and notifies in that step
  (`LetsGoOn`).
* `DisableSettles` needs `StructInv` alone: where the macro is disabled and nobody
  commands it, the catalogue has no step that writes another interruptor, nor one
  that begins to: a run goes on to write CONTINUE, and `start()` to `resume`, only
  from INTERRUPT (`SettledKept`); a client's new call is the exception it
  states (`SettledInvoke`).
* `ObeyInv`: with `NobodyInterrupts`, only clients command, no interruptor is
  INTERRUPT, and no `start()` writes CONTINUE over one (`NoneResumes`). The
  invariants of `RegisterInv` and of `SignalsOutlastCopies` contain it.
* `RegisterInv`: a single commander, between its write and `applyDispatch()`,
  remembers what it overwrote (`Remembers`), and outside that window
  registration is what the interruptor says (`Registers`).
* `FreeInv`: the destructor returns when the handles are joined, and a handle
  outlives its thread (`LiveHeld`); nobody comes into a macro that is dying (`Left`).
* `JoinInv`: whoever is about to erase the handles has joined them all
  (`EraseOK`), because no `start()` is inside a dying macro.
* `ResetInv`: while a reset thread, or the call that detaches it, is on a macro,
  the interruptor is INTERRUPT_ALL (`ClearingAll`), so `start()` creates no thread
  (`NoStartNow`) and a second INTERRUPT_ALL has nothing to detach
  (`ClearedByOne`); `resetThread()` then restores what it has read (`ResetPrev`).

`DispatchingProofs` proves, for every set of macros, triggers, activators and
dispatchers, with or without a generic dispatcher, and whatever replaces it:

| Theorem | Statement |
|---|---|
| `DispatchingTypeCorrect` | `Spec => []TypeOK` |
| `MacrosStayRemovable` | `Spec => []MacrosRemovable` |
| `TriggersStayRemovable` | `Spec => []TriggersRemovable` |
| `DispatchStartsAsAsked` | `Spec => []StartsAsAsked` |

The only assumption is `DispatchingAssumption`: macros are not triggers, `Nothing`
is neither a macro nor a dispatcher, and the constants have their types. The
first two invariants are inductive, and the lemmas follow the code: whatever a
macro's members become, `_removeDispatch()` under the *old* members leaves
everybody else placed (`RemovedPlaced`), and `_addDispatch()` under the new ones
adds only what these can remove (`AddedPlaced`). `StartsAsAsked` needs one
more conjunct, `TriggersOwned`: a macro that has a trigger is alive, and the
trigger acts for it unless two macros have had it.

`NamesProofs`, `RegistriesProofs` and `ContextsProofs` prove, for every set of
names and way of folding them, of flags, modes, keys, allocators, objects and
macros, of threads, contexts and signals:

| Theorem | Statement |
|---|---|
| `NamesTypeCorrect` | `NamesSpec => []NamesTypeOK` |
| `EditsReachSpellings` | `NamesSpec => EditsReach` |
| `EditsStayApart` | `NamesSpec => EditsApart` |
| `ValuesReadBack` | `CasesApart => (NamesSpec => []ReadBack)` |
| `RegistriesTypeCorrect` | `RegistriesSpec => []RegistriesTypeOK` |
| `UsesMakerAlways` | `RegistriesSpec => []UsesMaker` |
| `InterruptsOnce` | `RegistriesSpec => []InterruptedOnce` |
| `ContextsTypeCorrect` | `ContextsSpec => []ContextsTypeOK` |
| `RegisteredAreBuilt` | `ContextsSpec => []RegisteredBuilt` |
| `SendsFromOneMoment` | `ContextsSpec => SendsOneMoment` |
| `ImplementsLatest` | `ContextsSpec => LastCreated` |

Their assumptions are `NamesAssumption` (lower-case texts of one rank are one text,
and the built-in names are names), `RegistriesAssumption` (a type has a name, an
allocator makes signals or triggers and not both, and the names are finitely many)
and `ContextsAssumption` (the constants have their types).

* Names: the two comparisons agree, since names of which neither is less have
  equal texts (`Comparisons`). So an edit of a map of names, which changes the
  entry under whatever spelling came first, changes what every spelling of the
  name finds and nothing that another name finds (`NamedEdits`, `ErasedEdits`,
  `KeptBut`); an edit of a map of values changes one value (`Kept`).
  `ValuesReadBack` puts the built-in names in: the rows of a table have different
  names (`TablesApart`), each `case` of a `switch` is a row of the table
  it inverts (`ModifierCasesAreRows`, `ModeCasesAreRows`), and both directions ask
  the program's maps before them. Its hypothesis `CasesApart` says that no two
  built-in names differ only in case, which is true of the strings of the code and
  which the instance of `tables` satisfies.
* Registries: `RegistriesInv` says that while `ownNamed`, each entry is the type
  of that name (`OwnNames`) and each living object's allocator is still under its
  name (`FoundAgain`). That `interrupt()` calls a macro once in any order rests on
  the least index at which the order meets it (`Least`), by well-founded
  induction over the naturals.
* Contexts: `StackInv` (the stack has each registered context once, and its
  elements are the set), `FrameInv` (who constructs or destroys a context has it
  alone), `BuiltInv` (what is registered is built) and `SendInv` (a send has seen
  what it has read). The refinement maps the stack to the pairs of an older and a
  younger context; that erasing one element of a sequence erases its
  pairs and no others is `EndsItsOwn`.

Only model-checked: liveness (`InterruptAllEnds`, `ClearReturns`, `PauseEnds`),
which is out of the reach of the prover.

## 5. Not modelled

* The iteration of `Dispatcher::dispatch()` while a receiver, or another thread,
  changes the registration. It invalidates the iterators of a
  `std::unordered_set`: after that the program has no behaviour to model.
  `Dispatch` is one step, as it is when nobody interferes.
* `setGlobalThreadLimit()`, an unsynchronised write to a variable that other
  threads read. The limit is a constant, and the theorems hold for every limit.
* Blocking (`_isBlocking`) and the name of a macro: they only get and set.
* The `context` pointer a macro or a signal keeps: what it is used for is
  the generic dispatcher (`Dispatching`) and the modifiers (`Contexts`).
* Functor triggers and functor signals, which call what the program gives them,
  and `NoOp`, which sleeps: to a macro each is the `send` of `MacroState`.
* The flag helpers of `api.cpp` and `mcr/inline.h` other than the trigger modes:
  they compute from their arguments, and nothing in the library calls them.
* The counts of the values that have names (`modifiersCount()`,
  `triggerModeCount()` and their like): each returns one constant. Two of them are
  among the disagreements above; a property of constants would say nothing more.
* A null object, a null macro or a destroyed macro in a registry, and the use of a
  context that has been destroyed: undefined behaviour that is the program's.
* The platform layer of the preprocessor, the exception class, the array wrapper,
  the export macros and the player (`play.cpp`), which have no state whose order
  of changes could go wrong.
