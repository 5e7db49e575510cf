# A verification project for Unladen Swallow

Unladen Swallow is CPython 2.6 with an LLVM just-in-time compiler. This
directory models parts of its runtime in TLA+, checks the models with TLC on
small instances, and proves the main results with TLAPS for every value of the
constants. Paths below are relative to the repository.

Modelled are the life of a code object under the JIT with the dictionary watchers
that invalidate it; types with their version tags, method cache, resolution order
and code listeners; the calls that threads and signal handlers leave for the main
thread; reference counts, weak references and the cyclic collector; the import
lock on the lock of `thread_pthread.h`, with fork; and `Queue` on the conditions
of `threading`. What is left out is at the end.

    tlc -workers 2 -config jit_window.cfg MCJitCode
    tlapm JitCode_proofs.tla

The runs take at most three minutes each with two workers, a proof module at most
a few.

## The system

| Component | State | Operations | What makes it correct |
|---|---|---|---|
| Code objects under the JIT (`Objects/codeobject.c`, `Python/eval.cc`, `Python/llvm_compile.cc`, `Python/llvm_fbuilder.cc`) | `co_use_llvm`, `co_hotness`, `co_fatalbailcount`, `co_llvm_function`, `co_native_function`, assumed dictionaries | call, heat up, compile, enter machine code, bail out, invalidate | machine code never uses an assumption that is no longer true; invalidated code is not entered again |
| Dictionary watchers (`Objects/dictobject.c`) | entries, `ma_watchers` | set, delete, pop, clear, update, add and drop watcher, notify | the arrays mirror what code objects assume; every change notifies |
| Types (`Objects/typeobject.c`) | `tp_bases`, `tp_mro`, `tp_subclasses`, `tp_version_tag`, `tp_code_listeners`, method cache | class statements, assignment to attributes, `__bases__` and `__module__`, `PyType_Modified`, `_PyType_Lookup`, add listener, deallocate | a cached lookup is current; every listener hears of a change; orders fit the bases |
| Pending calls, ticker, interpreter lock (`Python/eval.cc`) | ring, `things_to_do`, `_Py_Ticker`, lock | register, make, dispatch, yield | calls made once, in order, none lost; the main thread notices |
| Signals (`Modules/signalmodule.c`) | `is_tripped`, `Handlers[].tripped` | `signal_handler`, `PyErr_CheckSignals`, `PyErr_SetInterrupt` | every signal is handled |
| Cyclic collector and weak references (`Modules/gcmodule.c`, `Objects/weakrefobject.c`) | reference counts, generations, `gc_refs`, weakref lists | deallocate, collect, finalize, clear, call back | only unreachable objects are cleared; callbacks never see them; they are freed |
| Generators (`Objects/genobject.c`) | frame, `gi_running` | send, throw, close, delete | one activation at a time; `finally` blocks run |
| Thread states, locks (`Python/pystate.c`, `Python/thread_pthread.h`) | lists of states, flag under a mutex | create, delete, `PyGILState_Ensure`, `async_exc` | mutual exclusion; a state outlives its uses |
| Import lock and fork (`Python/import.c`) | holder, level | lock, unlock, fork | one owner; no deadlock with the interpreter lock; a child can import |
| Runtime feedback (`Util/RuntimeFeedback.cc`) | counters, small sets of objects | add, clear | counters saturate; at most three objects |
| Hash tables (`Objects/dictobject.c`, `Objects/setobject.c`) | open addressing, dummies | look up, insert, resize | implements a map, also when comparisons change the table |
| Small-object allocator (`Objects/obmalloc.c`) | arenas, pools, free lists | malloc, free | disjoint blocks; arenas sorted by free pools |
| `Queue.py`, `threading.py`, multiprocessing | deques, conditions, semaphores | put, get, join, wait with timeouts | bounded FIFO, no lost wake-up |
| Sorting, heaps, bisection, `sched.py` | lists | pure algorithms | reference definitions |
| Object types, parser, compiler, library, vendored code | | | out of scope, see the end |

How they interact: `PyEval_EvalFrame` heats and compiles a code object at a
call and decides between machine code and the eval loop. A compilation reads
the globals and builtins, and the code object becomes a watcher of both
dictionaries; a dictionary that changes calls back into
`_PyCode_InvalidateMachineCode`, and a type that changes does the same through
its listeners. `_PyType_Lookup` gives tags to a type and all above it, and
`PyType_Modified` takes them from a type and all below it. A deallocation or a
collection calls weak-reference callbacks and `__del__`, which may deallocate and
collect in turn. The import lock is waited for without the interpreter lock.
Machine code and the eval loop both count `_Py_Ticker` down, and
at zero run `_PyEval_HandlePyTickerExpired`, which makes pending calls and gives
up the interpreter lock. Signal handlers only set flags and register a pending
call; the Python handlers run later, in the main thread.

What is hard about it: Python code runs inside C functions (destructors of
replaced values, key comparisons, `mro()` of a metatype, callbacks, collections
started by the compiler), so functions are re-entered with their state half
changed; the links to watchers and listeners hold no references; tags are finite;
pending calls use no lock and run in asynchronous signal context; notifications
race with timeouts; a fork copies locks that no thread of the child will release.
`PROJECT.json` lists each hazard at its line with the properties that would catch it.

## Modules

| Module | What it is |
|---|---|
| `JitCode` | code objects, dictionaries with watchers, frames |
| `MachineCodeLife` | what the JIT promises of a code object |
| `MCJitCode` | instances of `JitCode` for TLC |
| `JitCode_proofs` | types, exactness of watchers, freshness of machine code, watchers added once; `JitCode` implements `MachineCodeLife` |
| `PendingCalls` | pending calls, ticker, interpreter lock, signals |
| `CallQueue` | what the pending calls promise: a FIFO queue |
| `MCPendingCalls` | instances of `PendingCalls` for TLC |
| `PendingCalls_proofs` | types, calls noticed, signals seen; `PendingCalls` implements `CallQueue` |
| `TypeCache` | types, version tags, method cache, listeners |
| `MCTypeCache` | instances of `TypeCache` for TLC |
| `TypeCache_proofs` | types, uniqueness of tags, tags are valid upwards |
| `TypeLookup_proofs` | the orders of types are current; the method cache and machine code answer what a lookup would find |
| `MroC3` | the method resolution order, against reference definitions |
| `MroC3_proofs` | the orders are linearizations of the classes above, monotonic, and refused only when there is none |
| `CyclicGC` | reference counts, weak references, the collector |
| `MCCyclicGC` | small programs for `CyclicGC` |
| `CyclicGC_proofs` | types, exactness of the lists, `move_unreachable` is exact, the trash is hidden from Python code and freed, no callback is lost |
| `ThreadLock` | what the lock of `Python/thread.h` promises: a semaphore |
| `ImportLock` | the import lock, the flag under a mutex, fork |
| `ImportLock_proofs` | types, ownership, no lost wakeup, the flag is a semaphore |
| `SharedQueue` | what `Queue` promises: atomic methods |
| `LibQueue` | `Queue` and `Condition.wait`/`notify` |
| `MCLibQueue` | instances of `LibQueue` for TLC |
| `LibQueue_proofs` | `LibQueue` implements `SharedQueue`; conditions know their waiters; no notification is lost |

A definition whose name ends in a slip (`Release_quietly`, `get_from_full`) stands
beside the one it spoils. No specification uses it: it shows that the property it
breaks depends on that detail of the code.

### JitCode

State. `value`, `liveDicts` are the entries and allocation of dictionaries;
`notifying[d]` counts operations that have changed `d` and have yet to call
`notify_watchers`; `merging` is a `PyDict_Merge` in progress. `ma_watchers[d]` is
the watcher array of `d` in its order. The `co_...` variables have the
names of the fields; `co_llvm_function` and `co_native_function` hold the object
that LOAD_GLOBAL embedded in the IR or machine code, `Safe` if nothing is
embedded. `frame[f]` is where a frame is: compiling, ready, in machine code, in
the eval loop. `failed` collects failed assertions: the release build goes on.

Actions. One per dictionary operation (`PyDict_New`, `SetItemNew`,
`SetItemReplace`, `DelItem`, `Dict_pop`, `PyDict_Clear`, `Dict_dealloc`, merges),
per step of a call (`NewFrame` to `EvalNative`), per way in or out of machine
code (`Yield`, `Bail`, `ForIter`), and per outside event on a code object.
`NotifyWatchers`, `WatchGlobals`, `DropAssumptions` and `FinishFunction` are the
helpers the C functions share. `NotifyWatchers` walks the array by index as
`notify_watchers_helper` does: `Visit` invalidates the code object at a slot, takes it
out of the array of its other dictionary (`DropWatcher`, which removes the first entry
and moves the rest up), and then clears the slot. When one dictionary is both, this is
the array that is being walked, so that entries move past the index. `CanRun` is the granularity: with the interpreter
lock Python code runs between bytecodes, and within a C function only where that
function may re-enter the interpreter (the DECREF of a replaced value, which
opens the window in which a change has not notified yet, and the collection of
unused LLVM globals at the start of a compilation).

Abstractions. `co_optimization` is only whether IR exists; `co_hotness` and
`co_fatalbailcount` saturate; a call or loop iteration heats by one step; any
frame may be a generator; names outside `Name` only invalidate more; failure to
register a type listener is part of `compile_fails`. Re-entry of Python from a
collection inside an assignment to `co_optimization` or a print of `co_llvm` is
left out. `MaxPending` bounds the operations in progress on one dictionary.
`Env` says which of the rare events happen. One of them, `nomem_twice`, is in no run
and excluded by the theorems about watchers: `_PyCode_WatchGlobals` has no memory for
the second add of a code object that is in the array twice. It breaks the arrays (see
the other disagreements). `JitCode` states no fairness: all
its properties are safety properties.

### PendingCalls

State. The ring and its ends, `things_to_do`, `Py_Ticker`, the `busy` of
`Py_AddPendingCall` (`add_busy`), `is_tripped` and `tripped` are the globals of
the source. `eval[t]` is where the innermost evaluation of thread `t` is between
two opcodes, `tick[t]` the local of DISPATCH; `reg[r]` where thread or signal
handler `r` is within a registration; `nest[t]` the signal handlers stacked on
thread `t`; `making` the one active `Py_MakePendingCalls` and `scans` the stack
of active `PyErr_CheckSignals` in the main thread.

Actions. One per access to a variable that another thread or a handler shares,
because none of them is under a lock: `Arrive` and `Flag` are the two stores of
`signal_handler`, `SetInterrupt` and `Trip` those of `PyErr_SetInterrupt`,
`TestBusy` to `ClearBusy` are `Py_AddPendingCall`; `Load` and `Dispatch` the
load and store of DISPATCH; `Expire` to `Acquire` are
`_PyEval_HandlePyTickerExpired` and the lock; `MakeBegin` to `JobReturns` are
`Py_MakePendingCalls`; `CheckSignals` to `HandlerRaises` are
`PyErr_CheckSignals`. A handler runs on top of the thread it interrupts, which
does not move until it returns (`Turn`). `ScanOnTop` and `MakeOnTop` say which C
function of the main thread is on top of its stack.

Abstractions. A signal is blocked while its handler runs, and so is handled by
one thread at a time (`sigaction`'s default mask). An opcode has at most one of
the effects modelled. The opcode before which nothing periodic happens
(SETUP_FINALLY) is a choice. A negative ticker is -1. Locals that are dead have
one value. The two stores of function and argument into a slot are one, and
stores happen in program order. The lock is who holds it. `tstate->async_exc`,
`wakeup_fd`, installing handlers, and the child of a fork are left out. Threads
other than the main one return from `PyErr_CheckSignals` at once, which is no
step at all. `MaxScans` bounds only the nesting of direct calls of
`PyErr_CheckSignals` in Python handlers.

Fairness (`FairSpec`, for `AllDone`). Weak fairness of each step of a
registration, of each thread's evaluation, of `Py_MakePendingCalls` and of
`PyErr_CheckSignals`: the operating system runs a thread that can run. Strong
fairness of `Acquire(Main)`: other threads give the lock up every
`Py_CheckInterval` opcodes, and the operating system does not let the main
thread lose the race for ever. Strong fairness of `Expire`: a program does not
consist of SETUP_FINALLY. Strong fairness of `JobReturns(TRUE) \/
HandlerReturns`: the Python code that C functions call returns. `<>[][~Asked]_vars`:
at last no more is asked; a queue that is filled for ever is never empty.

### TypeCache

State. The fields of a type under their own names; `have` and `valid` are the two
tag flags; `method_cache` maps slots to entries; `native` and `assumed` say of each
code object whether it has machine code and which lookups that code relies on.
`pend[a]` is the operation actor `a` is in the middle of. An actor is a thread or a
nested activation of the interpreter in the same thread.

Actions. `type_new` and `type_dealloc`; `type_setattro`, whose second half
`update_slot` comes after the replaced value was dropped; `type_set_module` with
`PyType_Modified` before the write, as in the source; `_PyType_Lookup` as
`LookupHits`, `LookupMisses`, `LookupWalks` and `LookupCaches`, with
`assign_version_tag` in between as an explicit stack (`TagIsValid` to
`TagBecomesValid`); the assignment to `__bases__` (`type_set_bases` to
`SetBasesEnds`), with `mro_subclasses` as a stack of levels and the saved orders it
restores when it fails. `Found` is the compilation of an attribute access: it
registers the listeners and records what the machine code assumes.
`PyType_Modified(x, v)` gives the effect of the recursion: `Reached` is the least
set of types with a valid tag that contains `x` and is closed under
`tp_subclasses`.

`Env` says at which points Python code runs (`decref`, `compare`, `mro`) and what
else happens (`fails`, `foreign`, `clear`, `wrap`); an operation whose points run no
Python code is atomic for the others, as it is under the interpreter lock.

Abstractions. `mro_internal` takes any order that `Merges` allows, that is, one
that keeps the orders of the bases and of the tuple; which of them the code picks is `MroC3`. An
`mro()` that itself changes the hierarchy or clears the type cache is left out
(`Settled`). Metatypes have no attributes of their own here, types no slots.
`TagsLeft` is a bound: without `wrap`, a lookup that needs tags begins only while
enough are left for every type.

### MroC3

Every hierarchy that up to `MaxClass` class statements with up to `MaxBases` bases
each can build. `pmerge` is the loop of `pmerge` as a recursive function,
`mro_implementation` the list of lists it is called with. It is checked against
definitions that do not mention the algorithm: `OrderIsAbove` (a permutation of the
classes above), `Monotonic` (local precedence and monotonicity),
`RefusedOnlyWhenInconsistent` (a refusal implies a cycle among the constraints) and
`EarliestFirst` (the tie-break the comment in `pmerge` describes). TLC checks them for every
hierarchy within the bounds of `mro_c3`, `MroC3_proofs` proves them without bounds.

### CyclicGC

State. `refs[o]` is what `tp_traverse` visits, `held` what the running program
refers to, `wr_object[w]` the referent of a weak reference; a reference count is
derived from these and from what C functions on `stack` own. `generations`,
`unreachable`, `finalizers` and `wrcb_to_call` are the lists of the source in their
order, `gc` the phase of the collection under way. `trash`, `cleared` and `called`
are history.

Actions. The program: `New`, `Store`, `Erase`, `Hold`, `Release`,
`PyWeakref_NewRef`, `Collect`, and `Return` from a callback or `__del__`. A
deallocation: `Untrack` to `DeallocEnds` (weak references cleared, callbacks called,
`__del__`, resurrection, fields released). A collection: `Collect` does the merging,
`update_refs` and `subtract_refs`, which run nothing; `MoveNext` is one round of
`move_unreachable`; `MoveEnds` is `move_finalizers`, its closure, and the first pass
of `handle_weakrefs`; `CallNext` to `CallMoves` its second; `ClearNext` to
`DeleteMoves` is `delete_garbage`; `CollectEnds` is `handle_finalizers`.
`PythonRuns` is the granularity: an object whose last reference is gone is
deallocated before anything else moves.

Abstractions. An instance and its `__dict__` are one object, references form a set
(an object refers to another once), allocations inside C functions start no
collection, and there are no proxies, debug flags or thresholds.

Two windows are left out, because the code does not survive them. `subtype_dealloc`
untracks an object some time before it clears its weak references, and
`PyWeakref_GET_OBJECT` does not look at the reference count, so that Python code that
runs in between gets at an object that will be freed under it. The trashcan
(`typeobject.c:975`) keeps an object for later when `PyTrash_UNWIND_LEVEL` deallocations
are nested; here every deallocation runs at once. For two or more weak references
with a callback `PyObject_ClearWeakRefs` allocates a tuple (`weakrefobject.c:919`), which may
start a collection; `CallbackAssumption` says that programs make at most one such weak
reference to an object. All properties and theorems of `CyclicGC` are about programs and
depths outside these windows.

`MaxStack` bounds the functions under way when Python code does something new.

### ImportLock and ThreadLock

State. `import_lock_thread` and `import_lock_level` of `import.c`; `locked` and
`mut` are the flag and the mutex of `pthread_lock`; `pc[t]` is where a thread is.
Actions. One per step between which another thread can move: `lock_import` reads and
writes with the interpreter lock; `PyEval_SaveThread` and `PyEval_RestoreThread` give
it up and take it; `pthread_mutex_lock`, `TryTest`, `Test`, `Release` and
`pthread_cond_signal` are those of `PyThread_acquire_lock` and
`PyThread_release_lock`, with spurious wakeups. `NoBlock` is
`PyImport_ImportModuleNoBlock`. `Fork` goes on in the child: only the forking thread
runs, the flag, the mutex and the name on the lock stay as they were. `orphaned`
records whether another thread had any of them.

`MaxLevel` bounds nested imports. Fairness (`FairSpec`): weak fairness of
`LockStep(t)`, the steps of a thread that is inside the functions of the lock; a
thread is never obliged to import, to end an import or to give up the interpreter.
`CHECK_DEADLOCK FALSE`: the child of an orphaned lock does hang. If it is the
mutex that a lost thread left locked, the child hangs in its first try, with the
interpreter lock; `SleepsWithoutGIL` counts a mutex of a lost thread as no offence,
so it does not catch this. Left out is `lock_import` without memory for the lock
(`import.c:274-277`), where nothing is locked at all.

### LibQueue and SharedQueue

State. `queue` and `unfinished_tasks` of `Queue`, the shared `mutex`, and per
condition the list `waiters`. `released` are the threads whose waiter lock has been
released, `notifying` the waiters that the `notify()` under way has yet to serve,
`late` the threads whose deadline has passed. A lock that an interrupted wait leaves
in the list is `Nobody`.

Actions. What a thread does with the mutex is one step, except the notification:
`NotifyRelease` and `NotifyRemove` are separate because a waiter that polls its lock
may be giving up in between (`TimedOut`, `Forget`), which needs no mutex. Timeouts
are `Expire`, at any moment. `Interrupt` is a Python signal handler that raises in
the sleep of a wait.

Bounds. `MaxTasks` stops the producers; a handler raises once, and only there. The
clock does not go back. `FairSpec`: weak fairness of each thread's `Step` and of
`Expire`, and at last no new calls. `CHECK_DEADLOCK FALSE`: a consumer of a queue
that nobody fills waits for ever, and `OnlyVainWaits` says that nobody else does.


## Runs

| Run | Distinct states | Checks |
|---|---|---|
| `jit_window` | 125,786 | `StaleOnlyWhilePending`, `EntryAssertionsHold`, `AddedOnce`, `ImplementsLife` |
| `jit_hostile` | 290,872 | `TypeOK`, `WatchersExact`, `WatcherAssertionsHold` |
| `pend_queue` | 944,668 | `TypeOK`, `CallsNoticed`, `ImplementsQueue` |
| `pend_nested` | 1,432,080 | `SignalsSeen` |
| `pend_signals` | 254,419 | `AllDone` (liveness) |
| `tc_atomic` | 521,905 | `TypeOK`, `TagsOrdered`, `TagsUnique`, `CacheCurrent`, `NativeCurrent`, `OrdersCurrent` |
| `tc_reenter` | 883,955 | `CacheCurrent` |
| `mro_c3` | 6,755 | `OrderIsAbove`, `Monotonic`, `RefusedOnlyWhenInconsistent`, `EarliestFirst` |
| `gc_own` | 961,188 | `TypeOK`, `TrashHidden`, `UnreachableExact`, `ListsExact`, `CallbacksMade`, `TrashFreed` |
| `gc_last` | | `TrashHidden`, violated (see Findings) |
| `import_lock` | 51,453 | `TypeOK`, `HolderOwns`, `SleepsWithoutGIL`, `ImplementsSemaphore`, `LockTaken` and `ChildImports` (liveness) |
| `lib_queue` | 227,472 | `WaitersExact`, `NotificationsReach`, `ImplementsQueue`, `OnlyVainWaits` (liveness) |

`jit_window`: one code object that goes hot and relies on a type, two frames,
two values, destructors that run Python code. This is the instance in which a
replaced value is dropped, and other code runs, before the watchers hear of it.
Two frames are what it takes to suspend one in machine code while the other
runs, two values to make an embedded one wrong, and one operation in progress
per dictionary to have the window open in both dictionaries at once.

`jit_hostile`: two code objects, one of which the compiler refuses, compiled at
every call, in one frame; collections inside a compilation, failing merges and
compilations, watcher arrays that cannot grow, programs that set
`co_optimization` or print the IR; and code whose globals may be its builtins,
so that one dictionary holds it twice, and the notification compacts the array it is
walking. Two code objects are what it takes to have one between, or behind, the entries of
another. An array that cannot grow is met with the code object in it at most once.

`pend_queue`: a worker that registers calls of its own and interrupts the main
thread, with a signal whose handler runs on top of it, and calls that fail. With
three slots the ring holds two calls, so it fills, empties and wraps. All
registrations are on one thread's stack: with two that register at once calls
are lost, as the comment at `Python/eval.cc:516-527` says.

`pend_nested`: two signals, direct scans nested two deep within the scan of a
pending call, and the main thread interrupting itself. Two signals are needed
for one to be behind a scan and one ahead.

`pend_signals`: two signals in the main thread, one handler possibly on top of
the other, and a worker that also counts down and resets `_Py_Ticker`. With
`Py_CheckInterval` 1 the loads and stores of DISPATCH overwrite the 0 that a
handler stores; the call is noticed all the same.

`tc_atomic`: the base object and three types, of which the lowest has one base or
two, in either order, so that some assignments to `__bases__` find no order; one attribute name, one
value or none, one code object, a method cache of two slots in which every tag
collides with others. Operations run no Python code in the middle.

`tc_reenter`: two actors, so that one is within an operation while the other looks
up, assigns or clears the cache; a chain of three types whose lowest has no tag,
as an old-style class; destructors, `mro()` in Python and
`sys._clear_type_cache()`. Tags start again when the cache is cleared, so two
actors hold tags of two counts.

`mro_c3`: five classes with two bases each contain the smallest hierarchies
without an order and those in which the tie-break decides.

`gc_own`: a cycle of two objects, a weak reference to one of them with a callback
that has `__del__`, which the cycle may keep and which may keep the cycle; two
generations; one object has no `tp_clear`. Functions nest to three: a collection in
a callback in a deallocation.

`import_lock`: four threads, so that one owns, one asks, one tries and one forks,
and nested imports of level two.

`lib_queue`: two producers and two consumers on a queue of two places, with calls
that block, poll and have timeouts, and `join` and `task_done`. Three tasks
fill the queue once and leave a producer waiting.

Symmetry is used over values and frames in `jit_window` and over actors in
`tc_reenter`, for safety properties only. Every property of a passing run has a
mutant in `PROJECT.json`, a plausible slip in the code, defined next to the
definition it replaces, under which TLC finds the property violated.

## Findings

`gc_last` (`Modules/gcmodule.c:572`). `Modules/gc_weakref.txt` says that once the
unreachable objects are known no Python code can access one. The first pass of
`handle_weakrefs` drops the callbacks of weak references *to* unreachable objects.
A weak reference that is itself unreachable may refer to an object of an older
generation (or one kept because something has `__del__`) whose last reference is in
the trash. `tp_clear` frees that object, its weak reference is still there, and the
callback runs with objects the collector has cleared or is about to.

Other disagreements met while modelling. No run is kept for them; each shows with
the constants given, otherwise as in the run named.

| Where | What the code does | How to see it |
|---|---|---|
| `Python/eval.cc:4140` | `PyFrame_New` keeps a frame out of machine code made for another namespace; a hot code object is put back into it by `co->co_use_llvm = f->f_use_llvm = 1` | `jit_window`, `TwoNamespaces` with a third dictionary `g2`, `Env = {}`: `StaleOnlyWhilePending` |
| `Python/eval.cc:4154` | a hot code object that the compiler refuses is added again to watcher arrays it is in, which `Python/llvm_notes.txt` calls a fatal error | `jit_hostile`, `Env = {"nomem"}`: `AddedOnce` |
| `Objects/codeobject.c:205` | of a code object whose globals are its builtins, and which is in their array twice, the add for lack of memory is taken back by removing the first entry, so that another watcher comes between its entries; the walk of `notify_watchers_helper` (`dictobject.c:2106-2133`) then skips that watcher, which keeps assuming the dictionary, and meets the other one twice, the second time failing the assertion "Code isn't watching this dict!" | `jit_hostile`, `Env` with `"nomem_twice"`: `WatcherAssertionsHold`, `WatchersExact` |
| `Python/llvm_fbuilder.cc:1225` | printing `co_llvm` after an invalidation compiles LOAD_GLOBAL against NULL dictionaries | `jit_window`, `Env = {"print_ir"}`: `EntryAssertionsHold` |
| `Python/eval.cc:547` | `busy` is tested and set in two steps: of a worker's call and that of a signal which comes to the main thread, one overwrites the other, though the comment above lets any thread register and a registration that returns 0 has succeeded | `pend_queue`, `Hosts = {Main}`, `Interrupters = {}`, `MayFail = FALSE`: `ImplementsQueue` |
| `Modules/signalmodule.c:873` | a Python handler that raises leaves the signals behind it tripped with `is_tripped` cleared; they wait for the next signal | `pend_nested`, `MayFail = TRUE`: `SignalsSeen` |
| `Modules/signalmodule.c:891` | `interrupt_main()` is lost when a signal handler of another thread has published its call and not yet cleared `busy` | `pend_signals`, `Interrupters = {Main}`, `Hosts = {worker}`, `NSIG = 1`, `Py_CheckInterval = 0`: `AllDone` |
| `Objects/typeobject.c:204` | when the tags wrap around in the middle of a chain, `assign_version_tag` answers 1 for a type that it leaves without a valid tag, and the types below it get valid ones; the comment at line 63 excludes that | `tc_atomic`, `Env = {"wrap", "fails"}`: `TagsOrdered` |
| `Objects/typeobject.c:510` | a failed assignment to `__bases__` of a type above a diamond restores a type that was updated twice to its middle order; `Lib/test/test_descr.py:3884` checks the restoring with one update | `tc_atomic` with all seven types, `Diamond`, `Env = {"mro", "fails"}`, no values and no code: `OrdersCurrent` |
| `Objects/typeobject.c:166` | a type that gets a base without tags loses its flag before `PyType_Modified`, which then tells nobody, though `Python/llvm_fbuilder.cc:1520` relies on it | `tc_atomic`, `Legacy = {A}`: `NativeCurrent` |
| `Objects/typeobject.c:1689` | an `mro()` may name a type that is no base; a change of it does not reach the types that inherit it | `tc_atomic`, `Env = {"fails", "foreign"}`: `CacheCurrent` |
| `Objects/typeobject.c:2527` | a comparison of keys in the walk may run Python code that changes a dictionary the walk has passed; the type has no valid tag yet, so nobody is told, and the old answer is cached under the tag it then gets | `tc_atomic`, `Actor = {a1, a2}`, `Env = {"compare", "fails"}`: `CacheCurrent` |
| `Objects/typeobject.c:507` | a type that an `mro()` looks into in the middle of an assignment to `__bases__` gets its tag by way of the new bases; when the assignment fails, its old bases have none, and a change of them does not reach it | `tc_reenter`, `Env = {"mro", "fails"}`: `CacheCurrent` |
| `Objects/typeobject.c:204` | the first lookup after `sys._clear_type_cache()` gets tag 0 and leaves its type without a valid tag; machine code that listens to that type is not told of changes | `tc_atomic`, `Env = {"clear", "fails"}`: `NativeCurrent`, or `Tag0 = 0` |
| `Python/llvm_fbuilder.cc:1557` | code registers with the type of a descriptor, which need not have a valid tag since nothing has been looked up in it; when that type gets a `__get__`, `PyType_Modified` returns early | `tc_atomic`, two names of which `g` is the `Getter`, `ClassOf <- Descriptor`: `NativeCurrent` |
| `Python/llvm_fbuilder.cc:1521` | the comment above wants a type that supports the method cache, "so we can listen for modifications to it"; a type in which only names of more than 100 characters were looked up supports it and has no valid tag, and `PyType_Modified` returns early | `tc_atomic`, `Cacheable = {}`: `NativeCurrent` |
| `Python/import.c:2046` | `PyImport_ImportModuleNoBlock` tests the name on the lock, which a thread that has acquired the lock writes only once it has the interpreter lock again; it then waits | `import_lock`: `NoBlockNeverWaits` |
| `Lib/threading.py:250` | a signal handler that raises in `Condition.wait()` leaves the waiter's lock in the list, where a notification to it is lost | `lib_queue`: `OnlyVainWaits` without `interrupted` |

## Proofs

All theorems hold for any number of code objects, dictionaries, types, frames,
values, threads, signals and calls, under the named assumption on the constants of
each module, which TLC evaluates on every run: `ConstantsAssumption` of `JitCode`
and `PendingCalls`, `TypeAssumption`, `HashAssumption` and `BasesAssumption` of
`TypeCache`, `BoundsAssumption` of `MroC3`, `ObjAssumption` and `CallbackAssumption` of `CyclicGC`, `ThreadAssumption` of `ImportLock`, `LibQueueAssumption` of `LibQueue`.

`JitCode_proofs`:

* `TypeCorrect`: `TypeOK`, for every environment. Inductive with `AssumptionsPaired`
  (the two assumed dictionaries are set and reset together): `TypeInv`.
* `WatchersAlwaysExact` and `WatcherAssertionsAlwaysHold`, unless the environment has
  `nomem_twice` (`NeverTwiceShort`), with which both are false. Exactness is not
  inductive: in an array `<<c, e, c>>` the walk by index meets `c`, removes it, and never looks
  at `e`. `ArraysPlaced` says that the entries of a code object are neighbours, as many as its
  assumptions say; `WatchInv` is `TypeInv` with it and `WatcherAssertionsHold`. Adds go
  to the end, one after the other, and drops take the first entry and close the gap
  (`PlacedDrop`), so entries stay neighbours as long as an add that is taken back finds at
  most one. `Walked` is the invariant of the walk: the slots behind the index are cleared, a
  code object was visited once and is in no array any more, or not yet and is in all arrays as
  before. At the end nobody was missed and nobody was met twice (`NotifyIs`).
* `MachineCodeCurrent`: `StaleOnlyWhilePending`, assuming `Orderly`: the limit of
  fatal bails is 1, each code object runs with one namespace, and no collection
  runs in a compilation, no merge fails, nothing prints or re-enables the code; and, as in
  all theorems that build on `WatchInv`, no `nomem_twice`.
  Each exclusion is one the code needs; with two namespaces the property is
  false (the first of the other disagreements). `FreshInv` adds to `WatchInv` that invalidated code
  is off (`RetiredOff`), that valid code embeds the current value unless a change
  is pending (`EmbeddedCurrent`), that frames run in their code's namespace
  (`OwnNamespace`) and that machine code comes from the IR (`MadeOnce`).
* `WatchersAddedOnce`: `AddedOnce`, assuming `AllCompile`: every code object can be
  compiled, no compilation fails or is interrupted between the watching and the IR,
  and globals are not their own builtins. `OnceInv` adds to `WatchInv` that code
  without IR watches only in the middle of its compilation (`BareUnwatched`). Each
  exclusion is needed: a compilation that is given up leaves the code watching, and
  the next attempt adds it again (see the other disagreements).
* `ImplementsMachineCodeLife`: the initial states map to initial states and each
  step of `JitCode` to a step or stutter of `MachineCodeLife`, unless a program
  sets `__use_llvm__` after an invalidation or the environment has `nomem_twice`. `LifeInv` is `WatchInv`, `RetiredOff`
  and that frames keep their code object alive (`FramesKept`).
* `EntryAssertionsAlwaysHold`, assuming `OnlyCallsCompile`.

`PendingCalls_proofs`:

* `PendingCallsTypeCorrect`. Inductive with `ScansPlaced`: a handler is of a
  signal, so moving on from it stays within the scan.
* `EveryCallNoticed`: `CallsNoticed`, inductive with the types. It does not need
  `busy`: each registration that publishes then sets `things_to_do` itself.
* `NoSignalHidden`: `SignalsSeen` when Python handlers do not raise; with handlers
  that raise it is false (see above). `SeenInv` adds `InterruptHoldsLock`:
  `PyErr_SetInterrupt` stores its two flags in the unsafe order, and only the
  interpreter lock keeps a scan from coming between. `ComesBy` says which
  activation on the stack of scans has yet to look at a signal.
* `PendingCallsAreAQueue` (`ImplementsQueue`), assuming `OnlyRegistrar`: one thread,
  with the signal handlers that interrupt it, registers all calls. Between two
  threads the test and the setting of `busy` do not exclude, and the ring loses calls
  (see above); between a thread and its handlers they do. `NestInv`: each
  handler is on the stack of that thread once. `BusyInv`: at most one registration
  holds `busy`, and one that found it clear and has not set it yet is
  below the holder on the stack, so that it goes on only when `busy` is clear again.
  (The comment at `eval.cc:519` calls nested registration unsafe; on one thread it
  may be refused, which the caller is told, and breaks nothing else.)
  `RingInv`: the holder alone writes, into the slot after the last call, and publishes
  only while that leaves a slot free. `MakingInv`: the call that is taken is the first
  of the ring until `pendingfirst` advances, and a scan called from a pending call
  is one of its own. `Remainder` and `RingIs` state `%` on slots as a case
  distinction, which the prover can use.

`TypeCache_proofs`:

* `TypeCacheTypeCorrect`: `TypeOK`, for every environment. `TypeInv` adds `OneBusy`
  (at most one actor is at a point where no Python code runs, so that nobody comes
  between the steps of `assign_version_tag`) and `FramesPlaced` (the types on
  its stack may have tags).
* `TagsAlwaysUnique`: `TagsUnique`, assuming `TagsLast`, that programs neither use up
  the tags nor clear the cache. `UniqueInv` says it also of the types on the stack of `assign_version_tag`,
  which are numbered and not valid yet, and that all these tags are below the
  counter; the property alone is not inductive, since a tag is given some steps
  before it becomes valid.
* `TagsAlwaysOrdered`: `TagsOrdered`, on which the early return of `PyType_Modified`
  depends, assuming `Undisturbed`: all types may have tags, the tags last, and `mro()`
  is not Python code. A type without tags takes the flag of those below it away
  (`typeobject.c:166`); an `mro()` in Python sees the middle of an assignment to
  `__bases__`, where a type is linked to its old bases and named by its new ones; and
  a wrap gives valid tags above which there are none. `OrderInv` is `TypeInv` with
  four parts: every live type may have a tag (`AllHave`), orders and bases name live
  types (`OrdersLive`), a type is linked to its bases and below
  them in tags, to the old ones while it is being moved (`BasesInv`), and each base of a type on the stack of
  `assign_version_tag` is valid, still to be treated, or next on the stack (`StacksUp`).

`TypeLookup_proofs`:

* `OrdersAlwaysCurrent`: `OrdersCurrent`, unless an `mro()` names a type that is no base
  (`"foreign"`), in the behaviours in which no assignment to `__bases__` fails that has
  treated a type twice (`NoneTwice`). The second exclusion is the failure above a
  diamond of the other disagreements, where the property is false; the theorem says that
  nothing else breaks it: not an `mro()` in Python that looks types up half way, and not
  the other failures. `PlaceInv` is `TypeInv` with: types are linked to their bases and
  name live ones, the first of their order being themselves (`Placed`); an order is one
  that `Merges` allows unless it is on the stack of `mro_subclasses` (`OrdersGiven`);
  all types on that stack inherit from the one that is being moved, and none of its bases
  does, so that the orders the merge starts from stay put (`MoveInv`); and putting the
  saved orders back gives the orders of before (`RestoredInv`).
* `CacheAlwaysCurrent`: `CacheCurrent`, assuming `Plainly`: `Undisturbed`, tags that last
  (`TagsLast`), no `"foreign"`, and key comparisons that run no Python code
  (`"compare"`); with each of them the property is false (see the other
  disagreements). `FreshInv` joins `OrderInv`, the uniqueness of tags and `PlaceInv`, and
  adds that an entry holds what the walk finds unless an attribute that the type inherits is being
  written (`Entries`), and what the operations rely on that are half done (`Midway`): while bases are being
  moved, types with a valid tag still have their old order; `__module__` is written when
  no valid tag depends on it; and what a walk has found so far is still so. The lemma
  everything turns on is `Told`: after `PyType_Modified(x)`, which follows the links and
  returns at types without a valid tag, no type whose order contains `x` has a valid tag. A
  type that broke it, with an order as short as possible, has a base that breaks it too.
* `NativeAlwaysCurrent`: `NativeCurrent`, assuming `PlainCode`: `Plainly`, every name short
  enough for the cache, a first tag that is not 0, and no attribute that may be a
  descriptor. `HeardInv` is `FreshInv` with: machine code that may be used relies on types whose
  tags are valid and which have it among their listeners (`FactsHeard`). This is why it
  needs the assumptions: a lookup of a long name gives no tag, with tag 0 the type is left without a
  valid one, and the type of a descriptor need not have one; `PyType_Modified` returns
  early for all three.

`MroC3_proofs`, for any number of classes and of bases:

* `OrdersAlwaysAbove` (`OrderIsAbove`), `AlwaysMonotonic` (`Monotonic`),
  `RefusedAlwaysInconsistent` (`RefusedOnlyWhenInconsistent`) and `AlwaysEarliestFirst`
  (`EarliestFirst`). `pmerge` is a recursive function of sequences of lists, for which the
  library has no theorem, so the argument starts with what it is: the number of classes
  in the lists (`Left`) falls with each step, solutions of the equation for fewer classes
  than `n` exist for every `n` and agree with each other (`SolutionExists`,
  `OneSolution`), and `pmerge` satisfies its equation (`PmergeIs`). By the same number,
  `MergeIs` then says what it returns: lists merged into one sequence that keeps the order of
  each and prefers the earlier ones (`Merged`), or a failure, and then the classes at the front
  of the lists of some step each have to come after another one (`Stuck`). The invariant `ClassesMade` is
  that every class was made this way from bases made before it; what holds of the
  orders follows from it class by class, by the least class for which it would fail. The
  last element is object because it is so in the order of each base; monotonicity is
  handed down because a class above `c` is `c`, or above one of its bases.

`ImportLock_proofs`:

* `TypesHold`, `OneOwner` (`HolderOwns`) and `NobodySleepsWithGIL`
  (`SleepsWithoutGIL`), for any threads, forks and spurious wakeups. `IInv` adds to
  them who may have the mutex and the interpreter lock at each `pc` (`MutexByPC`,
  `GILByPC`) and that a thread whose name is on the lock is not within the functions
  of the lock (`HolderRuns`).
* `WakeupsReach` (`NoLostWakeup`): in a process without fork, a thread that sleeps
  while the lock is free is about to be woken, or another thread is about to test.
* `LockIsSemaphore` (`ImplementsSemaphore`): the lock implements the semaphore that
  the other half of `thread_pthread.h` uses.

`LibQueue_proofs`:

* `QueueIsShared` (`ImplementsQueue`): the methods are atomic. It rests on
  `CallsTyped` alone: whoever is within a method is in a call that it makes, and one
  that sleeps to a deadline is in a call with a timeout. That notifications reach
  somebody is not needed for atomicity; it is what `NotificationsReach` is about.
* `ConditionsKnowWaiters` (`WaitersExact`). `WaitInv` adds to it that `notify()` runs
  with the mutex and has somebody to serve (`WaitersTyped`), and that it serves
  waiters of its own condition and takes a lock out of the list only after releasing
  it (`ServesOwn`). `list.remove()` takes out the first of equal elements
  (`WithoutIs`), and a thread is in a list once, so that it is out afterwards.
* `NotificationsAlwaysReach` (`NotificationsReach`), assuming finitely many threads.
  The property is not inductive: a thread that gives up is on its way to the queue
  already, but while its lock is still in the list the next notification may go to
  it. `ReachInv` therefore counts only those whose lock is not in the list, or who
  are being notified (`Due`): a put makes one more of them or finds nobody asleep, a
  get is one of them (`OneMore`, `OneLess`), and whoever goes to sleep found nothing
  (`NothingThere`).

`CyclicGC_proofs`, for any objects, classes of objects, programs and number of
generations:

* `TypeCorrect` and `ListsAlwaysExact` (`ListsExact`)
  come from one invariant, `HeapInv`; neither is inductive,
  because callbacks and `__del__` run with any functions suspended below them. Its
  parts: an object whose deallocation has not reached `__del__` (`Buried`) is named by
  no object, list, frame or weak reference (`HeapOK`, `Lost`), so that Python code,
  which gets only at `Accessible` objects, cannot bring it back (`AccessibleIs`); the
  stack has one deallocation per object and one collection (`Separate`), and what a
  suspended frame will do next is still possible: the collector's current object is the head
  of its list, unless it was freed, and the weak references to be called are owned by
  the collection (`FramesOK`); in `move_unreachable` no Python code runs and nothing is to be
  deallocated (`MoveOK`); the lists have each live object that is not buried once
  (`ListsApart` and `Listed`). `RefcntZero` links the two views of a reference: a
  count is 0 exactly when nothing refers to the object.
* `UnreachableAlwaysExact` (`UnreachableExact`). `ScanInv` states of `gc_refs` what
  the comments of `move_unreachable` claim: scanned objects are reached from outside,
  those still to be scanned have a positive count only if they are, and nothing
  found so far leads to the others, whether they wait in `young` or were
  set aside.
* `TrashAlwaysHidden` (`TrashHidden`), under `[]OwnReferents`: when
  `move_unreachable` is done, a weak reference of the trash that has a callback refers to
  an object of the trash, if to any. Without that the property is false: the finding of
  `gc_last` is a run in which such a weak reference outlives the first pass of
  `handle_weakrefs`. `OwnTrashHidden` discharges the hypothesis for every program in which
  nothing refers to a weak reference with a callback but its referent (`OwnWeakrefs`, a
  condition on the constants that `gc_own` satisfies and `gc_last` does not).
  The trash and the cleared objects alone are not what stays hidden: an object that
  survives a collection may still refer to a cleared one. `HideInv` says that there is a
  set `D` with both in it (`Hides`) that nothing outside refers to, no weak reference
  gives out, no callback under way or still to run gets, and no `__del__` is in.
  `MoveEnds` adds the new trash to it: by `ScanInv` and the counting
  argument `RefcntInside`, all references to that trash come from itself
  (`DeadIsolated`). A deallocation takes its object out.
* `TrashAlwaysFreed` (`TrashFreed`), under `[]OwnReferents` and `ClearableBreaks`: every
  cycle of references goes through an object that has a `tp_clear`, which is what
  `Doc/c-api/typeobj.rst:620-628` asks of the `tp_clear` functions taken together.
  `ClearInv` says that all references to the trash are within it, also while callbacks
  and destructors run (by `HideInv`, no Python code adds one), that cleared objects refer
  to nothing, that what can be cleared is still in `unreachable`, or was cleared, or is being
  deallocated, and that no function suspended below the collection holds an object of
  the trash. At the end a survivor is then referred to by another survivor that has
  no `tp_clear` (`TrashReferred`), and these would have a cycle among them (`TrashGone`).
* `CallbacksAlwaysMade` (`CallbacksMade`), under `[]OwnReferents`. `CallInv` follows a weak
  reference with a callback through every step: while its referent is there it has its callback; after
  that it was called, is in `wrcb_to_call`, or is in the list of a deallocation
  on the stack (`Pending`); and the weak reference at the head of `wrcb_to_call` leaves it only
  when it was called (`CallFrame`). It lets go of weak references that are trash,
  cleared or being deallocated; `HideInv` and `HeapOK` say that no Python code gets at
  those. That a referent which is freed leaves no weak reference behind but one
  that its `__del__` made comes from `HeapOK` (`DeallocEndsCalls`).
* `OwnReferentsHold`, `OwnCallbacksMade` and `OwnTrashFreed` put conditions on the constants in the
  place of `[]OwnReferents`, as `OwnTrashHidden` does. `gc_own` satisfies all of them.

The recursive functions of `CyclicGC` (`Only`, `Merged`, `Reaching`) are reasoned about
through a least counterexample: `LeastIndex`, `RecursionExists` and `RecursionIs` say
that such a function exists and that its values stay in a set that its equations do
not leave, and each use is an instance of these.

Only model-checked: the temporal properties `AllDone`, `LockTaken`, `ChildImports` and
`OnlyVainWaits`, because liveness under fairness and ENABLED are out of this prover's reach.

## What is not modelled

What is modelled is a small part of the repository by lines, which holds all of
CPython with its library and platform ports, and a copy of LLVM.

Left for later, in this order:

1. Thread states: creation and deletion, `PyGILState_Ensure`, `async_exc`.
2. `Objects/dictobject.c` as a table: probing, dummies, resizing, tables that change
   during a comparison; abstract: a map. Then the pools and arenas of `obmalloc.c`.
3. Generators: `gi_running`, `close`, `throw`, deletion.
4. Multiprocessing queues, connections and managers; `RLock`, `Semaphore`, `Event`
   and `Timer` of `threading`.
5. Pure algorithms: `RuntimeFeedback`, heaps, bisection, runs of the list sort.

Of the modelled components: an `mro()` that changes the hierarchy, in particular one
that clears the type cache (tags are then no longer unique); slots of types; proxies
and the thresholds of the collector; the parent of a fork that hands locks to its
child; exceptions outside the sleep of a wait.

Left out for good: the parser, the compiler and the peephole optimizer
(translations over unbounded syntax, whose small instances say little); the
translation of opcodes other than LOAD_GLOBAL and attribute access to LLVM IR; the object types, which
are sequential and have large unit-test suites; the library apart from the parts
above, demos and tools; vendored and generated code.
