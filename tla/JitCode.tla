------------------------------- MODULE JitCode -------------------------------
(***************************************************************************)
(* The life of a code object under the LLVM JIT, and the dictionary        *)
(* watchers that invalidate its machine code: Objects/codeobject.c,        *)
(* Objects/dictobject.c, Objects/frameobject.c, Python/eval.cc and the     *)
(* LOAD_GLOBAL part of Python/llvm_fbuilder.cc.                            *)
(*                                                                         *)
(* Machine code embeds the value a global name had when it was compiled.   *)
(* The code object registers as a watcher of the two dictionaries it read; *)
(* a dictionary that changes clears co_use_llvm of its watchers, which the *)
(* machine code tests before it uses the embedded value.                   *)
(*                                                                         *)
(* Python code runs between any two bytecodes of any thread, and inside a  *)
(* C function only where that function can re-enter the interpreter: the   *)
(* DECREF of a replaced value, and the collection of unused LLVM globals   *)
(* that starts a compilation.  CanRun says whether it may run in a state.  *)
(***************************************************************************)
EXTENDS Naturals, Sequences, FiniteSets

CONSTANTS
  NoCode,        \* not a code object
  Code,          \* code objects (storage that is allocated, freed and reused)
  Dict,          \* dictionaries used as globals or builtins (reusable storage)
  Exact,         \* the dictionaries for which PyDict_CheckExact holds
  Frame,         \* frames
  Name,          \* global names
  Value,         \* objects a name can be bound to
  Loads,         \* [Code -> Name]: the name that LOAD_GLOBAL of the code reads
  Namespaces,    \* [Code -> SUBSET (Dict \X Dict)]: the (globals, builtins) pairs it runs with
  Refused,       \* code over 5000 bytes or with CO_USES_EXEC: never compiled
  UsesTypes,     \* code whose machine code embeds facts about a type
  JitModes,      \* the values Py_JitControl takes
  Env,           \* which of the environment's Features happen
  NoDict, NoValue, NoIR, Safe,      \* NULL dictionary, value and IR; IR without an embedded value
  PY_HOTNESS_THRESHOLD,             \* in calls; co_hotness saturates one above it
  PY_MAX_FATALBAILCOUNT,            \* co_fatalbailcount saturates at it
  MaxPending                        \* bound: modifications of a dictionary in progress at once

Features == {"decref",         \* dropping a replaced value runs Python code
             "collect",        \* MaybeCollectUnusedGlobals runs Python code
             "merge_fails",    \* a key comparison raises in the middle of dict.update()
             "compile_fails",  \* LLVM IR or machine code cannot be made
             "nomem",          \* a watcher array cannot grow
             "nomem_twice",    \* ... even when the code object is in the other array twice
             "set_optimization", \* a program assigns co_optimization
             "print_ir",       \* a program prints code.co_llvm
             "reenable"}       \* a program sets __use_llvm__ after an invalidation

Modes == {"NEVER", "WHENHOT", "ALWAYS"}

ASSUME ConstantsAssumption ==
  /\ Exact \subseteq Dict
  /\ Loads \in [Code -> Name]
  /\ Namespaces \in [Code -> SUBSET (Dict \X Dict)]
  /\ Refused \subseteq Code /\ UsesTypes \subseteq Code
  /\ JitModes \subseteq Modes /\ JitModes # {}
  /\ Env \subseteq Features
  /\ NoDict \notin Dict /\ NoCode \notin Code
  /\ NoValue \notin Value
  /\ NoIR \notin Value /\ Safe \notin Value /\ NoIR # Safe /\ NoValue # NoIR /\ NoValue # Safe
  /\ PY_HOTNESS_THRESHOLD \in Nat
  /\ PY_MAX_FATALBAILCOUNT \in Nat \ {0}
  /\ MaxPending \in Nat \ {0}

VARIABLES
  Py_JitControl,
  value,               \* [Dict -> [Name -> Value or NoValue]]: the entries
  liveDicts,           \* the allocated dictionaries
  notifying,           \* [Dict -> Nat]: modifications made whose notify_watchers is still to come
  merging,             \* [Dict -> the PyDict_Merge into it that is in progress, or NotMerging]
  ma_watchers,         \* [Dict -> Seq(Code)]: the watcher arrays, in their order
  liveCodes,           \* the allocated code objects
  co_use_llvm, co_hotness, co_fatalbailcount, co_llvm_function, co_native_function,
  co_fdo_globals,      \* the flag CO_FDO_GLOBALS of co_flags
  co_assumed_globals, co_assumed_builtins,
  listening,           \* code objects in the tp_code_listeners of a type they use
  frame,               \* [Frame -> its fields]
  failed               \* assertions of the source that have failed (the NDEBUG build goes on)

dictVars  == <<value, liveDicts, notifying, merging>>
irVars    == <<co_llvm_function, co_native_function>>
assumeVars == <<ma_watchers, co_fdo_globals, co_assumed_globals, co_assumed_builtins>>
heatVars  == <<co_use_llvm, co_hotness, co_fatalbailcount>>
vars == <<Py_JitControl, dictVars, irVars, assumeVars, heatVars, liveCodes, listening, frame, failed>>

Free == [pc |-> "free"]                       \* an unused frame
NotMerging == [from |-> NoDict, left |-> {}, override |-> FALSE]

IR == Value \cup {Safe}
MergeRecord == [from : Dict, left : SUBSET Name, override : BOOLEAN]
FrameRecord == [pc : {"compile", "ready", "native", "interp"}, code : Code,
                globals : Dict, builtins : Dict, use_llvm : BOOLEAN]
Assertions == {"AddTwice", "DropNonWatcher", "NotWatching", "FreedDict", "FreedCode",
               "NoNative", "FatalReentry", "NullDict"}

TypeOK ==
  /\ Py_JitControl \in JitModes
  /\ value \in [Dict -> [Name -> Value \cup {NoValue}]]
  /\ liveDicts \subseteq Dict
  /\ notifying \in [Dict -> 0..MaxPending]
  /\ merging \in [Dict -> {NotMerging} \cup MergeRecord]
  /\ ma_watchers \in [Dict -> Seq(Code)]
  /\ liveCodes \subseteq Code
  /\ co_use_llvm \in [Code -> BOOLEAN]
  /\ co_hotness \in [Code -> 0..(PY_HOTNESS_THRESHOLD + 1)]
  /\ co_fatalbailcount \in [Code -> 0..PY_MAX_FATALBAILCOUNT]
  /\ co_llvm_function \in [Code -> IR \cup {NoIR}]
  /\ co_native_function \in [Code -> IR \cup {NoIR}]
  /\ co_fdo_globals \in [Code -> BOOLEAN]
  /\ co_assumed_globals \in [Code -> Dict \cup {NoDict}]
  /\ co_assumed_builtins \in [Code -> Dict \cup {NoDict}]
  /\ listening \subseteq Code
  /\ frame \in [Frame -> FrameRecord \cup {Free}]
  /\ failed \subseteq Assertions

Init ==
  /\ Py_JitControl \in JitModes
  /\ value = [d \in Dict |-> [n \in Name |-> NoValue]]
  /\ liveDicts = {}
  /\ notifying = [d \in Dict |-> 0]
  /\ merging = [d \in Dict |-> NotMerging]
  /\ ma_watchers = [d \in Dict |-> <<>>]
  /\ liveCodes = {}
  /\ co_use_llvm = [c \in Code |-> FALSE]
  /\ co_hotness = [c \in Code |-> 0]
  /\ co_fatalbailcount = [c \in Code |-> 0]
  /\ co_llvm_function = [c \in Code |-> NoIR]
  /\ co_native_function = [c \in Code |-> NoIR]
  /\ co_fdo_globals = [c \in Code |-> FALSE]
  /\ co_assumed_globals = [c \in Code |-> NoDict]
  /\ co_assumed_builtins = [c \in Code |-> NoDict]
  /\ listening = {}
  /\ frame = [f \in Frame |-> Free]
  /\ failed = {}

-----------------------------------------------------------------------------
(* Who runs: no bytecode of any thread executes while C code is in a section *)
(* that does not re-enter the interpreter.                                   *)

Busy(f) == frame[f].pc # "free"
Pending(d) == notifying[d] > 0 \/ merging[d] # NotMerging
DropsDone == "decref" \in Env \/ \A d \in Dict : ~Pending(d)
CompilesDone == "collect" \in Env \/ \A f \in Frame : frame[f].pc # "compile"
CanRun == DropsDone /\ CompilesDone

\* References held by frames and by C functions in progress keep an object allocated.
DictInUse(d) ==
  \/ Pending(d)
  \/ \E e \in Dict : merging[e].from = d
  \/ \E f \in Frame : Busy(f) /\ d \in {frame[f].globals, frame[f].builtins}
CodeInUse(c) == \E f \in Frame : Busy(f) /\ frame[f].code = c

\* The lookup of LOAD_GLOBAL: the globals first, then the builtins.
Lookup(g, b, n) == IF value[g][n] # NoValue THEN value[g][n] ELSE value[b][n]

-----------------------------------------------------------------------------
(* Dictionary watchers.                                                      *)

\* What an assertion of the source says, as the set of the labels that fail.
Fails(label, holds) == IF holds THEN {} ELSE {label}
One(holds) == IF holds THEN 1 ELSE 0

\* The other dictionary a watcher of d has assumed.
OtherAssumed(d, c) ==
  IF co_assumed_globals[c] = d THEN co_assumed_builtins[c]
  ELSE IF co_assumed_builtins[c] = d THEN co_assumed_globals[c] ELSE NoDict

Holds(array, c) == \E i \in 1..Len(array) : array[i] = c

\* _PyDict_DropWatcher() takes the first entry out and moves the rest up.
FirstAt(array, c) ==
  CHOOSE i \in 1..Len(array) : array[i] = c /\ \A j \in 1..(i - 1) : array[j] # c
DropWatcher(array, c) ==
  IF Holds(array, c)
  THEN [i \in 1..(Len(array) - 1) |-> array[IF i < FirstAt(array, c) THEN i ELSE i + 1]]
  ELSE array

\* _PyCode_InvalidateMachineCode() of every code object, as often as times says.
Invalidate(times) ==
  /\ co_use_llvm' = [c \in Code |-> co_use_llvm[c] /\ times[c] = 0]
  /\ co_fatalbailcount' = [c \in Code |->
       IF co_fatalbailcount[c] + times[c] < PY_MAX_FATALBAILCOUNT
       THEN co_fatalbailcount[c] + times[c] ELSE PY_MAX_FATALBAILCOUNT]
  /\ UNCHANGED co_hotness

\* A slip: the watcher stays in the array of the other dictionary it assumed.
Visit_one_sided(d, i, walk) ==
  LET c == walk.arrays[d][i] IN
  [arrays |-> [walk.arrays EXCEPT ![d][i] = NoCode],
   visits |-> [walk.visits EXCEPT ![c] = @ + 1],
   failed |-> walk.failed
     \cup Fails("NotWatching", walk.visits[c] = 0 /\ OtherAssumed(d, c) # NoDict)]

\* notify_watchers_helper(d) at slot i, a NULL slot being NoCode: the code object there is
\* invalidated, leaves the array of the other dictionary it assumed (which may be this
\* array), and assumes nothing any more; then the slot is cleared, whatever moved into it.
\* walk: the arrays, how often each code object was visited, and the failed assertions.
Visit(d, i, walk) ==
  LET c == walk.arrays[d][i]
      other == IF walk.visits[c] = 0 THEN OtherAssumed(d, c) ELSE NoDict
      Dropped(e) == IF e = other THEN DropWatcher(walk.arrays[e], c) ELSE walk.arrays[e]
  IN  [arrays |-> [e \in Dict |-> [j \in 1..Len(Dropped(e)) |->
                     IF e = d /\ j = i THEN NoCode ELSE Dropped(e)[j]]],
       visits |-> [walk.visits EXCEPT ![c] = @ + 1],
       failed |-> walk.failed
         \cup Fails("FreedCode", c \in liveCodes)
         \cup Fails("NotWatching", other # NoDict)
         \cup Fails("FreedDict", other \in liveDicts \cup {NoDict})
         \cup Fails("DropNonWatcher", \A e \in {other} \cap Dict : Holds(walk.arrays[e], c))]

\* The loop over the slots, which ends early when the array has become shorter.
WalkStart == [arrays |-> ma_watchers, visits |-> [c \in Code |-> 0], failed |-> failed]
VisitSlot(d, i, walk) ==
  IF i \in 1..Len(walk.arrays[d]) /\ walk.arrays[d][i] # NoCode THEN Visit(d, i, walk) ELSE walk
Walk(d) ==
  LET after[i \in 0..Len(ma_watchers[d])] ==
        IF i = 0 THEN WalkStart ELSE VisitSlot(d, i, after[i - 1])
  IN  after[Len(ma_watchers[d])]

\* notify_watchers(d).  CO_FDO_GLOBALS stays as it is.
NotifyWatchers(d) ==
  LET walk == Walk(d)
      Left(assumed) == [c \in Code |-> IF walk.visits[c] > 0 THEN NoDict ELSE assumed[c]]
  IN  /\ Invalidate(walk.visits)
      /\ ma_watchers' = [walk.arrays EXCEPT ![d] = <<>>]
      /\ co_assumed_globals' = Left(co_assumed_globals)
      /\ co_assumed_builtins' = Left(co_assumed_builtins)
      /\ failed' = walk.failed
      /\ UNCHANGED co_fdo_globals

NotifyFrame == <<irVars, liveCodes, listening, frame, Py_JitControl>>

-----------------------------------------------------------------------------
(* Operations of dictionaries.                                               *)

PyDict_New(d) ==
  /\ CanRun /\ d \notin liveDicts
  /\ liveDicts' = liveDicts \cup {d}
  /\ UNCHANGED <<value, notifying, merging, assumeVars, heatVars, failed, NotifyFrame>>

\* dict_dealloc() and PyDict_Clear() notify before they drop the entries.
Dict_dealloc(d) ==
  /\ CanRun /\ d \in liveDicts /\ ~DictInUse(d)
  /\ NotifyWatchers(d)
  /\ liveDicts' = liveDicts \ {d}
  /\ value' = [value EXCEPT ![d] = [n \in Name |-> NoValue]]
  /\ UNCHANGED <<notifying, merging, NotifyFrame>>

PyDict_Clear(d) ==
  /\ CanRun /\ d \in liveDicts
  /\ NotifyWatchers(d)
  /\ value' = [value EXCEPT ![d] = [n \in Name |-> NoValue]]
  /\ UNCHANGED <<liveDicts, notifying, merging, NotifyFrame>>

\* PyDict_SetItem() of a new key: nothing is dropped before notify_watchers().
SetItemNew(d, n, v) ==
  /\ CanRun /\ d \in liveDicts /\ value[d][n] = NoValue
  /\ value' = [value EXCEPT ![d][n] = v]
  /\ NotifyWatchers(d)
  /\ UNCHANGED <<liveDicts, notifying, merging, NotifyFrame>>

\* PyDict_SetItem() and PyDict_DelItem() of a present key change the entry and drop the
\* old value; Notify(d) is the rest of the function.  Storing the object that is
\* already there does not notify.
StoreAndDrop(d, n, new) ==
  /\ CanRun /\ d \in liveDicts /\ notifying[d] < MaxPending
  /\ value[d][n] \notin {NoValue, new}
  /\ value' = [value EXCEPT ![d][n] = new]
  /\ notifying' = [notifying EXCEPT ![d] = @ + 1]
  /\ UNCHANGED <<liveDicts, merging, assumeVars, heatVars, failed, NotifyFrame>>
SetItemReplace(d, n, v) == StoreAndDrop(d, n, v)
DelItem(d, n) == StoreAndDrop(d, n, NoValue)

Notify(d) ==
  /\ CompilesDone
  /\ notifying[d] > 0
  /\ NotifyWatchers(d)
  /\ notifying' = [notifying EXCEPT ![d] = @ - 1]
  /\ UNCHANGED <<value, liveDicts, merging, NotifyFrame>>

\* A slip: dict.pop() without notify_watchers().
Dict_pop_silent(d, n) ==
  /\ CanRun /\ d \in liveDicts /\ value[d][n] # NoValue
  /\ value' = [value EXCEPT ![d][n] = NoValue]
  /\ UNCHANGED <<liveDicts, notifying, merging, assumeVars, heatVars, failed, NotifyFrame>>

\* dict.pop() and dict.popitem() hand the old value to the caller after notifying.
Dict_pop(d, n) ==
  /\ CanRun /\ d \in liveDicts /\ value[d][n] # NoValue
  /\ value' = [value EXCEPT ![d][n] = NoValue]
  /\ NotifyWatchers(d)
  /\ UNCHANGED <<liveDicts, notifying, merging, NotifyFrame>>

\* PyDict_Merge() of a dictionary: one insertdict() per entry, one notification at the end.
MergeBegin(d, other, override) ==
  /\ CanRun /\ {d, other} \subseteq liveDicts /\ d # other /\ merging[d] = NotMerging
  /\ \E n \in Name : value[other][n] # NoValue
  /\ merging' = [merging EXCEPT ![d] =
       [from |-> other, left |-> Name,
        override |-> override \/ \A n \in Name : value[d][n] = NoValue]]
  /\ UNCHANGED <<value, liveDicts, notifying, assumeVars, heatVars, failed, NotifyFrame>>

MergeEntry(d, n) ==
  LET m == merging[d] IN
  /\ CompilesDone
  /\ n \in m.left
  /\ merging' = [merging EXCEPT ![d].left = @ \ {n}]
  /\ value' = IF value[m.from][n] # NoValue /\ (m.override \/ value[d][n] = NoValue)
              THEN [value EXCEPT ![d][n] = value[m.from][n]] ELSE value
  /\ UNCHANGED <<liveDicts, notifying, assumeVars, heatVars, failed, NotifyFrame>>

MergeEnd(d) ==
  /\ CompilesDone
  /\ merging[d] # NotMerging /\ merging[d].left = {}
  /\ merging' = [merging EXCEPT ![d] = NotMerging]
  /\ NotifyWatchers(d)
  /\ UNCHANGED <<value, liveDicts, notifying, NotifyFrame>>

\* insertdict() fails: PyDict_Merge() returns -1 and does not notify.
MergeFail(d) ==
  /\ "merge_fails" \in Env
  /\ CompilesDone
  /\ merging[d] # NotMerging /\ merging[d].left # {}
  /\ merging' = [merging EXCEPT ![d] = NotMerging]
  /\ UNCHANGED <<value, liveDicts, notifying, assumeVars, heatVars, failed, NotifyFrame>>

-----------------------------------------------------------------------------
(* Code objects.                                                             *)

CodeFrame == <<dictVars, liveCodes, listening, frame, Py_JitControl>>

PyCode_New(c) ==
  /\ CanRun /\ c \notin liveCodes
  /\ liveCodes' = liveCodes \cup {c}
  /\ co_use_llvm' = [co_use_llvm EXCEPT ![c] = (Py_JitControl = "ALWAYS")]
  /\ co_hotness' = [co_hotness EXCEPT ![c] = 0]
  /\ co_fatalbailcount' = [co_fatalbailcount EXCEPT ![c] = 0]
  /\ co_llvm_function' = [co_llvm_function EXCEPT ![c] = NoIR]
  /\ co_native_function' = [co_native_function EXCEPT ![c] = NoIR]
  /\ co_fdo_globals' = [co_fdo_globals EXCEPT ![c] = FALSE]
  /\ co_assumed_globals' = [co_assumed_globals EXCEPT ![c] = NoDict]
  /\ co_assumed_builtins' = [co_assumed_builtins EXCEPT ![c] = NoDict]
  /\ UNCHANGED <<dictVars, ma_watchers, listening, frame, Py_JitControl, failed>>

\* How often c is in the watcher array of d on account of its two assumptions.
Assumes(c, d) == One(co_assumed_globals[c] = d) + One(co_assumed_builtins[c] = d)
Watching(c) == co_assumed_globals[c] # NoDict

\* _PyDict_DropWatcher() on the globals and then the builtins c has assumed, if any.
Drop(arrays, d, c) == [arrays EXCEPT ![d] = DropWatcher(@, c)]
DropBoth(arrays, c) ==
  IF Watching(c) THEN Drop(Drop(arrays, co_assumed_globals[c], c), co_assumed_builtins[c], c)
  ELSE arrays
DropFailures(arrays, c) ==
  LET g == co_assumed_globals[c]  b == co_assumed_builtins[c] IN
  Fails("DropNonWatcher", Watching(c) => Holds(arrays[g], c) /\ Holds(Drop(arrays, g, c)[b], c))
  \cup Fails("FreedDict", Watching(c) => {g, b} \subseteq liveDicts)
DropAssumptions(c) ==
  /\ ma_watchers' = DropBoth(ma_watchers, c)
  /\ co_assumed_globals' = [co_assumed_globals EXCEPT ![c] = NoDict]
  /\ co_assumed_builtins' = [co_assumed_builtins EXCEPT ![c] = NoDict]

Code_dealloc(c) ==
  /\ CanRun /\ c \in liveCodes /\ ~CodeInUse(c)
  /\ liveCodes' = liveCodes \ {c}
  /\ co_llvm_function' = [co_llvm_function EXCEPT ![c] = NoIR]
  /\ co_native_function' = [co_native_function EXCEPT ![c] = NoIR]
  /\ DropAssumptions(c)
  /\ failed' = failed \cup DropFailures(ma_watchers, c)
  /\ listening' = listening \ {c}
  /\ UNCHANGED <<dictVars, heatVars, co_fdo_globals, frame, Py_JitControl>>

\* A slip: the dictionaries assumed before keep their watcher.
Add(arrays, d, c) == [arrays EXCEPT ![d] = Append(@, c)]
WatchGlobals_keep(c, g, b) ==
  IF {g, b} \subseteq Exact
  THEN /\ co_fdo_globals' = [co_fdo_globals EXCEPT ![c] = TRUE]
       /\ ma_watchers' = Add(Add(ma_watchers, g, c), b, c)
       /\ co_assumed_globals' = [co_assumed_globals EXCEPT ![c] = g]
       /\ co_assumed_builtins' = [co_assumed_builtins EXCEPT ![c] = b]
       /\ UNCHANGED failed
  ELSE /\ co_fdo_globals' = [co_fdo_globals EXCEPT ![c] = FALSE]
       /\ UNCHANGED <<ma_watchers, co_assumed_globals, co_assumed_builtins, failed>>

\* _PyCode_WatchGlobals(c, g, b) that succeeds: the new dictionaries are added first,
\* then the ones assumed before are dropped.  Other kinds of mappings are not watched.
WatchGlobals(c, g, b) ==
  LET added == Add(Add(ma_watchers, g, c), b, c) IN
  IF {g, b} \subseteq Exact
  THEN /\ co_fdo_globals' = [co_fdo_globals EXCEPT ![c] = TRUE]
       /\ ma_watchers' = DropBoth(added, c)
       /\ co_assumed_globals' = [co_assumed_globals EXCEPT ![c] = g]
       /\ co_assumed_builtins' = [co_assumed_builtins EXCEPT ![c] = b]
       /\ failed' = failed
            \cup Fails("AddTwice", g # b /\ ~Holds(ma_watchers[g], c) /\ ~Holds(ma_watchers[b], c))
            \cup DropFailures(added, c)
  ELSE /\ co_fdo_globals' = [co_fdo_globals EXCEPT ![c] = FALSE]
       /\ UNCHANGED <<ma_watchers, co_assumed_globals, co_assumed_builtins, failed>>

\* The IR _PyCode_ToLlvmIr makes: LOAD_GLOBAL_fast embeds what the lookup finds now.
NewIR(c) ==
  LET found == Lookup(co_assumed_globals[c], co_assumed_builtins[c], Loads[c])
  IN  IF co_fdo_globals[c] /\ Watching(c) /\ found # NoValue THEN found ELSE Safe

\* LOAD_GLOBAL_fast reads co_assumed_globals whenever CO_FDO_GLOBALS is set.
ReadsNullDict(c) == co_fdo_globals[c] /\ ~Watching(c)

\* FinishFunction(): code that embeds no global stops watching; code that embeds
\* facts about types listens to them.
FinishFunction(c) ==
  /\ IF NewIR(c) = Safe /\ Watching(c)
     THEN /\ co_fdo_globals' = [co_fdo_globals EXCEPT ![c] = FALSE]
          /\ DropAssumptions(c)
          /\ failed' = failed \cup DropFailures(ma_watchers, c)
     ELSE UNCHANGED <<assumeVars, failed>>
  /\ listening' = listening \cup ({c} \cap UsesTypes)

Crash == /\ "NullDict" \notin failed
         /\ failed' = failed \cup {"NullDict"}
         /\ UNCHANGED <<dictVars, irVars, assumeVars, heatVars, liveCodes, listening, frame,
                        Py_JitControl>>

\* Assigning co_optimization makes the IR, and watches nothing.
Set_optimization(c) ==
  /\ "set_optimization" \in Env
  /\ CanRun /\ c \in liveCodes \ Refused /\ co_llvm_function[c] = NoIR
  /\ \/ ReadsNullDict(c) /\ Crash
     \/ /\ ~ReadsNullDict(c)
        /\ co_llvm_function' = [co_llvm_function EXCEPT ![c] = NewIR(c)]
        /\ FinishFunction(c)
        /\ UNCHANGED <<dictVars, co_native_function, heatVars, liveCodes, frame, Py_JitControl>>

\* str(code.co_llvm) compiles the code object once more and restores what it had.
Llvmfunction_str(c) ==
  /\ "print_ir" \in Env
  /\ CanRun /\ c \in liveCodes /\ co_llvm_function[c] # NoIR
  /\ \/ ReadsNullDict(c) /\ Crash
     \/ /\ ~ReadsNullDict(c)
        /\ FinishFunction(c)
        /\ UNCHANGED <<dictVars, irVars, heatVars, liveCodes, frame, Py_JitControl>>

\* A program assigns __use_llvm__.
Set_use_llvm(c, b) ==
  /\ CanRun /\ c \in liveCodes
  /\ b => co_fatalbailcount[c] = 0 \/ "reenable" \in Env
  /\ co_use_llvm' = [co_use_llvm EXCEPT ![c] = b]
  /\ UNCHANGED <<co_hotness, co_fatalbailcount, irVars, assumeVars, failed, CodeFrame>>

\* PyType_Modified(): the machine code that relies on a type is invalidated, and keeps
\* watching its dictionaries.
PyType_Modified(C) ==
  /\ CanRun /\ C # {} /\ C \subseteq listening
  /\ Invalidate([c \in Code |-> One(c \in C)])
  /\ listening' = listening \ C
  /\ UNCHANGED <<dictVars, irVars, assumeVars, liveCodes, frame, Py_JitControl, failed>>

SetJitControl(m) ==
  /\ CanRun /\ m \in JitModes
  /\ Py_JitControl' = m
  /\ UNCHANGED <<dictVars, irVars, assumeVars, heatVars, liveCodes, listening, frame, failed>>

-----------------------------------------------------------------------------
(* Calls: PyFrame_New(), then mark_called_and_maybe_compile().               *)

\* Slips: hotness without its bound, an invalidation that a hot loop forgets, a frame that
\* takes the namespace of its code for granted, and code that compiles at every call.
Heated_unbounded(c) == co_hotness[c] + 1
Heated(c) == IF co_hotness[c] <= PY_HOTNESS_THRESHOLD THEN co_hotness[c] + 1 ELSE co_hotness[c]
Invalidated(c) == co_fatalbailcount[c] >= PY_MAX_FATALBAILCOUNT
GoesHot(c) == Heated(c) > PY_HOTNESS_THRESHOLD /\ Py_JitControl = "WHENHOT"
WantsNative_when_hot(c) ==
  GoesHot(c) \/ (~Invalidated(c) /\ co_use_llvm[c])
WantsNative(c) == ~Invalidated(c) /\ (co_use_llvm[c] \/ GoesHot(c))

SnapshotUse_any_namespace(c, g, b) == co_use_llvm[c]

\* The f_use_llvm PyFrame_New gives the frame, and its value when mark_called is done.
SnapshotUse(c, g, b) ==
  /\ co_fdo_globals[c] => co_assumed_globals[c] = g /\ co_assumed_builtins[c] = b
  /\ co_use_llvm[c]
FrameUse(c, g, b) == GoesHot(c) \/ SnapshotUse(c, g, b)

NewFrame(f, pc, c, g, b, use) ==
  frame' = [frame EXCEPT ![f] =
    [pc |-> pc, code |-> c, globals |-> g, builtins |-> b, use_llvm |-> use]]

Call(f, c, g, b, use) ==
  /\ CanRun /\ ~Busy(f) /\ c \in liveCodes
  /\ <<g, b>> \in Namespaces[c] /\ {g, b} \subseteq liveDicts
  /\ co_hotness' = [co_hotness EXCEPT ![c] = Heated(c)]
  /\ co_use_llvm' = [co_use_llvm EXCEPT ![c] = use]
  /\ UNCHANGED <<dictVars, co_fatalbailcount, co_llvm_function, liveCodes, listening,
                 Py_JitControl>>

CallInterpreted(f, c, g, b) ==
  /\ ~WantsNative(c)
  /\ Call(f, c, g, b, FALSE)
  /\ NewFrame(f, "ready", c, g, b, FALSE)
  /\ UNCHANGED <<co_native_function, assumeVars, failed>>

CallCompiled(f, c, g, b) ==
  /\ WantsNative(c) /\ co_llvm_function[c] # NoIR /\ co_native_function[c] # NoIR
  /\ Call(f, c, g, b, TRUE)
  /\ NewFrame(f, "ready", c, g, b, FrameUse(c, g, b))
  /\ UNCHANGED <<co_native_function, assumeVars, failed>>

\* IR without machine code: co_optimization was set, or the machine code failed.
CallJit(f, c, g, b) ==
  /\ WantsNative(c) /\ co_llvm_function[c] # NoIR /\ co_native_function[c] = NoIR
  /\ Call(f, c, g, b, TRUE)
  /\ \/ /\ co_native_function' = [co_native_function EXCEPT ![c] = co_llvm_function[c]]
        /\ NewFrame(f, "ready", c, g, b, FrameUse(c, g, b))
     \/ /\ "compile_fails" \in Env
        /\ UNCHANGED <<co_native_function, frame>>
  /\ UNCHANGED <<assumeVars, failed>>

\* The globals are watched before the code is refused, and stay watched.
CallRefused(f, c, g, b) ==
  /\ WantsNative(c) /\ co_llvm_function[c] = NoIR /\ c \in Refused
  /\ Call(f, c, g, b, FALSE)
  /\ WatchGlobals(c, g, b)
  /\ NewFrame(f, "ready", c, g, b, FALSE)
  /\ UNCHANGED co_native_function

CallCompile_every_time(f, c, g, b) ==
  /\ WantsNative(c) /\ c \notin Refused
  /\ Call(f, c, g, b, TRUE)
  /\ WatchGlobals(c, g, b)
  /\ NewFrame(f, "compile", c, g, b, FrameUse(c, g, b))
  /\ UNCHANGED co_native_function

CallCompile(f, c, g, b) ==
  /\ WantsNative(c) /\ co_llvm_function[c] = NoIR /\ c \notin Refused
  /\ Call(f, c, g, b, TRUE)
  /\ WatchGlobals(c, g, b)
  /\ NewFrame(f, "compile", c, g, b, FrameUse(c, g, b))
  /\ UNCHANGED co_native_function

\* No memory for a watcher array, and the call fails.  When it is the array of the
\* builtins, the first entry of c is taken out of the one of the globals, which has had one
\* more added at its end: with c in it twice, the two that are left may be apart.
CallWatchFails(f, c, g, b) ==
  /\ "nomem" \in Env
  /\ WantsNative(c) /\ co_llvm_function[c] = NoIR /\ {g, b} \subseteq Exact
  /\ Call(f, c, g, b, TRUE)
  /\ co_fdo_globals' = [co_fdo_globals EXCEPT ![c] = FALSE]
  /\ \/ UNCHANGED <<ma_watchers, failed>>
     \/ /\ "nomem_twice" \in Env \/ Assumes(c, g) < 2
        /\ ma_watchers' = Drop(Add(ma_watchers, g, c), g, c)
        /\ failed' = failed \cup Fails("AddTwice", ~Holds(ma_watchers[g], c))
  /\ UNCHANGED <<co_assumed_globals, co_assumed_builtins, co_native_function, frame>>

\* The rest of the call: the IR, its optimization and the machine code.
Compile(f) ==
  LET c == frame[f].code IN
  /\ DropsDone /\ frame[f].pc = "compile"
  /\ \/ ReadsNullDict(c) /\ Crash
     \/ /\ ~ReadsNullDict(c)
        /\ co_llvm_function' = [co_llvm_function EXCEPT ![c] = NewIR(c)]
        /\ FinishFunction(c)
        /\ \/ /\ co_native_function' = [co_native_function EXCEPT ![c] =
                   IF @ = NoIR THEN NewIR(c) ELSE @]
              /\ frame' = [frame EXCEPT ![f].pc = "ready"]
           \/ /\ "compile_fails" \in Env
              /\ frame' = [frame EXCEPT ![f] = Free]
              /\ UNCHANGED co_native_function
        /\ UNCHANGED <<dictVars, heatVars, liveCodes, Py_JitControl>>

CompileFails(f) ==
  /\ "compile_fails" \in Env
  /\ DropsDone /\ frame[f].pc = "compile"
  /\ frame' = [frame EXCEPT ![f] = Free]
  /\ UNCHANGED <<dictVars, irVars, assumeVars, heatVars, liveCodes, listening, Py_JitControl,
                 failed>>

-----------------------------------------------------------------------------
(* Frames.                                                                   *)

FrameStep(f, to) ==
  /\ CanRun
  /\ frame' = [frame EXCEPT ![f] = to]
  /\ UNCHANGED <<dictVars, irVars, assumeVars, heatVars, liveCodes, listening, Py_JitControl>>

\* PyEval_EvalFrame(): a call runs its new frame, a generator resumes its own.
EvalInterpreted(f) ==
  /\ frame[f].pc = "ready" /\ (frame[f].use_llvm => ~co_use_llvm[frame[f].code])
  /\ FrameStep(f, [frame[f] EXCEPT !.pc = "interp", !.use_llvm = FALSE])
  /\ failed' = failed \cup
       Fails("NoNative", frame[f].use_llvm => co_native_function[frame[f].code] # NoIR)

\* A slip: a generator trusts the f_use_llvm its frame was made with.
EvalNative_unguarded(f) ==
  /\ frame[f].pc = "ready" /\ frame[f].use_llvm
  /\ FrameStep(f, [frame[f] EXCEPT !.pc = "native"])
  /\ failed' = failed
       \cup Fails("NoNative", co_native_function[frame[f].code] # NoIR)
       \cup Fails("FatalReentry", ~Invalidated(frame[f].code))

EvalNative(f) ==
  /\ frame[f].pc = "ready" /\ frame[f].use_llvm /\ co_use_llvm[frame[f].code]
  /\ FrameStep(f, [frame[f] EXCEPT !.pc = "native"])
  /\ failed' = failed
       \cup Fails("NoNative", co_native_function[frame[f].code] # NoIR)
       \cup Fails("FatalReentry", ~Invalidated(frame[f].code))

\* A guard of the machine code fails, or tracing starts.
Bail(f) ==
  /\ frame[f].pc = "native"
  /\ FrameStep(f, [frame[f] EXCEPT !.pc = "interp", !.use_llvm = FALSE])
  /\ UNCHANGED failed

\* YIELD_VALUE: the frame waits for its generator to be resumed, if it ever is.
Yield(f) ==
  /\ frame[f].pc \in {"native", "interp"}
  /\ FrameStep(f, [frame[f] EXCEPT !.pc = "ready"])
  /\ UNCHANGED failed

Return(f) ==
  /\ frame[f].pc \in {"ready", "native", "interp"}
  /\ FrameStep(f, Free)
  /\ UNCHANGED failed

\* FOR_ITER counts iterations of interpreted loops.
ForIter(f) ==
  /\ CanRun /\ frame[f].pc = "interp"
  /\ co_hotness' = [co_hotness EXCEPT ![frame[f].code] = Heated(frame[f].code)]
  /\ UNCHANGED <<dictVars, irVars, assumeVars, co_use_llvm, co_fatalbailcount, liveCodes,
                 listening, frame, Py_JitControl, failed>>

-----------------------------------------------------------------------------
DictStep ==
  \E d \in Dict :
    \/ PyDict_New(d) \/ Dict_dealloc(d) \/ PyDict_Clear(d) \/ Notify(d)
    \/ MergeEnd(d) \/ MergeFail(d)
    \/ \E n \in Name : DelItem(d, n) \/ Dict_pop(d, n) \/ MergeEntry(d, n)
    \/ \E n \in Name, v \in Value : SetItemNew(d, n, v) \/ SetItemReplace(d, n, v)
    \/ \E other \in Dict, override \in BOOLEAN : MergeBegin(d, other, override)

CodeStep ==
  \/ \E c \in Code :
       \/ PyCode_New(c) \/ Code_dealloc(c) \/ Set_optimization(c) \/ Llvmfunction_str(c)
       \/ \E b \in BOOLEAN : Set_use_llvm(c, b)
  \/ \E C \in SUBSET Code : PyType_Modified(C)
  \/ \E m \in Modes : SetJitControl(m)

CallStep ==
  \E f \in Frame, c \in Code : \E g, b \in Dict :
    \/ CallInterpreted(f, c, g, b) \/ CallCompiled(f, c, g, b) \/ CallJit(f, c, g, b)
    \/ CallRefused(f, c, g, b) \/ CallCompile(f, c, g, b) \/ CallWatchFails(f, c, g, b)

FrameActions ==
  \E f \in Frame :
    \/ Compile(f) \/ CompileFails(f) \/ EvalInterpreted(f) \/ EvalNative(f)
    \/ Bail(f) \/ Yield(f) \/ Return(f) \/ ForIter(f)

Next == DictStep \/ CodeStep \/ CallStep \/ FrameActions

Spec == Init /\ [][Next]_vars

-----------------------------------------------------------------------------
(* Properties.                                                               *)

\* A code object is in a dictionary's watcher array exactly as often as it assumes that
\* dictionary, and what it assumes is allocated (the two lists hold no references:
\* Objects/codeobject.c:213-216).
WatchersExact ==
  \A c \in Code, d \in Dict :
    LET entries == {i \in 1..Len(ma_watchers[d]) : ma_watchers[d][i] = c} IN
    /\ Cardinality(entries) = Assumes(c, d)
    /\ entries # {} => c \in liveCodes /\ d \in liveDicts

\* None of the assertions on watchers fails, and no freed object is reached through them
\* (_PyDict_DropWatcher, notify_watchers_helper).
WatcherAssertionsHold ==
  failed \cap {"DropNonWatcher", "NotWatching", "FreedDict", "FreedCode"} = {}

\* No code object is added to a watcher array it is in ("It is a fatal error to add the
\* same watcher twice", Python/llvm_notes.txt:128; asserted in _PyDict_AddWatcher).
AddedOnce == "AddTwice" \notin failed

\* Machine code that passes its co_use_llvm guard pushes the object the two lookups of
\* LOAD_GLOBAL would find, except while a change of one of the two dictionaries has
\* not notified yet.
StaleOnlyWhilePending ==
  CanRun => \A f \in Frame :
    frame[f].pc = "native" =>
      LET c == frame[f].code  g == frame[f].globals  b == frame[f].builtins IN
      co_use_llvm[c] /\ co_native_function[c] \in Value =>
        \/ Pending(g) \/ Pending(b)
        \/ co_native_function[c] = Lookup(g, b, Loads[c])

\* The assertions of PyEval_EvalFrame() hold: machine code exists, and is not entered
\* again once a fatal guard has failed; LOAD_GLOBAL_fast never reads a NULL dictionary.
EntryAssertionsHold == failed \cap {"NoNative", "FatalReentry", "NullDict"} = {}

\* The code object as MachineCodeLife sees it.
Phase(c) == IF c \notin liveCodes THEN "absent"
            ELSE IF Invalidated(c) THEN "invalid"
            ELSE IF co_native_function[c] # NoIR THEN "compiled" ELSE "cold"

Life == INSTANCE MachineCodeLife WITH
  phase   <- [c \in Code |-> Phase(c)],
  entered <- [f \in Frame |-> IF frame[f].pc = "native" THEN frame[f].code ELSE NoCode]

\* JitCode implements MachineCodeLife: mark_called_and_maybe_compile() and
\* PyEval_EvalFrame() never run invalidated machine code from its start.
ImplementsLife == Life!LifeSpec
=============================================================================
