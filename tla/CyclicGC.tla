------------------------------ MODULE CyclicGC ------------------------------
(***************************************************************************)
(* Reference counts, weak references and the cyclic garbage collector:     *)
(* Modules/gcmodule.c, Objects/weakrefobject.c, and subtype_dealloc of     *)
(* Objects/typeobject.c for objects with __del__.                          *)
(*                                                                         *)
(* Python code runs in the main program, in the callback of a weak         *)
(* reference and in __del__.  The last two are called from the middle of a *)
(* deallocation or of a collection, and may do all that the program may.   *)
(* stack holds the C functions under way: Python code runs when it is      *)
(* empty or when its top is a call of Python code.                         *)
(*                                                                         *)
(* Outside the model are two windows in which a dying object is untracked  *)
(* and its weak references still give it out: the trashcan, which keeps an *)
(* object for later when PyTrash_UNWIND_LEVEL deallocations are nested, so *)
(* that here a deallocation always runs at once; and a collection started  *)
(* by the tuple that PyObject_ClearWeakRefs allocates for two or more      *)
(* callbacks, which CallbackAssumption excludes.                           *)
(***************************************************************************)
EXTENDS Integers, SequencesExt

CONSTANTS
  Obj, None,         \* addresses of tracked objects
  Weak,              \* weak references; the one object they refer to, if any, is their callback
  Finalizer,         \* objects with __del__
  Clearable,         \* objects whose type has a tp_clear
  MayRefer,          \* the references that programs make, a set of pairs
  MayWatch,          \* the weak references that programs make, pairs of a Weak and an object
  NUM_GENERATIONS,
  MaxStack           \* bound: Python code with more than these functions under way only returns

ASSUME ObjAssumption ==
  /\ None \notin Obj /\ Weak \subseteq Obj /\ Finalizer \subseteq Obj \ Weak
  /\ Weak \subseteq Clearable /\ Clearable \subseteq Obj
  /\ MayRefer \subseteq Obj \X Obj /\ MayWatch \subseteq Weak \X (Obj \ Weak)
  /\ NUM_GENERATIONS \in Nat \ {0} /\ MaxStack \in Nat

Callbacks(w) == {c \in Obj : <<w, c>> \in MayRefer}

\* Programs make at most one weak reference with a callback to an object.
ASSUME CallbackAssumption ==
  \A wo, vo \in MayWatch :
    wo[2] = vo[2] /\ Callbacks(wo[1]) # {} /\ Callbacks(vo[1]) # {} => wo = vo

VARIABLES
  live,             \* objects that are allocated
  refs,             \* [Obj -> SUBSET Obj]: what tp_traverse visits
  wr_object,        \* [Obj -> Obj \cup {None}]: referents of weak references
  held,             \* objects that frames and modules of the program refer to
  garbage,          \* gc.garbage
  generations,      \* [0 .. NUM_GENERATIONS - 1 -> Seq(Obj)], the lists of tracked objects
  unreachable, finalizers, wrcb_to_call,    \* lists of the collection under way
  gc,               \* where that collection is
  stack,            \* C functions under way, innermost last
  cleared,          \* history: objects on which the collector called tp_clear
  trash,            \* history: objects that the collection found to be collectable
  called            \* history: weak references whose callback was called

heapVars == <<live, refs, wr_object, held, garbage>>
listVars == <<generations, unreachable, finalizers, wrcb_to_call>>
histVars == <<cleared, trash, called>>
vars == <<heapVars, listVars, gc, stack, histVars>>
-----------------------------------------------------------------------------
\* The elements of s that are in S, in their order.
Only(s, S) ==
  LET only[n \in 0 .. Len(s)] ==
        IF n = 0 THEN <<>>
        ELSE IF s[n] \in S THEN Append(only[n - 1], s[n]) ELSE only[n - 1]
  IN  only[Len(s)]
Without(s, o) == Only(s, Obj \ {o})
Cleared(f, S, v) == [x \in DOMAIN f |-> IF x \in S THEN v ELSE f[x]]
Top == stack[Len(stack)]
Replace(f) == stack' = Append(Front(stack), f)

\* C functions: a call of Python code, the release of detached references one by one, a
\* deallocation, a collection.  holds are the references that they own.
Call(objs) == [op |-> "python", holds |-> objs]
Drop(objs) == [op |-> "drop", holds |-> objs]
Dealloc(o, stage, holds, calls) ==
  [op |-> "dealloc", obj |-> o, stage |-> stage, holds |-> holds, calls |-> calls]
Collection(stage, o, holds) == [op |-> "collect", stage |-> stage, obj |-> o, holds |-> holds]
Frames ==
  [op : {"python", "drop"}, holds : SUBSET Obj]
  \cup [op : {"dealloc"}, obj : Obj, stage : {"call", "del", "deleted"}, holds : SUBSET Obj,
        calls : SUBSET (Weak \X Obj)]
  \cup [op : {"collect"}, stage : {"next", "called", "released"}, obj : Obj \cup {None},
        holds : SUBSET Obj]
Rest(objs) == IF objs = {} THEN <<>> ELSE <<Drop(objs)>>

GC_REACHABLE == -3
GC_TENTATIVELY_UNREACHABLE == -4
NoCollection == [phase |-> "none"]
Generation == 0 .. NUM_GENERATIONS - 1
Collections == [phase : {"move"}, generation : Generation, scanned : Nat, gc_refs : [Obj -> Int]]
  \cup [phase : {"weakrefs", "delete"}, generation : Generation]

Referring(S, o) == {p \in S : o \in refs[p]}
ob_refcnt_garbage_borrowed(o) ==
  Cardinality(Referring(live, o)) + Cardinality({o} \cap held)
  + Cardinality({i \in DOMAIN stack : o \in stack[i].holds})
ob_refcnt(o) ==
  Cardinality(Referring(live, o)) + Cardinality({o} \cap held) + Cardinality({o} \cap garbage)
  + Cardinality({i \in DOMAIN stack : o \in stack[i].holds})
InDealloc(o) == \E i \in DOMAIN stack : stack[i].op = "dealloc" /\ stack[i].obj = o
\* An object whose last reference was given up: Py_DECREF deallocates it before anything else.
Doomed == {o \in live : ob_refcnt(o) = 0 /\ ~InDealloc(o)}
PythonRuns == Doomed = {} /\ (stack # <<>> => Top.op = "python")
In(op) == stack # <<>> /\ Top.op = op

\* What can be reached from the objects in R by the steps p -> N[p], within S.
Reaching(R, S, N) ==
  LET within[n \in 0 .. Cardinality(S)] ==
        IF n = 0 THEN R \cap S
        ELSE LET T == within[n - 1] IN T \cup (S \cap UNION {N[p] : p \in T}) IN
  within[Cardinality(S)]
\* What Python code can get at: through references, and by calling weak references.
Roots == held \cup garbage
  \cup UNION {stack[i].holds : i \in {j \in DOMAIN stack : stack[j].op = "python"}}
Accessible == Reaching(Roots, live, [p \in Obj |-> refs[p] \cup {wr_object[p]}])

TypeOK ==
  /\ live \subseteq Obj /\ refs \in [Obj -> SUBSET live] /\ wr_object \in [Obj -> Obj \cup {None}]
  /\ held \subseteq live /\ garbage \subseteq live
  /\ \A i \in DOMAIN stack : stack[i].holds \subseteq live
  /\ generations \in [Generation -> Seq(Obj)]
  /\ unreachable \in Seq(Obj) /\ finalizers \in Seq(Obj) /\ wrcb_to_call \in Seq(Obj)
  /\ gc \in {NoCollection} \cup Collections
  /\ stack \in Seq(Frames)
  /\ cleared \subseteq live /\ trash \subseteq live /\ called \subseteq live

Init ==
  /\ live = {} /\ held = {} /\ garbage = {}
  /\ refs = [o \in Obj |-> {}] /\ wr_object = [o \in Obj |-> None]
  /\ generations = [g \in Generation |-> <<>>]
  /\ unreachable = <<>> /\ finalizers = <<>> /\ wrcb_to_call = <<>>
  /\ gc = NoCollection /\ stack = <<>>
  /\ cleared = {} /\ trash = {} /\ called = {}
-----------------------------------------------------------------------------
(* The program allocates, stores, erases, keeps and releases.               *)

Track(o) == generations' = [generations EXCEPT ![0] = Append(@, o)]

New(o) ==
  /\ o \notin live \cup Weak
  /\ live' = live \cup {o} /\ held' = held \cup {o} /\ Track(o)
  /\ UNCHANGED <<refs, wr_object, garbage, unreachable, finalizers, wrcb_to_call, gc, stack,
                 histVars>>

\* A weak reference without callback is made once for an object.
PyWeakref_NewRef(w, o) ==
  /\ w \in Weak \ live /\ <<w, o>> \in MayWatch
  /\ IF Callbacks(w) = {}
     THEN refs' = refs /\ \A v \in Weak : wr_object[v] = o => refs[v] # {}
     ELSE \E c \in Callbacks(w) \cap Accessible : refs' = [refs EXCEPT ![w] = {c}]
  /\ wr_object' = [wr_object EXCEPT ![w] = o]
  /\ live' = live \cup {w} /\ held' = held \cup {w} /\ Track(w)
  /\ UNCHANGED <<garbage, unreachable, finalizers, wrcb_to_call, gc, stack, histVars>>

Store(o, p) ==
  /\ <<o, p>> \in MayRefer /\ o \notin Weak /\ p \notin refs[o]
  /\ refs' = [refs EXCEPT ![o] = @ \cup {p}]
  /\ UNCHANGED <<live, wr_object, held, garbage, listVars, gc, stack, histVars>>

Erase(o, p) ==
  /\ o \notin Weak /\ p \in refs[o]
  /\ refs' = [refs EXCEPT ![o] = @ \ {p}]
  /\ UNCHANGED <<live, wr_object, held, garbage, listVars, gc, stack, histVars>>

Hold(o) ==
  /\ o \notin held
  /\ held' = held \cup {o}
  /\ UNCHANGED <<live, refs, wr_object, garbage, listVars, gc, stack, histVars>>

Release(o) ==
  /\ o \in held
  /\ held' = held \ {o}
  /\ UNCHANGED <<live, refs, wr_object, garbage, listVars, gc, stack, histVars>>

\* del gc.garbage[i]
Discard(o) ==
  /\ o \in garbage
  /\ garbage' = garbage \ {o}
  /\ UNCHANGED <<live, refs, wr_object, held, listVars, gc, stack, histVars>>

\* Python code that C called returns: its frame lets go of its arguments.
Return ==
  /\ In("python")
  /\ Replace(Drop(Top.holds))
  /\ UNCHANGED <<heapVars, listVars, gc, histVars>>

\* Py_DECREF of one detached reference.
Py_DECREF(o) ==
  /\ In("drop") /\ o \in Top.holds
  /\ stack' = Front(stack) \o Rest(Top.holds \ {o})
  /\ UNCHANGED <<heapVars, listVars, gc, histVars>>
-----------------------------------------------------------------------------
(* Deallocation.                                                            *)

Untrack(o) ==
  /\ generations' = [g \in Generation |-> Without(generations[g], o)]
  /\ unreachable' = Without(unreachable, o) /\ finalizers' = Without(finalizers, o)
  /\ wrcb_to_call' = Without(wrcb_to_call, o)

DeallocBegins_still_tracked(o) ==
  LET W == {w \in Weak : wr_object[w] = o}
      calls == {wc \in W \X Obj : wc[2] \in refs[wc[1]]}
      owners == {wc[1] : wc \in calls} IN
  /\ wr_object' = Cleared(wr_object, W \cup {o}, None)
  /\ refs' = Cleared(refs, owners, {})
  /\ stack' = Append(stack, Dealloc(o, "call", owners \cup {wc[2] : wc \in calls}, calls))
  /\ UNCHANGED <<live, held, garbage, listVars, gc, histVars>>
\* tp_dealloc: the object leaves its list, and its weak references are cleared and detached from
\* their callbacks before any callback is called.  Nothing runs between the two: the body of the
\* deallocation is not put off by the trashcan, and one callback needs no tuple.
DeallocBegins(o) ==
  LET W == {w \in Weak : wr_object[w] = o}
      calls == {wc \in W \X Obj : wc[2] \in refs[wc[1]]}
      owners == {wc[1] : wc \in calls} IN
  /\ Untrack(o)
  /\ wr_object' = Cleared(wr_object, W \cup {o}, None)
  /\ refs' = Cleared(refs, owners, {})
  /\ stack' = Append(stack, Dealloc(o, "call", owners \cup {wc[2] : wc \in calls}, calls))
  /\ UNCHANGED <<live, held, garbage, gc, histVars>>

DeallocCalls(wc) ==
  /\ In("dealloc") /\ Top.stage = "call" /\ wc \in Top.calls
  /\ stack' = Front(stack) \o <<[Top EXCEPT !.calls = @ \ {wc}], Call({wc[1], wc[2]})>>
  /\ called' = called \cup {wc[1]}
  /\ UNCHANGED <<heapVars, listVars, gc, cleared, trash>>

DeallocCalled ==
  /\ In("dealloc") /\ Top.stage = "call" /\ Top.calls = {}
  /\ stack' = Front(stack) \o <<Dealloc(Top.obj, "del", {}, {})>> \o Rest(Top.holds)
  /\ UNCHANGED <<heapVars, listVars, gc, histVars>>

\* slot_tp_del: __del__ gets the object, tracked again.
DeallocFinalizes ==
  /\ In("dealloc") /\ Top.stage = "del" /\ Top.obj \in Finalizer
  /\ Track(Top.obj)
  /\ stack' = Front(stack) \o <<Dealloc(Top.obj, "deleted", {}, {}), Call({Top.obj})>>
  /\ UNCHANGED <<heapVars, unreachable, finalizers, wrcb_to_call, gc, histVars>>

DeallocResurrected ==
  /\ In("dealloc") /\ Top.stage = "deleted" /\ ob_refcnt(Top.obj) > 0
  /\ stack' = Front(stack)
  /\ UNCHANGED <<heapVars, listVars, gc, histVars>>

\* The object is freed and its references are released.  Weak references that __del__ made are
\* cleared and keep their callbacks, which nobody will call.
NewWeakrefs(o) == {w \in Weak : wr_object[w] = o}
DeallocEnds ==
  LET o == Top.obj IN
  /\ In("dealloc") /\ ob_refcnt(o) = 0
  /\ Top.stage = (IF o \in Finalizer THEN "deleted" ELSE "del")
  /\ Untrack(o)
  /\ wr_object' = Cleared(wr_object, NewWeakrefs(o), None)
  /\ live' = live \ {o} /\ refs' = [refs EXCEPT ![o] = {}]
  /\ stack' = Front(stack) \o Rest(refs[o])
  /\ cleared' = cleared \ {o} /\ trash' = trash \ {o} /\ called' = called \ {o}
  /\ UNCHANGED <<held, garbage, gc>>
-----------------------------------------------------------------------------
(* Collection.                                                              *)

\* generations[g] after the younger ones were appended to it.
Merged(g) ==
  LET upto[i \in 0 .. g] == IF i = 0 THEN generations[g] ELSE upto[i - 1] \o generations[i - 1]
  IN  upto[g]

\* update_refs and subtract_refs
GcRefs(young) == [o \in Obj |->
  IF o \in young THEN ob_refcnt(o) - Cardinality(Referring(young, o)) ELSE GC_REACHABLE]

Collect(g) ==
  /\ gc = NoCollection
  /\ generations' = [i \in Generation |->
       IF i < g THEN <<>> ELSE IF i = g THEN Merged(g) ELSE generations[i]]
  /\ gc' = [phase |-> "move", generation |-> g, scanned |-> 0, gc_refs |-> GcRefs(Range(Merged(g)))]
  /\ stack' = Append(stack, Collection("next", None, {}))
  /\ UNCHANGED <<heapVars, unreachable, finalizers, wrcb_to_call, histVars>>

young == generations[gc.generation]
Moving == In("collect") /\ gc.phase = "move"

VisitReachable_leaves_moved(o) ==
  LET found == {p \in refs[o] \ {o} : gc.gc_refs[p] = 0} IN
  /\ gc' = [gc EXCEPT !.scanned = @ + 1,
                      !.gc_refs = [Cleared(@, found, 1) EXCEPT ![o] = GC_REACHABLE]]
  /\ UNCHANGED <<generations, unreachable>>
\* move_unreachable, one object: it is reachable, and so are those it refers to ...
VisitReachable(o) ==
  LET found == {p \in refs[o] \ {o} : gc.gc_refs[p] \in {0, GC_TENTATIVELY_UNREACHABLE}} IN
  /\ gc' = [gc EXCEPT !.scanned = @ + 1,
                      !.gc_refs = [Cleared(@, found, 1) EXCEPT ![o] = GC_REACHABLE]]
  /\ generations' = [generations EXCEPT ![gc.generation] =
                       @ \o Only(unreachable, found)]
  /\ unreachable' = Only(unreachable, Obj \ found)

\* ... or may be unreachable.
MoveUnreachable(o) ==
  /\ gc' = [gc EXCEPT !.gc_refs[o] = GC_TENTATIVELY_UNREACHABLE]
  /\ generations' = [generations EXCEPT ![gc.generation] = RemoveAt(@, gc.scanned + 1)]
  /\ unreachable' = Append(unreachable, o)

MoveNext ==
  /\ Moving /\ gc.scanned < Len(young)
  /\ LET o == young[gc.scanned + 1] IN
     IF gc.gc_refs[o] # 0 THEN VisitReachable(o) ELSE MoveUnreachable(o)
  /\ UNCHANGED <<heapVars, finalizers, wrcb_to_call, stack, histVars>>

Uncollectable_alone == Range(unreachable) \cap Finalizer
\* move_finalizers and move_finalizer_reachable
Uncollectable ==
  Reaching(Range(unreachable) \cap Finalizer, Range(unreachable), refs)
old == IF gc.generation < NUM_GENERATIONS - 1 THEN gc.generation + 1 ELSE gc.generation

\* handle_weakrefs, first pass: weak references to the trash; those that are not trash
\* themselves and have a callback will be called.
ToTrash(dead) == {w \in Weak : wr_object[w] \in dead}
ToCall_never(dead) == {}
ToCall(dead) == {w \in ToTrash(dead) \ dead : refs[w] # {}}

MoveEnds ==
  LET dead == Range(unreachable) \ Uncollectable
      calls == ToCall(dead)
      Keep(list) == Only(list, Obj \ calls)
      kept == [g \in Generation |-> Keep(generations[g])] IN
  /\ Moving /\ gc.scanned = Len(young)
  /\ generations' = IF old = gc.generation THEN kept
                    ELSE [kept EXCEPT ![gc.generation] = <<>>, ![old] = @ \o kept[gc.generation]]
  /\ unreachable' = Only(unreachable, dead)
  /\ finalizers' = Keep(Only(unreachable, Uncollectable))
  /\ wr_object' = Cleared(wr_object, ToTrash(dead), None)
  /\ wrcb_to_call' \in SetToSeqs(calls)
  /\ stack' = Front(stack) \o <<Collection("next", None, calls)>>
  /\ trash' = dead
  /\ gc' = [phase |-> "weakrefs", generation |-> gc.generation]
  /\ UNCHANGED <<live, refs, held, garbage, cleared, called>>

InStage(phase, stage) == In("collect") /\ gc.phase = phase /\ Top.stage = stage

\* handle_weakrefs, second pass.
CallNext ==
  /\ InStage("weakrefs", "next") /\ wrcb_to_call # <<>>
  /\ LET next == Head(wrcb_to_call) IN
     /\ stack' = Front(stack) \o <<Collection("called", next, Top.holds), Call({next} \cup refs[next])>>
     /\ called' = called \cup {next}
  /\ UNCHANGED <<heapVars, listVars, gc, cleared, trash>>

CallsEnd ==
  /\ InStage("weakrefs", "next") /\ wrcb_to_call = <<>>
  /\ gc' = [gc EXCEPT !.phase = "delete"]
  /\ UNCHANGED <<heapVars, listVars, stack, histVars>>

\* The collector gives up its own reference, in either phase.
CollectDecref ==
  /\ In("collect") /\ Top.stage = "called"
  /\ Replace(Collection("released", Top.obj, Top.holds \ {Top.obj}))
  /\ UNCHANGED <<heapVars, listVars, gc, histVars>>

\* A weak reference, or an object of the trash, that is still in its list moves to old.
StillAlive(list, o) == list # <<>> /\ Head(list) = o
ToOld(list) == IF StillAlive(list, Top.obj)
               THEN generations' = [generations EXCEPT ![old] = Append(@, Top.obj)]
               ELSE generations' = generations
TailIf(list) == IF StillAlive(list, Top.obj) THEN Tail(list) ELSE list

CallMoves ==
  /\ InStage("weakrefs", "released")
  /\ ToOld(wrcb_to_call) /\ wrcb_to_call' = TailIf(wrcb_to_call)
  /\ Replace(Collection("next", None, Top.holds))
  /\ UNCHANGED <<heapVars, unreachable, finalizers, gc, histVars>>

\* delete_garbage: tp_clear detaches the references and releases them one by one.
ClearNext ==
  /\ InStage("delete", "next") /\ unreachable # <<>>
  /\ LET o == Head(unreachable)
         clears == o \in Clearable IN
     /\ refs' = IF clears THEN [refs EXCEPT ![o] = {}] ELSE refs
     /\ wr_object' = IF clears THEN [wr_object EXCEPT ![o] = None] ELSE wr_object
     /\ cleared' = IF clears THEN cleared \cup {o} ELSE cleared
     /\ stack' = IF clears THEN Front(stack) \o <<Collection("called", o, {o})>> \o Rest(refs[o])
                 ELSE Front(stack) \o <<Collection("released", o, {})>>
  /\ UNCHANGED <<live, held, garbage, listVars, gc, trash, called>>

DeleteMoves_once ==
  /\ InStage("delete", "released")
  /\ generations' = [generations EXCEPT ![old] = @ \o unreachable] /\ unreachable' = <<>>
  /\ Replace(Collection("next", None, {}))
  /\ UNCHANGED <<heapVars, finalizers, wrcb_to_call, gc, histVars>>
DeleteMoves ==
  /\ InStage("delete", "released")
  /\ ToOld(unreachable) /\ unreachable' = TailIf(unreachable)
  /\ Replace(Collection("next", None, {}))
  /\ UNCHANGED <<heapVars, finalizers, wrcb_to_call, gc, histVars>>

\* handle_finalizers
CollectEnds ==
  /\ InStage("delete", "next") /\ unreachable = <<>>
  /\ garbage' = garbage \cup (Range(finalizers) \cap Finalizer)
  /\ generations' = [generations EXCEPT ![old] = @ \o finalizers]
  /\ finalizers' = <<>>
  /\ gc' = NoCollection /\ stack' = Front(stack)
  /\ trash' = {}
  /\ UNCHANGED <<live, refs, wr_object, held, unreachable, wrcb_to_call, cleared, called>>
-----------------------------------------------------------------------------
Program ==
  \/ \E o \in Obj : New(o) \/ Release(o) \/ Discard(o)
  \/ \E o \in Accessible : Hold(o)
  \/ \E o, p \in Accessible : Store(o, p) \/ Erase(o, p)
  \/ \E w \in Weak, o \in Accessible : PyWeakref_NewRef(w, o)
  \/ \E g \in Generation : Collect(g)
Deallocation ==
  \/ \E o \in Obj : Py_DECREF(o)
  \/ \E wc \in Weak \X Obj : DeallocCalls(wc)
  \/ DeallocCalled \/ DeallocFinalizes \/ DeallocResurrected \/ DeallocEnds
Collecting ==
  \/ MoveNext \/ MoveEnds \/ CallNext \/ CallsEnd \/ CollectDecref \/ CallMoves
  \/ ClearNext \/ DeleteMoves \/ CollectEnds
Next ==
  \/ \E o \in Doomed : DeallocBegins(o)
  \/ Doomed = {} /\ (Return \/ Deallocation \/ Collecting)
  \/ PythonRuns /\ Len(stack) <= MaxStack /\ Program
Spec == Init /\ [][Next]_vars
-----------------------------------------------------------------------------
(* Properties.                                                              *)

\* The rule of Modules/gc_weakref.txt: once the collector has found the trash, no Python code
\* gets at an object of it, nor at one that the collector has cleared: a callback or a __del__
\* that runs in the middle of the collection would see, and keep, half-destroyed objects.
TrashHidden == PythonRuns => Accessible \cap (trash \cup cleared) = {}

\* move_unreachable computes what its comment promises: of the objects collected, the unreachable
\* ones are those that no reference from outside leads to, however they refer to one another and
\* in whatever order the list has them.
UnreachableExact ==
  (gc # NoCollection /\ gc.phase = "move" /\ gc.scanned = Len(young)) =>
    LET collected == Range(young) \cup Range(unreachable)
        outside == {o \in collected : ob_refcnt(o) > Cardinality(Referring(collected, o))} IN
    Range(unreachable) = collected \ Reaching(outside, collected, refs)

\* Every object that is not being deallocated is in one list, once: the lists are changed by
\* callbacks, __del__ and deallocations while the collector walks them.
List(i) == IF i \in Generation THEN generations[i]
           ELSE <<unreachable, finalizers, wrcb_to_call>>[i + 1 - NUM_GENERATIONS]
Lists == 0 .. NUM_GENERATIONS + 2
ListsExact ==
  /\ \A i, j \in Lists : \A m \in DOMAIN List(i), n \in DOMAIN List(j) :
       List(i)[m] = List(j)[n] => i = j /\ m = n
  /\ {o \in live : ~InDealloc(o)} \subseteq UNION {Range(List(i)) : i \in Lists}
  /\ UNION {Range(List(i)) : i \in Lists} \subseteq live

\* When no C function is under way, a weak reference with a callback whose referent is gone was
\* called, unless it was made by the __del__ of the referent.
CallbacksMade ==
  (stack = <<>> /\ Doomed = {}) =>
    \A w \in Accessible \cap Weak : (wr_object[w] = None /\ Callbacks(w) # {}
       /\ ~\E o \in Finalizer : <<w, o>> \in MayWatch) => w \in called

\* When delete_garbage is done, the trash is gone: the references given up by tp_clear freed
\* every object, also those that have no tp_clear, and none was left to the next collection.
TrashFreed == (Doomed = {} /\ InStage("delete", "next") /\ unreachable = <<>>) => trash = {}
=============================================================================
