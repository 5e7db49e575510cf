------------------------------ MODULE TypeCache ------------------------------
(***************************************************************************)
(* Types, their version tags and the method cache (Objects/typeobject.c),  *)
(* with the machine code that relies on them (Python/llvm_fbuilder.cc).    *)
(*                                                                         *)
(* A type that is looked into gets a version tag; an entry of the method   *)
(* cache is good while its tag is the valid tag of the type.               *)
(* PyType_Modified takes the tag away from a type and from all types below *)
(* it, and invalidates the code objects that listen to them; it relies on  *)
(* tags being valid upwards: no valid tag, nobody below to tell.           *)
(*                                                                         *)
(* An actor is a thread, or a nested activation of the interpreter in one  *)
(* thread: an operation of typeobject.c that runs Python code in the       *)
(* middle is several steps, and the other actors run between them.  Which  *)
(* of these points run Python code is chosen with Env.                     *)
(***************************************************************************)
EXTENDS Naturals, Sequences, FiniteSets

CONSTANTS
  Type,         \* addresses of type objects
  Object,       \* PyBaseObject_Type; the other types are heap types
  Legacy,       \* types without version tags: old-style classes, old extension modules
  Name, Cacheable,      \* attribute names; those of at most 100 characters
  Getter,       \* the name whose presence in a class makes its instances descriptors
  Value, NoValue,       \* attribute values
  NoType,
  ClassOf,      \* [Value -> Type \cup {NoType}]: the heap type of a value, if it has one
  Code, NoCode, \* code objects that get compiled, each for one attribute access
  Actor,
  Slot, Hash(_, _),     \* method cache entries and MCACHE_HASH
  BaseChoices,  \* [Type -> SUBSET Seq(Type)]: the tuples that programs give it as bases
  Tag0, LastTag,        \* next_version_tag at the start, and its last value
  Env           \* what the environment does, see Features

Features == {"decref",    \* dropping a replaced attribute runs Python code
             "compare",   \* a key of a type's dictionary has a comparison in Python
             "mro",       \* a metatype has an mro() in Python
             "fails",     \* an assignment to __bases__ may fail half-way: some type has no
                          \* order, or its mro() raised
             "foreign",   \* such an mro() may name a type that is no base
             "clear",     \* sys._clear_type_cache()
             "wrap"}      \* programs use up the version tags

ASSUME TypeAssumption ==
  /\ IsFiniteSet(Type) /\ Object \in Type \ Legacy /\ NoType \notin Type
  /\ NoValue \notin Value /\ NoValue \notin Name /\ NoCode \notin Code
  /\ ClassOf \in [Value -> Type \cup {NoType}]
  /\ Cacheable \subseteq Name
  /\ (\E v \in Value : ClassOf[v] # NoType) => Getter \in Name
  /\ LastTag \in Nat /\ Tag0 \in 0 .. LastTag
  /\ Env \subseteq Features
ASSUME HashAssumption == \A v \in 0 .. LastTag, n \in Name : Hash(v, n) \in Slot
ASSUME BasesAssumption ==
  BaseChoices \in [Type -> SUBSET UNION {[1 .. k -> Type] : k \in 1 .. Cardinality(Type)}]

VARIABLES
  live,                     \* the type objects that exist
  tp_dict,                  \* [Type -> [Name -> Value \cup {NoValue}]]
  tp_bases, tp_mro,         \* [Type -> Seq(Type)]
  tp_subclasses,            \* [Type -> SUBSET Type], weak
  have,                     \* types with Py_TPFLAGS_HAVE_VERSION_TAG
  valid,                    \* types with Py_TPFLAGS_VALID_VERSION_TAG
  tp_version_tag,           \* [Type -> tags]
  next_version_tag,
  method_cache,             \* [Slot -> entries]
  tp_code_listeners,        \* [Type -> SUBSET Code], weak
  native,                   \* [Code -> whether it has machine code that may be used]
  assumed,                  \* [Code -> what its machine code relies on]
  pend                      \* [Actor -> the operation it is in the middle of]

hierVars == <<live, tp_bases, tp_mro, tp_subclasses, have>>
tagVars  == <<tp_version_tag, next_version_tag, method_cache>>
hearVars == <<valid, tp_code_listeners, native>>
vars == <<hierVars, tp_dict, tagVars, hearVars, assumed, pend>>
-----------------------------------------------------------------------------
Tag == 0 .. LastTag
Members(s) == {s[i] : i \in DOMAIN s}
Injective(s) == \A i, j \in DOMAIN s : s[i] = s[j] => i = j
Orders(S) == {s \in [1 .. Cardinality(S) -> S] : Injective(s)}
Empty == [version |-> 0, name |-> NoValue, value |-> NoValue]
Entry == [version : Tag, name : Name \cup {NoValue}, value : Value \cup {NoValue}]
Fact == [type : Type, name : Name, value : Value \cup {NoValue}]
Idle == [op |-> "idle"]
Frames == [type : Type \cup {NoType}, left : Seq(Type)]      \* of assign_version_tag
Levels == [type : Type \cup {NoType}, left : SUBSET Type]    \* of mro_subclasses
Saved == [type : Type, mro : Seq(Type)]
Frame(t, left) == [type |-> t, left |-> left]
Level(t, left) == [type |-> t, left |-> left]
Operation ==
  {Idle} \cup [op : {"set"}, type : Type]
  \cup [op : {"module"}, type : Type, name : Name, value : Value]
  \cup [op : {"walk"}, type : Type, name : Name, code : Code \cup {NoCode},
        mro : Seq(Type), pos : Nat]
  \cup [op : {"tag"}, type : Type, name : Name, code : Code \cup {NoCode},
        value : Value \cup {NoValue}, stack : Seq(Frames)]
  \cup [op : {"bases"}, type : Type, bases : Seq(Type), mro : Seq(Type),
        stack : Seq(Levels), temp : Seq(Saved)]

TypeOK ==
  /\ live \in SUBSET Type /\ have \in SUBSET live /\ valid \in SUBSET have
  /\ tp_dict \in [Type -> [Name -> Value \cup {NoValue}]]
  /\ tp_bases \in [Type -> Seq(Type)] /\ tp_mro \in [Type -> Seq(Type)]
  /\ tp_subclasses \in [Type -> SUBSET Type]
  /\ tp_version_tag \in [Type -> Tag] /\ next_version_tag \in Tag
  /\ method_cache \in [Slot -> Entry]
  /\ tp_code_listeners \in [Type -> SUBSET Code]
  /\ native \in [Code -> {"none", "valid", "invalid"}]
  /\ assumed \in [Code -> SUBSET Fact]
  /\ pend \in [Actor -> Operation]

Init ==
  /\ live = {Object} /\ have = {Object} /\ valid = {}
  /\ tp_dict = [t \in Type |-> [n \in Name |-> NoValue]]
  /\ tp_bases = [t \in Type |-> <<>>]
  /\ tp_mro = [t \in Type |-> IF t = Object THEN <<Object>> ELSE <<>>]
  /\ tp_subclasses = [t \in Type |-> {}]
  /\ tp_version_tag = [t \in Type |-> 0] /\ next_version_tag = Tag0
  /\ method_cache = [s \in Slot |-> Empty]
  /\ tp_code_listeners = [t \in Type |-> {}]
  /\ native = [c \in Code |-> "none"] /\ assumed = [c \in Code |-> {}]
  /\ pend = [a \in Actor |-> Idle]
-----------------------------------------------------------------------------
(* Who may run.  Everything happens under the interpreter lock; an actor   *)
(* in the middle of an operation lets the others run only where that       *)
(* operation runs Python code.                                             *)

RunsPython(p) ==
  \/ p.op = "idle"
  \/ p.op = "set" /\ "decref" \in Env
  \/ p.op \in {"walk", "module"} /\ "compare" \in Env
  \/ p.op = "bases" /\ "mro" \in Env

CanRun(a) == \A b \in Actor \ {a} : RunsPython(pend[b])
Starts(a) == pend[a] = Idle /\ CanRun(a)
Becomes(a, p) == pend' = [pend EXCEPT ![a] = p]
\* An mro() that changes the hierarchy itself, or clears the cache, is left out.
Settled == \A a \in Actor : pend[a].op # "bases"

(* PyType_Modified *)

\* The types that the recursion over tp_subclasses reaches while v are the valid types: the
\* least set with x and the valid subclasses of its members.
Closed(S, v) == \A s \in S : \A u \in tp_subclasses[s] : u \in v => u \in S
Reached(x, v) == {t \in Type : \A S \in SUBSET Type : x \in S /\ Closed(S, v) => t \in S}
Gone_no_subclasses(x, v) == {x} \cap v
Gone(x, v) == IF x \in v THEN Reached(x, v) ELSE {}

PyType_Modified(x, v) ==
  LET gone == Gone(x, v)
      told == UNION {tp_code_listeners[t] : t \in gone}
  IN  /\ valid' = v \ gone
      /\ tp_code_listeners' = [t \in Type |-> IF t \in gone THEN {} ELSE tp_code_listeners[t]]
      /\ native' = [c \in Code |-> IF c \in told /\ native[c] = "valid" THEN "invalid"
                                   ELSE native[c]]

PyType_ClearCache ==
  /\ "clear" \in Env /\ Settled
  /\ \A a \in Actor : RunsPython(pend[a])
  /\ method_cache' = [s \in Slot |-> Empty] /\ next_version_tag' = 0
  /\ PyType_Modified(Object, valid)
  /\ UNCHANGED <<hierVars, tp_dict, tp_version_tag, assumed, pend>>

(* Method resolution order *)

\* m keeps the order of l.
Keeps(m, l) == \A i, j \in DOMAIN l : i < j =>
                 \E k, n \in DOMAIN m : k < n /\ m[k] = l[i] /\ m[n] = l[j]

\* mro_implementation as its contract: t, then a merge of the orders of its bases and of
\* the tuple of bases; none when there is no such merge.  C3 chooses among them (MroC3).
Merges(t, bases) ==
  LET lists == {tp_mro[b] : b \in Members(bases)} \cup {bases}
  IN  {m \in Orders({t} \cup UNION {Members(l) : l \in lists}) :
         m[1] = t /\ Injective(bases) /\ \A l \in lists : Keeps(m, l)}

\* What mro() may answer.
Answers(t, bases) ==
  LET foreign == live \ ({t} \cup UNION {Members(tp_mro[b]) : b \in Members(bases)})
      second(m, x) == [i \in 1 .. Len(m) + 1 |-> CASE i = 1 -> m[1] [] i = 2 -> x
                                                   [] OTHER -> m[i - 1]]
  IN  Merges(t, bases) \cup IF "foreign" \notin Env THEN {}
                            ELSE UNION {{second(m, x) : x \in foreign} : m \in Merges(t, bases)}

\* type_mro_modified(type, l): HAVE_VERSION_TAG is lost when a type of l lacks it, or is not
\* in the new order m of type (PyType_IsSubtype walks that order).
KeepsTag(m, l, h) == Members(l) \subseteq h /\ Members(l) \subseteq Members(m)

\* mro_internal(t) with the answer m.  When the tag is lost, VALID_VERSION_TAG goes too,
\* before PyType_Modified is called.
mro_internal(t, m) ==
  LET keeps == t \in have /\ KeepsTag(m, m, have) /\ KeepsTag(m, tp_bases[t], have)
  IN  /\ tp_mro' = [tp_mro EXCEPT ![t] = m]
      /\ have' = IF keeps THEN have ELSE have \ {t}
      /\ PyType_Modified(t, IF keeps THEN valid ELSE valid \ {t})
-----------------------------------------------------------------------------
(* Types come and go. *)

\* Values whose class is there.
Exists == {v \in Value : ClassOf[v] \in live \cup {NoType}}

\* A class statement, to the end of PyType_Ready.
type_new(a, t, bases, m, d) ==
  /\ Starts(a) /\ Settled
  /\ t \notin live /\ Members(bases) \subseteq live
  /\ \A n \in Name : d[n] \in Exists \cup {NoValue}
  /\ live' = live \cup {t}
  /\ tp_bases' = [tp_bases EXCEPT ![t] = bases] /\ tp_mro' = [tp_mro EXCEPT ![t] = m]
  /\ LET h == have \cup ({t} \ Legacy)
     IN  have' = IF KeepsTag(m, m, h) /\ KeepsTag(m, bases, h) THEN h ELSE have
  /\ tp_subclasses' = [b \in Type |-> IF b \in Members(bases) THEN tp_subclasses[b] \cup {t}
                                      ELSE tp_subclasses[b]]
  /\ tp_dict' = [tp_dict EXCEPT ![t] = d]
  /\ UNCHANGED <<tagVars, hearVars, assumed, pend>>

\* Nothing refers to t: no subclass, no instance, no operation.
Unused(t) ==
  /\ \A u \in live \ {t} : t \notin Members(tp_bases[u]) \cup Members(tp_mro[u])
  /\ \A u \in live, n \in Name : tp_dict[u][n] # NoValue => ClassOf[tp_dict[u][n]] # t
  /\ \A a \in Actor : pend[a] = Idle

type_dealloc(a, t) ==
  /\ Starts(a) /\ t \in live \ {Object} /\ Unused(t)
  /\ LET gone == Gone(t, valid)
         told == UNION {tp_code_listeners[u] : u \in gone}
     IN  /\ valid' = valid \ gone
         /\ tp_code_listeners' = [u \in Type |-> IF u \in gone \cup {t} THEN {} ELSE tp_code_listeners[u]]
         /\ native' = [c \in Code |-> IF c \in told /\ native[c] = "valid" THEN "invalid"
                                      ELSE native[c]]
  /\ live' = live \ {t} /\ have' = have \ {t}
  /\ tp_bases' = [tp_bases EXCEPT ![t] = <<>>] /\ tp_mro' = [tp_mro EXCEPT ![t] = <<>>]
  /\ tp_subclasses' = [u \in Type |-> IF u = t THEN {} ELSE tp_subclasses[u] \ {t}]
  /\ tp_dict' = [tp_dict EXCEPT ![t] = [n \in Name |-> NoValue]]
  /\ UNCHANGED <<tagVars, assumed, pend>>
-----------------------------------------------------------------------------
(* Attributes of types *)

Write(t, n, v) == tp_dict' = [tp_dict EXCEPT ![t][n] = v]

\* type_setattro: the dictionary is written and the old value dropped...
type_setattro(a, t, n, v) ==
  /\ Starts(a) /\ t \in live \ {Object} /\ (v = NoValue => tp_dict[t][n] # NoValue)
  /\ Write(t, n, v)
  /\ v \in Exists \cup {NoValue}
  /\ Becomes(a, [op |-> "set", type |-> t])
  /\ UNCHANGED <<hierVars, tagVars, hearVars, assumed>>

update_slot_silent(a) ==
  /\ pend[a].op = "set" /\ CanRun(a)
  /\ Becomes(a, Idle)
  /\ UNCHANGED <<hierVars, tp_dict, tagVars, hearVars, assumed>>

\* ... and update_slot comes after it.
update_slot(a) ==
  /\ pend[a].op = "set" /\ CanRun(a)
  /\ PyType_Modified(pend[a].type, valid)
  /\ Becomes(a, Idle)
  /\ UNCHANGED <<hierVars, tp_dict, tagVars, assumed>>

\* type_set_module tells first and writes afterwards.
type_set_module(a, t, n, v) ==
  /\ Starts(a) /\ t \in live \ {Object}
  /\ v \in Exists
  /\ PyType_Modified(t, valid)
  /\ Becomes(a, [op |-> "module", type |-> t, name |-> n, value |-> v])
  /\ UNCHANGED <<hierVars, tp_dict, tagVars, assumed>>

SetModuleEnds(a) ==
  /\ pend[a].op = "module" /\ CanRun(a)
  /\ Write(pend[a].type, pend[a].name, pend[a].value)
  /\ Becomes(a, Idle)
  /\ UNCHANGED <<hierVars, tagVars, hearVars, assumed>>
-----------------------------------------------------------------------------
(* _PyType_Lookup *)

\* What the walk over the MRO finds.
Holders(t, n) == {i \in DOMAIN tp_mro[t] : tp_dict[tp_mro[t][i]][n] # NoValue}
Find(t, n) ==
  IF Holders(t, n) = {} THEN NoValue
  ELSE tp_dict[tp_mro[t][CHOOSE i \in Holders(t, n) : \A j \in Holders(t, n) : i <= j]][n]

\* The fast path: whether there is a good entry for attribute n of t, and the entry.
EntryOf(t, n) == method_cache[Hash(tp_version_tag[t], n)]
Hit_any_version(t, n) == t \in valid /\ n \in Cacheable /\ EntryOf(t, n).name = n
Hit(t, n) == /\ t \in valid /\ n \in Cacheable
             /\ EntryOf(t, n).version = tp_version_tag[t] /\ EntryOf(t, n).name = n

\* A lookup that is done: for the interpreter, or for the compilation of c, which then
\* relies on the answer res and, when res may be a descriptor, on what its class makes of
\* it (CacheTypeLookup, FinishFunction).
Listening(c, T) == tp_code_listeners' = [t \in Type |-> IF t \in T THEN tp_code_listeners[t] \cup {c}
                                                      ELSE tp_code_listeners[t]]
HasGetter(res) == ClassOf[res] # NoType /\ Find(ClassOf[res], Getter) # NoValue
Found_only_type(t, n, res, c) ==
  IF c = NoCode THEN UNCHANGED <<tp_code_listeners, native, assumed>>
  ELSE /\ Listening(c, {})
       /\ native' = [native EXCEPT ![c] = "valid"]
       /\ assumed' = [assumed EXCEPT ![c] = {[type |-> t, name |-> n, value |-> res]}]
Found(t, n, res, c) ==
  IF c = NoCode \/ (res # NoValue /\ HasGetter(res) /\ ClassOf[res] \notin have)
  THEN UNCHANGED <<tp_code_listeners, native, assumed>>
  ELSE LET K == {ClassOf[v] : v \in {res} \ {NoValue}} \ {NoType}
       IN  /\ Listening(c, {t} \cup K)
           /\ native' = [native EXCEPT ![c] = "valid"]
           /\ assumed' = [assumed EXCEPT ![c] = {[type |-> t, name |-> n, value |-> res]}
                 \cup {[type |-> d, name |-> Getter, value |-> Find(d, Getter)] : d \in K}]

\* The fast path changes nothing but for a compilation.
LookupHits(a, t, n, c) ==
  /\ Starts(a) /\ t \in live /\ Hit(t, n)
  /\ c # NoCode /\ native[c] = "none" /\ t \in have
  /\ Found(t, n, EntryOf(t, n).value, c)
  /\ UNCHANGED <<hierVars, tp_dict, tagVars, valid, pend>>

\* A bound: without "wrap" no lookup starts that could use up the tags.
TagsLeft == "wrap" \in Env \/ next_version_tag + Cardinality(live) <= LastTag

LookupMisses(a, t, n, c) ==
  /\ Starts(a) /\ t \in live /\ ~Hit(t, n) /\ TagsLeft
  /\ c # NoCode => native[c] = "none" /\ t \in have
  /\ Becomes(a, [op |-> "walk", type |-> t, name |-> n, code |-> c,
                 mro |-> tp_mro[t], pos |-> 1])
  /\ UNCHANGED <<hierVars, tp_dict, tagVars, hearVars, assumed>>

\* One dictionary of the MRO; the search is over when it has the name or was the last.
LookupWalks(a) ==
  LET p == pend[a]
      v == IF p.pos \in DOMAIN p.mro THEN tp_dict[p.mro[p.pos]][p.name] ELSE NoValue
  IN  /\ p.op = "walk" /\ CanRun(a)
      /\ IF v = NoValue /\ p.pos \in DOMAIN p.mro
         THEN Becomes(a, [p EXCEPT !.pos = p.pos + 1]) /\ UNCHANGED <<hearVars, assumed>>
         ELSE IF p.name \in Cacheable
         THEN /\ Becomes(a, [op |-> "tag", type |-> p.type, name |-> p.name, code |-> p.code,
                             value |-> v, stack |-> <<Frame(NoType, <<p.type>>)>>])
              /\ UNCHANGED <<hearVars, assumed>>
         ELSE /\ Becomes(a, Idle)
              /\ Found(p.type, p.name, v, p.code) /\ UNCHANGED valid
      /\ UNCHANGED <<hierVars, tp_dict, tagVars>>

(* assign_version_tag: a stack of activations with the bases they have yet to treat; the    *)
(* bottom one stands for _PyType_Lookup.  No Python code runs in it.                        *)

Top(s) == s[Len(s)]
PopLast(s) == SubSeq(s, 1, Len(s) - 1)
Advanced(s) == [s EXCEPT ![Len(s)].left = Tail(@)]
StackIs(a, s) == Becomes(a, [pend[a] EXCEPT !.stack = s])
InTag(a) == pend[a].op = "tag"

\* The next type has a valid tag, or gets one...
TagIsValid(a) ==
  LET s == pend[a].stack
  IN  /\ InTag(a) /\ Top(s).left # <<>> /\ Head(Top(s).left) \in valid
      /\ StackIs(a, Advanced(s))
      /\ UNCHANGED <<hierVars, tp_dict, tagVars, hearVars, assumed>>

NewTag_same(t) == /\ tp_version_tag' = [tp_version_tag EXCEPT ![t] = next_version_tag]
                  /\ UNCHANGED next_version_tag
NewTag_signed(t) == /\ tp_version_tag' = [tp_version_tag EXCEPT ![t] = next_version_tag]
                    /\ next_version_tag' = next_version_tag + 1 - 2 * (LastTag + 1)
NewTag(t) == /\ "wrap" \in Env \/ next_version_tag < LastTag
             /\ tp_version_tag' = [tp_version_tag EXCEPT ![t] = next_version_tag]
             /\ next_version_tag' = (next_version_tag + 1) % (LastTag + 1)

TagIsNew(a) ==
  LET s == pend[a].stack
      u == Head(Top(s).left)
  IN  /\ InTag(a) /\ Top(s).left # <<>> /\ u \in have \ valid /\ next_version_tag # 0
      /\ NewTag(u)
      /\ StackIs(a, Append(Advanced(s), Frame(u, tp_bases[u])))
      /\ UNCHANGED <<hierVars, tp_dict, method_cache, hearVars, assumed>>

\* ... or gets tag 0: every tag is void, and the call answers 1 without a valid tag...
TagWraps(a) ==
  LET s == pend[a].stack
      u == Head(Top(s).left)
  IN  /\ InTag(a) /\ Top(s).left # <<>> /\ u \in have \ valid /\ next_version_tag = 0
      /\ NewTag(u)
      /\ method_cache' = [k \in Slot |-> [method_cache[k] EXCEPT !.name = NoValue, !.value = NoValue]]
      /\ PyType_Modified(Object, valid)
      /\ StackIs(a, Advanced(s))
      /\ UNCHANGED <<hierVars, tp_dict, assumed>>

\* ... or cannot have one, and nothing is cached.
TagIsRefused(a) ==
  LET p == pend[a]
  IN  /\ InTag(a) /\ Top(p.stack).left # <<>> /\ Head(Top(p.stack).left) \notin have
      /\ Becomes(a, Idle)
      /\ Found(p.type, p.name, p.value, p.code)
      /\ UNCHANGED <<hierVars, tp_dict, tagVars, valid>>

\* All bases have tags.
TagBecomesValid(a) ==
  LET s == pend[a].stack
  IN  /\ InTag(a) /\ Top(s).left = <<>> /\ Len(s) > 1
      /\ valid' = valid \cup {Top(s).type}
      /\ StackIs(a, PopLast(s))
      /\ UNCHANGED <<hierVars, tp_dict, tagVars, tp_code_listeners, native, assumed>>

\* The answer is cached.
LookupCaches(a) ==
  LET p == pend[a]
  IN  /\ InTag(a) /\ Top(p.stack).left = <<>> /\ Len(p.stack) = 1
      /\ method_cache' = [method_cache EXCEPT ![Hash(tp_version_tag[p.type], p.name)] =
           [version |-> tp_version_tag[p.type], name |-> p.name, value |-> p.value]]
      /\ Becomes(a, Idle)
      /\ Found(p.type, p.name, p.value, p.code)
      /\ UNCHANGED <<hierVars, tp_dict, tp_version_tag, next_version_tag, valid>>
-----------------------------------------------------------------------------
(* type_set_bases *)

InBases(a) == pend[a].op = "bases" /\ CanRun(a)

type_set_bases(a, t, bases) ==
  /\ Starts(a) /\ Settled /\ t \in live \ {Object}
  /\ \A b \in Members(bases) : b \in live /\ t \notin Members(tp_mro[b])
  /\ tp_bases' = [tp_bases EXCEPT ![t] = bases]
  /\ Becomes(a, [op |-> "bases", type |-> t, bases |-> tp_bases[t], mro |-> tp_mro[t],
                 stack |-> <<Level(NoType, {t})>>, temp |-> <<>>])
  /\ UNCHANGED <<live, tp_mro, tp_subclasses, have, tp_dict, tagVars, hearVars, assumed>>

MroUpdated_not_below(a, u, m) ==
  LET p == pend[a]
  IN  /\ InBases(a) /\ p.stack # <<>> /\ u \in Top(p.stack).left
      /\ mro_internal(u, m)
      /\ Becomes(a, [p EXCEPT !.stack = <<>>])
      /\ UNCHANGED <<live, tp_bases, tp_subclasses, tp_dict, tagVars, assumed>>

\* mro_internal of the type itself (at the bottom of the stack), then of each type below it,
\* depth first; temp remembers the orders that were replaced below it.
MroUpdated(a, u, m) ==
  LET p == pend[a]
      s == p.stack
  IN  /\ InBases(a) /\ s # <<>> /\ u \in Top(s).left
      /\ mro_internal(u, m)
      /\ Becomes(a, [p EXCEPT
           !.stack = Append([s EXCEPT ![Len(s)].left = @ \ {u}], Level(u, tp_subclasses[u])),
           !.temp = IF Len(s) = 1 THEN @ ELSE Append(@, [type |-> u, mro |-> tp_mro[u]])])
      /\ UNCHANGED <<live, tp_bases, tp_subclasses, tp_dict, tagVars, assumed>>

MroLevelDone(a) ==
  LET p == pend[a]
  IN  /\ InBases(a) /\ p.stack # <<>> /\ Top(p.stack).left = {}
      /\ Becomes(a, [p EXCEPT !.stack = PopLast(p.stack)])
      /\ UNCHANGED <<hierVars, tp_dict, tagVars, hearVars, assumed>>

\* No order for u, or its mro() raised: what was replaced is put back, first to last.
LastSaved(temp, u) ==
  temp[CHOOSE i \in DOMAIN temp :
         temp[i].type = u /\ \A j \in DOMAIN temp : temp[j].type = u => j <= i].mro
SetBasesFails(a, u) ==
  LET p == pend[a]
      changed == {p.temp[i].type : i \in DOMAIN p.temp}
  IN  /\ InBases(a) /\ p.stack # <<>> /\ u \in Top(p.stack).left
      /\ "fails" \in Env /\ (Answers(u, tp_bases[u]) = {} \/ "mro" \in Env)
      /\ tp_bases' = [tp_bases EXCEPT ![p.type] = p.bases]
      /\ tp_mro' = [t \in Type |-> IF t = p.type THEN p.mro
                                   ELSE IF t \in changed THEN LastSaved(p.temp, t) ELSE tp_mro[t]]
      /\ Becomes(a, Idle)
      /\ UNCHANGED <<live, tp_subclasses, have, tp_dict, tagVars, hearVars, assumed>>

\* tp_subclasses of the old and the new bases, and update_all_slots.
SetBasesEnds_keeps_links(a) ==
  /\ InBases(a) /\ pend[a].stack = <<>>
  /\ PyType_Modified(pend[a].type, valid)
  /\ Becomes(a, Idle)
  /\ UNCHANGED <<hierVars, tp_dict, tagVars, assumed>>

SetBasesEnds_silent(a) ==
  LET p == pend[a]
      t == p.type
      without(b) == IF b \in Members(p.bases) THEN tp_subclasses[b] \ {t} ELSE tp_subclasses[b]
  IN  /\ InBases(a) /\ p.stack = <<>>
      /\ tp_subclasses' = [b \in Type |-> IF b \in Members(tp_bases[t]) THEN without(b) \cup {t}
                                          ELSE without(b)]
      /\ Becomes(a, Idle)
      /\ UNCHANGED <<live, tp_bases, tp_mro, have, tp_dict, tagVars, hearVars, assumed>>

SetBasesEnds(a) ==
  LET p == pend[a]
      t == p.type
      without(b) == IF b \in Members(p.bases) THEN tp_subclasses[b] \ {t} ELSE tp_subclasses[b]
  IN  /\ InBases(a) /\ p.stack = <<>>
      /\ tp_subclasses' = [b \in Type |-> IF b \in Members(tp_bases[t]) THEN without(b) \cup {t}
                                          ELSE without(b)]
      /\ PyType_Modified(t, valid)
      /\ Becomes(a, Idle)
      /\ UNCHANGED <<live, tp_bases, tp_mro, have, tp_dict, tagVars, assumed>>
-----------------------------------------------------------------------------
Classes(a) == Starts(a) /\ \E t \in Type, bases \in UNION {BaseChoices[u] : u \in Type} :
  /\ bases \in BaseChoices[t] /\ Members(bases) \subseteq live
  /\ \/ /\ t \notin live
        /\ \E m \in Answers(t, bases), d \in [Name -> Value \cup {NoValue}] : type_new(a, t, bases, m, d)
     \/ type_set_bases(a, t, bases)

Attributes(a) == Starts(a) /\ \E t \in Type, n \in Name, v \in Value :
  \/ type_setattro(a, t, n, v) \/ type_setattro(a, t, n, NoValue)
  \/ type_set_module(a, t, n, v)

Lookups(a) ==
  \/ Starts(a) /\ \E t \in Type, n \in Name, c \in Code \cup {NoCode} : LookupHits(a, t, n, c) \/ LookupMisses(a, t, n, c)
  \/ LookupWalks(a)
  \/ TagIsValid(a) \/ TagIsNew(a) \/ TagWraps(a) \/ TagIsRefused(a) \/ TagBecomesValid(a)
  \/ LookupCaches(a)

SetBases(a) == InBases(a) /\
  \/ pend[a].stack # <<>> /\ \E u \in Top(pend[a].stack).left :
       (\E m \in Answers(u, tp_bases[u]) : MroUpdated(a, u, m)) \/ SetBasesFails(a, u)
  \/ MroLevelDone(a) \/ SetBasesEnds(a)

Next ==
  \/ \E a \in Actor :
       \/ Classes(a) \/ Attributes(a) \/ update_slot(a) \/ SetModuleEnds(a)
       \/ Lookups(a) \/ SetBases(a)
       \/ \E t \in Type : type_dealloc(a, t)
  \/ PyType_ClearCache

Spec == Init /\ [][Next]_vars
-----------------------------------------------------------------------------
(* Properties.  They speak of the states that somebody can see: those in   *)
(* which every operation under way is at a point where Python code runs.   *)

Visible == \A a \in Actor : RunsPython(pend[a])

\* A write to a dictionary that t inherits from, or to __bases__, is not followed by
\* PyType_Modified yet.
Altering(t) == \E a \in Actor : \/ pend[a].op = "set" /\ pend[a].type \in Members(tp_mro[t])
                                \/ pend[a].op = "bases"

\* The comment in PyType_Modified: before the flag can be set on a type, it must first be
\* set on all super types.  Beyond it, a type with a valid tag is in the list of subclasses
\* of each of its bases, or PyType_Modified could not find it.
TagsOrdered == Visible =>
  \A t \in valid : \A b \in Members(tp_bases[t]) : b \in valid /\ t \in tp_subclasses[b]

\* No two types share a valid tag, or one would answer with the entries of the other.
TagsUnique == \A t, u \in valid : tp_version_tag[t] = tp_version_tag[u] => t = u

\* What the method cache answers (_PyType_Lookup, fast path) is what a walk over the MRO
\* would find, unless the write of an attribute is under way.
CacheCurrent == Visible => \A t \in live, n \in Name :
  Hit(t, n) /\ ~Altering(t) => EntryOf(t, n).value = Find(t, n)

\* Of a class whose instances may be descriptors it matters only whether there is a getter.
StillTrue(f) == IF f.name = Getter THEN (Find(f.type, f.name) = NoValue) = (f.value = NoValue)
                ELSE Find(f.type, f.name) = f.value

\* Machine code that may be used relies on types that are alive, and on what a walk over
\* their MRO would find (the comment in CanOptimizeAttrAccess), unless a write is under way.
NativeCurrent == Visible => \A c \in Code : native[c] = "valid" =>
  \A f \in assumed[c] : f.type \in live /\ (~Altering(f.type) => StillTrue(f))

\* When no assignment to __bases__ is under way, the order of every type is one that its
\* bases give it: assignments that fail have put everything back.
OrdersCurrent == Settled => \A t \in live \ {Object} : tp_mro[t] \in Merges(t, tp_bases[t])
=============================================================================
