--------------------------- MODULE TypeCache_proofs ---------------------------
(***************************************************************************)
(* Proofs about TypeCache, for any types, hierarchies and actors.          *)
(***************************************************************************)
EXTENDS TypeCache, FiniteSetTheorems, WellFoundedInduction, TLAPS

(* What the functions of TypeCache give. *)

\* The kinds of operations, by name.
SetOps == [op : {"set"}, type : Type]
ModuleOps == [op : {"module"}, type : Type, name : Name, value : Value]
WalkOps == [op : {"walk"}, type : Type, name : Name, code : Code \cup {NoCode},
            mro : Seq(Type), pos : Nat]
TagOps == [op : {"tag"}, type : Type, name : Name, code : Code \cup {NoCode},
           value : Value \cup {NoValue}, stack : Seq(Frames)]
BasesOps == [op : {"bases"}, type : Type, bases : Seq(Type), mro : Seq(Type),
             stack : Seq(Levels), temp : Seq(Saved)]

LEMMA Kinds ==
  /\ Idle \in Operation /\ SetOps \subseteq Operation /\ ModuleOps \subseteq Operation
  /\ WalkOps \subseteq Operation /\ TagOps \subseteq Operation /\ BasesOps \subseteq Operation
  /\ \A p \in Operation : /\ p.op = "set" => p \in SetOps
                          /\ p.op = "module" => p \in ModuleOps
                          /\ p.op = "walk" => p \in WalkOps
                          /\ p.op = "tag" => p \in TagOps
                          /\ p.op = "bases" => p \in BasesOps
<1>1. Operation = {Idle} \cup SetOps \cup ModuleOps \cup WalkOps \cup TagOps \cup BasesOps
  BY Zenon DEF Operation, SetOps, ModuleOps, WalkOps, TagOps, BasesOps
<1>2. /\ \A p \in SetOps : p.op = "set"
      /\ \A p \in ModuleOps : p.op = "module"
      /\ \A p \in WalkOps : p.op = "walk"
      /\ \A p \in TagOps : p.op = "tag"
      /\ \A p \in BasesOps : p.op = "bases"
  BY DEF SetOps, ModuleOps, WalkOps, TagOps, BasesOps
<1>3. Idle.op = "idle"
  BY DEF Idle
<1> QED BY <1>1, <1>2, <1>3

LEMMA BecomesMeans ==
  ASSUME NEW a \in Actor, NEW p, pend \in [Actor -> Operation], Becomes(a, p)
  PROVE  /\ pend'[a] = p /\ (\A b \in Actor \ {a} : pend'[b] = pend[b])
         /\ p \in Operation => pend' \in [Actor -> Operation]
BY DEF Becomes

\* What lies below a type that is gone and may be found is gone.
LEMMA GoneClosed ==
  ASSUME NEW x, NEW v \in SUBSET Type, NEW t \in Type, NEW u \in v,
         t \in Gone(x, v), u \in tp_subclasses[t]
  PROVE  u \in Gone(x, v)
BY DEF Gone, Reached, Closed

LEMMA GoneFirst ==
  ASSUME NEW x \in Type, NEW v
  PROVE  /\ x \in v => x \in Gone(x, v)
         /\ x \notin v => Gone(x, v) = {}
         /\ Gone(x, v) \subseteq Type
BY DEF Gone, Reached

\* What PyType_Modified does to the variables of hearVars.
LEMMA ModifiedMeans ==
  ASSUME NEW x \in Type, NEW v \in SUBSET Type, PyType_Modified(x, v),
         tp_code_listeners \in [Type -> SUBSET Code],
         native \in [Code -> {"none", "valid", "invalid"}]
  PROVE  /\ valid' \subseteq v /\ x \notin valid'
         /\ \A t \in Type, u \in valid' : t \in v /\ u \in tp_subclasses[t] => t \in valid'
         /\ tp_code_listeners' \in [Type -> SUBSET Code]
         /\ native' \in [Code -> {"none", "valid", "invalid"}]
<1>1. valid' = v \ Gone(x, v)
  BY DEF PyType_Modified
<1>2. valid' \subseteq v /\ x \notin valid'
  BY <1>1, GoneFirst
<1>3. \A t \in Type, u \in valid' : t \in v /\ u \in tp_subclasses[t] => t \in valid'
  BY <1>1, GoneClosed
<1>4. tp_code_listeners' \in [Type -> SUBSET Code]
  BY DEF PyType_Modified
<1>5. native' \in [Code -> {"none", "valid", "invalid"}]
  BY DEF PyType_Modified
<1> QED BY <1>2, <1>3, <1>4, <1>5

\* An order of a finite set names all of it.
LEMMA OrderIsOnto ==
  ASSUME NEW S, IsFiniteSet(S), NEW m \in Orders(S)
  PROVE  /\ m \in Seq(S) /\ Members(m) = S
<1> DEFINE n == Cardinality(S)
<1>1. n \in Nat
  BY FS_CardinalityType
<1>2. m \in [1 .. n -> S] /\ Injective(m)
  BY DEF Orders
<1>3. m \in Injection(1 .. n, S)
  BY <1>2 DEF Injection, IsInjective, Injective
<1>4. IsFiniteSet(1 .. n) /\ Cardinality(1 .. n) = n
  BY <1>1, FS_Interval
<1>5. m \in Surjection(1 .. n, S)
  BY <1>3, <1>4, FS_Injection
<1>6. Members(m) = S
  BY <1>2, <1>5 DEF Members, Surjection
<1> QED BY <1>1, <1>2, <1>6

\* The last entry of a stack, and the others.
LEMMA Stack ==
  ASSUME NEW T, NEW s \in Seq(T), s # <<>>
  PROVE  /\ Len(s) \in Nat \ {0} /\ Top(s) \in T
         /\ PopLast(s) \in Seq(T) /\ Len(PopLast(s)) = Len(s) - 1
         /\ \A i \in 1 .. Len(s) - 1 : PopLast(s)[i] = s[i]
BY DEF Top, PopLast

-----------------------------------------------------------------------------
(* Orders *)

LEMMA MergeNames ==
  ASSUME TypeOK, NEW t \in Type, NEW bases \in Seq(Type), NEW m \in Merges(t, bases)
  PROVE  /\ m \in Seq(Type) /\ m # <<>>
         /\ Members(m) = {t} \cup Members(bases) \cup UNION {Members(tp_mro[b]) : b \in Members(bases)}
<1> DEFINE lists == {tp_mro[b] : b \in Members(bases)} \cup {bases}
           S == {t} \cup UNION {Members(l) : l \in lists}
<1>1. Members(bases) \subseteq Type /\ (\A b \in Type : Members(tp_mro[b]) \subseteq Type)
  BY DEF Members, TypeOK
<1>2. S = {t} \cup Members(bases) \cup UNION {Members(tp_mro[b]) : b \in Members(bases)}
  OBVIOUS
<1>3. S \subseteq Type
  BY <1>1, <1>2
<1>4. IsFiniteSet(S)
  BY <1>3, FS_Subset, TypeAssumption
<1>5. m \in Orders(S)
  BY DEF Merges
<1>6. m \in Seq(S) /\ Members(m) = S
  BY <1>4, <1>5, OrderIsOnto
<1>7. m \in Seq(Type)
  <2>1. DOMAIN m = 1 .. Len(m) /\ Len(m) \in Nat /\ \A i \in 1 .. Len(m) : m[i] \in S
    BY <1>6
  <2> HIDE DEF S
  <2>2. m \in [1 .. Len(m) -> Type]
    BY <1>6, <2>1, <1>3
  <2> QED BY <2>1, <2>2
<1>8. m # <<>>
  <2>1. t \in Members(m)
    BY <1>6
  <2>2. Members(<<>>) = {}
    BY DEF Members
  <2> QED BY <2>1, <2>2
<1> QED BY <1>2, <1>6, <1>7, <1>8

LEMMA AnswerNames ==
  ASSUME TypeOK, NEW t \in Type, NEW bases \in Seq(Type), NEW m \in Answers(t, bases)
  PROVE  /\ m \in Seq(Type)
         /\ Members(bases) \subseteq Members(m)
         /\ Members(m) \subseteq live \cup {t} \cup Members(bases)
                                 \cup UNION {Members(tp_mro[b]) : b \in Members(bases)}
<1>1. CASE m \in Merges(t, bases)
  BY <1>1, MergeNames
<1> DEFINE second(l, x) == [i \in 1 .. Len(l) + 1 |-> CASE i = 1 -> l[1] [] i = 2 -> x
                                                        [] OTHER -> l[i - 1]]
<1>2. ASSUME NEW l \in Merges(t, bases), NEW x \in live, m = second(l, x)
      PROVE  m \in Seq(Type) /\ Members(m) = Members(l) \cup {x}
  <2>1. l \in Seq(Type) /\ l # <<>>
    BY MergeNames
  <2>2. Len(l) \in Nat \ {0} /\ DOMAIN l = 1 .. Len(l) /\ (\A i \in 1 .. Len(l) : l[i] \in Type)
    BY <2>1
  <2>3. x \in Type
    BY DEF TypeOK
  <2>4. /\ DOMAIN m = 1 .. Len(l) + 1 /\ m[1] = l[1] /\ m[2] = x
        /\ \A i \in 3 .. Len(l) + 1 : m[i] = l[i - 1]
    BY <1>2, <2>2
  <2>5. m \in [1 .. Len(l) + 1 -> Type]
    BY <1>2, <2>2, <2>3
  <2>6. m \in Seq(Type)
    BY <2>2, <2>5
  <2> HIDE DEF second
  <2>7. ASSUME NEW y \in Members(m) PROVE y \in Members(l) \cup {x}
    <3>1. PICK i \in 1 .. Len(l) + 1 : y = m[i]
      BY <2>4, <2>7 DEF Members
    <3>2. CASE i \in {1, 2}
      BY <3>1, <3>2, <2>2, <2>4 DEF Members
    <3>3. CASE i \in 3 .. Len(l) + 1
      BY <3>1, <3>3, <2>2, <2>4, SMTT(30) DEF Members
    <3> QED BY <3>1, <3>2, <3>3, <2>2
  <2>8. ASSUME NEW y \in Members(l) PROVE y \in Members(m)
    <3>1. PICK i \in 1 .. Len(l) : y = l[i]
      BY <2>2, <2>8 DEF Members
    <3>2. CASE i = 1
      BY <3>1, <3>2, <2>2, <2>4 DEF Members
    <3>3. CASE i \in 2 .. Len(l)
      <4>1. i + 1 \in 3 .. Len(l) + 1 /\ (i + 1) - 1 = i
        BY <3>3, <2>2
      <4>2. m[i + 1] = y /\ i + 1 \in DOMAIN m
        BY <3>1, <4>1, <2>2, <2>4
      <4> QED BY <4>2 DEF Members
    <3> QED BY <3>1, <3>2, <3>3, <2>2
  <2>9. x \in Members(m)
    BY <2>2, <2>4 DEF Members
  <2> QED BY <2>6, <2>7, <2>8, <2>9
<1>3. CASE m \notin Merges(t, bases)
  <2>1. PICK l \in Merges(t, bases), x \in live : m = second(l, x)
    BY <1>3 DEF Answers
  <2>2. m \in Seq(Type) /\ Members(m) = Members(l) \cup {x}
    BY <2>1, <1>2
  <2> QED BY <2>2, MergeNames
<1> QED BY <1>1, <1>3

LEMMA BasesTyped ==
  ASSUME NEW t \in Type, NEW bases \in BaseChoices[t]
  PROVE  bases \in Seq(Type)
<1>1. Cardinality(Type) \in Nat
  BY FS_CardinalityType, TypeAssumption
<1>2. PICK k \in 1 .. Cardinality(Type) : bases \in [1 .. k -> Type]
  BY BasesAssumption
<1> QED BY <1>1, <1>2
-----------------------------------------------------------------------------
(* Types.  TypeOK is inductive with two facts: an actor that is where no   *)
(* Python code runs is the only one of that kind, and the stack of         *)
(* assign_version_tag holds types that may have tags.                      *)

OneBusy == \A a, b \in Actor : a = b \/ RunsPython(pend[a]) \/ RunsPython(pend[b])
FramesPlaced == \A a \in Actor : InTag(a) =>
  /\ pend[a].stack # <<>>
  /\ \A i \in 2 .. Len(pend[a].stack) : pend[a].stack[i].type \in have
TypeInv == TypeOK /\ OneBusy /\ FramesPlaced

LEMMA InTagBusy == \A a \in Actor : InTag(a) => ~RunsPython(pend[a])
BY DEF InTag, RunsPython

\* A step of one actor leaves the operations of the others alone.
LEMMA ActorMoves ==
  ASSUME NEW a \in Actor, NEW p, pend \in [Actor -> Operation], OneBusy,
         Becomes(a, p), CanRun(a) \/ ~RunsPython(pend[a])
  PROVE  /\ OneBusy'
         /\ \A b \in Actor \ {a} : RunsPython(pend[b]) /\ ~InTag(b) /\ ~InTag(b)'
<1>1. \A b \in Actor \ {a} : RunsPython(pend[b])
  BY DEF OneBusy, CanRun
<1>2. \A b \in Actor \ {a} : pend'[b] = pend[b]
  BY BecomesMeans
<1>3. OneBusy'
  BY <1>1, <1>2 DEF OneBusy, RunsPython
<1>4. \A b \in Actor \ {a} : ~InTag(b)
  BY <1>1, InTagBusy
<1>5. \A b \in Actor \ {a} : ~InTag(b)'
  BY <1>2, <1>4 DEF InTag
<1> QED BY <1>1, <1>3, <1>4, <1>5

\* ... and keeps TypeInv when its own operation is a good one.
LEMMA MoveKeepsInv ==
  ASSUME TypeInv, NEW a \in Actor, NEW p \in Operation,
         Becomes(a, p), CanRun(a) \/ ~RunsPython(pend[a]),
         p.op = "tag" => /\ p.stack # <<>>
                         /\ \A i \in 2 .. Len(p.stack) : p.stack[i].type \in have',
         pend' \in [Actor -> Operation] => TypeOK'
  PROVE  TypeInv'
<1>1. pend \in [Actor -> Operation]
  BY DEF TypeInv, TypeOK
<1>2. pend' \in [Actor -> Operation] /\ pend'[a] = p
  BY <1>1, BecomesMeans
<1>3. OneBusy' /\ \A b \in Actor \ {a} : ~InTag(b)'
  BY <1>1, ActorMoves DEF TypeInv
<1>4. FramesPlaced'
  BY <1>2, <1>3 DEF FramesPlaced, InTag
<1> QED BY <1>2, <1>3, <1>4 DEF TypeInv

LEMMA RestKeepsInv ==
  ASSUME TypeInv, UNCHANGED pend, TypeOK', \A a \in Actor : InTag(a) => UNCHANGED have
  PROVE  TypeInv'
BY DEF TypeInv, OneBusy, FramesPlaced, RunsPython, InTag

LEMMA InitTypes == Init => TypeInv
<1> SUFFICES ASSUME Init PROVE TypeInv
  OBVIOUS
<1>1. TypeOK
  BY Kinds, TypeAssumption DEF Init, TypeOK, Tag, Entry, Empty, Fact
<1>2. \A a \in Actor : pend[a].op = "idle"
  BY DEF Init, Idle
<1> QED BY <1>1, <1>2 DEF TypeInv, OneBusy, FramesPlaced, RunsPython, InTag

\* The steps, one after the other.
LEMMA TypesAndClasses ==
  ASSUME TypeInv, NEW a \in Actor, Classes(a) PROVE TypeInv'
<1> USE DEF hierVars, tagVars, hearVars
<1>1. PICK t \in Type, bases \in UNION {BaseChoices[u] : u \in Type} :
        /\ bases \in BaseChoices[t]
        /\ \/ \E m \in Answers(t, bases), d \in [Name -> Value \cup {NoValue}] :
                type_new(a, t, bases, m, d)
           \/ type_set_bases(a, t, bases)
  BY DEF Classes
<1>2. bases \in Seq(Type) /\ TypeOK /\ pend \in [Actor -> Operation]
  BY <1>1, BasesTyped DEF TypeInv, TypeOK
<1>3. ASSUME NEW m \in Answers(t, bases), NEW d \in [Name -> Value \cup {NoValue}],
             type_new(a, t, bases, m, d)
      PROVE  TypeInv'
  <2>1. m \in Seq(Type)
    BY <1>2, AnswerNames
  <2>2. have' \in SUBSET live' /\ have \subseteq have' /\ live' \in SUBSET Type
    BY <1>2, <1>3 DEF type_new, TypeOK
  <2>3. TypeOK'
    BY <1>2, <1>3, <2>1, <2>2 DEF type_new, TypeOK
  <2>4. \A b \in Actor : RunsPython(pend[b])
    BY <1>3 DEF type_new, Starts, CanRun, RunsPython, Idle
  <2>5. \A b \in Actor : ~InTag(b)
    BY <2>4, InTagBusy
  <2> QED BY <1>3, <2>3, <2>5, RestKeepsInv DEF type_new
<1>4. CASE type_set_bases(a, t, bases)
  <2> DEFINE p == [op |-> "bases", type |-> t, bases |-> tp_bases[t], mro |-> tp_mro[t],
                   stack |-> <<Level(NoType, {t})>>, temp |-> <<>>]
  <2>1. Becomes(a, p) /\ CanRun(a)
    BY <1>4 DEF type_set_bases, Starts
  <2>2. <<Level(NoType, {t})>> \in Seq(Levels) /\ <<>> \in Seq(Saved)
    BY DEF Level, Levels
  <2>3. p \in BasesOps
    BY <1>2, <2>2 DEF BasesOps, TypeOK
  <2>4. pend' \in [Actor -> Operation] => TypeOK'
    BY <1>2, <1>4 DEF type_set_bases, TypeOK
  <2>5. p \in Operation /\ p.op = "bases"
    BY <2>3, Kinds
  <2> HIDE DEF p
  <2> QED BY <2>1, <2>4, <2>5, MoveKeepsInv
<1> QED BY <1>1, <1>3, <1>4

LEMMA TypesAndAttributes ==
  ASSUME TypeInv, NEW a \in Actor, Attributes(a) \/ update_slot(a) \/ SetModuleEnds(a)
  PROVE  TypeInv'
<1> USE DEF hierVars, tagVars, hearVars
<1>1. TypeOK /\ pend \in [Actor -> Operation]
  BY DEF TypeInv, TypeOK
<1>2. ASSUME NEW t \in Type, NEW n \in Name, NEW v \in Value \cup {NoValue},
             type_setattro(a, t, n, v)
      PROVE  TypeInv'
  <2> DEFINE p == [op |-> "set", type |-> t]
  <2>1. Becomes(a, p) /\ CanRun(a)
    BY <1>2 DEF type_setattro, Starts
  <2>2. p \in Operation /\ p.op = "set"
    BY Kinds DEF SetOps
  <2>3. pend' \in [Actor -> Operation] => TypeOK'
    BY <1>1, <1>2 DEF type_setattro, Write, TypeOK
  <2> HIDE DEF p
  <2> QED BY <2>1, <2>2, <2>3, MoveKeepsInv
<1>3. ASSUME NEW t \in Type, NEW n \in Name, NEW v \in Value, type_set_module(a, t, n, v)
      PROVE  TypeInv'
  <2> DEFINE p == [op |-> "module", type |-> t, name |-> n, value |-> v]
  <2>1. Becomes(a, p) /\ CanRun(a)
    BY <1>3 DEF type_set_module, Starts
  <2>2. p \in Operation /\ p.op = "module"
    BY Kinds DEF ModuleOps
  <2>3. PyType_Modified(t, valid)
    BY <1>3 DEF type_set_module
  <2>4. /\ valid' \subseteq valid /\ tp_code_listeners' \in [Type -> SUBSET Code]
        /\ native' \in [Code -> {"none", "valid", "invalid"}]
    BY <1>1, <2>3, ModifiedMeans DEF TypeOK
  <2>5. pend' \in [Actor -> Operation] => TypeOK'
    BY <1>1, <1>3, <2>4 DEF type_set_module, TypeOK
  <2> HIDE DEF p
  <2> QED BY <2>1, <2>2, <2>5, MoveKeepsInv
<1>4. CASE update_slot(a)
  <2>1. Becomes(a, Idle) /\ CanRun(a) /\ PyType_Modified(pend[a].type, valid) /\ pend[a].type \in Type
    BY <1>1, <1>4, Kinds DEF update_slot, SetOps
  <2>2. /\ valid' \subseteq valid /\ tp_code_listeners' \in [Type -> SUBSET Code]
        /\ native' \in [Code -> {"none", "valid", "invalid"}]
    BY <1>1, <2>1, ModifiedMeans DEF TypeOK
  <2>3. pend' \in [Actor -> Operation] => TypeOK'
    BY <1>1, <1>4, <2>2 DEF update_slot, TypeOK
  <2>4. Idle \in Operation /\ Idle.op = "idle"
    BY Kinds DEF Idle
  <2> QED BY <2>1, <2>3, <2>4, MoveKeepsInv
<1>5. CASE SetModuleEnds(a)
  <2>1. Becomes(a, Idle) /\ CanRun(a) /\ pend[a] \in ModuleOps
    BY <1>1, <1>5, Kinds DEF SetModuleEnds
  <2>2. pend' \in [Actor -> Operation] => TypeOK'
    BY <1>1, <1>5, <2>1 DEF SetModuleEnds, Write, ModuleOps, TypeOK
  <2>3. Idle \in Operation /\ Idle.op = "idle"
    BY Kinds DEF Idle
  <2> QED BY <2>1, <2>2, <2>3, MoveKeepsInv
<1> QED BY <1>2, <1>3, <1>4, <1>5 DEF Attributes
-----------------------------------------------------------------------------
(* What lookups find. *)

LEMMA LeastIndex ==
  ASSUME NEW T \in SUBSET Nat, T # {}
  PROVE  \E i \in T : \A j \in T : i <= j
<1> DEFINE R == OpToRel(<, Nat)
<1>1. IsWellFoundedOn(R, Nat)
  BY NatLessThanWellFounded
<1>2. PICK i \in T : \A j \in T : <<j, i>> \notin R
  BY <1>1, WFMin, Zenon
<1>3. \A j \in Nat, k \in Nat : j < k => <<j, k>> \in R
  BY DEF OpToRel
<1> HIDE DEF R
<1>4. \A j \in T : ~(j < i)
  BY <1>2, <1>3
<1>5. \A j \in T : i <= j
  BY <1>4
<1> QED BY <1>5

LEMMA FindTyped ==
  ASSUME TypeOK, NEW t \in Type, NEW n \in Name
  PROVE  Find(t, n) \in Value \cup {NoValue}
<1> DEFINE H == Holders(t, n)
           i == CHOOSE k \in H : \A j \in H : k <= j
<1>1. tp_mro[t] \in Seq(Type)
  BY DEF TypeOK
<1>2. H \subseteq DOMAIN tp_mro[t] /\ DOMAIN tp_mro[t] \subseteq Nat
  BY <1>1 DEF Holders
<1>3. ASSUME H # {} PROVE i \in H
  BY <1>2, <1>3, LeastIndex
<1>4. ASSUME H # {} PROVE tp_dict[tp_mro[t][i]][n] \in Value \cup {NoValue}
  <2>1. tp_mro[t][i] \in Type
    BY <1>1, <1>2, <1>3, <1>4
  <2> QED BY <2>1 DEF TypeOK
<1> QED BY <1>4 DEF Find

LEMMA FoundTyped ==
  ASSUME TypeOK, NEW t \in Type, NEW n \in Name, NEW res \in Value \cup {NoValue},
         NEW c \in Code \cup {NoCode}, Found(t, n, res, c)
  PROVE  /\ tp_code_listeners' \in [Type -> SUBSET Code]
         /\ native' \in [Code -> {"none", "valid", "invalid"}]
         /\ assumed' \in [Code -> SUBSET Fact]
<1>1. CASE UNCHANGED <<tp_code_listeners, native, assumed>>
  BY <1>1 DEF TypeOK
<1>2. CASE ~UNCHANGED <<tp_code_listeners, native, assumed>>
  <2> DEFINE K == {ClassOf[v] : v \in {res} \ {NoValue}} \ {NoType}
             first == [type |-> t, name |-> n, value |-> res]
             rest == {[type |-> d, name |-> Getter, value |-> Find(d, Getter)] : d \in K}
  <2>1. /\ c \in Code /\ Listening(c, {t} \cup K)
        /\ native' = [native EXCEPT ![c] = "valid"]
        /\ assumed' = [assumed EXCEPT ![c] = {first} \cup rest]
    BY <1>2 DEF Found
  <2>2. tp_code_listeners' \in [Type -> SUBSET Code]
    BY <2>1 DEF Listening, TypeOK
  <2>3. native' \in [Code -> {"none", "valid", "invalid"}]
    BY <2>1 DEF TypeOK
  <2>4. K \subseteq Type /\ (K # {} => Getter \in Name)
    BY TypeAssumption
  <2>5. first \in Fact
    BY DEF Fact
  <2>6. ASSUME NEW d \in K
        PROVE  [type |-> d, name |-> Getter, value |-> Find(d, Getter)] \in Fact
    <3>1. d \in Type /\ Getter \in Name
      BY <2>4
    <3>2. Find(d, Getter) \in Value \cup {NoValue}
      BY <3>1, FindTyped
    <3> QED BY <3>1, <3>2 DEF Fact
  <2>7. {first} \cup rest \in SUBSET Fact
    BY <2>5, <2>6
  <2> HIDE DEF first, rest
  <2>8. assumed' \in [Code -> SUBSET Fact]
    BY <2>1, <2>7 DEF TypeOK
  <2> QED BY <2>2, <2>3, <2>8
<1> QED BY <1>1, <1>2
-----------------------------------------------------------------------------
(* The stack of assign_version_tag *)

LEMMA AdvancedMeans ==
  ASSUME NEW s \in Seq(Frames), s # <<>>, Top(s).left # <<>>
  PROVE  /\ Advanced(s) \in Seq(Frames) /\ Len(Advanced(s)) = Len(s)
         /\ \A i \in 1 .. Len(s) : Advanced(s)[i].type = s[i].type
         /\ \A i \in 1 .. Len(s) - 1 : Advanced(s)[i] = s[i]
         /\ Advanced(s)[Len(s)].left = Tail(Top(s).left)
         /\ Head(Top(s).left) \in Type
<1>1. Len(s) \in Nat \ {0} /\ DOMAIN s = 1 .. Len(s) /\ Top(s) = s[Len(s)]
  BY DEF Top
<1>2. Top(s) \in Frames
  BY <1>1
<1>3. Top(s).left \in Seq(Type)
  BY <1>2 DEF Frames
<1>4. Tail(Top(s).left) \in Seq(Type) /\ Head(Top(s).left) \in Type
  BY <1>3
<1> DEFINE f == [s[Len(s)] EXCEPT !.left = Tail(@)]
<1>5. f \in Frames /\ f.type = s[Len(s)].type /\ f.left = Tail(Top(s).left)
  BY <1>1, <1>2, <1>4 DEF Frames
<1>6. Advanced(s) = [s EXCEPT ![Len(s)] = f]
  BY DEF Advanced
<1> HIDE DEF f
<1>7. Advanced(s) \in Seq(Frames) /\ Len(Advanced(s)) = Len(s)
  BY <1>1, <1>5, <1>6
<1>8. /\ Advanced(s)[Len(s)] = f
      /\ \A i \in 1 .. Len(s) : i # Len(s) => Advanced(s)[i] = s[i]
  <2>1. Len(s) \in DOMAIN s
    BY <1>1
  <2>2. \A i \in DOMAIN s : Advanced(s)[i] = IF i = Len(s) THEN f ELSE s[i]
    BY <1>6
  <2> QED BY <1>1, <2>1, <2>2
<1>9. \A i \in 1 .. Len(s) : Advanced(s)[i].type = s[i].type
  BY <1>5, <1>8, Zenon
<1>11. \A i \in 1 .. Len(s) - 1 : i \in 1 .. Len(s) /\ i # Len(s)
  <2>1. \A n \in Nat : \A i \in 1 .. n - 1 : i \in 1 .. n /\ i # n
    OBVIOUS
  <2>2. Len(s) \in Nat
    BY <1>1
  <2> QED BY <2>1, <2>2, Zenon
<1>10. Advanced(s)[Len(s)].left = Tail(Top(s).left)
  BY <1>5, <1>8
<1> QED BY <1>4, <1>7, <1>8, <1>9, <1>10, <1>11

LEMMA StackMove ==
  ASSUME TypeOK, NEW a \in Actor, InTag(a), NEW s \in Seq(Frames)
  PROVE  LET p == [pend[a] EXCEPT !.stack = s]
         IN  p \in Operation /\ p.op = "tag" /\ p.stack = s
<1>1. pend[a] \in TagOps
  BY Kinds DEF InTag, TypeOK
<1> DEFINE p == [pend[a] EXCEPT !.stack = s]
<1>2. p \in TagOps /\ p.stack = s /\ p.op = "tag"
  BY <1>1 DEF TagOps
<1> QED BY <1>2, Kinds

LEMMA TypesAndStack ==
  ASSUME TypeInv, NEW a \in Actor,
         TagIsValid(a) \/ TagIsNew(a) \/ TagWraps(a) \/ TagBecomesValid(a)
  PROVE  TypeInv'
<1> USE DEF hierVars, tagVars, hearVars
<1> DEFINE s == pend[a].stack
<1>1. TypeOK /\ pend \in [Actor -> Operation] /\ InTag(a) /\ ~RunsPython(pend[a])
  BY InTagBusy DEF TypeInv, TypeOK, TagIsValid, TagIsNew, TagWraps, TagBecomesValid
<1>2. s \in Seq(Frames) /\ s # <<>> /\ \A i \in 2 .. Len(s) : s[i].type \in have
  BY <1>1, Kinds DEF TagOps, InTag, TypeInv, FramesPlaced
<1>3. Len(s) \in Nat \ {0} /\ DOMAIN s = 1 .. Len(s) /\ Top(s) = s[Len(s)]
  BY <1>2 DEF Top
<1> HIDE DEF s
<1>4. ASSUME NEW r \in Seq(Frames), StackIs(a, r), UNCHANGED have, r # <<>>,
             \A i \in 2 .. Len(r) : r[i].type \in have,
             pend' \in [Actor -> Operation] => TypeOK'
      PROVE  TypeInv'
  <2> DEFINE p == [pend[a] EXCEPT !.stack = r]
  <2>1. p \in Operation /\ p.op = "tag" /\ p.stack = r
    BY <1>1, StackMove
  <2>2. Becomes(a, p)
    BY <1>4 DEF StackIs
  <2> HIDE DEF p
  <2> QED BY <1>1, <1>4, <2>1, <2>2, MoveKeepsInv
<1>5. ASSUME Top(s).left # <<>>
      PROVE  /\ Advanced(s) \in Seq(Frames) /\ Advanced(s) # <<>> /\ Len(Advanced(s)) = Len(s)
             /\ \A i \in 1 .. Len(s) : Advanced(s)[i].type = s[i].type
             /\ Head(Top(s).left) \in Type
  <2>1. Len(Advanced(s)) = Len(s)
    BY <1>2, <1>5, AdvancedMeans
  <2> QED BY <1>2, <1>3, <1>5, <2>1, AdvancedMeans
<1>6. CASE TagIsValid(a)
  <2>1. StackIs(a, Advanced(s)) /\ Top(s).left # <<>> /\ UNCHANGED have
    BY <1>6 DEF TagIsValid, s
  <2>2. pend' \in [Actor -> Operation] => TypeOK'
    BY <1>1, <1>6 DEF TagIsValid, TypeOK
  <2>3. \A i \in 2 .. Len(Advanced(s)) : Advanced(s)[i].type \in have
    BY <1>2, <1>3, <1>5, <2>1
  <2> QED BY <1>4, <1>5, <2>1, <2>2, <2>3
<1>7. CASE TagIsNew(a)
  <2> DEFINE u == Head(Top(s).left)
             r == Append(Advanced(s), Frame(u, tp_bases[u]))
  <2>1. StackIs(a, r) /\ Top(s).left # <<>> /\ UNCHANGED have /\ u \in have /\ NewTag(u)
    BY <1>7 DEF TagIsNew, s
  <2>2. u \in Type /\ Frame(u, tp_bases[u]) \in Frames /\ Frame(u, tp_bases[u]).type = u
    BY <1>1, <1>5, <2>1 DEF Frame, Frames, TypeOK
  <2>3. tp_version_tag' \in [Type -> Tag] /\ next_version_tag' \in Tag
    BY <1>1, <2>1, TypeAssumption DEF NewTag, TypeOK, Tag
  <2>4. pend' \in [Actor -> Operation] => TypeOK'
    BY <1>1, <1>7, <2>3 DEF TagIsNew, TypeOK, Tag
  <2> HIDE DEF u
  <2>5. r \in Seq(Frames) /\ r # <<>> /\ Len(r) = Len(s) + 1
    BY <1>5, <2>1, <2>2
  <2>6. r[Len(s) + 1].type = u /\ \A i \in 1 .. Len(s) : r[i].type = s[i].type
    BY <1>3, <1>5, <2>1, <2>2
  <2> HIDE DEF r
  <2>7. \A i \in 2 .. Len(r) : i = Len(s) + 1 \/ i \in 2 .. Len(s)
    BY <1>3, <2>5
  <2>8. \A i \in 2 .. Len(r) : r[i].type \in have
    BY <1>2, <2>1, <2>6, <2>7
  <2> QED BY <1>4, <2>1, <2>4, <2>5, <2>8
<1>8. CASE TagWraps(a)
  <2> DEFINE u == Head(Top(s).left)
  <2>1. /\ StackIs(a, Advanced(s)) /\ Top(s).left # <<>> /\ UNCHANGED <<live, have>> /\ NewTag(u)
        /\ PyType_Modified(Object, valid)
    BY <1>8 DEF TagWraps, s
  <2>2. /\ valid' \subseteq valid /\ tp_code_listeners' \in [Type -> SUBSET Code]
        /\ native' \in [Code -> {"none", "valid", "invalid"}]
    BY <1>1, <2>1, ModifiedMeans, TypeAssumption DEF TypeOK
  <2>3. tp_version_tag' \in [Type -> Tag] /\ next_version_tag' \in Tag
    BY <1>1, <1>5, <2>1, TypeAssumption, SMTT(30) DEF NewTag, TypeOK, Tag
  <2>4. method_cache' \in [Slot -> Entry]
    BY <1>1, <1>8 DEF TagWraps, TypeOK, Entry
  <2>5. pend' \in [Actor -> Operation] => TypeOK'
    BY <1>1, <1>8, <2>2, <2>3, <2>4 DEF TagWraps, TypeOK, Tag
  <2>6. \A i \in 2 .. Len(Advanced(s)) : Advanced(s)[i].type \in have
    BY <1>2, <1>3, <1>5, <2>1
  <2> QED BY <1>4, <1>5, <2>1, <2>5, <2>6
<1>9. CASE TagBecomesValid(a)
  <2>1. StackIs(a, PopLast(s)) /\ Len(s) > 1 /\ UNCHANGED have /\ valid' = valid \cup {Top(s).type}
    BY <1>9 DEF TagBecomesValid, s
  <2>2. Top(s).type \in have
    BY <1>2, <1>3, <2>1
  <2>3. pend' \in [Actor -> Operation] => TypeOK'
    BY <1>1, <1>9, <2>1, <2>2 DEF TagBecomesValid, TypeOK, Tag
  <2>4. PopLast(s) \in Seq(Frames) /\ Len(PopLast(s)) = Len(s) - 1 /\ \A i \in 1 .. Len(s) - 1 : PopLast(s)[i] = s[i]
    BY <1>2, Stack
  <2>5. PopLast(s) # <<>> /\ \A i \in 2 .. Len(PopLast(s)) : PopLast(s)[i].type \in have
    BY <1>2, <1>3, <2>1, <2>4
  <2> QED BY <1>4, <2>1, <2>3, <2>4, <2>5
<1> QED BY <1>6, <1>7, <1>8, <1>9

LEMMA TypesAndLookups ==
  ASSUME TypeInv, NEW a \in Actor, Lookups(a)
  PROVE  TypeInv'
<1> USE DEF hierVars, tagVars, hearVars
<1>1. TypeOK /\ pend \in [Actor -> Operation]
  BY DEF TypeInv, TypeOK
<1>2. Idle \in Operation /\ Idle.op = "idle"
  BY Kinds DEF Idle
<1>3. ASSUME NEW t \in Type, NEW n \in Name, NEW c \in Code \cup {NoCode}, LookupHits(a, t, n, c)
      PROVE  TypeInv'
  <2>1. EntryOf(t, n) \in Entry
    BY <1>1, <1>3, HashAssumption DEF EntryOf, TypeOK, Tag
  <2>2. EntryOf(t, n).value \in Value \cup {NoValue}
    BY <2>1 DEF Entry
  <2>3. Found(t, n, EntryOf(t, n).value, c)
    BY <1>3 DEF LookupHits
  <2>4. /\ tp_code_listeners' \in [Type -> SUBSET Code]
        /\ native' \in [Code -> {"none", "valid", "invalid"}]
        /\ assumed' \in [Code -> SUBSET Fact]
    BY <1>1, <2>2, <2>3, FoundTyped
  <2>5. TypeOK'
    BY <1>1, <1>3, <2>4 DEF LookupHits, TypeOK, Tag
  <2> QED BY <1>3, <2>5, RestKeepsInv DEF LookupHits
<1>4. ASSUME NEW t \in Type, NEW n \in Name, NEW c \in Code \cup {NoCode}, LookupMisses(a, t, n, c)
      PROVE  TypeInv'
  <2> DEFINE p == [op |-> "walk", type |-> t, name |-> n, code |-> c, mro |-> tp_mro[t], pos |-> 1]
  <2>1. Becomes(a, p) /\ CanRun(a)
    BY <1>4 DEF LookupMisses, Starts
  <2>2. p \in WalkOps
    BY <1>1 DEF WalkOps, TypeOK
  <2>3. p \in Operation /\ p.op = "walk"
    BY <2>2, Kinds
  <2>4. pend' \in [Actor -> Operation] => TypeOK'
    BY <1>1, <1>4 DEF LookupMisses, TypeOK, Tag
  <2> HIDE DEF p
  <2> QED BY <2>1, <2>3, <2>4, MoveKeepsInv
<1>5. CASE LookupWalks(a)
  <2> DEFINE p == pend[a]
             v == IF p.pos \in DOMAIN p.mro THEN tp_dict[p.mro[p.pos]][p.name] ELSE NoValue
  <2>1. p \in WalkOps /\ CanRun(a)
    BY <1>1, <1>5, Kinds DEF LookupWalks
  <2>2. v \in Value \cup {NoValue}
    <3>1. p.name \in Name /\ (p.pos \in DOMAIN p.mro => p.mro[p.pos] \in Type)
      BY <2>1 DEF WalkOps
    <3> QED BY <1>1, <3>1 DEF TypeOK
  <2>3. \/ Becomes(a, [p EXCEPT !.pos = p.pos + 1]) /\ UNCHANGED <<hearVars, assumed>>
        \/ /\ Becomes(a, [op |-> "tag", type |-> p.type, name |-> p.name, code |-> p.code,
                          value |-> v, stack |-> <<Frame(NoType, <<p.type>>)>>])
           /\ UNCHANGED <<hearVars, assumed>>
        \/ Becomes(a, Idle) /\ Found(p.type, p.name, v, p.code) /\ UNCHANGED valid
    BY <1>5 DEF LookupWalks
  <2>4. UNCHANGED <<hierVars, tp_dict, tagVars>>
    BY <1>5 DEF LookupWalks
  <2>5. CASE Becomes(a, [p EXCEPT !.pos = p.pos + 1]) /\ UNCHANGED <<hearVars, assumed>>
    <3> DEFINE q == [p EXCEPT !.pos = p.pos + 1]
    <3>1. q \in WalkOps
      BY <2>1 DEF WalkOps
    <3>2. q \in Operation /\ q.op = "walk"
      BY <2>1, <3>1, Kinds DEF WalkOps
    <3>3. pend' \in [Actor -> Operation] => TypeOK'
      BY <1>1, <2>4, <2>5 DEF TypeOK, Tag
    <3>4. Becomes(a, q)
      BY <2>5
    <3> HIDE DEF q
    <3> QED BY <2>1, <3>2, <3>3, <3>4, MoveKeepsInv
  <2>6. CASE /\ Becomes(a, [op |-> "tag", type |-> p.type, name |-> p.name, code |-> p.code,
                            value |-> v, stack |-> <<Frame(NoType, <<p.type>>)>>])
             /\ UNCHANGED <<hearVars, assumed>>
    <3> DEFINE s == <<Frame(NoType, <<p.type>>)>>
               q == [op |-> "tag", type |-> p.type, name |-> p.name, code |-> p.code,
                     value |-> v, stack |-> s]
    <3>1. p.type \in Type /\ p.name \in Name /\ p.code \in Code \cup {NoCode}
      BY <2>1 DEF WalkOps
    <3>2. Frame(NoType, <<p.type>>) \in Frames
      BY <3>1 DEF Frame, Frames
    <3>3. s \in Seq(Frames) /\ Len(s) = 1 /\ s # <<>>
      BY <3>2
    <3>4. Becomes(a, q)
      BY <2>6
    <3> HIDE DEF v, s
    <3>5. q \in TagOps /\ q.op = "tag" /\ q.stack = s
      BY <2>2, <3>1, <3>3 DEF TagOps
    <3>6. q \in Operation
      BY <3>5, Kinds
    <3>7. pend' \in [Actor -> Operation] => TypeOK'
      BY <1>1, <2>4, <2>6 DEF TypeOK, Tag
    <3>8. \A i \in 2 .. Len(s) : s[i].type \in have'
      BY <3>3
    <3> HIDE DEF q
    <3> QED BY <2>1, <3>3, <3>4, <3>5, <3>6, <3>7, <3>8, MoveKeepsInv
  <2>7. CASE Becomes(a, Idle) /\ Found(p.type, p.name, v, p.code) /\ UNCHANGED valid
    <3> HIDE DEF v
    <3>1. p.type \in Type /\ p.name \in Name /\ p.code \in Code \cup {NoCode}
      BY <2>1 DEF WalkOps
    <3>2. /\ tp_code_listeners' \in [Type -> SUBSET Code]
          /\ native' \in [Code -> {"none", "valid", "invalid"}]
          /\ assumed' \in [Code -> SUBSET Fact]
      BY <1>1, <2>2, <2>7, <3>1, FoundTyped
    <3>3. pend' \in [Actor -> Operation] => TypeOK'
      BY <1>1, <2>4, <2>7, <3>2 DEF TypeOK, Tag
    <3> QED BY <1>2, <2>1, <2>7, <3>3, MoveKeepsInv
  <2> QED BY <2>3, <2>5, <2>6, <2>7
<1>6. CASE TagIsRefused(a) \/ LookupCaches(a)
  <2> DEFINE p == pend[a]
  <2>1. p \in TagOps /\ ~RunsPython(p) /\ Becomes(a, Idle) /\ Found(p.type, p.name, p.value, p.code)
    BY <1>1, <1>6, Kinds, InTagBusy DEF TagIsRefused, LookupCaches, InTag
  <2>2. /\ p.type \in Type /\ p.name \in Name /\ p.code \in Code \cup {NoCode}
        /\ p.value \in Value \cup {NoValue}
    BY <2>1 DEF TagOps
  <2>3. /\ tp_code_listeners' \in [Type -> SUBSET Code]
        /\ native' \in [Code -> {"none", "valid", "invalid"}]
        /\ assumed' \in [Code -> SUBSET Fact]
    BY <1>1, <2>1, <2>2, FoundTyped
  <2>4. method_cache' \in [Slot -> Entry]
    <3>1. CASE TagIsRefused(a)
      BY <1>1, <3>1 DEF TagIsRefused, TypeOK
    <3>2. CASE LookupCaches(a)
      <4> DEFINE e == [version |-> tp_version_tag[p.type], name |-> p.name, value |-> p.value]
      <4>1. e \in Entry
        BY <1>1, <2>2 DEF TypeOK, Entry
      <4>2. \E k \in Slot : method_cache' = [method_cache EXCEPT ![k] = e]
        BY <1>1, <2>2, <3>2, HashAssumption DEF LookupCaches, TypeOK, Tag
      <4> HIDE DEF e
      <4> QED BY <1>1, <4>1, <4>2 DEF TypeOK
    <3> QED BY <1>6, <3>1, <3>2
  <2>5. UNCHANGED <<hierVars, tp_dict, tp_version_tag, next_version_tag, valid>>
    BY <1>6 DEF TagIsRefused, LookupCaches
  <2>6. pend' \in [Actor -> Operation] => TypeOK'
    BY <1>1, <2>3, <2>4, <2>5 DEF TypeOK, Tag
  <2> QED BY <1>2, <2>1, <2>6, MoveKeepsInv
<1> QED BY <1>3, <1>4, <1>5, <1>6, TypesAndStack DEF Lookups
-----------------------------------------------------------------------------
LEMMA GreatestIndex ==
  ASSUME NEW n \in Nat, NEW T \in SUBSET (1 .. n), T # {}
  PROVE  \E i \in T : \A j \in T : j <= i
<1> DEFINE U == {n - j : j \in T}
<1>1. \A j \in T : n - j \in Nat /\ n - j \in U
  OBVIOUS
<1>5. U \subseteq Nat /\ U # {}
  BY <1>1
<1>2. PICK k \in U : \A j \in U : k <= j
  BY <1>5, LeastIndex
<1>3. PICK i \in T : k = n - i
  BY <1>2
<1>4. \A j \in T : n - i <= n - j
  BY <1>2, <1>3
<1> QED BY <1>4

LEMMA LastSavedIs ==
  ASSUME NEW temp \in Seq(Saved), NEW t, t \in {temp[i].type : i \in DOMAIN temp}
  PROVE  \E i \in DOMAIN temp : temp[i].type = t /\ LastSaved(temp, t) = temp[i].mro
<1> DEFINE T == {i \in DOMAIN temp : temp[i].type = t}
<1>1. DOMAIN temp = 1 .. Len(temp) /\ Len(temp) \in Nat
  OBVIOUS
<1>2. T \subseteq 1 .. Len(temp) /\ T # {}
  BY <1>1
<1>3. \E i \in T : \A j \in T : j <= i
  BY <1>1, <1>2, GreatestIndex
<1> DEFINE k == CHOOSE i \in DOMAIN temp :
                  temp[i].type = t /\ \A j \in DOMAIN temp : temp[j].type = t => j <= i
<1>4. k \in DOMAIN temp /\ temp[k].type = t
  BY <1>3
<1>5. LastSaved(temp, t) = temp[k].mro
  BY DEF LastSaved
<1> QED BY <1>4, <1>5

\* The new order of a type, and what the change of its flags leaves.
LEMMA MroInternalTyped ==
  ASSUME TypeOK, NEW t \in Type, NEW m \in Seq(Type), mro_internal(t, m)
  PROVE  /\ tp_mro' \in [Type -> Seq(Type)]
         /\ have' \subseteq have /\ valid' \subseteq valid \cap have'
         /\ tp_code_listeners' \in [Type -> SUBSET Code]
         /\ native' \in [Code -> {"none", "valid", "invalid"}]
<1> DEFINE keeps == t \in have /\ KeepsTag(m, m, have) /\ KeepsTag(m, tp_bases[t], have)
           v == IF keeps THEN valid ELSE valid \ {t}
<1>1. /\ tp_mro' = [tp_mro EXCEPT ![t] = m]
      /\ have' = IF keeps THEN have ELSE have \ {t}
      /\ PyType_Modified(t, v)
  BY DEF mro_internal
<1> HIDE DEF keeps
<1>2. v \in SUBSET Type /\ v \subseteq have' /\ v \subseteq valid /\ have' \subseteq have
  BY <1>1 DEF TypeOK
<1> HIDE DEF v
<1>3. /\ valid' \subseteq v /\ tp_code_listeners' \in [Type -> SUBSET Code]
      /\ native' \in [Code -> {"none", "valid", "invalid"}]
  BY <1>1, <1>2, ModifiedMeans DEF TypeOK
<1> QED BY <1>1, <1>2, <1>3 DEF TypeOK

\* The stack and the saved orders after one more order was computed.
LEMMA LevelMove ==
  ASSUME NEW p \in BasesOps, p.stack # <<>>, NEW u \in Top(p.stack).left,
         tp_subclasses \in [Type -> SUBSET Type], tp_mro \in [Type -> Seq(Type)]
  PROVE  LET s == p.stack
             q == [p EXCEPT
               !.stack = Append([s EXCEPT ![Len(s)].left = @ \ {u}], Level(u, tp_subclasses[u])),
               !.temp = IF Len(s) = 1 THEN @ ELSE Append(@, [type |-> u, mro |-> tp_mro[u]])]
         IN  /\ u \in Type /\ q \in BasesOps
             /\ q.type = p.type /\ q.bases = p.bases /\ q.mro = p.mro
             /\ \/ q.temp = p.temp
                \/ q.temp = Append(p.temp, [type |-> u, mro |-> tp_mro[u]])
<1> DEFINE s == p.stack
           f == [s[Len(s)] EXCEPT !.left = @ \ {u}]
           s1 == [s EXCEPT ![Len(s)].left = @ \ {u}]
           s2 == Append(s1, Level(u, tp_subclasses[u]))
           t2 == IF Len(s) = 1 THEN p.temp ELSE Append(p.temp, [type |-> u, mro |-> tp_mro[u]])
<1>1. s \in Seq(Levels) /\ p.temp \in Seq(Saved)
  BY DEF BasesOps
<1>2. Len(s) \in DOMAIN s /\ Top(s) = s[Len(s)] /\ Top(s) \in Levels
  BY <1>1 DEF Top
<1>3. u \in Type
  BY <1>2 DEF Levels
<1>4. f \in Levels
  BY <1>2 DEF Levels
<1>5. s1 = [s EXCEPT ![Len(s)] = f]
  OBVIOUS
<1> HIDE DEF f, s1
<1>6. s1 \in Seq(Levels)
  BY <1>1, <1>2, <1>4, <1>5
<1>7. Level(u, tp_subclasses[u]) \in Levels
  BY <1>3 DEF Level, Levels
<1>8. s2 \in Seq(Levels)
  BY <1>6, <1>7
<1>9. [type |-> u, mro |-> tp_mro[u]] \in Saved
  BY <1>3 DEF Saved
<1>10. t2 \in Seq(Saved)
  BY <1>1, <1>9
<1> HIDE DEF s2, t2
<1> DEFINE q == [p EXCEPT !.stack = s2, !.temp = t2]
<1>11. /\ q \in BasesOps /\ q.temp = t2
       /\ q.type = p.type /\ q.bases = p.bases /\ q.mro = p.mro
  BY <1>8, <1>10 DEF BasesOps
<1> QED BY <1>3, <1>11 DEF s1, s2, t2

LEMMA TypesAndBases ==
  ASSUME TypeInv, NEW a \in Actor, SetBases(a)
  PROVE  TypeInv'
<1> USE DEF hierVars, tagVars, hearVars
<1> DEFINE p == pend[a]
<1>1. TypeOK /\ pend \in [Actor -> Operation] /\ p \in BasesOps /\ CanRun(a)
  BY Kinds DEF TypeInv, TypeOK, SetBases, InBases
<1>2. /\ p.type \in Type /\ p.bases \in Seq(Type) /\ p.mro \in Seq(Type)
      /\ p.stack \in Seq(Levels) /\ p.temp \in Seq(Saved)
  BY <1>1 DEF BasesOps
<1>3. Idle \in Operation /\ Idle.op = "idle"
  BY Kinds DEF Idle
<1>4. ASSUME NEW q \in BasesOps, Becomes(a, q), pend' \in [Actor -> Operation] => TypeOK'
      PROVE  TypeInv'
  <2>1. q \in Operation /\ q.op = "bases"
    BY Kinds DEF BasesOps
  <2> QED BY <1>1, <1>4, <2>1, MoveKeepsInv
<1>5. ASSUME NEW u \in Top(p.stack).left, NEW m \in Answers(u, tp_bases[u]),
             p.stack # <<>>, MroUpdated(a, u, m)
      PROVE  TypeInv'
  <2> DEFINE s == p.stack
             q == [p EXCEPT
               !.stack = Append([s EXCEPT ![Len(s)].left = @ \ {u}], Level(u, tp_subclasses[u])),
               !.temp = IF Len(s) = 1 THEN @ ELSE Append(@, [type |-> u, mro |-> tp_mro[u]])]
  <2>1. u \in Type /\ q \in BasesOps
    BY <1>1, <1>5, LevelMove DEF TypeOK
  <2>2. Becomes(a, q) /\ mro_internal(u, m)
    BY <1>5 DEF MroUpdated
  <2> HIDE DEF q
  <2>3. m \in Seq(Type)
    BY <1>1, <2>1, AnswerNames DEF TypeOK
  <2>4. /\ tp_mro' \in [Type -> Seq(Type)]
        /\ have' \subseteq have /\ valid' \subseteq valid \cap have'
        /\ tp_code_listeners' \in [Type -> SUBSET Code]
        /\ native' \in [Code -> {"none", "valid", "invalid"}]
    BY <1>1, <2>1, <2>2, <2>3, MroInternalTyped
  <2>5. pend' \in [Actor -> Operation] => TypeOK'
    BY <1>1, <1>5, <2>4 DEF MroUpdated, TypeOK, Tag
  <2> QED BY <1>4, <2>1, <2>2, <2>5
<1>6. ASSUME NEW u \in Top(p.stack).left, SetBasesFails(a, u)
      PROVE  TypeInv'
  <2> DEFINE changed == {p.temp[i].type : i \in DOMAIN p.temp}
  <2>1. /\ Becomes(a, Idle)
        /\ tp_bases' = [tp_bases EXCEPT ![p.type] = p.bases]
        /\ tp_mro' = [t \in Type |-> IF t = p.type THEN p.mro
                                     ELSE IF t \in changed THEN LastSaved(p.temp, t) ELSE tp_mro[t]]
    BY <1>6 DEF SetBasesFails
  <2>2. ASSUME NEW t \in changed PROVE LastSaved(p.temp, t) \in Seq(Type)
    <3>1. PICK i \in DOMAIN p.temp : LastSaved(p.temp, t) = p.temp[i].mro
      BY <1>2, LastSavedIs
    <3>2. p.temp[i] \in Saved
      BY <1>2, <3>1
    <3> QED BY <3>1, <3>2 DEF Saved
  <2> HIDE DEF changed
  <2>3. tp_mro' \in [Type -> Seq(Type)] /\ tp_bases' \in [Type -> Seq(Type)]
    BY <1>1, <1>2, <2>1, <2>2 DEF TypeOK
  <2>4. pend' \in [Actor -> Operation] => TypeOK'
    BY <1>1, <1>6, <2>3 DEF SetBasesFails, TypeOK, Tag
  <2> QED BY <1>1, <1>3, <2>1, <2>4, MoveKeepsInv
<1>7. CASE MroLevelDone(a)
  <2> DEFINE q == [p EXCEPT !.stack = PopLast(p.stack)]
  <2>1. PopLast(p.stack) \in Seq(Levels)
    BY <1>2, <1>7, Stack DEF MroLevelDone
  <2>2. q \in BasesOps
    BY <1>1, <2>1 DEF BasesOps
  <2>3. Becomes(a, q)
    BY <1>7 DEF MroLevelDone
  <2>4. pend' \in [Actor -> Operation] => TypeOK'
    BY <1>1, <1>7 DEF MroLevelDone, TypeOK, Tag
  <2> HIDE DEF q
  <2> QED BY <1>4, <2>2, <2>3, <2>4
<1>8. CASE SetBasesEnds(a)
  <2>1. PyType_Modified(p.type, valid) /\ Becomes(a, Idle)
    BY <1>8 DEF SetBasesEnds
  <2>2. /\ valid' \subseteq valid /\ tp_code_listeners' \in [Type -> SUBSET Code]
        /\ native' \in [Code -> {"none", "valid", "invalid"}]
    BY <1>1, <1>2, <2>1, ModifiedMeans DEF TypeOK
  <2>3. tp_subclasses' \in [Type -> SUBSET Type]
    BY <1>1, <1>2, <1>8 DEF SetBasesEnds, TypeOK
  <2>4. pend' \in [Actor -> Operation] => TypeOK'
    BY <1>1, <1>8, <2>2, <2>3 DEF SetBasesEnds, TypeOK, Tag
  <2> QED BY <1>1, <1>3, <2>1, <2>4, MoveKeepsInv
<1> QED BY <1>5, <1>6, <1>7, <1>8 DEF SetBases

LEMMA TypesAndDealloc ==
  ASSUME TypeInv, NEW a \in Actor, NEW t \in Type, type_dealloc(a, t)
  PROVE  TypeInv' /\ valid' \subseteq valid \ {t}
<1> USE DEF hierVars, tagVars, hearVars
<1>1. TypeOK /\ \A b \in Actor : ~InTag(b)
  BY InTagBusy DEF TypeInv, type_dealloc, Unused, RunsPython, Idle
<1>2. /\ valid' = valid \ Gone(t, valid) /\ live' = live \ {t} /\ have' = have \ {t}
      /\ UNCHANGED <<tagVars, assumed, pend>>
  BY DEF type_dealloc
<1>3. valid' \subseteq valid \ {t}
  BY <1>2, GoneFirst
<1>4. tp_code_listeners' \in [Type -> SUBSET Code]
  BY <1>1 DEF type_dealloc, TypeOK
<1>5. native' \in [Code -> {"none", "valid", "invalid"}]
  BY <1>1 DEF type_dealloc, TypeOK
<1>6. /\ tp_bases' \in [Type -> Seq(Type)] /\ tp_mro' \in [Type -> Seq(Type)]
      /\ tp_subclasses' \in [Type -> SUBSET Type]
      /\ tp_dict' \in [Type -> [Name -> Value \cup {NoValue}]]
  BY <1>1 DEF type_dealloc, TypeOK
<1>7. TypeOK'
  BY <1>1, <1>2, <1>3, <1>4, <1>5, <1>6 DEF TypeOK, Tag
<1> QED BY <1>1, <1>2, <1>3, <1>7, RestKeepsInv

LEMMA TypesAndClear ==
  ASSUME TypeInv, PyType_ClearCache
  PROVE  TypeInv'
<1> USE DEF hierVars, tagVars, hearVars
<1>1. TypeOK /\ \A b \in Actor : ~InTag(b)
  BY InTagBusy DEF TypeInv, PyType_ClearCache
<1>2. PyType_Modified(Object, valid)
  BY DEF PyType_ClearCache
<1>3. /\ valid' \subseteq valid /\ tp_code_listeners' \in [Type -> SUBSET Code]
      /\ native' \in [Code -> {"none", "valid", "invalid"}]
  BY <1>1, <1>2, ModifiedMeans, TypeAssumption DEF TypeOK
<1>4. Empty \in Entry /\ 0 \in Tag
  BY TypeAssumption DEF Empty, Entry, Tag
<1>5. TypeOK'
  BY <1>1, <1>3, <1>4 DEF PyType_ClearCache, TypeOK, Tag
<1> QED BY <1>1, <1>5, RestKeepsInv DEF PyType_ClearCache

LEMMA StepTypes == TypeInv /\ [Next]_vars => TypeInv'
<1> SUFFICES ASSUME TypeInv, [Next]_vars PROVE TypeInv'
  OBVIOUS
<1>1. ASSUME NEW a \in Actor,
             Classes(a) \/ Attributes(a) \/ update_slot(a) \/ SetModuleEnds(a)
             \/ Lookups(a) \/ SetBases(a) \/ \E t \in Type : type_dealloc(a, t)
      PROVE  TypeInv'
  BY <1>1, TypesAndClasses, TypesAndAttributes, TypesAndLookups, TypesAndBases, TypesAndDealloc
<1>2. CASE UNCHANGED vars
  BY <1>2 DEF vars, hierVars, tagVars, hearVars, TypeInv, TypeOK, Tag, OneBusy, FramesPlaced,
     RunsPython, InTag
<1> QED BY <1>1, <1>2, TypesAndClear DEF Next

\* The state of typeobject.c always has its types: in particular only live types of the new
\* style have flags, and a valid tag is a tag of a type that may have one.
THEOREM TypeCacheTypeCorrect == Spec => []TypeOK
<1>1. Init => TypeInv
  BY InitTypes
<1>2. TypeInv /\ [Next]_vars => TypeInv'
  BY StepTypes
<1>3. TypeInv => TypeOK
  BY DEF TypeInv
<1> QED BY <1>1, <1>2, <1>3, PTL DEF Spec
-----------------------------------------------------------------------------
(* Tags.  Every step but those of assign_version_tag takes valid tags away *)
(* at most, and no type but the one that is looked into is on a stack.     *)

Looks(a) == \/ LookupWalks(a) \/ TagIsRefused(a) \/ LookupCaches(a)
            \/ \E t \in Type, n \in Name, c \in Code \cup {NoCode} :
                 LookupHits(a, t, n, c) \/ LookupMisses(a, t, n, c)
Assigns(a) == TagIsValid(a) \/ TagIsNew(a) \/ TagWraps(a) \/ TagBecomesValid(a)

LEMMA LookupsSplit == \A a \in Actor : Lookups(a) => Looks(a) \/ Assigns(a)
BY Zenon DEF Lookups, Looks, Assigns

ShortStacks == \A b \in Actor : InTag(b) => Len(pend[b].stack) = 1

LEMMA SoloTag ==
  ASSUME TypeInv, NEW a \in Actor, NEW p, Becomes(a, p), CanRun(a) \/ ~RunsPython(pend[a]),
         p.op = "tag" => Len(p.stack) = 1
  PROVE  ShortStacks'
<1>1. pend \in [Actor -> Operation] /\ OneBusy
  BY DEF TypeInv, TypeOK
<1>2. pend'[a] = p /\ \A b \in Actor \ {a} : ~InTag(b)'
  BY <1>1, BecomesMeans, ActorMoves
<1> QED BY <1>2 DEF ShortStacks, InTag

LEMMA NobodyTags ==
  ASSUME TypeInv, NEW a \in Actor, Starts(a), UNCHANGED pend
  PROVE  ShortStacks'
<1>1. \A b \in Actor : RunsPython(pend[b])
  BY DEF Starts, CanRun, RunsPython, Idle
<1>2. \A b \in Actor : ~InTag(b)
  BY <1>1, InTagBusy
<1> QED BY <1>2 DEF ShortStacks, InTag

LEMMA LooksQuietly ==
  ASSUME TypeInv, NEW a \in Actor, Looks(a)
  PROVE  UNCHANGED <<hierVars, tp_version_tag, next_version_tag, valid>> /\ ShortStacks'
<1> USE DEF hearVars, tagVars
<1>1. Idle.op = "idle"
  BY DEF Idle
<1>2. CASE LookupWalks(a)
  <2> DEFINE p == pend[a]
             v == IF p.pos \in DOMAIN p.mro THEN tp_dict[p.mro[p.pos]][p.name] ELSE NoValue
             s == <<Frame(NoType, <<p.type>>)>>
  <2>1. CanRun(a) /\ UNCHANGED <<hierVars, tp_version_tag, next_version_tag, valid>>
    BY <1>2 DEF LookupWalks
  <2>2. \/ Becomes(a, [p EXCEPT !.pos = p.pos + 1])
        \/ Becomes(a, [op |-> "tag", type |-> p.type, name |-> p.name, code |-> p.code,
                       value |-> v, stack |-> s])
        \/ Becomes(a, Idle)
    BY <1>2 DEF LookupWalks
  <2>3. p \in WalkOps
    BY <1>2, Kinds DEF LookupWalks, TypeInv, TypeOK
  <2>4. [p EXCEPT !.pos = p.pos + 1].op = "walk"
    BY <2>3 DEF WalkOps
  <2>5. Len(s) = 1
    OBVIOUS
  <2>6. [op |-> "tag", type |-> p.type, name |-> p.name, code |-> p.code,
         value |-> v, stack |-> s].stack = s
    OBVIOUS
  <2> HIDE DEF v, s
  <2> QED BY <1>1, <2>1, <2>2, <2>4, <2>5, <2>6, SoloTag
<1>3. CASE TagIsRefused(a) \/ LookupCaches(a)
  <2>1. /\ Becomes(a, Idle) /\ ~RunsPython(pend[a])
        /\ UNCHANGED <<hierVars, tp_version_tag, next_version_tag, valid>>
    BY <1>3, InTagBusy DEF TagIsRefused, LookupCaches
  <2> QED BY <1>1, <2>1, SoloTag
<1>4. ASSUME NEW t \in Type, NEW n \in Name, NEW c \in Code \cup {NoCode}, LookupHits(a, t, n, c)
      PROVE  UNCHANGED <<hierVars, tp_version_tag, next_version_tag, valid>> /\ ShortStacks'
  BY <1>4, NobodyTags DEF LookupHits
<1>5. ASSUME NEW t \in Type, NEW n \in Name, NEW c \in Code \cup {NoCode}, LookupMisses(a, t, n, c)
      PROVE  UNCHANGED <<hierVars, tp_version_tag, next_version_tag, valid>> /\ ShortStacks'
  <2> DEFINE p == [op |-> "walk", type |-> t, name |-> n, code |-> c, mro |-> tp_mro[t], pos |-> 1]
  <2>1. /\ Becomes(a, p) /\ CanRun(a)
        /\ UNCHANGED <<hierVars, tp_version_tag, next_version_tag, valid>>
    BY <1>5 DEF LookupMisses, Starts
  <2>2. p.op = "walk"
    OBVIOUS
  <2> HIDE DEF p
  <2> QED BY <2>1, <2>2, SoloTag
<1> QED BY <1>2, <1>3, <1>4, <1>5 DEF Looks

LEMMA WritesQuietly ==
  ASSUME TypeInv, NEW a \in Actor, Attributes(a) \/ update_slot(a) \/ SetModuleEnds(a)
  PROVE  /\ UNCHANGED <<hierVars, tp_version_tag, next_version_tag>> /\ valid' \subseteq valid
         /\ \A t \in Type, u \in valid' : t \in valid /\ u \in tp_subclasses[t] => t \in valid'
         /\ ShortStacks' /\ \E p : Becomes(a, p) /\ p.op # "bases" /\ CanRun(a) /\ pend[a].op # "bases"
<1> USE DEF hearVars, tagVars
<1>1. Idle.op = "idle" /\ TypeOK
  BY DEF Idle, TypeInv
<1>2. ASSUME NEW p, Becomes(a, p), p.op \in {"idle", "set", "module"}, CanRun(a), pend[a].op # "bases",
             UNCHANGED <<hierVars, tp_version_tag, next_version_tag>>,
             UNCHANGED valid \/ \E t \in Type : PyType_Modified(t, valid)
      PROVE  /\ UNCHANGED <<hierVars, tp_version_tag, next_version_tag>> /\ valid' \subseteq valid
             /\ \A t \in Type, u \in valid' : t \in valid /\ u \in tp_subclasses[t] => t \in valid'
             /\ ShortStacks' /\ \E q : Becomes(a, q) /\ q.op # "bases" /\ CanRun(a) /\ pend[a].op # "bases"
  <2>1. ShortStacks'
    BY <1>2, SoloTag
  <2>2. CASE UNCHANGED valid
    BY <1>2, <2>1, <2>2
  <2>3. ASSUME NEW t \in Type, PyType_Modified(t, valid)
        PROVE  /\ valid' \subseteq valid
               /\ \A x \in Type, u \in valid' : x \in valid /\ u \in tp_subclasses[x] => x \in valid'
    BY <1>1, <2>3, ModifiedMeans DEF TypeOK
  <2> QED BY <1>2, <2>1, <2>2, <2>3
<1>3. ASSUME NEW t \in Type, NEW n \in Name, NEW v \in Value \cup {NoValue}, type_setattro(a, t, n, v)
      PROVE  /\ Becomes(a, [op |-> "set", type |-> t]) /\ CanRun(a) /\ UNCHANGED valid
             /\ pend[a].op # "bases" /\ UNCHANGED <<hierVars, tp_version_tag, next_version_tag>>
  BY <1>1, <1>3 DEF type_setattro, Starts
<1>4. ASSUME NEW t \in Type, NEW n \in Name, NEW v \in Value, type_set_module(a, t, n, v)
      PROVE  /\ Becomes(a, [op |-> "module", type |-> t, name |-> n, value |-> v]) /\ CanRun(a)
             /\ PyType_Modified(t, valid)
             /\ pend[a].op # "bases" /\ UNCHANGED <<hierVars, tp_version_tag, next_version_tag>>
  BY <1>1, <1>4 DEF type_set_module, Starts
<1>5. CASE Attributes(a)
  BY <1>2, <1>3, <1>4, <1>5 DEF Attributes
<1>6. CASE update_slot(a)
  <2>1. pend[a].type \in Type
    BY <1>1, <1>6, Kinds DEF update_slot, SetOps, TypeOK
  <2> QED BY <1>1, <1>2, <1>6, <2>1 DEF update_slot
<1>7. CASE SetModuleEnds(a)
  BY <1>1, <1>2, <1>7 DEF SetModuleEnds
<1> QED BY <1>5, <1>6, <1>7

LEMMA HierarchyQuietly ==
  ASSUME TypeInv, NEW a \in Actor,
         Classes(a) \/ SetBases(a) \/ \E t \in Type : type_dealloc(a, t)
  PROVE  UNCHANGED <<tp_version_tag, next_version_tag>> /\ valid' \subseteq valid /\ ShortStacks'
<1> USE DEF hearVars, tagVars
<1>1. Idle.op = "idle" /\ TypeOK
  BY DEF Idle, TypeInv
<1>2. CASE Classes(a)
  <2>1. PICK t \in Type, bases \in UNION {BaseChoices[u] : u \in Type} :
          \/ \E m \in Answers(t, bases), d \in [Name -> Value \cup {NoValue}] :
               type_new(a, t, bases, m, d)
          \/ type_set_bases(a, t, bases)
    BY <1>2 DEF Classes
  <2>2. CASE type_set_bases(a, t, bases)
    <3> DEFINE p == [op |-> "bases", type |-> t, bases |-> tp_bases[t], mro |-> tp_mro[t],
                     stack |-> <<Level(NoType, {t})>>, temp |-> <<>>]
    <3>1. Becomes(a, p) /\ CanRun(a) /\ UNCHANGED <<tp_version_tag, next_version_tag, valid>>
      BY <2>2 DEF type_set_bases, Starts
    <3>2. p.op = "bases"
      OBVIOUS
    <3> HIDE DEF p
    <3> QED BY <3>1, <3>2, SoloTag
  <2>3. ASSUME NEW m, NEW d, type_new(a, t, bases, m, d)
        PROVE  UNCHANGED <<tp_version_tag, next_version_tag>> /\ valid' \subseteq valid /\ ShortStacks'
    BY <2>3, NobodyTags DEF type_new
  <2> QED BY <2>1, <2>2, <2>3
<1>3. CASE SetBases(a)
  <2> DEFINE p == pend[a]
  <2>1. p \in BasesOps /\ CanRun(a)
    BY <1>1, <1>3, Kinds DEF TypeOK, SetBases, InBases
  <2>2. ASSUME NEW q \in BasesOps, Becomes(a, q) PROVE ShortStacks'
    <3>1. q.op = "bases"
      BY DEF BasesOps
    <3> QED BY <2>1, <2>2, <3>1, SoloTag
  <2>3. ASSUME NEW u \in Top(p.stack).left, NEW m \in Answers(u, tp_bases[u]),
               p.stack # <<>>, MroUpdated(a, u, m)
        PROVE  /\ UNCHANGED <<tp_version_tag, next_version_tag>> /\ valid' \subseteq valid
               /\ ShortStacks'
    <3> DEFINE s == p.stack
               q == [p EXCEPT
                 !.stack = Append([s EXCEPT ![Len(s)].left = @ \ {u}], Level(u, tp_subclasses[u])),
                 !.temp = IF Len(s) = 1 THEN @ ELSE Append(@, [type |-> u, mro |-> tp_mro[u]])]
    <3>1. u \in Type /\ q \in BasesOps
      BY <1>1, <2>1, <2>3, LevelMove DEF TypeOK
    <3>2. Becomes(a, q) /\ mro_internal(u, m) /\ UNCHANGED <<tp_version_tag, next_version_tag>>
      BY <2>3 DEF MroUpdated
    <3> HIDE DEF q
    <3>3. m \in Seq(Type)
      BY <1>1, <3>1, AnswerNames DEF TypeOK
    <3>4. valid' \subseteq valid
      BY <1>1, <3>1, <3>2, <3>3, MroInternalTyped
    <3> QED BY <2>2, <3>1, <3>2, <3>4
  <2>4. ASSUME NEW u \in Top(p.stack).left, SetBasesFails(a, u)
        PROVE  /\ UNCHANGED <<tp_version_tag, next_version_tag>> /\ valid' \subseteq valid
               /\ ShortStacks'
    BY <1>1, <2>1, <2>4, SoloTag DEF SetBasesFails
  <2>5. CASE MroLevelDone(a)
    <3> DEFINE q == [p EXCEPT !.stack = PopLast(p.stack)]
    <3>1. Becomes(a, q) /\ UNCHANGED <<tp_version_tag, next_version_tag, valid>>
      BY <2>5 DEF MroLevelDone
    <3>2. q.op = "bases"
      BY <2>1 DEF BasesOps
    <3> HIDE DEF q
    <3> QED BY <2>1, <3>1, <3>2, SoloTag
  <2>6. CASE SetBasesEnds(a)
    <3>1. /\ PyType_Modified(p.type, valid) /\ Becomes(a, Idle)
          /\ UNCHANGED <<tp_version_tag, next_version_tag>>
      BY <2>6 DEF SetBasesEnds
    <3>2. p.type \in Type
      BY <2>1 DEF BasesOps
    <3>3. valid' \subseteq valid
      BY <1>1, <3>1, <3>2, ModifiedMeans DEF TypeOK
    <3> QED BY <1>1, <2>1, <3>1, <3>3, SoloTag
  <2> QED BY <1>3, <2>3, <2>4, <2>5, <2>6 DEF SetBases
<1>4. ASSUME NEW t \in Type, type_dealloc(a, t)
      PROVE  UNCHANGED <<tp_version_tag, next_version_tag>> /\ valid' \subseteq valid /\ ShortStacks'
  <2>1. Starts(a) /\ UNCHANGED <<tp_version_tag, next_version_tag, pend>>
    BY <1>4 DEF type_dealloc
  <2> QED BY <1>4, <2>1, TypesAndDealloc, NobodyTags
<1> QED BY <1>2, <1>3, <1>4
-----------------------------------------------------------------------------
(* Valid tags are distinct.  Inductive with the tags of the types that wait *)
(* on a stack for theirs to become valid, and with the counter being above  *)
(* them all.                                                                *)

OnStack(t) == \E a \in Actor : InTag(a) /\ \E i \in 2 .. Len(pend[a].stack) :
                                            pend[a].stack[i].type = t
Tagged(t) == t \in valid \/ OnStack(t)
TagsDistinct == \A t \in Type : Tagged(t) =>
  /\ tp_version_tag[t] < next_version_tag
  /\ \A u \in Type : Tagged(u) /\ tp_version_tag[t] = tp_version_tag[u] => t = u
UniqueInv == TypeInv /\ TagsDistinct

\* The tags are not used up, and sys._clear_type_cache() does not start them again.
TagsLast == "wrap" \notin Env /\ "clear" \notin Env

LEMMA FewerTags ==
  ASSUME TagsDistinct, UNCHANGED <<tp_version_tag, next_version_tag>>,
         \A t \in Type : Tagged(t)' => Tagged(t)
  PROVE  TagsDistinct'
BY DEF TagsDistinct

LEMMA ShortStacksTagless ==
  ASSUME ShortStacks'
  PROVE  \A t \in Type : ~OnStack(t)'
BY DEF ShortStacks, OnStack

LEMMA QuietKeepsDistinct ==
  ASSUME TagsDistinct, UNCHANGED <<tp_version_tag, next_version_tag>>, valid' \subseteq valid,
         ShortStacks'
  PROVE  TagsDistinct'
<1>1. \A t \in Type : Tagged(t)' => Tagged(t)
  BY ShortStacksTagless DEF Tagged
<1> QED BY <1>1, FewerTags

\* A step of assign_version_tag: what it does to its stack.
LEMMA AssignMoves ==
  ASSUME TypeInv, NEW a \in Actor, Assigns(a)
  PROVE  LET s == pend[a].stack
         IN  /\ InTag(a) /\ InTag(a)' /\ \A b \in Actor \ {a} : ~InTag(b) /\ ~InTag(b)'
             /\ s \in Seq(Frames) /\ Len(s) \in Nat \ {0} /\ Top(s) = s[Len(s)]
             /\ pend'[a].stack \in Seq(Frames)
             /\ \/ /\ TagIsValid(a) \/ TagWraps(a)
                   /\ pend'[a].stack = Advanced(s) /\ Top(s).left # <<>>
                \/ /\ TagIsNew(a) /\ Top(s).left # <<>>
                   /\ pend'[a].stack = Append(Advanced(s), Frame(Head(Top(s).left),
                                                                 tp_bases[Head(Top(s).left)]))
                \/ TagBecomesValid(a) /\ pend'[a].stack = PopLast(s)
<1> DEFINE s == pend[a].stack
<1>1. TypeOK /\ pend \in [Actor -> Operation] /\ OneBusy /\ InTag(a) /\ ~RunsPython(pend[a])
  BY InTagBusy DEF TypeInv, TypeOK, Assigns, TagIsValid, TagIsNew, TagWraps, TagBecomesValid
<1>2. s \in Seq(Frames) /\ s # <<>> /\ pend[a] \in TagOps
  BY <1>1, Kinds DEF TagOps, InTag, TypeInv, FramesPlaced
<1>3. Len(s) \in Nat \ {0} /\ Top(s) = s[Len(s)]
  BY <1>2 DEF Top
<1>4. PICK r : StackIs(a, r)
  BY DEF Assigns, TagIsValid, TagIsNew, TagWraps, TagBecomesValid
<1>5. ASSUME NEW x, StackIs(a, x) PROVE pend'[a].stack = x /\ pend'[a].op = "tag"
  <2>1. pend'[a] = [pend[a] EXCEPT !.stack = x]
    BY <1>1, <1>5, BecomesMeans DEF StackIs
  <2> QED BY <1>2, <2>1 DEF TagOps
<1>6. InTag(a)'
  BY <1>4, <1>5 DEF InTag
<1>7. \A b \in Actor \ {a} : ~InTag(b) /\ ~InTag(b)'
  BY <1>1, <1>4, ActorMoves DEF StackIs
<1>8. pend'[a].stack \in Seq(Frames)
  <2>1. TypeInv'
    BY TypesAndStack DEF Assigns
  <2>2. pend'[a] \in Operation /\ pend'[a].op = "tag"
    BY <1>6, <2>1 DEF TypeInv, TypeOK, InTag
  <2> QED BY <2>2, Kinds DEF TagOps
<1> HIDE DEF s
<1>9. \/ /\ TagIsValid(a) \/ TagWraps(a)
         /\ StackIs(a, Advanced(s)) /\ Top(s).left # <<>>
      \/ /\ TagIsNew(a) /\ Top(s).left # <<>>
         /\ StackIs(a, Append(Advanced(s), Frame(Head(Top(s).left), tp_bases[Head(Top(s).left)])))
      \/ TagBecomesValid(a) /\ StackIs(a, PopLast(s))
  BY DEF Assigns, TagIsValid, TagIsNew, TagWraps, TagBecomesValid, s
<1>10. \/ /\ TagIsValid(a) \/ TagWraps(a)
          /\ pend'[a].stack = Advanced(s) /\ Top(s).left # <<>>
       \/ /\ TagIsNew(a) /\ Top(s).left # <<>>
          /\ pend'[a].stack = Append(Advanced(s), Frame(Head(Top(s).left), tp_bases[Head(Top(s).left)]))
       \/ TagBecomesValid(a) /\ pend'[a].stack = PopLast(s)
  BY <1>5, <1>9
<1> QED BY <1>1, <1>2, <1>3, <1>6, <1>7, <1>8, <1>10 DEF s

LEMMA AssignKeepsDistinct ==
  ASSUME UniqueInv, TagsLast, NEW a \in Actor, Assigns(a)
  PROVE  TagsDistinct'
<1> USE DEF hierVars, hearVars, tagVars
<1> DEFINE s == pend[a].stack
           r == pend'[a].stack
<1>1. TypeInv /\ TagsDistinct /\ TypeOK
  BY DEF UniqueInv, TypeInv
<1>2. /\ InTag(a) /\ InTag(a)' /\ \A b \in Actor \ {a} : ~InTag(b) /\ ~InTag(b)'
      /\ s \in Seq(Frames) /\ Len(s) \in Nat \ {0} /\ Top(s) = s[Len(s)] /\ s # <<>>
  BY <1>1, AssignMoves
<1>3. \A t \in Type : OnStack(t) <=> \E i \in 2 .. Len(s) : s[i].type = t
  BY <1>2 DEF OnStack
<1>4. \A t \in Type : OnStack(t)' <=> \E i \in 2 .. Len(r) : r[i].type = t
  BY <1>2 DEF OnStack
<1>5. CASE r = Advanced(s) /\ Top(s).left # <<>> /\ (TagIsValid(a) \/ TagWraps(a))
  <2>1. \A i \in 2 .. Len(r) : i \in 2 .. Len(s) /\ r[i].type = s[i].type
    BY <1>2, <1>5, AdvancedMeans
  <2>2. valid' \subseteq valid
    <3>1. CASE TagIsValid(a)
      BY <3>1 DEF TagIsValid
    <3>2. CASE TagWraps(a)
      BY <1>1, <3>2, ModifiedMeans, TypeAssumption DEF TagWraps, TypeOK
    <3> QED BY <1>5, <3>1, <3>2
  <2>3. \A t \in Type : Tagged(t)' => Tagged(t)
    BY <1>3, <1>4, <2>1, <2>2 DEF Tagged
  <2>4. CASE TagIsValid(a)
    BY <1>1, <2>3, <2>4, FewerTags DEF TagIsValid
  <2>5. CASE TagWraps(a)
    <3>3. next_version_tag = 0
      BY <2>5, Zenon DEF TagWraps
    <3>4. \A t \in Type : tp_version_tag[t] \in Nat
      BY <1>1, TypeAssumption DEF TypeOK, Tag
    <3>1. next_version_tag = 0 /\ \A t \in Type : ~(tp_version_tag[t] < 0)
      BY <3>3, <3>4
    <3>2. \A t \in Type : ~Tagged(t)
      BY <1>1, <3>1 DEF TagsDistinct
    <3> QED BY <2>3, <3>2 DEF TagsDistinct
  <2> QED BY <1>5, <2>4, <2>5
<1>6. CASE TagIsNew(a) /\ Top(s).left # <<>>
           /\ r = Append(Advanced(s), Frame(Head(Top(s).left), tp_bases[Head(Top(s).left)]))
  <2> DEFINE u == Head(Top(s).left)
             f == Frame(u, tp_bases[u])
  <2>1. /\ next_version_tag < LastTag /\ UNCHANGED valid
        /\ tp_version_tag' = [tp_version_tag EXCEPT ![u] = next_version_tag]
        /\ next_version_tag' = (next_version_tag + 1) % (LastTag + 1)
    BY <1>6 DEF TagIsNew, NewTag, TagsLast
  <2>2. next_version_tag \in Nat /\ LastTag \in Nat /\ \A t \in Type : tp_version_tag[t] \in Nat
    BY <1>1, TypeAssumption DEF TypeOK, Tag
  <2>3. next_version_tag' = next_version_tag + 1
    BY <2>1, <2>2
  <2>4. /\ Advanced(s) \in Seq(Frames) /\ Len(Advanced(s)) = Len(s) /\ u \in Type
        /\ \A i \in 1 .. Len(s) : Advanced(s)[i].type = s[i].type
    BY <1>2, <1>6, AdvancedMeans
  <2>5. f \in Frames /\ f.type = u
    BY <1>1, <2>4 DEF Frame, Frames, TypeOK
  <2> HIDE DEF u, f, s, r
  <2>6. r = Append(Advanced(s), f)
    BY <1>6 DEF f, u
  <2>7. Len(r) = Len(s) + 1 /\ r[Len(s) + 1] = f /\ \A i \in 1 .. Len(s) : r[i] = Advanced(s)[i]
    BY <1>2, <2>4, <2>5, <2>6
  <2>8. \A i \in 2 .. Len(r) : r[i].type = u \/ (i \in 2 .. Len(s) /\ r[i].type = s[i].type)
    <3>1. \A i \in 2 .. Len(r) : i = Len(s) + 1 \/ (i \in 2 .. Len(s) /\ i \in 1 .. Len(s))
      BY <1>2, <2>7
    <3> QED BY <2>4, <2>5, <2>7, <3>1
  <2>9. \A t \in Type : Tagged(t)' => Tagged(t) \/ t = u
    BY <1>3, <1>4, <2>1, <2>8 DEF Tagged
  <2>10. tp_version_tag'[u] = next_version_tag /\ \A t \in Type \ {u} : tp_version_tag'[t] = tp_version_tag[t]
    BY <1>1, <2>1, <2>4 DEF TypeOK
  <2>11. \A t \in Type : Tagged(t) => tp_version_tag[t] < next_version_tag
    BY <1>1 DEF TagsDistinct
  <2>12. ASSUME NEW t \in Type, Tagged(t)' PROVE tp_version_tag'[t] < next_version_tag'
    BY <2>2, <2>3, <2>9, <2>10, <2>11, <2>12
  <2>13. ASSUME NEW t \in Type, NEW x \in Type, Tagged(t)', Tagged(x)',
                tp_version_tag'[t] = tp_version_tag'[x]
         PROVE  t = x
    <3>1. CASE t # u /\ x # u
      BY <1>1, <2>9, <2>10, <2>13, <3>1 DEF TagsDistinct
    <3>2. CASE t = u /\ x # u
      <4>1. tp_version_tag[x] < next_version_tag
        BY <2>9, <2>11, <2>13, <3>2
      <4> QED BY <2>2, <2>10, <2>13, <3>2, <4>1
    <3>3. CASE t # u /\ x = u
      <4>1. tp_version_tag[t] < next_version_tag
        BY <2>9, <2>11, <2>13, <3>3
      <4> QED BY <2>2, <2>10, <2>13, <3>3, <4>1
    <3> QED BY <3>1, <3>2, <3>3
  <2> QED BY <2>12, <2>13 DEF TagsDistinct
<1>7. CASE TagBecomesValid(a) /\ r = PopLast(s)
  <2>1. /\ valid' = valid \cup {Top(s).type} /\ Len(s) > 1
        /\ UNCHANGED <<tp_version_tag, next_version_tag>>
    BY <1>7 DEF TagBecomesValid
  <2>2. Len(r) = Len(s) - 1 /\ \A i \in 1 .. Len(s) - 1 : r[i] = s[i]
    BY <1>2, <1>7, Stack
  <2> HIDE DEF r, s
  <2>3. \A i \in 2 .. Len(r) : i \in 2 .. Len(s) /\ r[i] = s[i]
    BY <1>2, <2>2
  <2>4. \A t \in Type : t = Top(s).type => OnStack(t)
    BY <1>2, <1>3, <2>1
  <2>5. \A t \in Type : Tagged(t)' => Tagged(t)
    BY <1>3, <1>4, <2>1, <2>3, <2>4 DEF Tagged
  <2> QED BY <1>1, <2>1, <2>5, FewerTags
<1> HIDE DEF r, s
<1>8. \/ r = Advanced(s) /\ Top(s).left # <<>> /\ (TagIsValid(a) \/ TagWraps(a))
      \/ TagIsNew(a) /\ Top(s).left # <<>>
         /\ r = Append(Advanced(s), Frame(Head(Top(s).left), tp_bases[Head(Top(s).left)]))
      \/ TagBecomesValid(a) /\ r = PopLast(s)
  BY <1>1, AssignMoves DEF r, s
<1> QED BY <1>5, <1>6, <1>7, <1>8

LEMMA InitUnique == Init => UniqueInv
<1> SUFFICES ASSUME Init PROVE UniqueInv
  OBVIOUS
<1>1. \A t : ~Tagged(t)
  BY DEF Init, Tagged, OnStack, InTag, Idle
<1> QED BY <1>1, InitTypes DEF UniqueInv, TagsDistinct

LEMMA StepUnique ==
  ASSUME TagsLast, UniqueInv, [Next]_vars PROVE UniqueInv'
<1>1. TypeInv /\ TypeInv' /\ TagsDistinct
  BY StepTypes DEF UniqueInv
<1>2. ASSUME NEW a \in Actor, Attributes(a) \/ update_slot(a) \/ SetModuleEnds(a)
      PROVE  TagsDistinct'
  BY <1>1, <1>2, WritesQuietly, QuietKeepsDistinct
<1>3. ASSUME NEW a \in Actor, Classes(a) \/ SetBases(a) \/ \E t \in Type : type_dealloc(a, t)
      PROVE  TagsDistinct'
  BY <1>1, <1>3, HierarchyQuietly, QuietKeepsDistinct
<1>4. ASSUME NEW a \in Actor, Lookups(a)
      PROVE  TagsDistinct'
  <2>1. CASE Looks(a)
    BY <1>1, <2>1, LooksQuietly, QuietKeepsDistinct
  <2>2. CASE Assigns(a)
    BY <2>2, AssignKeepsDistinct
  <2> QED BY <1>4, <2>1, <2>2, LookupsSplit
<1>5. ASSUME UNCHANGED vars PROVE TagsDistinct'
  <2>1. UNCHANGED <<tp_version_tag, next_version_tag, valid, pend>>
    BY <1>5 DEF vars, tagVars, hearVars
  <2>2. \A t \in Type : Tagged(t)' => Tagged(t)
    BY <2>1 DEF Tagged, OnStack, InTag
  <2> QED BY <1>1, <2>1, <2>2, FewerTags
<1>6. ~PyType_ClearCache
  BY DEF PyType_ClearCache, TagsLast
<1>7. TagsDistinct'
  BY <1>2, <1>3, <1>4, <1>5, <1>6 DEF Next
<1> QED BY <1>1, <1>7 DEF UniqueInv

\* No two types have the same valid tag: what one of them caches is never an answer for the
\* other.  Two things could break it, and neither happens here: tags that run out, and a
\* program that starts them again.
THEOREM TagsAlwaysUnique ==
  ASSUME TagsLast
  PROVE  Spec => []TagsUnique
<1>1. Init => UniqueInv
  BY InitUnique
<1>2. UniqueInv /\ [Next]_vars => UniqueInv'
  BY StepUnique
<1>3. UniqueInv => TagsUnique
  BY DEF UniqueInv, TypeInv, TypeOK, TagsDistinct, Tagged, TagsUnique
<1> QED BY <1>1, <1>2, <1>3, PTL DEF Spec

-----------------------------------------------------------------------------
(***************************************************************************)
(* The invariant that PyType_Modified is built on: valid tags are valid    *)
(* upwards.  It holds when no step in the middle of an assignment to       *)
(* __bases__ or of assign_version_tag lets somebody in, and when every     *)
(* type may have a tag; without one of these it does not.                  *)
(***************************************************************************)
Undisturbed == Legacy = {} /\ "mro" \notin Env /\ "wrap" \notin Env

NoBases == \A a \in Actor : pend[a].op # "bases"
Moving(t) == \E a \in Actor : pend[a].op = "bases" /\ pend[a].type = t

\* A type is in the lists of subclasses of its bases, and if its tag is valid theirs are.
BasesGood(t, bases) == \A b \in Members(bases) : t \in tp_subclasses[b] /\ (t \in valid => b \in valid)

\* In the middle of an assignment to __bases__ this is so for the old bases.
BasesInv ==
  /\ \A t \in live : Moving(t) \/ BasesGood(t, tp_bases[t])
  /\ \A a \in Actor : pend[a].op = "bases" => BasesGood(pend[a].type, pend[a].bases)

\* Every type may have a tag, because it knows only types that exist.
AllHave == have = live
OrdersLive ==
  /\ \A t \in live : Members(tp_bases[t]) \subseteq live /\ Members(tp_mro[t]) \subseteq live
  /\ \A a \in Actor : pend[a].op = "bases" =>
       LET p == pend[a]
       IN  /\ p.type \in live /\ Members(p.bases) \subseteq live /\ Members(p.mro) \subseteq live
           /\ \A i \in DOMAIN p.temp : p.temp[i].type \in live => Members(p.temp[i].mro) \subseteq live

\* A type on the stack of assign_version_tag: its bases are yet to treat, or valid, or next on
\* the stack.
StackUp(s) ==
  /\ Len(s) > 1 => next_version_tag # 0
  /\ \A i \in 2 .. Len(s) : \A b \in Members(tp_bases[s[i].type]) :
       b \in Members(s[i].left) \/ b \in valid \/ (i < Len(s) /\ b = s[i + 1].type)
StacksUp == \A a \in Actor : InTag(a) => StackUp(pend[a].stack)

OrderInv == TypeInv /\ AllHave /\ OrdersLive /\ BasesInv /\ StacksUp
-----------------------------------------------------------------------------
(* Who is in the middle of an assignment to __bases__. *)

LEMMA Alone ==
  ASSUME OrderInv, Undisturbed, NEW a \in Actor, CanRun(a) \/ ~RunsPython(pend[a])
  PROVE  \A b \in Actor \ {a} : pend[b].op # "bases" /\ ~InTag(b)
<1>1. \A b \in Actor \ {a} : RunsPython(pend[b])
  BY DEF OrderInv, TypeInv, OneBusy, CanRun
<1>2. \A b \in Actor \ {a} : ~InTag(b)
  BY <1>1, InTagBusy
<1> QED BY <1>1, <1>2 DEF RunsPython, Undisturbed

LEMMA StillNoBases ==
  ASSUME OrderInv, NoBases, NEW a \in Actor, NEW p, Becomes(a, p), p.op # "bases"
  PROVE  NoBases'
<1>1. pend'[a] = p /\ \A b \in Actor \ {a} : pend'[b] = pend[b]
  BY BecomesMeans DEF OrderInv, TypeInv, TypeOK
<1> QED BY <1>1 DEF NoBases

LEMMA StartsNoBases ==
  ASSUME Undisturbed, NEW a \in Actor, Starts(a)
  PROVE  NoBases /\ \A b \in Actor : ~InTag(b)
<1>1. \A b \in Actor : RunsPython(pend[b])
  BY DEF Starts, CanRun, RunsPython, Idle
<1>2. \A b \in Actor : pend[b].op # "bases"
  BY <1>1 DEF RunsPython, Undisturbed
<1> QED BY <1>1, <1>2, InTagBusy DEF NoBases

LEMMA BasesInvHere ==
  ASSUME NoBases
  PROVE  BasesInv <=> \A t \in live : BasesGood(t, tp_bases[t])
BY DEF NoBases, BasesInv, Moving

LEMMA OrdersLiveHere ==
  ASSUME NoBases
  PROVE  OrdersLive <=> \A t \in live : Members(tp_bases[t]) \subseteq live /\ Members(tp_mro[t]) \subseteq live
<1>1. \A a \in Actor : ~(pend[a].op = "bases")
  BY DEF NoBases
<1> QED BY <1>1, Zenon DEF OrdersLive

LEMMA ShortStacksUp ==
  ASSUME ShortStacks'
  PROVE  StacksUp'
<1>1. ASSUME NEW b \in Actor, InTag(b)' PROVE StackUp(pend[b].stack)'
  <2>1. Len(pend'[b].stack) = 1
    BY <1>1 DEF ShortStacks
  <2>2. 2 .. Len(pend'[b].stack) = {} /\ ~(Len(pend'[b].stack) > 1)
    BY <2>1
  <2> QED BY <2>2, Zenon DEF StackUp
<1> QED BY <1>1 DEF StacksUp

\* Tags that PyType_Modified takes away leave what is above the others.
LEMMA FewerGood ==
  ASSUME NEW t, NEW bases \in Seq(Type), BasesGood(t, bases), valid' \subseteq valid,
         \A x \in Type, u \in valid' : x \in valid /\ u \in tp_subclasses[x] => x \in valid'
  PROVE  \A b \in Members(bases) : t \in tp_subclasses[b] /\ (t \in valid' => b \in valid')
<1>1. Members(bases) \subseteq Type
  BY DEF Members
<1> QED BY <1>1 DEF BasesGood

\* A step outside of an assignment to __bases__ that leaves the hierarchy alone.
LEMMA SameHierarchy ==
  ASSUME OrderInv, NoBases, NoBases', UNCHANGED hierVars, valid' \subseteq valid, ShortStacks',
         \A x \in Type, u \in valid' : x \in valid /\ u \in tp_subclasses[x] => x \in valid'
  PROVE  AllHave' /\ OrdersLive' /\ BasesInv' /\ StacksUp'
<1> USE DEF hierVars
<1>1. AllHave'
  BY DEF OrderInv, AllHave
<1>2. OrdersLive'
  <2>1. OrdersLive' <=> \A t \in live' : Members(tp_bases'[t]) \subseteq live' /\ Members(tp_mro'[t]) \subseteq live'
    BY DEF NoBases, OrdersLive, Members
  <2>2. \A t \in live : Members(tp_bases[t]) \subseteq live /\ Members(tp_mro[t]) \subseteq live
    BY OrdersLiveHere DEF OrderInv
  <2> QED BY <2>1, <2>2
<1>3. BasesInv'
  <2>1. \A t \in live : BasesGood(t, tp_bases[t]) /\ tp_bases[t] \in Seq(Type)
    BY BasesInvHere DEF OrderInv, TypeInv, TypeOK
  <2>2. \A t \in live : BasesGood(t, tp_bases[t])'
    <3>1. ASSUME NEW t \in live
          PROVE  \A b \in Members(tp_bases[t]) : t \in tp_subclasses[b] /\ (t \in valid' => b \in valid')
      BY <2>1, FewerGood
    <3> QED BY <3>1 DEF BasesGood, Members
  <2> QED BY <2>2 DEF BasesInv, NoBases, Moving
<1> QED BY <1>1, <1>2, <1>3, ShortStacksUp
-----------------------------------------------------------------------------
(* The steps *)

LEMMA OrderAndWrites ==
  ASSUME OrderInv, Undisturbed, NEW a \in Actor,
         Attributes(a) \/ update_slot(a) \/ SetModuleEnds(a)
  PROVE  AllHave' /\ OrdersLive' /\ BasesInv' /\ StacksUp'
<1>1. TypeInv
  BY DEF OrderInv
<1>2. PICK p : Becomes(a, p) /\ p.op # "bases" /\ CanRun(a) /\ pend[a].op # "bases"
  BY <1>1, WritesQuietly
<1>3. NoBases
  BY <1>2, Alone DEF NoBases
<1>4. NoBases'
  BY <1>2, <1>3, StillNoBases
<1> QED BY <1>1, <1>3, <1>4, WritesQuietly, SameHierarchy

LEMMA OrderAndLooks ==
  ASSUME OrderInv, Undisturbed, NEW a \in Actor, Looks(a)
  PROVE  AllHave' /\ OrdersLive' /\ BasesInv' /\ StacksUp'
<1>1. TypeInv /\ Idle.op # "bases"
  BY DEF OrderInv, Idle
<1>2. UNCHANGED <<hierVars, valid>> /\ ShortStacks'
  BY <1>1, LooksQuietly
<1>3. NoBases /\ NoBases'
  <2>1. CASE LookupWalks(a)
    <3> DEFINE p == pend[a]
               v == IF p.pos \in DOMAIN p.mro THEN tp_dict[p.mro[p.pos]][p.name] ELSE NoValue
    <3>1. CanRun(a) /\ p \in WalkOps
      BY <1>1, <2>1, Kinds DEF LookupWalks, TypeInv, TypeOK
    <3>2. NoBases
      BY <3>1, Alone DEF NoBases, WalkOps
    <3>3. \/ Becomes(a, [p EXCEPT !.pos = p.pos + 1])
          \/ Becomes(a, [op |-> "tag", type |-> p.type, name |-> p.name, code |-> p.code,
                         value |-> v, stack |-> <<Frame(NoType, <<p.type>>)>>])
          \/ Becomes(a, Idle)
      BY <2>1 DEF LookupWalks
    <3>4. [p EXCEPT !.pos = p.pos + 1].op # "bases"
      BY <3>1 DEF WalkOps
    <3> HIDE DEF p, v
    <3> QED BY <1>1, <3>2, <3>3, <3>4, StillNoBases
  <2>2. CASE TagIsRefused(a) \/ LookupCaches(a)
    <3>1. Becomes(a, Idle) /\ ~RunsPython(pend[a]) /\ pend[a].op # "bases"
      BY <2>2, InTagBusy DEF TagIsRefused, LookupCaches, InTag
    <3>2. NoBases
      BY <3>1, Alone DEF NoBases
    <3> QED BY <1>1, <3>1, <3>2, StillNoBases
  <2>3. ASSUME NEW t \in Type, NEW n \in Name, NEW c \in Code \cup {NoCode}, LookupHits(a, t, n, c)
        PROVE  NoBases /\ NoBases'
    BY <2>3, StartsNoBases DEF LookupHits, NoBases
  <2>4. ASSUME NEW t \in Type, NEW n \in Name, NEW c \in Code \cup {NoCode}, LookupMisses(a, t, n, c)
        PROVE  NoBases /\ NoBases'
    <3>1. Starts(a) /\ Becomes(a, [op |-> "walk", type |-> t, name |-> n, code |-> c,
                                   mro |-> tp_mro[t], pos |-> 1])
      BY <2>4 DEF LookupMisses
    <3> QED BY <3>1, StartsNoBases, StillNoBases
  <2> QED BY <2>1, <2>2, <2>3, <2>4 DEF Looks
<1> QED BY <1>2, <1>3, SameHierarchy

LEMMA HeadOrTail ==
  ASSUME NEW l \in Seq(Type), l # <<>>
  PROVE  \A b \in Members(l) : b = Head(l) \/ b \in Members(Tail(l))
<1>1. Len(l) \in Nat \ {0} /\ DOMAIN l = 1 .. Len(l)
  OBVIOUS
<1>2. ASSUME NEW i \in 2 .. Len(l) PROVE l[i] \in Members(Tail(l))
  <2>1. i - 1 \in 1 .. Len(l) - 1 /\ (i - 1) + 1 = i
    BY <1>1
  <2>2. Len(Tail(l)) = Len(l) - 1 /\ Tail(l)[i - 1] = l[i]
    BY <1>1, <2>1
  <2>3. i - 1 \in DOMAIN Tail(l)
    BY <1>1, <2>1, <2>2
  <2> QED BY <2>2, <2>3 DEF Members
<1>3. \A i \in DOMAIN l : i = 1 \/ i \in 2 .. Len(l)
  BY <1>1
<1>4. Head(l) = l[1]
  OBVIOUS
<1> QED BY <1>2, <1>3, <1>4 DEF Members

\* Steps of assign_version_tag leave the hierarchy alone, and no assignment to __bases__ is
\* under way.
LEMMA AssignIsAlone ==
  ASSUME OrderInv, Undisturbed, NEW a \in Actor, Assigns(a)
  PROVE  /\ NoBases /\ NoBases' /\ UNCHANGED hierVars
         /\ \A b \in Actor \ {a} : ~InTag(b)'
<1>1. TypeInv
  BY DEF OrderInv
<1>2. InTag(a) /\ InTag(a)' /\ \A b \in Actor \ {a} : ~InTag(b)'
  BY <1>1, AssignMoves
<1>3. NoBases
  BY <1>2, Alone, InTagBusy DEF NoBases, InTag
<1>4. UNCHANGED hierVars
  BY DEF Assigns, TagIsValid, TagIsNew, TagWraps, TagBecomesValid
<1>5. PICK x : StackIs(a, x)
  BY DEF Assigns, TagIsValid, TagIsNew, TagWraps, TagBecomesValid
<1>6. \A b \in Actor \ {a} : pend'[b] = pend[b]
  BY <1>1, <1>5, BecomesMeans DEF StackIs, TypeInv, TypeOK
<1>7. NoBases'
  BY <1>2, <1>3, <1>6 DEF NoBases, InTag
<1> QED BY <1>2, <1>3, <1>4, <1>7

LEMMA AssignKeepsStacks ==
  ASSUME OrderInv, Undisturbed, NEW a \in Actor, Assigns(a)
  PROVE  StacksUp'
<1> DEFINE s == pend[a].stack
           r == pend'[a].stack
           Up(z, i, b, v) == b \in Members(z[i].left) \/ b \in v \/ (i < Len(z) /\ b = z[i + 1].type)
<1>1. TypeInv /\ TypeOK /\ UNCHANGED tp_bases
  BY AssignIsAlone DEF OrderInv, TypeInv, hierVars
<1>2. /\ InTag(a) /\ \A b \in Actor \ {a} : ~InTag(b)'
      /\ s \in Seq(Frames) /\ Len(s) \in Nat \ {0} /\ Top(s) = s[Len(s)] /\ s # <<>>
  BY <1>1, AssignMoves
<1>3. /\ Len(s) > 1 => next_version_tag # 0
      /\ \A i \in 2 .. Len(s) : \A b \in Members(tp_bases[s[i].type]) : Up(s, i, b, valid)
  BY <1>2 DEF OrderInv, StacksUp, StackUp
<1>4. ASSUME Len(r) > 1 => next_version_tag' # 0,
             \A i \in 2 .. Len(r) : \A b \in Members(tp_bases[r[i].type]) : Up(r, i, b, valid')
      PROVE  StacksUp'
  <2>1. tp_bases' = tp_bases
    BY <1>1
  <2>2. /\ Len(r) > 1 => next_version_tag' # 0
        /\ \A i \in 2 .. Len(r) : \A b \in Members(tp_bases'[r[i].type]) : Up(r, i, b, valid')
    BY <1>4, <2>1
  <2>3. StackUp(pend[a].stack)'
    BY <2>2, Zenon DEF StackUp, Members
  <2> QED BY <1>2, <2>3 DEF StacksUp
<1>5. \/ r = Advanced(s) /\ Top(s).left # <<>> /\ (TagIsValid(a) \/ TagWraps(a))
      \/ TagIsNew(a) /\ Top(s).left # <<>>
         /\ r = Append(Advanced(s), Frame(Head(Top(s).left), tp_bases[Head(Top(s).left)]))
      \/ TagBecomesValid(a) /\ r = PopLast(s)
  BY <1>1, AssignMoves
<1>6. ASSUME Top(s).left # <<>>
      PROVE  /\ Advanced(s) \in Seq(Frames) /\ Len(Advanced(s)) = Len(s)
             /\ \A i \in 1 .. Len(s) : Advanced(s)[i].type = s[i].type
             /\ \A i \in 1 .. Len(s) - 1 : Advanced(s)[i] = s[i]
             /\ Advanced(s)[Len(s)].left = Tail(Top(s).left)
             /\ Head(Top(s).left) \in Type
             /\ \A b \in Members(s[Len(s)].left) : b = Head(Top(s).left) \/ b \in Members(Tail(Top(s).left))
  <2>1. s[Len(s)] \in Frames
    BY <1>2
  <2>2. Top(s).left \in Seq(Type)
    BY <1>2, <2>1 DEF Frames
  <2>3. \A b \in Members(Top(s).left) : b = Head(Top(s).left) \/ b \in Members(Tail(Top(s).left))
    BY <1>6, <2>2, HeadOrTail
  <2>4. /\ Advanced(s) \in Seq(Frames) /\ Len(Advanced(s)) = Len(s)
        /\ \A i \in 1 .. Len(s) : Advanced(s)[i].type = s[i].type
        /\ \A i \in 1 .. Len(s) - 1 : Advanced(s)[i] = s[i]
        /\ Advanced(s)[Len(s)].left = Tail(Top(s).left)
        /\ Head(Top(s).left) \in Type
    BY <1>2, <1>6, AdvancedMeans
  <2> QED BY <1>2, <2>3, <2>4
<1>7. CASE r = Advanced(s) /\ Top(s).left # <<>> /\ TagIsValid(a)
  <2>1. Head(Top(s).left) \in valid /\ UNCHANGED <<valid, next_version_tag>>
    BY <1>7 DEF TagIsValid, tagVars, hearVars
  <2> HIDE DEF s, r
  <2>2. Len(r) = Len(s) /\ \A i \in 2 .. Len(r) : i \in 1 .. Len(s) /\ (i = Len(s) \/ (i < Len(s) /\ i \in 1 .. Len(s) - 1 /\ i + 1 \in 1 .. Len(s)))
    BY <1>2, <1>6, <1>7
  <2>3. ASSUME NEW i \in 2 .. Len(r), NEW b \in Members(tp_bases[r[i].type])
        PROVE  Up(r, i, b, valid')
    <3>1. r[i].type = s[i].type /\ Up(s, i, b, valid)
      BY <1>3, <1>6, <1>7, <2>2, <2>3
    <3>2. CASE i = Len(s)
      BY <1>6, <1>7, <2>1, <2>2, <3>1, <3>2
    <3>3. CASE i < Len(s)
      BY <1>6, <1>7, <2>1, <2>2, <3>1, <3>3
    <3> QED BY <2>2, <3>2, <3>3
  <2> QED BY <1>3, <1>4, <2>1, <2>2, <2>3
<1>8. CASE r = Advanced(s) /\ Top(s).left # <<>> /\ TagWraps(a)
  <2>1. next_version_tag = 0
    BY <1>8, Zenon DEF TagWraps
  <2> HIDE DEF s, r
  <2>4. Len(r) = Len(s) /\ ~(Len(s) > 1)
    BY <1>3, <1>6, <1>8, <2>1
  <2>2. Len(r) = 1
    BY <1>2, <2>4
  <2>3. 2 .. Len(r) = {}
    BY <2>2
  <2> HIDE DEF Up
  <2> QED BY <1>4, <2>2, <2>3
<1>9. CASE TagIsNew(a) /\ Top(s).left # <<>>
           /\ r = Append(Advanced(s), Frame(Head(Top(s).left), tp_bases[Head(Top(s).left)]))
  <2> DEFINE u == Head(Top(s).left)
             f == Frame(u, tp_bases[u])
  <2>1. /\ next_version_tag < LastTag /\ UNCHANGED valid
        /\ next_version_tag' = (next_version_tag + 1) % (LastTag + 1)
    BY <1>9 DEF TagIsNew, NewTag, hearVars, Undisturbed
  <2>2. next_version_tag \in Nat /\ LastTag \in Nat
    BY <1>1, TypeAssumption DEF TypeOK, Tag
  <2>3. next_version_tag' = next_version_tag + 1
    BY <2>1, <2>2
  <2>4. Advanced(s) \in Seq(Frames) /\ Len(Advanced(s)) = Len(s) /\ u \in Type
    BY <1>6, <1>9
  <2>5. f \in Frames /\ f.type = u /\ f.left = tp_bases[u]
    BY <1>1, <2>4 DEF Frame, Frames, TypeOK
  <2>6. r = Append(Advanced(s), f)
    BY <1>9
  <2>7. Top(s).left # <<>> /\ u = Head(Top(s).left)
    BY <1>9
  <2> HIDE DEF u, f, s, r
  <2>8. Len(r) = Len(s) + 1 /\ r[Len(s) + 1] = f /\ \A i \in 1 .. Len(s) : r[i] = Advanced(s)[i]
    BY <1>2, <2>4, <2>5, <2>6
  <2>9. \A i \in 2 .. Len(r) : \/ i = Len(s) + 1
                               \/ i = Len(s) /\ i \in 1 .. Len(s) /\ i \in 2 .. Len(s) /\ i < Len(r)
                               \/ /\ i < Len(s) /\ i \in 1 .. Len(s) - 1 /\ i + 1 \in 1 .. Len(s)
                                  /\ i \in 1 .. Len(s) /\ i \in 2 .. Len(s) /\ i < Len(r)
    BY <1>2, <2>8
  <2>10. ASSUME NEW i \in 2 .. Len(r), NEW b \in Members(tp_bases[r[i].type])
         PROVE  Up(r, i, b, valid')
    <3>1. CASE i = Len(s) + 1
      BY <2>5, <2>8, <2>10, <3>1
    <3>2. CASE i = Len(s) /\ i \in 1 .. Len(s) /\ i \in 2 .. Len(s) /\ i < Len(r)
      <4>1. r[i].type = s[i].type /\ r[i].left = Tail(Top(s).left) /\ r[i + 1].type = u
        BY <1>6, <2>5, <2>7, <2>8, <3>2
      <4>2. Up(s, i, b, valid)
        BY <1>3, <2>10, <3>2, <4>1
      <4>3. b \in Members(s[i].left) \/ b \in valid
        BY <1>2, <3>2, <4>2
      <4> QED BY <1>6, <2>1, <2>7, <3>2, <4>1, <4>3
    <3>3. CASE /\ i < Len(s) /\ i \in 1 .. Len(s) - 1 /\ i + 1 \in 1 .. Len(s)
               /\ i \in 1 .. Len(s) /\ i \in 2 .. Len(s) /\ i < Len(r)
      <4>1. r[i] = s[i] /\ r[i + 1].type = s[i + 1].type
        BY <1>6, <2>7, <2>8, <3>3
      <4>2. Up(s, i, b, valid)
        BY <1>3, <2>10, <3>3, <4>1
      <4> QED BY <2>1, <3>3, <4>1, <4>2
    <3> HIDE DEF Up
    <3> QED BY <2>9, <3>1, <3>2, <3>3
  <2>11. next_version_tag' # 0
    BY <2>2, <2>3
  <2> HIDE DEF Up
  <2> QED BY <1>4, <2>10, <2>11
<1>10. CASE TagBecomesValid(a) /\ r = PopLast(s)
  <2>1. /\ valid' = valid \cup {Top(s).type} /\ Len(s) > 1
        /\ UNCHANGED next_version_tag
    BY <1>10 DEF TagBecomesValid, tagVars
  <2>2. Len(r) = Len(s) - 1 /\ \A i \in 1 .. Len(s) - 1 : r[i] = s[i]
    BY <1>2, <1>10, Stack
  <2> HIDE DEF r, s
  <2>3. \A i \in 2 .. Len(r) : /\ i \in 2 .. Len(s) /\ i < Len(s) /\ r[i] = s[i]
                               /\ i + 1 = Len(s) \/ (i < Len(r) /\ r[i + 1] = s[i + 1])
    <3>1. \A i \in 2 .. Len(r) : /\ i \in 2 .. Len(s) /\ i < Len(s) /\ i \in 1 .. Len(s) - 1
                                 /\ i + 1 = Len(s) \/ (i < Len(r) /\ i + 1 \in 1 .. Len(s) - 1)
      BY <1>2, <2>2
    <3> QED BY <2>2, <3>1
  <2>4. ASSUME NEW i \in 2 .. Len(r), NEW b \in Members(tp_bases[r[i].type])
        PROVE  Up(r, i, b, valid')
    <3>1. Up(s, i, b, valid)
      BY <1>3, <2>3, <2>4
    <3>2. CASE i + 1 = Len(s)
      BY <1>2, <2>1, <2>3, <3>1, <3>2
    <3>3. CASE i < Len(r) /\ r[i + 1] = s[i + 1]
      BY <2>1, <2>3, <3>1, <3>3
    <3> QED BY <2>3, <3>2, <3>3
  <2>5. Len(r) > 1 => next_version_tag' # 0
    BY <1>3, <2>1
  <2> HIDE DEF Up
  <2> QED BY <1>4, <2>4, <2>5
<1> HIDE DEF r, s
<1> QED BY <1>5, <1>7, <1>8, <1>9, <1>10

LEMMA OrderAndAssign ==
  ASSUME OrderInv, Undisturbed, NEW a \in Actor, Assigns(a)
  PROVE  AllHave' /\ OrdersLive' /\ BasesInv' /\ StacksUp'
<1> DEFINE s == pend[a].stack
<1>1. TypeInv /\ TypeOK /\ NoBases /\ NoBases' /\ UNCHANGED hierVars
  BY AssignIsAlone DEF OrderInv, TypeInv
<1>2. AllHave'
  BY <1>1 DEF OrderInv, AllHave, hierVars
<1>3. OrdersLive'
  <2>1. OrdersLive' <=> \A t \in live' : Members(tp_bases'[t]) \subseteq live' /\ Members(tp_mro'[t]) \subseteq live'
    BY <1>1 DEF NoBases, OrdersLive, Members
  <2>2. \A t \in live : Members(tp_bases[t]) \subseteq live /\ Members(tp_mro[t]) \subseteq live
    BY <1>1, OrdersLiveHere DEF OrderInv
  <2> QED BY <1>1, <2>1, <2>2 DEF hierVars
<1>4. \A t \in live : BasesGood(t, tp_bases[t]) /\ tp_bases[t] \in Seq(Type)
  BY <1>1, BasesInvHere DEF OrderInv, TypeOK
<1>5. ASSUME NEW t \in live
      PROVE  \A b \in Members(tp_bases[t]) : t \in tp_subclasses[b] /\ (t \in valid' => b \in valid')
  <2>1. CASE TagIsValid(a) \/ TagIsNew(a)
    <3>1. UNCHANGED valid
      BY <2>1 DEF TagIsValid, TagIsNew, hearVars
    <3> QED BY <1>4, <3>1 DEF BasesGood
  <2>2. CASE TagWraps(a)
    <3>1. PyType_Modified(Object, valid)
      BY <2>2 DEF TagWraps
    <3>2. /\ valid' \subseteq valid
          /\ \A x \in Type, u \in valid' : x \in valid /\ u \in tp_subclasses[x] => x \in valid'
      BY <1>1, <3>1, ModifiedMeans, TypeAssumption DEF TypeOK
    <3> QED BY <1>4, <3>2, FewerGood
  <2>3. CASE TagBecomesValid(a)
    <3>1. /\ InTag(a) /\ Len(s) \in Nat \ {0} /\ Top(s) = s[Len(s)]
      BY <1>1, AssignMoves
    <3>2. valid' = valid \cup {Top(s).type} /\ Top(s).left = <<>> /\ Len(s) > 1
      BY <2>3 DEF TagBecomesValid
    <3>3. StackUp(s)
      BY <3>1 DEF OrderInv, StacksUp
    <3>4. Members(<<>>) = {}
      BY DEF Members
    <3> HIDE DEF s
    <3>5. ASSUME NEW b \in Members(tp_bases[t]), t = Top(s).type PROVE b \in valid
      <4>1. Len(s) \in 2 .. Len(s) /\ ~(Len(s) < Len(s)) /\ s[Len(s)].type = t
        BY <3>1, <3>2, <3>5
      <4>2. b \in Members(s[Len(s)].left) \/ b \in valid
        BY <3>3, <4>1 DEF StackUp
      <4> QED BY <3>1, <3>2, <3>4, <4>2
    <3>6. \A b \in Members(tp_bases[t]) : t \in tp_subclasses[b] /\ (t \in valid => b \in valid)
      BY <1>4 DEF BasesGood
    <3> QED BY <3>2, <3>5, <3>6
  <2> QED BY <2>1, <2>2, <2>3 DEF Assigns
<1>6. BasesInv'
  <2>1. UNCHANGED <<live, tp_bases, tp_subclasses>>
    BY <1>1 DEF hierVars
  <2>2. ASSUME NEW t \in live PROVE BasesGood(t, tp_bases[t])'
    BY <1>5, <2>1 DEF BasesGood, Members
  <2> QED BY <1>1, <2>1, <2>2 DEF BasesInv, NoBases, Moving
<1> QED BY <1>2, <1>3, <1>6, AssignKeepsStacks

LEMMA OrderAndNew ==
  ASSUME OrderInv, Undisturbed, NEW a \in Actor, NEW t \in Type \ live,
         NEW bases \in BaseChoices[t], NEW m \in Answers(t, bases), NEW d,
         type_new(a, t, bases, m, d)
  PROVE  AllHave' /\ OrdersLive' /\ BasesInv' /\ StacksUp'
<1>1. /\ TypeInv /\ TypeOK /\ NoBases /\ NoBases' /\ ShortStacks'
  <2>1. Starts(a) /\ UNCHANGED pend
    BY DEF type_new
  <2>2. NoBases /\ NoBases'
    BY <2>1, StartsNoBases DEF NoBases
  <2>3. TypeInv
    BY DEF OrderInv
  <2>4. ShortStacks'
    BY <2>1, <2>3, NobodyTags
  <2> QED BY <2>2, <2>3, <2>4 DEF TypeInv
<1>2. /\ Members(bases) \subseteq live
      /\ live' = live \cup {t}
      /\ tp_bases' = [tp_bases EXCEPT ![t] = bases] /\ tp_mro' = [tp_mro EXCEPT ![t] = m]
      /\ UNCHANGED valid
  BY DEF type_new, hearVars
<1>3. bases \in Seq(Type)
  BY BasesTyped
<1>4. \A u \in live : Members(tp_bases[u]) \subseteq live /\ Members(tp_mro[u]) \subseteq live
  BY <1>1, OrdersLiveHere DEF OrderInv
<1>5. m \in Seq(Type) /\ Members(bases) \subseteq Members(m) /\ Members(m) \subseteq live'
  <2>1. /\ m \in Seq(Type) /\ Members(bases) \subseteq Members(m)
        /\ Members(m) \subseteq live \cup {t} \cup Members(bases)
                                \cup UNION {Members(tp_mro[b]) : b \in Members(bases)}
    BY <1>1, <1>3, AnswerNames
  <2> QED BY <1>2, <1>4, <2>1
<1>6. AllHave'
  <2>1. have \cup ({t} \ Legacy) = live'
    BY <1>2 DEF OrderInv, AllHave, Undisturbed
  <2>2. KeepsTag(m, m, live') /\ KeepsTag(m, bases, live')
    BY <1>2, <1>5 DEF KeepsTag
  <2> QED BY <2>1, <2>2 DEF type_new, AllHave
<1>7. /\ tp_bases'[t] = bases /\ tp_mro'[t] = m
      /\ \A u \in live : tp_bases'[u] = tp_bases[u] /\ tp_mro'[u] = tp_mro[u]
  BY <1>1, <1>2 DEF TypeOK
<1>8. OrdersLive'
  <2>1. OrdersLive' <=> \A u \in live' : Members(tp_bases'[u]) \subseteq live' /\ Members(tp_mro'[u]) \subseteq live'
    BY <1>1 DEF NoBases, OrdersLive, Members
  <2> QED BY <1>2, <1>4, <1>5, <1>7, <2>1
<1>9. BasesInv'
  <2>1. \A u \in live : BasesGood(u, tp_bases[u])
    BY <1>1, BasesInvHere DEF OrderInv
  <2>2. t \notin valid /\ \A b \in Type : tp_subclasses[b] \subseteq tp_subclasses'[b]
    BY <1>1 DEF type_new, TypeOK
  <2>3. \A b \in Members(bases) : t \in tp_subclasses'[b]
    <3>1. Members(bases) \subseteq Type
      BY <1>3 DEF Members
    <3> QED BY <1>1, <3>1 DEF type_new, TypeOK
  <2>4. \A u \in live : Members(tp_bases[u]) \subseteq Type
    BY <1>1 DEF TypeOK, Members
  <2>5. ASSUME NEW u \in live' PROVE BasesGood(u, tp_bases[u])'
    <3>1. ASSUME NEW b \in Members(tp_bases'[u])
          PROVE  u \in tp_subclasses'[b] /\ (u \in valid' => b \in valid')
      <4>1. CASE u = t
        BY <1>2, <1>7, <2>2, <2>3, <3>1, <4>1
      <4>2. CASE u \in live
        BY <1>2, <1>7, <2>1, <2>2, <2>4, <3>1, <4>2 DEF BasesGood
      <4> QED BY <1>2, <4>1, <4>2
    <3> QED BY <3>1, Zenon DEF BasesGood, Members
  <2> QED BY <1>1, <2>5 DEF BasesInv, NoBases
<1> QED BY <1>1, <1>6, <1>8, <1>9, ShortStacksUp

\* The old bases of the type stay linked while its order is computed anew.
LEMMA OrderAndMove ==
  ASSUME OrderInv, Undisturbed, NEW a \in Actor, NEW t \in Type, NEW bases \in BaseChoices[t],
         Members(bases) \subseteq live, type_set_bases(a, t, bases)
  PROVE  AllHave' /\ OrdersLive' /\ BasesInv' /\ StacksUp'
<1> DEFINE p == [op |-> "bases", type |-> t, bases |-> tp_bases[t], mro |-> tp_mro[t],
                 stack |-> <<Level(NoType, {t})>>, temp |-> <<>>]
<1>1. Starts(a) /\ Becomes(a, p) /\ t \in live /\ TypeInv /\ TypeOK
  BY DEF type_set_bases, OrderInv, TypeInv
<1>2. /\ tp_bases' = [tp_bases EXCEPT ![t] = bases]
      /\ UNCHANGED <<live, tp_mro, tp_subclasses, have, valid>>
  BY DEF type_set_bases, hearVars
<1>3. NoBases /\ ShortStacks'
  <2>1. ShortStacks' /\ CanRun(a)
    <3>1. CanRun(a) /\ p.op = "bases"
      BY <1>1 DEF Starts
    <3> HIDE DEF p
    <3> QED BY <1>1, <3>1, SoloTag
  <2> QED BY <1>1, <2>1, StartsNoBases
<1>4. pend'[a] = p /\ \A b \in Actor \ {a} : pend'[b] = pend[b]
  BY <1>1, BecomesMeans DEF TypeOK
<1>5. /\ \A u \in live : Members(tp_bases[u]) \subseteq live /\ Members(tp_mro[u]) \subseteq live
      /\ \A u \in live : BasesGood(u, tp_bases[u])
  BY <1>3, OrdersLiveHere, BasesInvHere DEF OrderInv
<1>6. AllHave'
  BY <1>2 DEF OrderInv, AllHave
<1>7. \A b \in Actor : pend'[b].op = "bases" => b = a
  BY <1>3, <1>4 DEF NoBases
<1>8. /\ pend'[a].type = t /\ pend'[a].bases = tp_bases[t] /\ pend'[a].mro = tp_mro[t]
      /\ pend'[a].op = "bases" /\ pend'[a].temp = <<>>
  BY <1>4
<1>9. /\ tp_bases'[t] = bases
      /\ \A u \in Type \ {t} : tp_bases'[u] = tp_bases[u]
  BY <1>1, <1>2 DEF TypeOK
<1> HIDE DEF p
<1>10. OrdersLive'
  <2>1. \A u \in live' : Members(tp_bases'[u]) \subseteq live' /\ Members(tp_mro'[u]) \subseteq live'
    BY <1>1, <1>2, <1>5, <1>9 DEF TypeOK
  <2>2. DOMAIN pend'[a].temp = {}
    BY <1>8
  <2>3. ASSUME NEW b \in Actor, pend'[b].op = "bases"
        PROVE  LET q == pend'[b]
               IN  /\ q.type \in live' /\ Members(q.bases) \subseteq live' /\ Members(q.mro) \subseteq live'
                   /\ \A i \in DOMAIN q.temp : q.temp[i].type \in live' => Members(q.temp[i].mro) \subseteq live'
    <3>1. b = a
      BY <1>7, <2>3
    <3> QED BY <1>1, <1>2, <1>5, <1>8, <2>2, <3>1
  <2> QED BY <2>1, <2>3, Zenon DEF OrdersLive, Members
<1>11. BasesInv'
  <2>1. ASSUME NEW u \in live', ~Moving(u)' PROVE BasesGood(u, tp_bases[u])'
    <3>1. u # t /\ u \in live /\ u \in Type
      BY <1>1, <1>2, <1>8, <2>1 DEF Moving, TypeOK
    <3> QED BY <1>2, <1>5, <1>9, <3>1 DEF BasesGood, Members
  <2>2. ASSUME NEW b \in Actor, pend'[b].op = "bases"
        PROVE  BasesGood(pend[b].type, pend[b].bases)'
    <3>1. b = a
      BY <1>7, <2>2
    <3>2. BasesGood(t, tp_bases[t])
      BY <1>1, <1>5
    <3> QED BY <1>2, <1>8, <3>1, <3>2 DEF BasesGood, Members
  <2> QED BY <2>1, <2>2 DEF BasesInv
<1> QED BY <1>3, <1>6, <1>10, <1>11, ShortStacksUp

LEMMA OrderAndClasses ==
  ASSUME OrderInv, Undisturbed, NEW a \in Actor, Classes(a)
  PROVE  AllHave' /\ OrdersLive' /\ BasesInv' /\ StacksUp'
<1>1. PICK t \in Type, bases \in UNION {BaseChoices[u] : u \in Type} :
        /\ bases \in BaseChoices[t] /\ Members(bases) \subseteq live
        /\ \/ /\ t \notin live
              /\ \E m \in Answers(t, bases), d \in [Name -> Value \cup {NoValue}] :
                   type_new(a, t, bases, m, d)
           \/ type_set_bases(a, t, bases)
  BY DEF Classes
<1> QED BY <1>1, OrderAndNew, OrderAndMove
-----------------------------------------------------------------------------
(* In the middle of an assignment to __bases__ *)

LEMMA BasesStay ==
  ASSUME BasesInv, UNCHANGED <<live, tp_bases, tp_subclasses>>, tp_bases \in [Type -> Seq(Type)],
         live \subseteq Type, valid' \subseteq valid,
         \A x \in Type, y \in valid' : x \in valid /\ y \in tp_subclasses[x] => x \in valid',
         NEW a \in Actor, \A b \in Actor \ {a} : pend'[b] = pend[b],
         pend[a].op = "bases", pend'[a].op = "bases", pend[a].bases \in Seq(Type),
         pend'[a].type = pend[a].type, pend'[a].bases = pend[a].bases,
         \A b \in Actor \ {a} : pend[b].op # "bases"
  PROVE  BasesInv'
<1>1. ASSUME NEW t, NEW bases \in Seq(Type), BasesGood(t, bases)
      PROVE  BasesGood(t, bases)'
  <2>1. \A b \in Members(bases) : t \in tp_subclasses[b] /\ (t \in valid' => b \in valid')
    BY <1>1, FewerGood
  <2> QED BY <2>1 DEF BasesGood, Members
<1>2. ASSUME NEW t \in live', ~Moving(t)' PROVE BasesGood(t, tp_bases[t])'
  <2>1. ~Moving(t) /\ t \in live
    BY <1>2 DEF Moving
  <2>2. BasesGood(t, tp_bases[t]) /\ tp_bases[t] \in Seq(Type)
    BY <2>1 DEF BasesInv
  <2>3. \A b \in Members(tp_bases[t]) : t \in tp_subclasses[b] /\ (t \in valid' => b \in valid')
    BY <2>2, FewerGood
  <2> QED BY <2>3 DEF BasesGood, Members
<1>3. ASSUME NEW b \in Actor, pend'[b].op = "bases"
      PROVE  BasesGood(pend[b].type, pend[b].bases)'
  <2>1. b = a
    BY <1>3
  <2>2. BasesGood(pend[a].type, pend[a].bases)
    BY DEF BasesInv
  <2>3. \A c \in Members(pend[a].bases) : pend[a].type \in tp_subclasses[c]
                                       /\ (pend[a].type \in valid' => c \in valid')
    BY <2>2, FewerGood
  <2> QED BY <2>1, <2>3, SMTT(30) DEF BasesGood, Members
<1> QED BY <1>2, <1>3 DEF BasesInv

\* What is known in the middle.
LEMMA InTheMiddle ==
  ASSUME OrderInv, Undisturbed, NEW a \in Actor, SetBases(a)
  PROVE  LET p == pend[a]
         IN  /\ TypeInv /\ TypeOK /\ p \in BasesOps /\ p.op = "bases"
             /\ p.type \in live /\ p.bases \in Seq(Type) /\ p.temp \in Seq(Saved) /\ p.stack \in Seq(Levels)
             /\ Members(p.bases) \subseteq live /\ Members(p.mro) \subseteq live
             /\ \A i \in DOMAIN p.temp : p.temp[i].type \in live => Members(p.temp[i].mro) \subseteq live
             /\ \A u \in live : Members(tp_bases[u]) \subseteq live /\ Members(tp_mro[u]) \subseteq live
             /\ have = live /\ ShortStacks'
             /\ \A b \in Actor \ {a} : pend[b].op # "bases"
<1>1. TypeInv /\ TypeOK /\ OrdersLive /\ have = live
  BY DEF OrderInv, TypeInv, AllHave
<1>2. pend[a].op = "bases" /\ CanRun(a)
  BY DEF SetBases, InBases
<1>3. pend[a] \in BasesOps
  BY <1>1, <1>2, Kinds DEF TypeOK
<1>4. ShortStacks'
  BY <1>1, HierarchyQuietly
<1>5. \A b \in Actor \ {a} : pend[b].op # "bases"
  BY <1>2, Alone
<1>6. pend[a].bases \in Seq(Type) /\ pend[a].temp \in Seq(Saved) /\ pend[a].stack \in Seq(Levels)
  BY <1>3 DEF BasesOps
<1> QED BY <1>1, <1>2, <1>3, <1>4, <1>5, <1>6, Zenon DEF OrdersLive

LEMMA OrderAndUpdated ==
  ASSUME OrderInv, Undisturbed, NEW a \in Actor, SetBases(a), pend[a].stack # <<>>,
         NEW u \in Top(pend[a].stack).left, NEW m \in Answers(u, tp_bases[u]), MroUpdated(a, u, m)
  PROVE  AllHave' /\ OrdersLive' /\ BasesInv' /\ StacksUp'
<1> DEFINE p == pend[a]
           s == p.stack
           q == [p EXCEPT
             !.stack = Append([s EXCEPT ![Len(s)].left = @ \ {u}], Level(u, tp_subclasses[u])),
             !.temp = IF Len(s) = 1 THEN @ ELSE Append(@, [type |-> u, mro |-> tp_mro[u]])]
<1>1. /\ TypeInv /\ TypeOK /\ p \in BasesOps /\ p.op = "bases"
      /\ p.type \in live /\ p.bases \in Seq(Type) /\ p.temp \in Seq(Saved)
      /\ Members(p.bases) \subseteq live /\ Members(p.mro) \subseteq live
      /\ \A i \in DOMAIN p.temp : p.temp[i].type \in live => Members(p.temp[i].mro) \subseteq live
      /\ \A t \in live : Members(tp_bases[t]) \subseteq live /\ Members(tp_mro[t]) \subseteq live
      /\ have = live /\ ShortStacks'
      /\ \A b \in Actor \ {a} : pend[b].op # "bases"
  BY InTheMiddle
<1>2. /\ u \in Type /\ q \in BasesOps
      /\ q.type = p.type /\ q.bases = p.bases /\ q.mro = p.mro
      /\ \/ q.temp = p.temp
         \/ q.temp = Append(p.temp, [type |-> u, mro |-> tp_mro[u]])
  BY <1>1, LevelMove DEF TypeOK
<1>3. /\ mro_internal(u, m) /\ Becomes(a, q)
      /\ UNCHANGED <<live, tp_bases, tp_subclasses>>
  BY DEF MroUpdated
<1>4. pend'[a] = q /\ \A b \in Actor \ {a} : pend'[b] = pend[b]
  BY <1>1, <1>3, BecomesMeans DEF TypeOK
<1>5. q.op = "bases"
  BY <1>2 DEF BasesOps
<1> HIDE DEF q, s, p
<1>6. m \in Seq(Type) /\ (u \in live => Members(m) \subseteq live /\ Members(tp_bases[u]) \subseteq Members(m))
  <2>1. tp_bases[u] \in Seq(Type)
    BY <1>1, <1>2 DEF TypeOK
  <2>2. /\ m \in Seq(Type) /\ Members(tp_bases[u]) \subseteq Members(m)
        /\ Members(m) \subseteq live \cup {u} \cup Members(tp_bases[u])
                                \cup UNION {Members(tp_mro[b]) : b \in Members(tp_bases[u])}
    BY <1>1, <1>2, <2>1, AnswerNames
  <2> QED BY <1>1, <2>2
<1>7. have' = have /\ PyType_Modified(u, valid) /\ tp_mro' = [tp_mro EXCEPT ![u] = m]
  <2>1. CASE u \in live
    <3>1. u \in have /\ KeepsTag(m, m, have) /\ KeepsTag(m, tp_bases[u], have)
      BY <1>1, <1>6, <2>1 DEF KeepsTag
    <3> QED BY <1>3, <3>1 DEF mro_internal
  <2>2. CASE u \notin live
    <3>1. u \notin have /\ have \ {u} = have /\ valid \ {u} = valid
      BY <1>1, <2>2 DEF TypeOK
    <3> QED BY <1>3, <3>1 DEF mro_internal
  <2> QED BY <2>1, <2>2
<1>8. AllHave'
  BY <1>1, <1>3, <1>7 DEF AllHave
<1>9. OrdersLive'
  <2>1. \A t \in live : Members(tp_mro'[t]) \subseteq live
    <3>1. \A t \in live : tp_mro'[t] = IF t = u THEN m ELSE tp_mro[t]
      BY <1>1, <1>7 DEF TypeOK
    <3> QED BY <1>1, <1>6, <3>1
  <2>2. \A i \in DOMAIN q.temp : q.temp[i].type \in live => Members(q.temp[i].mro) \subseteq live
    <3>1. CASE q.temp = p.temp
      BY <1>1, <3>1
    <3>2. CASE q.temp = Append(p.temp, [type |-> u, mro |-> tp_mro[u]])
      <4> DEFINE e == [type |-> u, mro |-> tp_mro[u]]
      <4>1. e \in Saved /\ e.type = u /\ e.mro = tp_mro[u]
        BY <1>1, <1>2 DEF Saved, TypeOK
      <4>2. q.temp = Append(p.temp, e)
        BY <3>2
      <4> HIDE DEF e
      <4>3. \A i \in DOMAIN q.temp : q.temp[i] = e \/ (i \in DOMAIN p.temp /\ q.temp[i] = p.temp[i])
        BY <1>1, <4>1, <4>2
      <4> QED BY <1>1, <4>1, <4>3
    <3> QED BY <1>2, <3>1, <3>2
  <2>3. ASSUME NEW b \in Actor, pend'[b].op = "bases"
        PROVE  LET x == pend'[b]
               IN  /\ x.type \in live' /\ Members(x.bases) \subseteq live' /\ Members(x.mro) \subseteq live'
                   /\ \A i \in DOMAIN x.temp : x.temp[i].type \in live' => Members(x.temp[i].mro) \subseteq live'
    <3>1. b = a
      BY <1>1, <1>4, <2>3
    <3> QED BY <1>1, <1>2, <1>3, <1>4, <2>2, <3>1
  <2>4. \A t \in live' : Members(tp_bases'[t]) \subseteq live' /\ Members(tp_mro'[t]) \subseteq live'
    BY <1>1, <1>3, <2>1
  <2> QED BY <2>3, <2>4, Zenon DEF OrdersLive, Members
<1>10. BasesInv'
  <2>1. /\ valid' \subseteq valid
        /\ \A x \in Type, y \in valid' : x \in valid /\ y \in tp_subclasses[x] => x \in valid'
    BY <1>1, <1>2, <1>7, ModifiedMeans DEF TypeOK
  <2>2. BasesInv /\ tp_bases \in [Type -> Seq(Type)] /\ live \subseteq Type
    BY <1>1 DEF OrderInv, TypeOK
  <2>3. /\ pend[a].op = "bases" /\ pend'[a].op = "bases" /\ pend[a].bases \in Seq(Type)
        /\ pend'[a].type = pend[a].type /\ pend'[a].bases = pend[a].bases
    BY <1>1, <1>2, <1>4, <1>5 DEF p
  <2> QED BY <1>1, <1>3, <1>4, <2>1, <2>2, <2>3, BasesStay
<1> QED BY <1>1, <1>8, <1>9, <1>10, ShortStacksUp

LEMMA OrderAndLevel ==
  ASSUME OrderInv, Undisturbed, NEW a \in Actor, SetBases(a), MroLevelDone(a)
  PROVE  AllHave' /\ OrdersLive' /\ BasesInv' /\ StacksUp'
<1> DEFINE p == pend[a]
           q == [p EXCEPT !.stack = PopLast(p.stack)]
<1>1. /\ TypeInv /\ TypeOK /\ p \in BasesOps /\ p.op = "bases"
      /\ p.type \in live /\ p.bases \in Seq(Type)
      /\ Members(p.bases) \subseteq live /\ Members(p.mro) \subseteq live
      /\ \A i \in DOMAIN p.temp : p.temp[i].type \in live => Members(p.temp[i].mro) \subseteq live
      /\ \A t \in live : Members(tp_bases[t]) \subseteq live /\ Members(tp_mro[t]) \subseteq live
      /\ have = live /\ ShortStacks'
      /\ \A b \in Actor \ {a} : pend[b].op # "bases"
  BY InTheMiddle
<1>2. Becomes(a, q) /\ UNCHANGED <<hierVars, valid>>
  BY DEF MroLevelDone, hearVars
<1>3. q.op = "bases" /\ q.type = p.type /\ q.bases = p.bases /\ q.mro = p.mro /\ q.temp = p.temp
  BY <1>1 DEF BasesOps
<1>4. pend'[a] = q /\ \A b \in Actor \ {a} : pend'[b] = pend[b]
  BY <1>1, <1>2, BecomesMeans DEF TypeOK
<1> HIDE DEF q, p
<1>5. AllHave'
  BY <1>1, <1>2 DEF AllHave, hierVars
<1>6. OrdersLive'
  <2>1. ASSUME NEW b \in Actor, pend'[b].op = "bases"
        PROVE  LET x == pend'[b]
               IN  /\ x.type \in live' /\ Members(x.bases) \subseteq live' /\ Members(x.mro) \subseteq live'
                   /\ \A i \in DOMAIN x.temp : x.temp[i].type \in live' => Members(x.temp[i].mro) \subseteq live'
    <3>1. b = a
      BY <1>1, <1>4, <2>1
    <3> QED BY <1>1, <1>2, <1>3, <1>4, <3>1 DEF hierVars
  <2>2. \A t \in live' : Members(tp_bases'[t]) \subseteq live' /\ Members(tp_mro'[t]) \subseteq live'
    BY <1>1, <1>2 DEF hierVars
  <2> QED BY <2>1, <2>2, Zenon DEF OrdersLive, Members
<1>7. BasesInv'
  <2>1. BasesInv /\ tp_bases \in [Type -> Seq(Type)] /\ live \subseteq Type
    BY <1>1 DEF OrderInv, TypeOK
  <2>2. /\ pend[a].op = "bases" /\ pend'[a].op = "bases" /\ pend[a].bases \in Seq(Type)
        /\ pend'[a].type = pend[a].type /\ pend'[a].bases = pend[a].bases
    BY <1>1, <1>3, <1>4 DEF p
  <2>3. UNCHANGED <<live, tp_bases, tp_subclasses>> /\ valid' \subseteq valid
        /\ \A x \in Type, y \in valid' : x \in valid /\ y \in tp_subclasses[x] => x \in valid'
    BY <1>2 DEF hierVars
  <2> QED BY <1>1, <1>4, <2>1, <2>2, <2>3, BasesStay
<1> QED BY <1>1, <1>5, <1>6, <1>7, ShortStacksUp

\* A failure puts the old bases back, which are still linked, and old orders.
LEMMA OrderAndFailure ==
  ASSUME OrderInv, Undisturbed, NEW a \in Actor, SetBases(a), NEW u, SetBasesFails(a, u)
  PROVE  AllHave' /\ OrdersLive' /\ BasesInv' /\ StacksUp'
<1> DEFINE p == pend[a]
           changed == {p.temp[i].type : i \in DOMAIN p.temp}
<1>1. /\ TypeInv /\ TypeOK /\ p \in BasesOps /\ p.op = "bases"
      /\ p.type \in live /\ p.bases \in Seq(Type) /\ p.temp \in Seq(Saved)
      /\ Members(p.bases) \subseteq live /\ Members(p.mro) \subseteq live
      /\ \A i \in DOMAIN p.temp : p.temp[i].type \in live => Members(p.temp[i].mro) \subseteq live
      /\ \A t \in live : Members(tp_bases[t]) \subseteq live /\ Members(tp_mro[t]) \subseteq live
      /\ have = live /\ ShortStacks'
      /\ \A b \in Actor \ {a} : pend[b].op # "bases"
  BY InTheMiddle
<1>2. /\ Becomes(a, Idle) /\ UNCHANGED <<live, tp_subclasses, have, valid>>
      /\ tp_bases' = [tp_bases EXCEPT ![p.type] = p.bases]
      /\ tp_mro' = [t \in Type |-> IF t = p.type THEN p.mro
                                   ELSE IF t \in changed THEN LastSaved(p.temp, t) ELSE tp_mro[t]]
  BY DEF SetBasesFails, hearVars
<1>3. NoBases'
  <2>1. pend'[a] = Idle /\ \A b \in Actor \ {a} : pend'[b] = pend[b]
    BY <1>1, <1>2, BecomesMeans DEF TypeOK
  <2> QED BY <1>1, <2>1 DEF NoBases, Idle
<1>4. ASSUME NEW t \in live, t \in changed PROVE Members(LastSaved(p.temp, t)) \subseteq live
  <2>1. PICK i \in DOMAIN p.temp : p.temp[i].type = t /\ LastSaved(p.temp, t) = p.temp[i].mro
    BY <1>1, <1>4, LastSavedIs, SMTT(30)
  <2> QED BY <1>1, <2>1
<1>5. BasesGood(p.type, p.bases) /\ \A t \in live : t # p.type => BasesGood(t, tp_bases[t])
  BY <1>1 DEF OrderInv, BasesInv, Moving
<1>6. /\ tp_bases'[p.type] = p.bases
      /\ \A t \in Type : t # p.type => tp_bases'[t] = tp_bases[t]
  BY <1>1, <1>2 DEF TypeOK
<1> HIDE DEF p, changed
<1>7. AllHave'
  BY <1>1, <1>2 DEF AllHave
<1>8. OrdersLive'
  <2>1. ASSUME NEW t \in live
        PROVE  Members(tp_bases'[t]) \subseteq live /\ Members(tp_mro'[t]) \subseteq live
    <3>1. t \in Type
      BY <1>1 DEF TypeOK
    <3>2. tp_mro'[t] = IF t = p.type THEN p.mro
                       ELSE IF t \in changed THEN LastSaved(p.temp, t) ELSE tp_mro[t]
      BY <1>2, <3>1
    <3> QED BY <1>1, <1>4, <1>6, <3>1, <3>2
  <2>2. OrdersLive' <=> \A t \in live' : Members(tp_bases'[t]) \subseteq live' /\ Members(tp_mro'[t]) \subseteq live'
    BY <1>3 DEF NoBases, OrdersLive, Members
  <2> QED BY <1>2, <2>1, <2>2
<1>9. BasesInv'
  <2>1. ASSUME NEW t \in live' PROVE BasesGood(t, tp_bases[t])'
    <3>1. t \in Type /\ t \in live
      BY <1>1, <1>2 DEF TypeOK
    <3>2. CASE t = p.type
      BY <1>2, <1>5, <1>6, <3>2 DEF BasesGood, Members
    <3>3. CASE t # p.type
      BY <1>2, <1>5, <1>6, <3>1, <3>3 DEF BasesGood, Members
    <3> QED BY <3>2, <3>3
  <2> QED BY <1>3, <2>1 DEF BasesInv, NoBases
<1> QED BY <1>1, <1>7, <1>8, <1>9, ShortStacksUp

\* The type is linked to its new bases and loses its tag, with all that rely on it.
LEMMA OrderAndEnd ==
  ASSUME OrderInv, Undisturbed, NEW a \in Actor, SetBases(a), SetBasesEnds(a)
  PROVE  AllHave' /\ OrdersLive' /\ BasesInv' /\ StacksUp'
<1> DEFINE p == pend[a]
           t == p.type
           without(b) == IF b \in Members(p.bases) THEN tp_subclasses[b] \ {t} ELSE tp_subclasses[b]
<1>1. /\ TypeInv /\ TypeOK /\ p.type \in live
      /\ \A u \in live : Members(tp_bases[u]) \subseteq live /\ Members(tp_mro[u]) \subseteq live
      /\ have = live /\ ShortStacks'
      /\ \A b \in Actor \ {a} : pend[b].op # "bases"
  BY InTheMiddle
<1>2. /\ Becomes(a, Idle) /\ UNCHANGED <<live, tp_bases, tp_mro, have>>
      /\ PyType_Modified(t, valid)
      /\ tp_subclasses' = [b \in Type |-> IF b \in Members(tp_bases[t]) THEN without(b) \cup {t}
                                          ELSE without(b)]
  BY DEF SetBasesEnds
<1>3. NoBases'
  <2>1. pend'[a] = Idle /\ \A b \in Actor \ {a} : pend'[b] = pend[b]
    BY <1>1, <1>2, BecomesMeans DEF TypeOK
  <2> QED BY <1>1, <2>1 DEF NoBases, Idle
<1>4. /\ valid' \subseteq valid /\ t \notin valid'
      /\ \A x \in Type, y \in valid' : x \in valid /\ y \in tp_subclasses[x] => x \in valid'
  <2>1. t \in Type
    BY <1>1 DEF TypeOK
  <2> HIDE DEF t, p
  <2> QED BY <1>1, <1>2, <2>1, ModifiedMeans DEF TypeOK
<1>5. \A u \in live : u # t => BasesGood(u, tp_bases[u])
  BY <1>1 DEF OrderInv, BasesInv, Moving
<1>6. /\ \A b \in Type : \A u \in tp_subclasses[b] : u # t => u \in tp_subclasses'[b]
      /\ \A b \in Type : b \in Members(tp_bases[t]) => t \in tp_subclasses'[b]
  BY <1>2
<1> HIDE DEF p, t, without
<1>7. AllHave'
  BY <1>1, <1>2 DEF AllHave
<1>8. OrdersLive'
  <2>1. OrdersLive' <=> \A u \in live' : Members(tp_bases'[u]) \subseteq live' /\ Members(tp_mro'[u]) \subseteq live'
    BY <1>3 DEF NoBases, OrdersLive, Members
  <2> QED BY <1>1, <1>2, <2>1
<1>9. BasesInv'
  <2>1. ASSUME NEW u \in live' PROVE BasesGood(u, tp_bases[u])'
    <3>1. u \in live /\ Members(tp_bases[u]) \subseteq Type
      BY <1>1, <1>2 DEF TypeOK, Members
    <3>2. ASSUME NEW b \in Members(tp_bases[u])
          PROVE  u \in tp_subclasses'[b] /\ (u \in valid' => b \in valid')
      <4>1. CASE u = t
        BY <1>4, <1>6, <3>1, <3>2, <4>1
      <4>2. CASE u # t
        <5>1. u \in tp_subclasses[b] /\ (u \in valid => b \in valid) /\ b \in Type
          BY <1>5, <3>1, <3>2, <4>2 DEF BasesGood
        <5> QED BY <1>4, <1>6, <4>2, <5>1
      <4> QED BY <4>1, <4>2
    <3> QED BY <1>2, <3>2, Zenon DEF BasesGood, Members
  <2> QED BY <1>3, <2>1 DEF BasesInv, NoBases
<1> QED BY <1>1, <1>7, <1>8, <1>9, ShortStacksUp

LEMMA OrderAndBases ==
  ASSUME OrderInv, Undisturbed, NEW a \in Actor, SetBases(a)
  PROVE  AllHave' /\ OrdersLive' /\ BasesInv' /\ StacksUp'
<1>1. \/ /\ pend[a].stack # <<>>
         /\ \E u \in Top(pend[a].stack).left :
              (\E m \in Answers(u, tp_bases[u]) : MroUpdated(a, u, m)) \/ SetBasesFails(a, u)
      \/ MroLevelDone(a) \/ SetBasesEnds(a)
  BY Zenon DEF SetBases
<1> QED BY <1>1, OrderAndUpdated, OrderAndFailure, OrderAndLevel, OrderAndEnd
-----------------------------------------------------------------------------
(* The rest of the steps, and the theorem *)

LEMMA OrderAndDealloc ==
  ASSUME OrderInv, Undisturbed, NEW a \in Actor, NEW t \in Type, type_dealloc(a, t)
  PROVE  AllHave' /\ OrdersLive' /\ BasesInv' /\ StacksUp'
<1>1. TypeInv /\ TypeOK /\ Starts(a) /\ Unused(t) /\ UNCHANGED pend
  BY DEF OrderInv, TypeInv, type_dealloc
<1>2. NoBases /\ NoBases' /\ ShortStacks'
  BY <1>1, StartsNoBases, NobodyTags DEF NoBases
<1>3. /\ valid' = valid \ Gone(t, valid)
      /\ live' = live \ {t} /\ have' = have \ {t}
      /\ tp_bases' = [tp_bases EXCEPT ![t] = <<>>] /\ tp_mro' = [tp_mro EXCEPT ![t] = <<>>]
      /\ tp_subclasses' = [u \in Type |-> IF u = t THEN {} ELSE tp_subclasses[u] \ {t}]
  BY DEF type_dealloc
<1>4. \A u \in live' : /\ u \in live /\ u # t /\ u \in Type
                       /\ tp_bases'[u] = tp_bases[u] /\ tp_mro'[u] = tp_mro[u]
  BY <1>1, <1>3 DEF TypeOK
<1>5. \A u \in live : Members(tp_bases[u]) \subseteq live /\ Members(tp_mro[u]) \subseteq live
  BY <1>2, OrdersLiveHere DEF OrderInv
<1>6. \A u \in live' : t \notin Members(tp_bases[u]) /\ t \notin Members(tp_mro[u])
  BY <1>1, <1>4 DEF Unused
<1>7. AllHave'
  BY <1>3 DEF OrderInv, AllHave
<1>8. OrdersLive'
  <2>1. OrdersLive' <=> \A u \in live' : Members(tp_bases'[u]) \subseteq live' /\ Members(tp_mro'[u]) \subseteq live'
    BY <1>2 DEF NoBases, OrdersLive, Members
  <2> QED BY <1>3, <1>4, <1>5, <1>6, <2>1
<1>9. BasesInv'
  <2>1. \A u \in live : BasesGood(u, tp_bases[u])
    BY <1>2, BasesInvHere DEF OrderInv
  <2>2. ASSUME NEW u \in live' PROVE BasesGood(u, tp_bases[u])'
    <3>1. ASSUME NEW b \in Members(tp_bases[u])
          PROVE  u \in tp_subclasses'[b] /\ (u \in valid' => b \in valid')
      <4>1. /\ u \in tp_subclasses[b] /\ (u \in valid => b \in valid)
            /\ b \in Type /\ b # t /\ u # t
        BY <1>1, <1>4, <1>5, <1>6, <2>1, <3>1 DEF BasesGood, TypeOK
      <4>2. valid \in SUBSET Type
        BY <1>1 DEF TypeOK
      <4>3. ASSUME u \in valid', b \in Gone(t, valid) PROVE FALSE
        <5>1. u \in valid /\ u \notin Gone(t, valid)
          BY <1>3, <4>3
        <5> QED BY <4>1, <4>2, <4>3, <5>1, GoneClosed
      <4>4. u \in tp_subclasses'[b]
        BY <1>3, <4>1
      <4> QED BY <1>3, <4>1, <4>3, <4>4
    <3> QED BY <1>4, <3>1, Zenon DEF BasesGood, Members
  <2> QED BY <1>2, <2>2 DEF BasesInv, NoBases
<1> QED BY <1>2, <1>7, <1>8, <1>9, ShortStacksUp

LEMMA OrderAndClear ==
  ASSUME OrderInv, PyType_ClearCache
  PROVE  AllHave' /\ OrdersLive' /\ BasesInv' /\ StacksUp'
<1>1. TypeOK /\ UNCHANGED <<hierVars, pend>> /\ PyType_Modified(Object, valid)
  BY DEF OrderInv, TypeInv, PyType_ClearCache
<1>2. NoBases /\ NoBases'
  BY <1>1 DEF NoBases, PyType_ClearCache, Settled
<1>3. ShortStacks'
  BY <1>1, InTagBusy DEF PyType_ClearCache, ShortStacks, InTag
<1>4. /\ valid' \subseteq valid
      /\ \A x \in Type, y \in valid' : x \in valid /\ y \in tp_subclasses[x] => x \in valid'
  BY <1>1, ModifiedMeans, TypeAssumption DEF TypeOK
<1> QED BY <1>1, <1>2, <1>3, <1>4, SameHierarchy

LEMMA OrderAndRest ==
  ASSUME OrderInv, UNCHANGED vars
  PROVE  AllHave' /\ OrdersLive' /\ BasesInv' /\ StacksUp'
<1> USE DEF vars, hierVars, tagVars, hearVars
<1>1. AllHave' /\ OrdersLive'
  BY DEF OrderInv, AllHave, OrdersLive, Members
<1>2. BasesInv'
  BY DEF OrderInv, BasesInv, BasesGood, Moving, Members
<1>3. StacksUp'
  <2>1. StacksUp /\ UNCHANGED <<pend, next_version_tag, tp_bases, valid>>
    BY DEF OrderInv
  <2>2. ASSUME NEW a \in Actor, InTag(a)' PROVE StackUp(pend[a].stack)'
    <3>1. pend' = pend /\ tp_bases' = tp_bases /\ valid' = valid /\ next_version_tag' = next_version_tag
      BY <2>1
    <3>2. InTag(a)
      BY <2>2, <3>1 DEF InTag
    <3>3. StackUp(pend[a].stack)
      BY <2>1, <3>2 DEF StacksUp
    <3> HIDE DEF vars, hierVars, tagVars, hearVars
    <3> QED BY <3>1, <3>3 DEF StackUp, Members
  <2> QED BY <2>2 DEF StacksUp
<1> QED BY <1>1, <1>2, <1>3

LEMMA StepOrder ==
  ASSUME Undisturbed, OrderInv, [Next]_vars PROVE OrderInv'
<1>1. TypeInv'
  BY StepTypes DEF OrderInv
<1>2. ASSUME NEW a \in Actor,
             Classes(a) \/ Attributes(a) \/ update_slot(a) \/ SetModuleEnds(a)
             \/ Lookups(a) \/ SetBases(a) \/ \E t \in Type : type_dealloc(a, t)
      PROVE  AllHave' /\ OrdersLive' /\ BasesInv' /\ StacksUp'
  BY <1>2, LookupsSplit, OrderAndClasses, OrderAndWrites, OrderAndLooks, OrderAndAssign,
     OrderAndBases, OrderAndDealloc
<1>3. AllHave' /\ OrdersLive' /\ BasesInv' /\ StacksUp'
  BY <1>2, OrderAndClear, OrderAndRest DEF Next
<1> QED BY <1>1, <1>3 DEF OrderInv

LEMMA InitOrder ==
  ASSUME Undisturbed, Init PROVE OrderInv
<1>1. TypeInv
  BY InitTypes
<1>2. AllHave
  BY DEF Init, AllHave
<1>3. NoBases /\ \A a \in Actor : ~InTag(a)
  BY DEF Init, NoBases, InTag, Idle
<1>4. Members(<<>>) = {} /\ Members(<<Object>>) = {Object}
  BY DEF Members
<1>5. /\ live = {Object} /\ tp_bases[Object] = <<>> /\ tp_mro[Object] = <<Object>>
  BY TypeAssumption DEF Init
<1>6. OrdersLive
  BY <1>3, <1>4, <1>5, OrdersLiveHere
<1>7. BasesInv
  BY <1>3, <1>4, <1>5, BasesInvHere DEF BasesGood
<1>8. StacksUp
  BY <1>3 DEF StacksUp
<1> QED BY <1>1, <1>2, <1>6, <1>7, <1>8 DEF OrderInv

\* Valid tags are valid upwards, and along links that PyType_Modified follows downwards:
\* what the early return of PyType_Modified takes for granted.
THEOREM TagsAlwaysOrdered ==
  ASSUME Undisturbed
  PROVE  Spec => []TagsOrdered
<1>1. Init => OrderInv
  BY InitOrder
<1>2. OrderInv /\ [Next]_vars => OrderInv'
  BY StepOrder
<1>3. OrderInv => TagsOrdered
  <2> SUFFICES ASSUME OrderInv, Visible, NEW t \in valid, NEW b \in Members(tp_bases[t])
               PROVE  b \in valid /\ t \in tp_subclasses[b]
    BY DEF TagsOrdered
  <2>1. NoBases
    BY DEF Visible, RunsPython, Undisturbed, NoBases
  <2>2. t \in live
    BY DEF OrderInv, TypeInv, TypeOK
  <2> QED BY <2>1, <2>2, BasesInvHere DEF OrderInv, BasesGood
<1> QED BY <1>1, <1>2, <1>3, PTL DEF Spec
=============================================================================
