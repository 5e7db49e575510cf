-------------------------- MODULE TypeLookup_proofs --------------------------
(***************************************************************************)
(* What a lookup answers is current: the orders of types, the entries of   *)
(* the method cache, and what machine code relies on.                      *)
(***************************************************************************)
EXTENDS TypeCache_proofs

-----------------------------------------------------------------------------
(* The order of a type is one that its bases give it, except for the types *)
(* that an assignment to __bases__ has yet to treat.  A failed assignment  *)
(* puts the orders back that it has saved; when a type was treated twice,  *)
(* one of them is not the old one, so the theorem is about the behaviours  *)
(* in which no assignment fails after that.                                *)

\* MergesIn(order, t, bases) is Merges when the order of a type is order[t].
MergesIn(order, t, bases) ==
  LET lists == {order[b] : b \in Members(bases)} \cup {bases}
  IN  {m \in Orders({t} \cup UNION {Members(l) : l \in lists}) :
         m[1] = t /\ Injective(bases) /\ \A l \in lists : Keeps(m, l)}

\* An assignment to __bases__ is yet to compute the order of u.
Pending(u) == \E a \in Actor : pend[a].op = "bases" /\ \E i \in DOMAIN pend[a].stack :
                                                         u \in pend[a].stack[i].left

Linked(t, bases) == \A b \in Type : t \in tp_subclasses[b] <=> b \in Members(bases)

Placed ==
  /\ Object \in live /\ tp_bases[Object] = <<>> /\ tp_mro[Object] = <<Object>>
  /\ \A t \in live : /\ Members(tp_bases[t]) \subseteq live \ {t} /\ Members(tp_mro[t]) \subseteq live
                     /\ tp_mro[t] # <<>> /\ tp_mro[t][1] = t
                     /\ Moving(t) \/ Linked(t, tp_bases[t])
  /\ \A b \in Type : tp_subclasses[b] \subseteq live

OrdersGiven == \A t \in live \ {Object} : Pending(t) \/ tp_mro[t] \in Merges(t, tp_bases[t])

\* The assignment p to __bases__: its type is above all that is on its stack, and above none
\* of the bases, so the orders of these do not change.
MoveOK(p) ==
  /\ p.type \in live \ {Object} /\ Linked(p.type, p.bases)
  /\ Members(p.bases) \subseteq live \ {p.type}
  /\ \A b \in Members(p.bases) \cup Members(tp_bases[p.type]) : p.type \notin Members(tp_mro[b])
  /\ \A i \in DOMAIN p.stack : \A u \in p.stack[i].left : u \in live /\ p.type \in Members(tp_mro[u])
  /\ \A i \in DOMAIN p.stack : i # 1 =>
       LET x == p.stack[i].type
       IN  x \in live /\ p.type \in Members(tp_mro[x]) /\ p.stack[i].left \subseteq tp_subclasses[x]
  /\ p.stack # <<>> => p.stack[1].left \subseteq {p.type}
MoveInv ==
  /\ \A a, b \in Actor : pend[a].op = "bases" /\ pend[b].op = "bases" => a = b
  /\ \A a \in Actor : pend[a].op = "bases" => MoveOK(pend[a])

\* The orders and the bases that p puts back when it fails.
Once(temp) == \A i, j \in DOMAIN temp : temp[i].type = temp[j].type => i = j
Restored(order, p) == [t \in Type |-> IF t = p.type THEN p.mro
                                      ELSE IF t \in {p.temp[i].type : i \in DOMAIN p.temp}
                                      THEN LastSaved(p.temp, t) ELSE order[t]]
OldBases(bases, p) == [bases EXCEPT ![p.type] = p.bases]

\* Orders of the types L that their bases give.
Proper(L, order, bases) ==
  /\ order[Object] = <<Object>>
  /\ \A t \in L : /\ Members(order[t]) \subseteq L /\ order[t] # <<>> /\ order[t][1] = t
                  /\ t # Object => order[t] \in MergesIn(order, t, bases[t])
RestoredInv == \A a \in Actor : pend[a].op = "bases" /\ Once(pend[a].temp) =>
                 Proper(live, Restored(tp_mro, pend[a]), OldBases(tp_bases, pend[a]))

PlaceInv == TypeInv /\ Placed /\ OrdersGiven /\ MoveInv /\ RestoredInv

\* No assignment to __bases__ fails after it has treated a type twice.
NoneTwice == \A a \in Actor, u \in Type : SetBasesFails(a, u) => Once(pend[a].temp)
-----------------------------------------------------------------------------
(* Merges *)

LEMMA MergesAre == \A t, bases : Merges(t, bases) = MergesIn(tp_mro, t, bases)
BY Zenon DEF Merges, MergesIn

LEMMA GivenNext ==
  OrdersGiven' <=> \A t \in live' \ {Object} :
                     Pending(t)' \/ tp_mro'[t] \in MergesIn(tp_mro', t, tp_bases'[t])
BY Zenon DEF OrdersGiven, Merges, MergesIn, Orders, Injective, Keeps, Members

LEMMA RestoredNext ==
  RestoredInv' <=> \A a \in Actor : pend'[a].op = "bases" /\ Once(pend'[a].temp) =>
                     Proper(live', Restored(tp_mro', pend'[a]), OldBases(tp_bases', pend'[a]))
BY Zenon DEF RestoredInv, Once, Proper, Restored, OldBases, LastSaved, MergesIn, Orders, Injective,
             Keeps, Members

\* Only the orders of the bases matter.
LEMMA MergesLocal ==
  ASSUME NEW f, NEW g, NEW t, NEW bases, \A b \in Members(bases) : f[b] = g[b]
  PROVE  MergesIn(f, t, bases) = MergesIn(g, t, bases)
<1>1. {f[b] : b \in Members(bases)} = {g[b] : b \in Members(bases)}
  OBVIOUS
<1> QED BY <1>1 DEF MergesIn

\* In a merge t is first, once, and the order of a base is contained in it.
LEMMA MergeHas ==
  ASSUME NEW order, NEW t, NEW bases, NEW m \in MergesIn(order, t, bases)
  PROVE  /\ m[1] = t /\ Injective(m) /\ Injective(bases)
         /\ \A b \in Members(bases) : Keeps(m, order[b])
BY DEF MergesIn, Orders

\* The order of a base does not name the type.
LEMMA NotAbove ==
  ASSUME NEW order, NEW t, NEW bases, NEW m \in MergesIn(order, t, bases), m \in Seq(Type), m # <<>>,
         NEW b \in Members(bases), order[b] \in Seq(Type), order[b] # <<>>, order[b][1] = b, b # t
  PROVE  t \notin Members(order[b])
<1> SUFFICES ASSUME NEW j \in DOMAIN order[b], order[b][j] = t PROVE FALSE
  BY DEF Members
<1> DEFINE l == order[b]
<1>1. 1 \in DOMAIN l /\ j \in DOMAIN l /\ l[1] = b /\ l[j] = t /\ j # 1 /\ j \in Nat /\ j >= 1 /\ 1 \in DOMAIN m
  OBVIOUS
<1>2. m[1] = t /\ Injective(m) /\ Keeps(m, l)
  BY MergeHas
<1> HIDE DEF l
<1>3. 1 < j
  BY <1>1
<1>4. PICK k, n \in DOMAIN m : k < n /\ m[k] = l[1] /\ m[n] = l[j]
  BY <1>1, <1>2, <1>3 DEF Keeps
<1>5. n = 1
  BY <1>1, <1>2, <1>4 DEF Injective
<1>6. k \in Nat /\ k >= 1
  BY <1>4
<1> QED BY <1>4, <1>5, <1>6

\* What a merge names, in terms of MergesIn.
LEMMA GivenNames ==
  ASSUME TypeOK, NEW t \in Type, NEW bases \in Seq(Type), NEW m \in Merges(t, bases)
  PROVE  /\ m \in Seq(Type) /\ m # <<>> /\ m[1] = t /\ t \in Members(m)
         /\ Members(bases) \subseteq Members(m)
         /\ \A b \in Members(bases) : Members(tp_mro[b]) \subseteq Members(m)
         /\ \A x \in Members(m) : x = t \/ x \in Members(bases)
                                  \/ \E b \in Members(bases) : x \in Members(tp_mro[b])
<1>1. /\ m \in Seq(Type) /\ m # <<>>
      /\ Members(m) = {t} \cup Members(bases) \cup UNION {Members(tp_mro[b]) : b \in Members(bases)}
  BY MergeNames
<1>2. m[1] = t
  BY MergesAre, MergeHas
<1> QED BY <1>1, <1>2

\* Without "foreign", mro() answers merges.
LEMMA OnlyMerges ==
  ASSUME "foreign" \notin Env
  PROVE  \A t, bases : Answers(t, bases) = Merges(t, bases)
BY DEF Answers

LEMMA FirstIsMember ==
  ASSUME NEW T, NEW s \in Seq(T), s # <<>>
  PROVE  s[1] \in Members(s) /\ 1 \in DOMAIN s
BY DEF Members
-----------------------------------------------------------------------------
(* Steps that leave the hierarchy and the assignments to __bases__ alone *)

SameMoves == \A a \in Actor : /\ pend'[a].op = "bases" <=> pend[a].op = "bases"
                              /\ pend[a].op = "bases" => pend'[a] = pend[a]

LEMMA PlaceAndQuiet ==
  ASSUME PlaceInv, UNCHANGED hierVars, SameMoves
  PROVE  Placed' /\ OrdersGiven' /\ MoveInv' /\ RestoredInv'
<1> USE DEF hierVars
<1>1. /\ live' = live /\ tp_bases' = tp_bases /\ tp_mro' = tp_mro /\ tp_subclasses' = tp_subclasses
  OBVIOUS
<1>2. \A t : Moving(t)' <=> Moving(t)
  BY DEF Moving, SameMoves
<1>3. \A t : Pending(t)' <=> Pending(t)
  <2>1. ASSUME NEW t, Pending(t) PROVE Pending(t)'
    BY <2>1 DEF Pending, SameMoves
  <2>2. ASSUME NEW t, Pending(t)' PROVE Pending(t)
    BY <2>2 DEF Pending, SameMoves
  <2> QED BY <2>1, <2>2
<1>4. Placed'
  BY <1>1, <1>2 DEF PlaceInv, Placed, Linked, Members
<1>5. OrdersGiven'
  BY <1>1, <1>3, GivenNext, MergesAre, Zenon DEF PlaceInv, OrdersGiven
<1>6. MoveInv'
  <2>1. ASSUME NEW a \in Actor, pend'[a].op = "bases" PROVE MoveOK(pend[a])'
    <3>1. MoveOK(pend[a]) /\ pend'[a] = pend[a]
      BY <2>1 DEF PlaceInv, MoveInv, SameMoves
    <3>2. PICK p : p = pend[a]
      OBVIOUS
    <3>3. \A t, bases : Linked(t, bases)' <=> Linked(t, bases)
      BY <1>1 DEF Linked, Members
    <3>4. MoveOK(p)'
      <4> HIDE DEF hierVars
      <4>1. MoveOK(p)
        BY <3>1, <3>2
      <4>2. /\ p.type \in live' \ {Object} /\ Linked(p.type, p.bases)'
            /\ Members(p.bases)' \subseteq live' \ {p.type}
        BY <1>1, <3>3, <4>1 DEF MoveOK, Members
      <4> QED BY <1>1, <4>1, <4>2, SMTT(30) DEF MoveOK, Members
    <3> QED BY <3>1, <3>2, <3>4
  <2>2. \A a, b \in Actor : pend'[a].op = "bases" /\ pend'[b].op = "bases" => a = b
    BY DEF PlaceInv, MoveInv, SameMoves
  <2> QED BY <2>1, <2>2 DEF MoveInv
<1>7. RestoredInv'
  <2>1. \A a \in Actor : pend'[a].op = "bases" => pend[a].op = "bases" /\ pend'[a] = pend[a]
    BY DEF SameMoves
  <2> QED BY <1>1, <2>1, RestoredNext, Zenon DEF PlaceInv, RestoredInv
<1> QED BY <1>4, <1>5, <1>6, <1>7

LEMMA OtherMoves ==
  ASSUME TypeOK, NEW a \in Actor, NEW p, Becomes(a, p), p.op # "bases", pend[a].op # "bases"
  PROVE  SameMoves
<1>1. pend'[a] = p /\ \A b \in Actor \ {a} : pend'[b] = pend[b]
  BY BecomesMeans DEF TypeOK
<1> QED BY <1>1 DEF SameMoves

LEMMA LooksMove ==
  ASSUME TypeInv, NEW a \in Actor, Looks(a)
  PROVE  UNCHANGED hierVars /\ SameMoves
<1>1. UNCHANGED hierVars /\ TypeOK /\ Idle.op # "bases"
  BY LooksQuietly DEF TypeInv, Idle
<1>2. CASE LookupWalks(a)
  <2> DEFINE p == pend[a]
             v == IF p.pos \in DOMAIN p.mro THEN tp_dict[p.mro[p.pos]][p.name] ELSE NoValue
  <2>1. p.op = "walk" /\ p \in WalkOps
    BY <1>1, <1>2, Kinds DEF LookupWalks, TypeOK
  <2>2. \/ Becomes(a, [p EXCEPT !.pos = p.pos + 1])
        \/ Becomes(a, [op |-> "tag", type |-> p.type, name |-> p.name, code |-> p.code,
                       value |-> v, stack |-> <<Frame(NoType, <<p.type>>)>>])
        \/ Becomes(a, Idle)
    BY <1>2 DEF LookupWalks
  <2>3. [p EXCEPT !.pos = p.pos + 1].op # "bases" /\ pend[a].op # "bases"
    BY <2>1 DEF WalkOps
  <2> HIDE DEF p, v
  <2> QED BY <1>1, <2>2, <2>3, OtherMoves
<1>3. CASE TagIsRefused(a) \/ LookupCaches(a)
  <2>1. Becomes(a, Idle) /\ pend[a].op # "bases"
    BY <1>3 DEF TagIsRefused, LookupCaches, InTag
  <2> QED BY <1>1, <2>1, OtherMoves
<1>4. ASSUME NEW t \in Type, NEW n \in Name, NEW c \in Code \cup {NoCode}, LookupHits(a, t, n, c)
      PROVE  SameMoves
  BY <1>4 DEF LookupHits, SameMoves
<1>5. ASSUME NEW t \in Type, NEW n \in Name, NEW c \in Code \cup {NoCode}, LookupMisses(a, t, n, c)
      PROVE  SameMoves
  <2> DEFINE p == [op |-> "walk", type |-> t, name |-> n, code |-> c, mro |-> tp_mro[t], pos |-> 1]
  <2>1. Starts(a) /\ Becomes(a, p) /\ p.op # "bases"
    BY <1>5 DEF LookupMisses
  <2>2. pend[a].op # "bases"
    BY <2>1 DEF Starts, Idle
  <2> HIDE DEF p
  <2> QED BY <1>1, <2>1, <2>2, OtherMoves
<1> QED BY <1>1, <1>2, <1>3, <1>4, <1>5 DEF Looks

LEMMA AssignsMove ==
  ASSUME TypeInv, NEW a \in Actor, Assigns(a)
  PROVE  UNCHANGED hierVars /\ SameMoves
<1>1. UNCHANGED hierVars /\ TypeOK /\ InTag(a) /\ InTag(a)'
  BY AssignMoves DEF Assigns, TagIsValid, TagIsNew, TagWraps, TagBecomesValid, TypeInv
<1>2. PICK x : Becomes(a, x)
  BY DEF Assigns, TagIsValid, TagIsNew, TagWraps, TagBecomesValid, StackIs
<1>3. pend'[a] = x
  BY <1>1, <1>2, BecomesMeans DEF TypeOK
<1> QED BY <1>1, <1>2, <1>3, OtherMoves DEF InTag

LEMMA QuietMoves ==
  ASSUME TypeInv, NEW a \in Actor,
         Attributes(a) \/ update_slot(a) \/ SetModuleEnds(a) \/ Lookups(a)
  PROVE  UNCHANGED hierVars /\ SameMoves
<1>1. CASE Attributes(a) \/ update_slot(a) \/ SetModuleEnds(a)
  <2>1. UNCHANGED hierVars /\ \E p : Becomes(a, p) /\ p.op # "bases" /\ pend[a].op # "bases"
    BY <1>1, WritesQuietly
  <2> QED BY <2>1, OtherMoves DEF TypeInv
<1>2. CASE Lookups(a)
  BY <1>2, LookupsSplit, LooksMove, AssignsMove
<1> QED BY <1>1, <1>2
-----------------------------------------------------------------------------
(* Types come and go *)

LEMMA PlaceHere ==
  ASSUME NoBases
  PROVE  /\ MoveInv /\ RestoredInv /\ \A t : ~Moving(t) /\ ~Pending(t)
         /\ OrdersGiven <=> \A t \in live \ {Object} : tp_mro[t] \in Merges(t, tp_bases[t])
<1>1. \A t : ~Moving(t) /\ ~Pending(t)
  BY DEF NoBases, Moving, Pending
<1> QED BY <1>1 DEF NoBases, MoveInv, RestoredInv, OrdersGiven

LEMMA PlaceHereNext ==
  ASSUME NoBases'
  PROVE  /\ MoveInv' /\ RestoredInv' /\ \A t : ~Moving(t)' /\ ~Pending(t)'
         /\ OrdersGiven' <=> \A t \in live' \ {Object} :
                               tp_mro'[t] \in MergesIn(tp_mro', t, tp_bases'[t])
<1>1. \A t : ~Moving(t)' /\ ~Pending(t)'
  BY DEF NoBases, Moving, Pending
<1>2. MoveInv' /\ RestoredInv'
  BY DEF NoBases, MoveInv, RestoredInv
<1> QED BY <1>1, <1>2, GivenNext

LEMMA SettledHere == Settled <=> NoBases
BY DEF Settled, NoBases

\* The new type is below its bases, and nothing is below it.
LEMMA PlaceAndNew ==
  ASSUME PlaceInv, "foreign" \notin Env, NEW a \in Actor, NEW t \in Type \ live,
         NEW bases \in BaseChoices[t], NEW m \in Answers(t, bases), NEW d,
         type_new(a, t, bases, m, d)
  PROVE  Placed' /\ OrdersGiven' /\ MoveInv' /\ RestoredInv'
<1>1. /\ TypeOK /\ NoBases /\ NoBases' /\ bases \in Seq(Type) /\ Members(bases) \subseteq live
  <2>1. NoBases /\ UNCHANGED pend /\ Members(bases) \subseteq live
    BY SettledHere DEF type_new
  <2> QED BY <2>1, BasesTyped DEF PlaceInv, TypeInv, NoBases
<1>2. /\ live' = live \cup {t}
      /\ \A u \in Type : tp_bases'[u] = (IF u = t THEN bases ELSE tp_bases[u])
                         /\ tp_mro'[u] = (IF u = t THEN m ELSE tp_mro[u])
      /\ \A b \in Type : tp_subclasses'[b] = IF b \in Members(bases) THEN tp_subclasses[b] \cup {t}
                                             ELSE tp_subclasses[b]
  BY <1>1 DEF type_new, TypeOK
<1>3. /\ Placed /\ live \subseteq Type /\ \A u \in Type : tp_bases[u] \in Seq(Type)
      /\ \A u \in live \ {Object} : tp_mro[u] \in MergesIn(tp_mro, u, tp_bases[u])
  BY <1>1, PlaceHere, MergesAre DEF PlaceInv, TypeOK
<1>4. /\ Object \in live /\ Object # t
      /\ \A u \in live : Members(tp_bases[u]) \subseteq live /\ Members(tp_mro[u]) \subseteq live
      /\ \A u \in live : Linked(u, tp_bases[u])
  BY <1>1, <1>3, PlaceHere DEF Placed
<1>5. m \in Merges(t, bases)
  BY OnlyMerges
<1>6. /\ m # <<>> /\ m[1] = t /\ Members(m) \subseteq live'
  <2>1. /\ m # <<>> /\ m[1] = t
        /\ \A x \in Members(m) : x = t \/ x \in Members(bases)
                                 \/ \E b \in Members(bases) : x \in Members(tp_mro[b])
    BY <1>1, <1>5, GivenNames
  <2> QED BY <1>1, <1>2, <1>4, <2>1
<1>7. OrdersGiven'
  <2>1. ASSUME NEW u \in live' \ {Object}
        PROVE  tp_mro'[u] \in MergesIn(tp_mro', u, tp_bases'[u])
    <3> DEFINE us == IF u = t THEN bases ELSE tp_bases[u]
    <3>1. us \in Seq(Type) /\ Members(us) \subseteq live /\ u \in Type /\ tp_bases'[u] = us
      BY <1>1, <1>2, <1>3, <1>4
    <3>2. \A b \in Members(us) : tp_mro'[b] = tp_mro[b]
      BY <1>2, <1>3, <3>1
    <3>3. tp_mro'[u] \in MergesIn(tp_mro, u, us)
      BY <1>2, <1>3, <1>5, <3>1, MergesAre
    <3> HIDE DEF us
    <3> QED BY <3>1, <3>2, <3>3, MergesLocal
  <2> QED BY <1>1, <2>1, PlaceHereNext
<1>8. Placed'
  <2>1. tp_bases'[Object] = <<>> /\ tp_mro'[Object] = <<Object>> /\ Object \in live'
    BY <1>2, <1>3, <1>4 DEF Placed
  <2>2. ASSUME NEW u \in live'
        PROVE  /\ Members(tp_bases'[u]) \subseteq live' \ {u} /\ Members(tp_mro'[u]) \subseteq live'
               /\ tp_mro'[u] # <<>> /\ tp_mro'[u][1] = u
    BY <1>1, <1>2, <1>3, <1>6 DEF Placed
  <2>3. ASSUME NEW u \in live', NEW b \in Type
        PROVE  u \in tp_subclasses'[b] <=> b \in Members(tp_bases'[u])
    <3>1. CASE u = t
      BY <1>2, <1>3, <3>1, ZenonT(60) DEF Placed
    <3>2. CASE u # t
      <4>1. u \in live /\ tp_bases'[u] = tp_bases[u]
        BY <1>2, <1>3, <3>2
      <4>2. u \in tp_subclasses'[b] <=> u \in tp_subclasses[b]
        BY <1>2, <3>2
      <4> QED BY <1>4, <4>1, <4>2 DEF Linked
    <3> QED BY <3>1, <3>2
  <2>4. \A b \in Type : tp_subclasses'[b] \subseteq live'
    <3>1. \A b \in Type : tp_subclasses[b] \subseteq live
      BY <1>3 DEF Placed
    <3>2. \A b \in Type : tp_subclasses'[b] \subseteq tp_subclasses[b] \cup {t}
      BY <1>2
    <3> QED BY <1>2, <3>1, <3>2
  <2> QED BY <2>1, <2>2, <2>3, <2>4, Zenon DEF Placed, Linked, Members
<1> QED BY <1>1, <1>7, <1>8, PlaceHereNext

LEMMA PlaceAndDealloc ==
  ASSUME PlaceInv, NEW a \in Actor, NEW t \in Type, type_dealloc(a, t)
  PROVE  Placed' /\ OrdersGiven' /\ MoveInv' /\ RestoredInv'
<1>1. TypeOK /\ NoBases /\ NoBases'
  <2>1. UNCHANGED pend /\ \A b \in Actor : pend[b] = Idle
    BY DEF type_dealloc, Unused
  <2> QED BY <2>1 DEF PlaceInv, TypeInv, NoBases, Idle
<1>2. /\ live' = live \ {t} /\ t # Object
      /\ \A u \in Type \ {t} : tp_bases'[u] = tp_bases[u] /\ tp_mro'[u] = tp_mro[u]
      /\ \A b \in Type : tp_subclasses'[b] = IF b = t THEN {} ELSE tp_subclasses[b] \ {t}
  BY <1>1 DEF type_dealloc, TypeOK
<1>3. \A u \in live \ {t} : t \notin Members(tp_bases[u]) /\ t \notin Members(tp_mro[u])
  BY DEF type_dealloc, Unused
<1>4. /\ Placed /\ live \subseteq Type /\ \A u \in Type : tp_bases[u] \in Seq(Type)
      /\ \A u \in live \ {Object} : tp_mro[u] \in MergesIn(tp_mro, u, tp_bases[u])
      /\ \A u \in live : Linked(u, tp_bases[u])
  BY <1>1, PlaceHere, MergesAre DEF PlaceInv, TypeOK, Placed
<1>5. OrdersGiven'
  <2>1. ASSUME NEW u \in live' \ {Object}
        PROVE  tp_mro'[u] \in MergesIn(tp_mro', u, tp_bases'[u])
    <3>1. /\ u \in live \ {t} /\ tp_mro'[u] = tp_mro[u] /\ tp_bases'[u] = tp_bases[u]
          /\ tp_mro[u] \in MergesIn(tp_mro, u, tp_bases[u])
      BY <1>2, <1>4
    <3>2. \A b \in Members(tp_bases[u]) : tp_mro'[b] = tp_mro[b]
      BY <1>2, <1>3, <1>4, <3>1 DEF Members
    <3> QED BY <3>1, <3>2, MergesLocal
  <2> QED BY <1>1, <2>1, PlaceHereNext
<1>6. Placed'
  <2>1. tp_bases'[Object] = <<>> /\ tp_mro'[Object] = <<Object>> /\ Object \in live'
    BY <1>2, <1>4 DEF Placed
  <2>2. ASSUME NEW u \in live'
        PROVE  /\ Members(tp_bases'[u]) \subseteq live' \ {u} /\ Members(tp_mro'[u]) \subseteq live'
               /\ tp_mro'[u] # <<>> /\ tp_mro'[u][1] = u
    BY <1>2, <1>3, <1>4 DEF Placed
  <2>3. ASSUME NEW u \in live', NEW b \in Type
        PROVE  u \in tp_subclasses'[b] <=> b \in Members(tp_bases'[u])
    BY <1>2, <1>3, <1>4, <2>3 DEF Linked
  <2>4. \A b \in Type : tp_subclasses'[b] \subseteq live'
    <3>1. \A b \in Type : tp_subclasses[b] \subseteq live
      BY <1>4 DEF Placed
    <3>2. \A b \in Type : tp_subclasses'[b] \subseteq tp_subclasses[b] \ {t}
      BY <1>2
    <3> QED BY <1>2, <3>1, <3>2
  <2> QED BY <2>1, <2>2, <2>3, <2>4, Zenon DEF Placed, Linked, Members
<1> QED BY <1>1, <1>5, <1>6, PlaceHereNext
-----------------------------------------------------------------------------
(* An assignment to __bases__ *)

\* The type is the first whose order is to be computed; what can be put back is what is there.
LEMMA PlaceAndMove ==
  ASSUME PlaceInv, NEW a \in Actor, NEW t \in Type, NEW bases \in BaseChoices[t],
         Members(bases) \subseteq live, type_set_bases(a, t, bases)
  PROVE  /\ Placed' /\ OrdersGiven' /\ MoveInv' /\ RestoredInv'
         /\ Restored(tp_mro', pend'[a]) = tp_mro
<1> DEFINE p == [op |-> "bases", type |-> t, bases |-> tp_bases[t], mro |-> tp_mro[t],
                 stack |-> <<Level(NoType, {t})>>, temp |-> <<>>]
<1>1. /\ TypeOK /\ NoBases /\ bases \in Seq(Type) /\ Becomes(a, p) /\ t \in live \ {Object}
      /\ \A b \in Members(bases) : t \notin Members(tp_mro[b])
  BY SettledHere, BasesTyped DEF type_set_bases, PlaceInv, TypeInv
<1>2. /\ UNCHANGED <<live, tp_mro, tp_subclasses>>
      /\ tp_bases' = [tp_bases EXCEPT ![t] = bases]
      /\ tp_bases'[t] = bases /\ \A u \in Type \ {t} : tp_bases'[u] = tp_bases[u]
  BY <1>1 DEF type_set_bases, TypeOK
<1>3. pend'[a] = p /\ \A b \in Actor \ {a} : pend'[b] = pend[b]
  BY <1>1, BecomesMeans DEF TypeOK
<1>4. /\ pend'[a].op = "bases" /\ pend'[a].type = t /\ pend'[a].bases = tp_bases[t]
      /\ pend'[a].mro = tp_mro[t] /\ pend'[a].temp = <<>>
      /\ pend'[a].stack = <<Level(NoType, {t})>>
  BY <1>3
<1>5. /\ DOMAIN pend'[a].stack = {1} /\ pend'[a].stack[1].left = {t} /\ DOMAIN pend'[a].temp = {}
  BY <1>4 DEF Level
<1>6. \A b \in Actor : pend'[b].op = "bases" => b = a
  BY <1>1, <1>3 DEF NoBases
<1> HIDE DEF p
<1>7. /\ Placed /\ live \subseteq Type /\ \A u \in Type : tp_bases[u] \in Seq(Type) /\ tp_mro[u] \in Seq(Type)
      /\ \A u \in live \ {Object} : tp_mro[u] \in MergesIn(tp_mro, u, tp_bases[u])
      /\ \A u \in live : Linked(u, tp_bases[u])
  BY <1>1, PlaceHere, MergesAre DEF PlaceInv, TypeOK, Placed
<1>8. \A u \in live : /\ Members(tp_bases[u]) \subseteq live \ {u} /\ Members(tp_mro[u]) \subseteq live
                      /\ tp_mro[u] # <<>> /\ tp_mro[u][1] = u /\ u \in Members(tp_mro[u])
  BY <1>7, FirstIsMember DEF Placed
<1>9. \A b \in Members(tp_bases[t]) : t \notin Members(tp_mro[b])
  <2> SUFFICES ASSUME NEW b \in Members(tp_bases[t]) PROVE t \notin Members(tp_mro[b])
    OBVIOUS
  <2>1. /\ b \in live /\ b # t /\ tp_mro[b] \in Seq(Type) /\ tp_mro[b] # <<>> /\ tp_mro[b][1] = b
        /\ tp_mro[t] \in Seq(Type) /\ tp_mro[t] # <<>>
        /\ tp_mro[t] \in MergesIn(tp_mro, t, tp_bases[t])
    BY <1>1, <1>7, <1>8
  <2> QED BY <2>1, NotAbove
<1>10. Members(bases) \subseteq live \ {t}
  BY <1>1, <1>8
<1>11. \A u : Moving(u)' <=> u = t
  BY <1>4, <1>6 DEF Moving
<1>12. \A u : Pending(u)' <=> u = t
  <2>1. Pending(t)'
    BY <1>4, <1>5 DEF Pending
  <2>2. ASSUME NEW u, Pending(u)' PROVE u = t
    BY <1>5, <1>6, <2>2 DEF Pending
  <2> QED BY <2>1, <2>2
<1>13. Placed'
  <2>1. tp_bases'[Object] = <<>> /\ tp_mro'[Object] = <<Object>> /\ Object \in live'
    BY <1>1, <1>2, <1>7 DEF Placed
  <2>2. ASSUME NEW u \in live'
        PROVE  /\ Members(tp_bases'[u]) \subseteq live' \ {u} /\ Members(tp_mro'[u]) \subseteq live'
               /\ tp_mro'[u] # <<>> /\ tp_mro'[u][1] = u
    BY <1>2, <1>7, <1>8, <1>10
  <2>3. ASSUME NEW u \in live', ~Moving(u)', NEW b \in Type
        PROVE  u \in tp_subclasses'[b] <=> b \in Members(tp_bases'[u])
    BY <1>2, <1>7, <1>11, <2>3 DEF Linked
  <2>4. \A b \in Type : tp_subclasses'[b] \subseteq live'
    BY <1>2, <1>7 DEF Placed
  <2> QED BY <2>1, <2>2, <2>3, <2>4, Zenon DEF Placed, Linked, Members
<1>14. OrdersGiven'
  <2>1. ASSUME NEW u \in live' \ {Object}, u # t
        PROVE  tp_mro'[u] \in MergesIn(tp_mro', u, tp_bases'[u])
    BY <1>2, <1>7, <2>1
  <2> QED BY <1>12, <2>1, GivenNext
<1>15. MoveInv'
  <2>1. Linked(t, tp_bases[t])
    BY <1>1, <1>7
  <2>2. \A b \in Type : t \in tp_subclasses'[b] <=> b \in Members(tp_bases[t])
    BY <1>2, <2>1 DEF Linked
  <2>3. \A b \in Members(tp_bases[t]) \cup Members(tp_bases'[t]) : t \notin Members(tp_mro'[b])
    BY <1>1, <1>2, <1>9
  <2>4. t \in live' \ {Object} /\ Members(tp_bases[t]) \subseteq live' \ {t} /\ t \in Members(tp_mro'[t])
    BY <1>1, <1>2, <1>8
  <2>5. MoveOK(pend[a])'
    <3>1. \A i \in DOMAIN pend'[a].stack : i = 1 /\ \A u \in pend'[a].stack[i].left : u = t
      BY <1>5
    <3>2. pend'[a].stack[1].left \subseteq {t}
      BY <1>5
    <3> DEFINE q == pend'[a]
    <3>3. /\ q.type \in live' \ {Object}
          /\ \A b \in Type : q.type \in tp_subclasses'[b] <=> b \in Members(q.bases)
          /\ Members(q.bases) \subseteq live' \ {q.type}
          /\ \A b \in Members(q.bases) \cup Members(tp_bases'[q.type]) : q.type \notin Members(tp_mro'[b])
      BY <1>4, <2>2, <2>3, <2>4
    <3>4. \A i \in DOMAIN q.stack : \A u \in q.stack[i].left :
            u \in live' /\ q.type \in Members(tp_mro'[u])
      BY <1>4, <2>4, <3>1
    <3>5. /\ \A i \in DOMAIN q.stack : i = 1
          /\ q.stack # <<>> => q.stack[1].left \subseteq {q.type}
      BY <1>4, <3>1, <3>2
    <3> QED BY <3>3, <3>4, <3>5, Zenon DEF MoveOK, Linked, Members
  <2> QED BY <1>6, <2>5 DEF MoveInv
<1>16. Restored(tp_mro', pend'[a]) = tp_mro
  BY <1>1, <1>2, <1>4, <1>5 DEF Restored, TypeOK
<1>17. RestoredInv'
  <2>1. OldBases(tp_bases', pend'[a]) = tp_bases
    BY <1>1, <1>2, <1>4 DEF OldBases, TypeOK
  <2>2. Proper(live, tp_mro, tp_bases)
    BY <1>7, <1>8 DEF Proper, Placed
  <2> QED BY <1>2, <1>6, <1>16, <2>1, <2>2, RestoredNext
<1> QED BY <1>13, <1>14, <1>15, <1>16, <1>17

\* What a failure would put back is the same after the step.
RestoredSame(a) == Once(pend'[a].temp) =>
  Once(pend[a].temp) /\ Restored(tp_mro', pend'[a]) = Restored(tp_mro, pend[a])

\* What is known in the middle.
LEMMA PlaceInTheMiddle ==
  ASSUME PlaceInv, NEW a \in Actor, SetBases(a)
  PROVE  LET p == pend[a]
         IN  /\ TypeOK /\ p \in BasesOps /\ p.op = "bases" /\ p.type \in Type /\ MoveOK(p)
             /\ p.bases \in Seq(Type) /\ p.mro \in Seq(Type)
             /\ p.temp \in Seq(Saved) /\ p.stack \in Seq(Levels)
             /\ \A b \in Actor : pend[b].op = "bases" => b = a
             /\ \A t : Moving(t) <=> t = p.type
             /\ \A t : Pending(t) <=> \E i \in DOMAIN p.stack : t \in p.stack[i].left
             /\ \A t \in live : /\ t \in Type /\ Members(tp_bases[t]) \subseteq live \ {t}
                                /\ Members(tp_mro[t]) \subseteq live
                                /\ tp_mro[t] # <<>> /\ tp_mro[t][1] = t /\ t \in Members(tp_mro[t])
                                /\ t # p.type => Linked(t, tp_bases[t])
             /\ Once(p.temp) => Proper(live, Restored(tp_mro, p), OldBases(tp_bases, p))
<1>1. TypeOK /\ pend[a].op = "bases"
  BY DEF PlaceInv, TypeInv, SetBases, InBases
<1>2. pend[a] \in BasesOps
  BY <1>1, Kinds DEF TypeOK
<1>3. /\ pend[a].bases \in Seq(Type) /\ pend[a].mro \in Seq(Type) /\ pend[a].type \in Type
      /\ pend[a].temp \in Seq(Saved) /\ pend[a].stack \in Seq(Levels)
  BY <1>2 DEF BasesOps
<1>4. MoveOK(pend[a]) /\ \A b \in Actor : pend[b].op = "bases" => b = a
  BY <1>1 DEF PlaceInv, MoveInv
<1>5. \A t : Moving(t) <=> t = pend[a].type
  BY <1>1, <1>4 DEF Moving
<1>6. \A t : Pending(t) <=> \E i \in DOMAIN pend[a].stack : t \in pend[a].stack[i].left
  BY <1>1, <1>4 DEF Pending
<1>7. \A t \in live : /\ t \in Type /\ Members(tp_bases[t]) \subseteq live \ {t}
                      /\ Members(tp_mro[t]) \subseteq live
                      /\ tp_mro[t] # <<>> /\ tp_mro[t][1] = t /\ t \in Members(tp_mro[t])
                      /\ t # pend[a].type => Linked(t, tp_bases[t])
  BY <1>1, <1>5, FirstIsMember DEF PlaceInv, Placed, TypeOK
<1>8. Once(pend[a].temp) => Proper(live, Restored(tp_mro, pend[a]), OldBases(tp_bases, pend[a]))
  BY <1>1 DEF PlaceInv, RestoredInv
<1> QED BY <1>1, <1>2, <1>3, <1>4, <1>5, <1>6, <1>7, <1>8

LEMMA PlaceAndLevel ==
  ASSUME PlaceInv, NEW a \in Actor, SetBases(a), MroLevelDone(a)
  PROVE  Placed' /\ OrdersGiven' /\ MoveInv' /\ RestoredInv' /\ RestoredSame(a)
<1> DEFINE p == pend[a]
           q == [p EXCEPT !.stack = PopLast(p.stack)]
<1>1. /\ TypeOK /\ p \in BasesOps /\ p.op = "bases" /\ MoveOK(p) /\ p.stack \in Seq(Levels)
      /\ \A b \in Actor : pend[b].op = "bases" => b = a
      /\ \A t : Moving(t) <=> t = p.type
      /\ \A t : Pending(t) <=> \E i \in DOMAIN p.stack : t \in p.stack[i].left
      /\ Once(p.temp) => Proper(live, Restored(tp_mro, p), OldBases(tp_bases, p))
  BY PlaceInTheMiddle
<1>2. Becomes(a, q) /\ p.stack # <<>> /\ Top(p.stack).left = {}
      /\ UNCHANGED <<live, tp_bases, tp_mro, tp_subclasses>>
  BY DEF MroLevelDone, hierVars
<1>3. /\ q.op = "bases" /\ q.type = p.type /\ q.bases = p.bases /\ q.mro = p.mro /\ q.temp = p.temp
      /\ q.stack = PopLast(p.stack)
  BY <1>1 DEF BasesOps
<1>4. pend'[a] = q /\ \A b \in Actor \ {a} : pend'[b] = pend[b]
  BY <1>1, <1>2, BecomesMeans DEF TypeOK
<1>5. \A b \in Actor : pend'[b].op = "bases" => b = a
  BY <1>1, <1>4
<1> HIDE DEF q, p
<1>6. /\ Len(p.stack) \in Nat \ {0} /\ q.stack \in Seq(Levels) /\ Len(q.stack) = Len(p.stack) - 1
      /\ \A i \in DOMAIN q.stack : i \in DOMAIN p.stack /\ q.stack[i] = p.stack[i]
      /\ \A i \in DOMAIN p.stack : i \in DOMAIN q.stack \/ p.stack[i].left = {}
  <2>1. /\ Len(p.stack) \in Nat \ {0} /\ q.stack \in Seq(Levels) /\ Len(q.stack) = Len(p.stack) - 1
        /\ \A i \in 1 .. Len(p.stack) - 1 : q.stack[i] = p.stack[i]
    <3>1. /\ Len(p.stack) \in Nat \ {0} /\ PopLast(p.stack) \in Seq(Levels)
          /\ Len(PopLast(p.stack)) = Len(p.stack) - 1
          /\ \A i \in 1 .. Len(p.stack) - 1 : PopLast(p.stack)[i] = p.stack[i]
      BY <1>1, <1>2, Stack, Zenon
    <3> QED BY <1>3, <3>1, Zenon
  <2>2. \A i \in DOMAIN q.stack : i \in DOMAIN p.stack /\ q.stack[i] = p.stack[i]
    BY <1>1, <2>1, SMTT(30)
  <2>3. \A i \in DOMAIN p.stack : i \in DOMAIN q.stack \/ p.stack[i].left = {}
    BY <1>1, <1>2, <2>1 DEF Top
  <2> QED BY <2>1, <2>2, <2>3
<1>7. \A t : Moving(t)' <=> Moving(t)
  BY <1>1, <1>3, <1>4, <1>5, ZenonT(60) DEF Moving
<1>8. \A t : Pending(t)' <=> Pending(t)
  <2>1. \A t : Pending(t)' <=> \E i \in DOMAIN q.stack : t \in q.stack[i].left
    BY <1>3, <1>4, <1>5 DEF Pending
  <2> QED BY <1>1, <1>6, <2>1
<1>9. Placed'
  BY <1>2, <1>7 DEF PlaceInv, Placed, Linked, Members
<1>10. OrdersGiven'
  BY <1>2, <1>8, GivenNext, MergesAre, Zenon DEF PlaceInv, OrdersGiven
<1>11. MoveInv'
  <2>1. q.stack # <<>> => q.stack[1].left \subseteq {q.type}
    <3>1. q.stack # <<>> => 1 \in DOMAIN q.stack
      BY <1>6
    <3> QED BY <1>1, <1>3, <1>6, <3>1 DEF MoveOK
  <2>2. \A i \in DOMAIN q.stack : \A u \in q.stack[i].left : u \in live /\ q.type \in Members(tp_mro[u])
    BY <1>1, <1>3, <1>6 DEF MoveOK
  <2>3. \A i \in DOMAIN q.stack : i # 1 =>
          LET x == q.stack[i].type
          IN  x \in live /\ q.type \in Members(tp_mro[x]) /\ q.stack[i].left \subseteq tp_subclasses[x]
    BY <1>1, <1>3, <1>6 DEF MoveOK
  <2>4. /\ q.type \in live \ {Object} /\ Linked(q.type, q.bases)
        /\ Members(q.bases) \subseteq live \ {q.type}
        /\ \A b \in Members(q.bases) \cup Members(tp_bases[q.type]) : q.type \notin Members(tp_mro[b])
    BY <1>1, <1>3 DEF MoveOK
  <2>5. MoveOK(q)
    BY <2>1, <2>2, <2>3, <2>4, Zenon DEF MoveOK
  <2>6. MoveOK(pend[a])'
    BY <1>2, <1>4, <2>5, SMTT(30) DEF MoveOK, Linked, Members
  <2> QED BY <1>5, <2>6 DEF MoveInv
<1>12. Restored(tp_mro', pend'[a]) = Restored(tp_mro, p)
  BY <1>2, <1>3, <1>4, ZenonT(60) DEF Restored
<1>13. RestoredInv'
  <2>1. OldBases(tp_bases', pend'[a]) = OldBases(tp_bases, p)
    BY <1>2, <1>3, <1>4 DEF OldBases
  <2> QED BY <1>1, <1>2, <1>3, <1>4, <1>5, <1>12, <2>1, RestoredNext
<1>14. RestoredSame(a)
  BY <1>3, <1>4, <1>12 DEF RestoredSame, p
<1> QED BY <1>9, <1>10, <1>11, <1>13, <1>14

\* The stack after the order of u is computed.
Pushed(s, u, below) == Append([s EXCEPT ![Len(s)].left = @ \ {u}], Level(u, below))
PushedWell(s, r, u, below) ==
  LET n == Len(s)
  IN  /\ n \in Nat \ {0} /\ DOMAIN s = 1 .. n /\ DOMAIN r = 1 .. n + 1
      /\ r[n + 1].type = u /\ r[n + 1].left = below
      /\ \A i \in 1 .. n : /\ r[i].type = s[i].type
                           /\ r[i].left = IF i = n THEN s[i].left \ {u} ELSE s[i].left
LEMMA LevelPushed ==
  ASSUME NEW s \in Seq(Levels), s # <<>>, NEW u \in Top(s).left, NEW below \in SUBSET Type
  PROVE  PushedWell(s, Pushed(s, u, below), u, below)
<1> DEFINE n == Len(s)
           l == [s[n] EXCEPT !.left = @ \ {u}]
           s2 == [s EXCEPT ![n] = l]
           e == Level(u, below)
           r == Append(s2, e)
<1>1. n \in Nat \ {0} /\ DOMAIN s = 1 .. n /\ s[n] \in Levels
  OBVIOUS
<1>2. u \in Type
  BY <1>1 DEF Levels, Top
<1>3. e \in Levels /\ l \in Levels /\ e.type = u /\ e.left = below
  BY <1>1, <1>2 DEF Level, Levels
<1>4. s2 \in Seq(Levels) /\ Len(s2) = n /\ \A i \in 1 .. n : s2[i] = IF i = n THEN l ELSE s[i]
  BY <1>1, <1>3
<1>5. l.type = s[n].type /\ l.left = s[n].left \ {u}
  BY <1>1 DEF Levels
<1> HIDE DEF l, s2, e, n
<1>6. /\ DOMAIN r = 1 .. n + 1 /\ r[n + 1] = e
      /\ \A i \in 1 .. n : r[i] = s2[i]
  BY <1>1, <1>3, <1>4
<1> HIDE DEF r
<1>7. \A i \in 1 .. n : /\ r[i].type = s[i].type
                        /\ r[i].left = IF i = n THEN s[i].left \ {u} ELSE s[i].left
  BY <1>4, <1>5, <1>6
<1>8. Pushed(s, u, below) = r
  BY DEF Pushed, r, s2, l, n, e
<1> QED BY <1>1, <1>3, <1>6, <1>7, <1>8 DEF n, PushedWell

LEMMA OnceSaved ==
  ASSUME NEW temp \in Seq(Saved), Once(temp), NEW i \in DOMAIN temp
  PROVE  LastSaved(temp, temp[i].type) = temp[i].mro
<1> DEFINE t == temp[i].type
<1>1. t \in {temp[j].type : j \in DOMAIN temp}
  OBVIOUS
<1> HIDE DEF t
<1>2. PICK j \in DOMAIN temp : temp[j].type = t /\ LastSaved(temp, t) = temp[j].mro
  BY <1>1, LastSavedIs
<1>3. i = j
  BY <1>2 DEF Once, t
<1> QED BY <1>2, <1>3 DEF t

\* What a failure would put back stays what it was, as long as no type is treated twice.
LEMMA RestoredStays ==
  ASSUME NEW p, NEW q, NEW old, NEW new, NEW u \in Type, p.temp \in Seq(Saved), q.temp \in Seq(Saved),
         q.type = p.type, q.mro = p.mro, Once(q.temp), old \in [Type -> Seq(Type)],
         \A t \in Type \ {u} : new[t] = old[t],
         \/ q.temp = p.temp /\ u = p.type
         \/ q.temp = Append(p.temp, [type |-> u, mro |-> old[u]]) /\ u # p.type
  PROVE  Once(p.temp) /\ Restored(new, q) = Restored(old, p)
<1> DEFINE e == [type |-> u, mro |-> old[u]]
           Types(temp) == {temp[i].type : i \in DOMAIN temp}
<1>1. CASE q.temp = p.temp /\ u = p.type
  BY <1>1, Zenon DEF Restored
<1>2. CASE q.temp = Append(p.temp, [type |-> u, mro |-> old[u]]) /\ u # p.type
  <2>1. e \in Saved /\ e.type = u /\ e.mro = old[u] /\ q.temp = Append(p.temp, e)
    BY <1>2 DEF Saved
  <2> HIDE DEF e
  <2>2. /\ \A i \in DOMAIN p.temp : i \in DOMAIN q.temp /\ q.temp[i] = p.temp[i]
        /\ Len(p.temp) + 1 \in DOMAIN q.temp /\ q.temp[Len(p.temp) + 1] = e
        /\ \A i \in DOMAIN q.temp : i = Len(p.temp) + 1 \/ i \in DOMAIN p.temp
        /\ Len(p.temp) + 1 \notin DOMAIN p.temp
    BY <2>1
  <2>3. Once(p.temp)
    BY <2>2 DEF Once
  <2>4. u \in Types(q.temp) /\ u \notin Types(p.temp)
    BY <2>1, <2>2, ZenonT(60) DEF Once
  <2>5. \A t : t # u => (t \in Types(q.temp) <=> t \in Types(p.temp))
    BY <2>1, <2>2
  <2>6. LastSaved(q.temp, u) = old[u]
    <3>1. LastSaved(q.temp, q.temp[Len(p.temp) + 1].type) = q.temp[Len(p.temp) + 1].mro
      BY <2>2, OnceSaved
    <3> QED BY <2>1, <2>2, <3>1
  <2>7. ASSUME NEW t, t \in Types(p.temp) PROVE LastSaved(q.temp, t) = LastSaved(p.temp, t)
    <3>1. PICK i \in DOMAIN p.temp : p.temp[i].type = t
      BY <2>7
    <3>2. LastSaved(p.temp, p.temp[i].type) = p.temp[i].mro
      BY <2>3, OnceSaved
    <3>3. i \in DOMAIN q.temp /\ q.temp[i] = p.temp[i]
      BY <2>2
    <3>4. LastSaved(q.temp, q.temp[i].type) = q.temp[i].mro
      BY <3>3, OnceSaved
    <3> QED BY <3>1, <3>2, <3>3, <3>4
  <2>8. ASSUME NEW t \in Type
        PROVE  (IF t = q.type THEN q.mro ELSE IF t \in Types(q.temp) THEN LastSaved(q.temp, t) ELSE new[t])
               = (IF t = p.type THEN p.mro ELSE IF t \in Types(p.temp) THEN LastSaved(p.temp, t) ELSE old[t])
    <3> HIDE DEF Types
    <3>1. CASE t = u
      BY <1>2, <2>4, <2>6, <3>1
    <3>2. CASE t # u
      BY <2>5, <2>7, <3>2
    <3> QED BY <3>1, <3>2
  <2>9. Restored(new, q) = Restored(old, p)
    BY <2>8 DEF Restored
  <2> QED BY <2>3, <2>9
<1> QED BY <1>1, <1>2

\* The new order of a type names the type that moves; only types below, which are pending now,
\* have it among their bases.
LEMMA PlaceAndUpdated ==
  ASSUME PlaceInv, "foreign" \notin Env, NEW a \in Actor, SetBases(a), pend[a].stack # <<>>,
         NEW u \in Top(pend[a].stack).left, NEW m \in Answers(u, tp_bases[u]), MroUpdated(a, u, m)
  PROVE  Placed' /\ OrdersGiven' /\ MoveInv' /\ RestoredInv' /\ RestoredSame(a)
<1> DEFINE p == pend[a]
           s == p.stack
           n == Len(s)
           q == [p EXCEPT
             !.stack = Append([s EXCEPT ![Len(s)].left = @ \ {u}], Level(u, tp_subclasses[u])),
             !.temp = IF Len(s) = 1 THEN @ ELSE Append(@, [type |-> u, mro |-> tp_mro[u]])]
           t0 == p.type
<1>1. /\ TypeOK /\ p \in BasesOps /\ p.op = "bases" /\ t0 \in Type /\ MoveOK(p)
      /\ p.temp \in Seq(Saved) /\ s \in Seq(Levels)
      /\ \A b \in Actor : pend[b].op = "bases" => b = a
      /\ \A t : Moving(t) <=> t = t0
      /\ \A t : Pending(t) <=> \E i \in DOMAIN s : t \in s[i].left
      /\ \A t \in live : /\ t \in Type /\ Members(tp_bases[t]) \subseteq live \ {t}
                         /\ Members(tp_mro[t]) \subseteq live
                         /\ tp_mro[t] # <<>> /\ tp_mro[t][1] = t /\ t \in Members(tp_mro[t])
                         /\ t # t0 => Linked(t, tp_bases[t])
      /\ Once(p.temp) => Proper(live, Restored(tp_mro, p), OldBases(tp_bases, p))
  BY PlaceInTheMiddle
<1>2. /\ u \in Type /\ q \in BasesOps
      /\ q.type = t0 /\ q.bases = p.bases /\ q.mro = p.mro
  BY <1>1, LevelMove DEF TypeOK
<1>3. /\ n \in Nat \ {0} /\ DOMAIN s = 1 .. n /\ DOMAIN q.stack = 1 .. n + 1
      /\ q.stack[n + 1].type = u /\ q.stack[n + 1].left = tp_subclasses[u]
      /\ \A i \in 1 .. n : /\ q.stack[i].type = s[i].type
                           /\ q.stack[i].left = IF i = n THEN s[i].left \ {u} ELSE s[i].left
      /\ q.temp = IF n = 1 THEN p.temp ELSE Append(p.temp, [type |-> u, mro |-> tp_mro[u]])
  <2> DEFINE below == tp_subclasses[u]
             r == Pushed(s, u, below)
  <2>1. s \in Seq(Levels) /\ s # <<>> /\ u \in Top(s).left /\ below \in SUBSET Type
    BY <1>1, <1>2 DEF TypeOK
  <2>2. /\ q.stack = r
        /\ q.temp = IF n = 1 THEN p.temp ELSE Append(p.temp, [type |-> u, mro |-> tp_mro[u]])
    BY <1>1 DEF BasesOps, Pushed
  <2> HIDE DEF q, s, below
  <2>3. PushedWell(s, r, u, below)
    BY <2>1, LevelPushed
  <2> HIDE DEF r, n
  <2> QED BY <2>2, <2>3 DEF below, n, PushedWell
<1>4. /\ tp_mro' = [tp_mro EXCEPT ![u] = m] /\ Becomes(a, q)
      /\ UNCHANGED <<live, tp_bases, tp_subclasses>>
  BY DEF MroUpdated, mro_internal
<1>5. pend'[a] = q /\ \A b \in Actor \ {a} : pend'[b] = pend[b]
  BY <1>1, <1>4, BecomesMeans DEF TypeOK
<1>6. q.op = "bases" /\ q.temp \in Seq(Saved)
  BY <1>2 DEF BasesOps
<1>7. u \in s[n].left
  BY DEF Top
<1> HIDE DEF q, s, n, p, t0
<1>8. \A b \in Actor : pend'[b].op = "bases" => b = a
  BY <1>1, <1>5
<1>9. tp_mro'[u] = m /\ \A t \in Type \ {u} : tp_mro'[t] = tp_mro[t]
  BY <1>1, <1>2, <1>4 DEF TypeOK
<1>10. /\ t0 \in live \ {Object} /\ Linked(t0, p.bases)
       /\ \A b \in Members(p.bases) \cup Members(tp_bases[t0]) : t0 \notin Members(tp_mro[b])
       /\ \A i \in 1 .. n : \A w \in s[i].left : w \in live /\ t0 \in Members(tp_mro[w])
       /\ \A i \in 1 .. n : i # 1 =>
            s[i].type \in live /\ t0 \in Members(tp_mro[s[i].type]) /\ s[i].left \subseteq tp_subclasses[s[i].type]
       /\ s[1].left \subseteq {t0}
  <2>1. s # <<>>
    BY DEF s, p
  <2> QED BY <1>1, <1>3, <2>1 DEF MoveOK, s, t0
<1>11. u \in live /\ t0 \in Members(tp_mro[u])
  BY <1>3, <1>7, <1>10
<1>12. u # Object
  BY <1>10, <1>11 DEF PlaceInv, Placed, Members
<1>13. u \notin Members(p.bases) /\ u \notin Members(tp_bases[t0])
  BY <1>10, <1>11
<1>14. /\ m \in Merges(u, tp_bases[u]) /\ m \in MergesIn(tp_mro, u, tp_bases[u])
       /\ m # <<>> /\ m[1] = u /\ u \in Members(m) /\ Members(tp_bases[u]) \subseteq Members(m)
       /\ \A b \in Members(tp_bases[u]) : Members(tp_mro[b]) \subseteq Members(m)
       /\ Members(m) \subseteq live
  <2>1. m \in Merges(u, tp_bases[u]) /\ tp_bases[u] \in Seq(Type)
    BY <1>1, <1>2, OnlyMerges DEF TypeOK
  <2>2. /\ m # <<>> /\ m[1] = u /\ u \in Members(m) /\ Members(tp_bases[u]) \subseteq Members(m)
        /\ \A b \in Members(tp_bases[u]) : Members(tp_mro[b]) \subseteq Members(m)
        /\ \A x \in Members(m) : x = u \/ x \in Members(tp_bases[u])
                                 \/ \E b \in Members(tp_bases[u]) : x \in Members(tp_mro[b])
    BY <1>1, <1>2, <2>1, GivenNames
  <2> QED BY <1>1, <1>11, <2>1, <2>2, MergesAre
<1>15. n # 1 => u # t0
  <2> SUFFICES ASSUME n # 1, u = t0 PROVE FALSE
    OBVIOUS
  <2> DEFINE x == s[n].type
  <2>1. x \in live /\ t0 \in Members(tp_mro[x]) /\ t0 \in tp_subclasses[x] /\ x \in Type
    BY <1>1, <1>3, <1>7, <1>10
  <2> QED BY <1>10, <2>1 DEF Linked
<1>16. n = 1 => u = t0
  BY <1>3, <1>7, <1>10
<1>17. t0 \in Members(m)
  <2>1. CASE u = t0
    BY <1>14, <2>1
  <2>2. CASE u # t0
    <3> DEFINE x == s[n].type
    <3>1. x \in live /\ t0 \in Members(tp_mro[x]) /\ u \in tp_subclasses[x] /\ x \in Type
      BY <1>1, <1>3, <1>7, <1>10, <1>16, <2>2
    <3>2. x \in Members(tp_bases[u])
      BY <1>1, <1>11, <2>2, <3>1 DEF Linked
    <3> QED BY <1>14, <3>1, <3>2
  <2> QED BY <2>1, <2>2
<1>18. \A w \in live : t0 \in Members(tp_mro[w]) => t0 \in Members(tp_mro'[w])
  BY <1>1, <1>9, <1>17
<1>19. \A w : Pending(w)' <=> w \in tp_subclasses[u] \/ \E i \in 1 .. n : w \in q.stack[i].left
  <2>1. \A w : Pending(w)' <=> \E i \in DOMAIN q.stack : w \in q.stack[i].left
    BY <1>5, <1>6, <1>8 DEF Pending
  <2>2. n + 1 \in DOMAIN q.stack /\ \A i \in DOMAIN q.stack : i = n + 1 \/ i \in 1 .. n
    BY <1>3
  <2>3. \A i \in 1 .. n : i \in DOMAIN q.stack
    BY <1>3
  <2> QED BY <1>3, <2>1, <2>2, <2>3
<1>20. \A w : w # u /\ Pending(w) => Pending(w)'
  <2> SUFFICES ASSUME NEW w, w # u, NEW i \in DOMAIN s, w \in s[i].left
               PROVE  \E j \in 1 .. n : w \in q.stack[j].left
    BY <1>1, <1>19
  <2>1. i \in 1 .. n /\ w \in q.stack[i].left
    BY <1>3
  <2> QED BY <2>1
<1>21. \A w : Moving(w)' <=> w = t0
  BY <1>2, <1>5, <1>6, <1>8 DEF Moving
<1>22. Placed'
  <2>1. tp_bases'[Object] = <<>> /\ tp_mro'[Object] = <<Object>> /\ Object \in live'
    BY <1>4, <1>9, <1>12, TypeAssumption DEF PlaceInv, Placed
  <2>2. ASSUME NEW w \in live'
        PROVE  /\ Members(tp_bases'[w]) \subseteq live' \ {w} /\ Members(tp_mro'[w]) \subseteq live'
               /\ tp_mro'[w] # <<>> /\ tp_mro'[w][1] = w
    BY <1>1, <1>4, <1>9, <1>14
  <2>3. ASSUME NEW w \in live', ~Moving(w)', NEW b \in Type
        PROVE  w \in tp_subclasses'[b] <=> b \in Members(tp_bases'[w])
    BY <1>1, <1>4, <1>21, <2>3 DEF Linked
  <2>4. \A b \in Type : tp_subclasses'[b] \subseteq live'
    BY <1>4 DEF PlaceInv, Placed
  <2> QED BY <2>1, <2>2, <2>3, <2>4, Zenon DEF Placed, Linked, Members
<1>23. OrdersGiven'
  <2> SUFFICES ASSUME NEW w \in live' \ {Object}
               PROVE  Pending(w)' \/ tp_mro'[w] \in MergesIn(tp_mro', w, tp_bases'[w])
    BY GivenNext
  <2>1. w \in live /\ w \in Type /\ tp_bases'[w] = tp_bases[w]
    BY <1>1, <1>4
  <2>2. CASE w = u
    <3>1. \A b \in Members(tp_bases[u]) : tp_mro'[b] = tp_mro[b]
      BY <1>1, <1>9, <1>11
    <3> QED BY <1>9, <1>14, <2>1, <2>2, <3>1, MergesLocal
  <2>3. CASE w # u /\ u \in Members(tp_bases[w])
    <3>1. w # t0 /\ Linked(w, tp_bases[w])
      BY <1>1, <1>13, <2>1, <2>3
    <3>2. w \in tp_subclasses[u]
      BY <1>2, <2>3, <3>1 DEF Linked
    <3> QED BY <1>19, <3>2
  <2>4. CASE w # u /\ u \notin Members(tp_bases[w])
    <3>1. CASE Pending(w)
      BY <1>20, <2>4, <3>1
    <3>2. CASE ~Pending(w)
      <4>1. tp_mro[w] \in MergesIn(tp_mro, w, tp_bases[w])
        BY <1>4, <3>2, MergesAre DEF PlaceInv, OrdersGiven
      <4>2. \A b \in Members(tp_bases[w]) : tp_mro'[b] = tp_mro[b]
        BY <1>1, <1>9, <2>1, <2>4
      <4> QED BY <1>9, <2>1, <2>4, <4>1, <4>2, MergesLocal
    <3> QED BY <3>1, <3>2
  <2> QED BY <2>2, <2>3, <2>4
<1>24. \A w \in tp_subclasses[u] : w \in live /\ t0 \in Members(tp_mro[w])
  <2> SUFFICES ASSUME NEW w \in tp_subclasses[u] PROVE w \in live /\ t0 \in Members(tp_mro[w])
    OBVIOUS
  <2>1. w \in live
    BY <1>2 DEF PlaceInv, Placed
  <2>2. CASE w = t0
    BY <1>1, <2>1, <2>2
  <2>3. CASE w # t0
    <3>1. u \in Members(tp_bases[w]) /\ w \in Type /\ tp_bases[w] \in Seq(Type)
      BY <1>1, <1>2, <2>1, <2>3 DEF Linked, TypeOK
    <3>2. CASE Pending(w)
      BY <1>1, <1>3, <1>10, <3>2
    <3>3. CASE ~Pending(w)
      <4>1. w # Object
        BY <3>1 DEF PlaceInv, Placed, Members
      <4>2. tp_mro[w] \in Merges(w, tp_bases[w])
        BY <2>1, <3>3, <4>1 DEF PlaceInv, OrdersGiven
      <4>3. Members(tp_mro[u]) \subseteq Members(tp_mro[w])
        BY <1>1, <3>1, <4>2, GivenNames
      <4> QED BY <1>11, <2>1, <4>3
    <3> QED BY <3>2, <3>3
  <2> QED BY <2>1, <2>2, <2>3
<1>25. MoveInv'
  <2>1. /\ q.type \in live' \ {Object}
        /\ \A b \in Type : q.type \in tp_subclasses'[b] <=> b \in Members(q.bases)
        /\ Members(q.bases) \subseteq live' \ {q.type}
    BY <1>1, <1>2, <1>4, <1>10 DEF Linked, MoveOK, t0
  <2>2. \A b \in Members(q.bases) \cup Members(tp_bases'[q.type]) : q.type \notin Members(tp_mro'[b])
    <3> SUFFICES ASSUME NEW b \in Members(p.bases) \cup Members(tp_bases[t0])
                 PROVE  t0 \notin Members(tp_mro'[b])
      BY <1>2, <1>4
    <3>1. b \in Type /\ b # u
      BY <1>1, <1>10, <1>13 DEF MoveOK
    <3> QED BY <1>9, <1>10, <3>1
  <2>3. \A i \in DOMAIN q.stack : i = n + 1 \/ i \in 1 .. n
    BY <1>3
  <2>4. ASSUME NEW i \in DOMAIN q.stack, NEW w \in q.stack[i].left
        PROVE  w \in live' /\ q.type \in Members(tp_mro'[w])
    <3>1. w \in live /\ t0 \in Members(tp_mro[w])
      <4>1. CASE i = n + 1
        BY <1>3, <1>24, <2>4, <4>1
      <4>2. CASE i \in 1 .. n
        <5>1. w \in s[i].left
          BY <1>3, <2>4, <4>2
        <5> QED BY <1>10, <4>2, <5>1
      <4> QED BY <2>3, <4>1, <4>2
    <3> QED BY <1>2, <1>4, <1>18, <3>1
  <2>5. ASSUME NEW i \in DOMAIN q.stack, i # 1
        PROVE  /\ q.stack[i].type \in live' /\ q.type \in Members(tp_mro'[q.stack[i].type])
               /\ q.stack[i].left \subseteq tp_subclasses'[q.stack[i].type]
    <3>1. CASE i = n + 1
      BY <1>2, <1>3, <1>4, <1>11, <1>18, <3>1
    <3>2. CASE i \in 1 .. n
      <4>1. /\ q.stack[i].type = s[i].type /\ q.stack[i].left \subseteq s[i].left
        BY <1>3, <3>2
      <4>2. s[i].type \in live /\ t0 \in Members(tp_mro[s[i].type]) /\ s[i].left \subseteq tp_subclasses[s[i].type]
        BY <1>10, <2>5, <3>2
      <4> QED BY <1>2, <1>4, <1>18, <4>1, <4>2
    <3> QED BY <2>3, <3>1, <3>2
  <2>6. q.stack[1].left \subseteq {q.type}
    <3>1. 1 \in 1 .. n
      BY <1>3
    <3>2. q.stack[1].left \subseteq s[1].left
      BY <1>3, <3>1
    <3> QED BY <1>2, <1>10, <3>2
  <2>7. MoveOK(pend[a])'
    <3> DEFINE r == pend'[a]
    <3>1. /\ r.type \in live' \ {Object}
          /\ \A b \in Type : r.type \in tp_subclasses'[b] <=> b \in Members(r.bases)
          /\ Members(r.bases) \subseteq live' \ {r.type}
          /\ \A b \in Members(r.bases) \cup Members(tp_bases'[r.type]) : r.type \notin Members(tp_mro'[b])
      BY <1>5, <2>1, <2>2
    <3>2. \A i \in DOMAIN r.stack : \A w \in r.stack[i].left : w \in live' /\ r.type \in Members(tp_mro'[w])
      BY <1>5, <2>4
    <3>3. \A i \in DOMAIN r.stack : i # 1 =>
            /\ r.stack[i].type \in live' /\ r.type \in Members(tp_mro'[r.stack[i].type])
            /\ r.stack[i].left \subseteq tp_subclasses'[r.stack[i].type]
      BY <1>5, <2>5
    <3>4. r.stack[1].left \subseteq {r.type}
      BY <1>5, <2>6
    <3> QED BY <3>1, <3>2, <3>3, <3>4, Zenon DEF MoveOK, Linked, Members
  <2> QED BY <1>8, <2>7 DEF MoveInv
<1>26. ASSUME Once(q.temp)
       PROVE  Once(p.temp) /\ Restored(tp_mro', q) = Restored(tp_mro, p)
  <2>1. \/ q.temp = p.temp /\ u = p.type
        \/ q.temp = Append(p.temp, [type |-> u, mro |-> tp_mro[u]]) /\ u # p.type
    BY <1>3, <1>15, <1>16 DEF t0
  <2>2. q.type = p.type /\ tp_mro \in [Type -> Seq(Type)]
    BY <1>1, <1>2 DEF t0, TypeOK
  <2>3. p.temp \in Seq(Saved) /\ q.mro = p.mro /\ \A t \in Type \ {u} : tp_mro'[t] = tp_mro[t]
    BY <1>1, <1>2, <1>9
  <2> QED BY <1>2, <1>6, <1>26, <2>1, <2>2, <2>3, RestoredStays, ZenonT(60)
<1>27. RestoredInv'
  <2>1. OldBases(tp_bases', q) = OldBases(tp_bases, p)
    BY <1>2, <1>4 DEF OldBases, t0
  <2> QED BY <1>1, <1>4, <1>5, <1>8, <1>26, <2>1, RestoredNext
<1>28. RestoredSame(a)
  BY <1>5, <1>26 DEF RestoredSame, p
<1> QED BY <1>22, <1>23, <1>25, <1>27, <1>28

\* Everything is put back, and the old bases are still linked.
LEMMA PlaceAndFailure ==
  ASSUME PlaceInv, NoneTwice, NEW a \in Actor, SetBases(a), NEW u \in Type, SetBasesFails(a, u)
  PROVE  Placed' /\ OrdersGiven' /\ MoveInv' /\ RestoredInv'
<1> DEFINE p == pend[a]
<1>1. /\ TypeOK /\ p.op = "bases" /\ p.type \in Type /\ MoveOK(p)
      /\ p.bases \in Seq(Type)
      /\ \A b \in Actor : pend[b].op = "bases" => b = a
      /\ \A t \in live : /\ t \in Type /\ Members(tp_bases[t]) \subseteq live \ {t}
                         /\ t # p.type => Linked(t, tp_bases[t])
      /\ Once(p.temp) => Proper(live, Restored(tp_mro, p), OldBases(tp_bases, p))
  BY PlaceInTheMiddle
<1>2. /\ Becomes(a, Idle) /\ UNCHANGED <<live, tp_subclasses>>
      /\ tp_bases' = OldBases(tp_bases, p) /\ tp_mro' = Restored(tp_mro, p)
  BY DEF SetBasesFails, OldBases, Restored
<1>3. NoBases'
  <2>1. pend'[a] = Idle /\ \A b \in Actor \ {a} : pend'[b] = pend[b]
    BY <1>1, <1>2, BecomesMeans DEF TypeOK
  <2> QED BY <1>1, <2>1 DEF NoBases, Idle
<1>4. Proper(live', tp_mro', tp_bases')
  <2>1. Once(p.temp)
    BY DEF NoneTwice
  <2> HIDE DEF p
  <2> QED BY <1>1, <1>2, <2>1
<1> HIDE DEF p
<1>8. /\ tp_mro'[Object] = <<Object>>
      /\ \A w \in live' : /\ Members(tp_mro'[w]) \subseteq live'
                          /\ tp_mro'[w] # <<>> /\ tp_mro'[w][1] = w
                          /\ w # Object => tp_mro'[w] \in MergesIn(tp_mro', w, tp_bases'[w])
  BY <1>4, Zenon DEF Proper
<1>5. tp_bases'[p.type] = p.bases /\ \A t \in Type : t # p.type => tp_bases'[t] = tp_bases[t]
  BY <1>1, <1>2 DEF OldBases, TypeOK
<1>6. OrdersGiven'
  <2>1. ASSUME NEW w \in live' \ {Object}
        PROVE  tp_mro'[w] \in MergesIn(tp_mro', w, tp_bases'[w])
    BY <1>8, <2>1
  <2> QED BY <1>3, <2>1, PlaceHereNext
<1>7. Placed'
  <2>1. tp_bases'[Object] = <<>> /\ tp_mro'[Object] = <<Object>> /\ Object \in live'
    BY <1>1, <1>2, <1>5, <1>8, TypeAssumption DEF PlaceInv, Placed, MoveOK
  <2>2. ASSUME NEW w \in live'
        PROVE  /\ Members(tp_bases'[w]) \subseteq live' \ {w} /\ Members(tp_mro'[w]) \subseteq live'
               /\ tp_mro'[w] # <<>> /\ tp_mro'[w][1] = w
    <3>1. Members(tp_mro'[w]) \subseteq live' /\ tp_mro'[w] # <<>> /\ tp_mro'[w][1] = w
      BY <1>8
    <3>2. w \in live /\ w \in Type /\ live' = live
      BY <1>1, <1>2
    <3>3. Members(p.bases) \subseteq live \ {p.type}
      BY <1>1 DEF MoveOK
    <3>4. CASE w = p.type
      <4>1. tp_bases'[w] = p.bases
        BY <1>5, <3>4
      <4> QED BY <3>1, <3>2, <3>3, <3>4, <4>1
    <3>5. CASE w # p.type
      <4>1. tp_bases'[w] = tp_bases[w]
        BY <1>5, <3>2, <3>5
      <4> QED BY <1>1, <3>1, <3>2, <4>1
    <3> QED BY <3>4, <3>5
  <2>3. ASSUME NEW w \in live', NEW b \in Type
        PROVE  w \in tp_subclasses'[b] <=> b \in Members(tp_bases'[w])
    <3>1. CASE w = p.type
      BY <1>1, <1>2, <1>5, <3>1 DEF MoveOK, Linked
    <3>2. CASE w # p.type
      BY <1>1, <1>2, <1>5, <3>2 DEF Linked
    <3> QED BY <3>1, <3>2
  <2>4. \A b \in Type : tp_subclasses'[b] \subseteq live'
    BY <1>2 DEF PlaceInv, Placed
  <2> QED BY <2>1, <2>2, <2>3, <2>4, Zenon DEF Placed, Linked, Members
<1> QED BY <1>3, <1>6, <1>7, PlaceHereNext

\* Nothing is pending any more, and the type is linked to its new bases alone.
LEMMA PlaceAndEnd ==
  ASSUME PlaceInv, NEW a \in Actor, SetBases(a), SetBasesEnds(a)
  PROVE  Placed' /\ OrdersGiven' /\ MoveInv' /\ RestoredInv'
<1> DEFINE p == pend[a]
           t == p.type
           without(b) == IF b \in Members(p.bases) THEN tp_subclasses[b] \ {t} ELSE tp_subclasses[b]
<1>1. /\ TypeOK /\ p.op = "bases" /\ p.type \in Type /\ MoveOK(p)
      /\ \A b \in Actor : pend[b].op = "bases" => b = a
      /\ \A w : Pending(w) <=> \E i \in DOMAIN p.stack : w \in p.stack[i].left
      /\ \A w \in live : /\ w \in Type /\ Members(tp_bases[w]) \subseteq live \ {w}
                         /\ Members(tp_mro[w]) \subseteq live
                         /\ tp_mro[w] # <<>> /\ tp_mro[w][1] = w
                         /\ w # p.type => Linked(w, tp_bases[w])
  BY PlaceInTheMiddle
<1>2. /\ Becomes(a, Idle) /\ UNCHANGED <<live, tp_bases, tp_mro>> /\ p.stack = <<>>
      /\ tp_subclasses' = [b \in Type |-> IF b \in Members(tp_bases[t]) THEN without(b) \cup {t}
                                          ELSE without(b)]
  BY DEF SetBasesEnds
<1>3. NoBases'
  <2>1. pend'[a] = Idle /\ \A b \in Actor \ {a} : pend'[b] = pend[b]
    BY <1>1, <1>2, BecomesMeans DEF TypeOK
  <2> QED BY <1>1, <2>1 DEF NoBases, Idle
<1>4. \A b \in Type : \A w : /\ w # t => (w \in tp_subclasses'[b] <=> w \in tp_subclasses[b])
                             /\ t \in tp_subclasses'[b] <=>
                                  b \in Members(tp_bases[t])
                                  \/ (t \in tp_subclasses[b] /\ b \notin Members(p.bases))
  BY <1>2
<1>5. /\ t \in live \ {Object} /\ \A b \in Type : t \in tp_subclasses[b] <=> b \in Members(p.bases)
  BY <1>1 DEF MoveOK, Linked
<1>6. \A w : ~Pending(w)
  BY <1>1, <1>2
<1> HIDE DEF p, t, without
<1>7. OrdersGiven'
  <2>1. ASSUME NEW w \in live' \ {Object}
        PROVE  tp_mro'[w] \in MergesIn(tp_mro', w, tp_bases'[w])
    BY <1>2, <1>6, <2>1, MergesAre DEF PlaceInv, OrdersGiven
  <2> QED BY <1>3, <2>1, PlaceHereNext
<1>8. Placed'
  <2>1. tp_bases'[Object] = <<>> /\ tp_mro'[Object] = <<Object>> /\ Object \in live'
    BY <1>2 DEF PlaceInv, Placed
  <2>2. ASSUME NEW w \in live'
        PROVE  /\ Members(tp_bases'[w]) \subseteq live' \ {w} /\ Members(tp_mro'[w]) \subseteq live'
               /\ tp_mro'[w] # <<>> /\ tp_mro'[w][1] = w
    BY <1>1, <1>2
  <2>3. ASSUME NEW w \in live', NEW b \in Type
        PROVE  w \in tp_subclasses'[b] <=> b \in Members(tp_bases'[w])
    <3>1. CASE w = t
      BY <1>2, <1>4, <1>5, <3>1
    <3>2. CASE w # t
      BY <1>1, <1>2, <1>4, <3>2 DEF Linked, t
    <3> QED BY <3>1, <3>2
  <2>4. \A b \in Type : tp_subclasses'[b] \subseteq live'
    <3>1. \A b \in Type : tp_subclasses[b] \subseteq live
      BY DEF PlaceInv, Placed
    <3> QED BY <1>2, <1>4, <1>5, <3>1
  <2> QED BY <2>1, <2>2, <2>3, <2>4, Zenon DEF Placed, Linked, Members
<1> QED BY <1>3, <1>7, <1>8, PlaceHereNext
-----------------------------------------------------------------------------
LEMMA StepPlace ==
  ASSUME "foreign" \notin Env, PlaceInv, [Next]_vars, [NoneTwice]_vars PROVE PlaceInv'
<1>1. TypeInv'
  BY StepTypes DEF PlaceInv
<1>2. CASE UNCHANGED vars
  <2>1. UNCHANGED hierVars /\ SameMoves
    BY <1>2 DEF vars, SameMoves
  <2> QED BY <1>1, <2>1, PlaceAndQuiet DEF PlaceInv
<1>3. CASE PyType_ClearCache
  <2>1. UNCHANGED hierVars /\ SameMoves
    BY <1>3 DEF PyType_ClearCache, SameMoves
  <2> QED BY <1>1, <2>1, PlaceAndQuiet DEF PlaceInv
<1>4. ASSUME NEW a \in Actor, Attributes(a) \/ update_slot(a) \/ SetModuleEnds(a) \/ Lookups(a)
      PROVE  PlaceInv'
  <2>1. UNCHANGED hierVars /\ SameMoves
    BY <1>4, QuietMoves DEF PlaceInv
  <2> QED BY <1>1, <2>1, PlaceAndQuiet DEF PlaceInv
<1>5. ASSUME NEW a \in Actor, Classes(a) PROVE PlaceInv'
  <2>1. PICK t \in Type, bases \in UNION {BaseChoices[u] : u \in Type} :
          /\ bases \in BaseChoices[t] /\ Members(bases) \subseteq live
          /\ \/ /\ t \notin live
                /\ \E m \in Answers(t, bases), d \in [Name -> Value \cup {NoValue}] :
                     type_new(a, t, bases, m, d)
             \/ type_set_bases(a, t, bases)
    BY <1>5 DEF Classes
  <2>2. Placed' /\ OrdersGiven' /\ MoveInv' /\ RestoredInv'
    BY <2>1, PlaceAndNew, PlaceAndMove
  <2> QED BY <1>1, <2>2 DEF PlaceInv
<1>6. ASSUME NEW a \in Actor, NEW t \in Type, type_dealloc(a, t) PROVE PlaceInv'
  BY <1>1, <1>6, PlaceAndDealloc DEF PlaceInv
<1>7. ASSUME NEW a \in Actor, SetBases(a), ~UNCHANGED vars PROVE PlaceInv'
  <2>1. \/ /\ pend[a].stack # <<>>
           /\ \E u \in Top(pend[a].stack).left :
                (\E m \in Answers(u, tp_bases[u]) : MroUpdated(a, u, m)) \/ SetBasesFails(a, u)
        \/ MroLevelDone(a) \/ SetBasesEnds(a)
    BY <1>7, Zenon DEF SetBases
  <2>2. NoneTwice
    BY <1>7
  <2>3. ASSUME NEW u \in Top(pend[a].stack).left, pend[a].stack # <<>> PROVE u \in Type
    <3>1. TypeOK /\ pend[a].stack \in Seq(Levels)
      BY <1>7, PlaceInTheMiddle
    <3>2. Top(pend[a].stack) \in Levels
      BY <2>3, <3>1, Stack
    <3> QED BY <2>3, <3>2 DEF Levels
  <2>4. Placed' /\ OrdersGiven' /\ MoveInv' /\ RestoredInv'
    <3>1. CASE MroLevelDone(a) \/ SetBasesEnds(a)
      BY <1>7, <3>1, PlaceAndLevel, PlaceAndEnd
    <3>2. ASSUME NEW u \in Top(pend[a].stack).left, pend[a].stack # <<>>,
                 NEW m \in Answers(u, tp_bases[u]), MroUpdated(a, u, m)
          PROVE  Placed' /\ OrdersGiven' /\ MoveInv' /\ RestoredInv'
      BY <1>7, <3>2, PlaceAndUpdated
    <3>3. ASSUME NEW u \in Top(pend[a].stack).left, pend[a].stack # <<>>, SetBasesFails(a, u)
          PROVE  Placed' /\ OrdersGiven' /\ MoveInv' /\ RestoredInv'
      <4>1. u \in Type
        BY <2>3, <3>3
      <4> QED BY <1>7, <2>2, <3>3, <4>1, PlaceAndFailure
    <3> QED BY <2>1, <3>1, <3>2, <3>3
  <2> QED BY <1>1, <2>4 DEF PlaceInv
<1> QED BY <1>2, <1>3, <1>4, <1>5, <1>6, <1>7 DEF Next

LEMMA InitPlace == Init => PlaceInv
<1> SUFFICES ASSUME Init PROVE PlaceInv
  OBVIOUS
<1>1. TypeInv /\ NoBases
  BY InitTypes DEF Init, NoBases, Idle
<1>2. Members(<<>>) = {} /\ Members(<<Object>>) = {Object} /\ <<Object>> # <<>> /\ <<Object>>[1] = Object
  BY DEF Members
<1>3. /\ live = {Object} /\ tp_bases[Object] = <<>> /\ tp_mro[Object] = <<Object>>
      /\ \A b \in Type : tp_subclasses[b] = {}
  BY TypeAssumption DEF Init
<1>4. Placed
  BY <1>2, <1>3 DEF Placed, Linked
<1>5. OrdersGiven
  BY <1>3 DEF OrdersGiven
<1> QED BY <1>1, <1>4, <1>5, PlaceHere DEF PlaceInv

\* When no assignment to __bases__ is under way, the order of every type is one that its bases
\* give it: what type_set_bases computed, or what it put back (mro_subclasses, and the loop
\* after bail).  It is so for the orders that type.mro() computes, and as long as no
\* assignment fails that has treated a type twice.
THEOREM OrdersAlwaysCurrent ==
  ASSUME "foreign" \notin Env
  PROVE  Spec /\ [][NoneTwice]_vars => []OrdersCurrent
<1>1. Init => PlaceInv
  BY InitPlace
<1>2. PlaceInv /\ [Next]_vars /\ [NoneTwice]_vars => PlaceInv'
  BY StepPlace
<1>3. PlaceInv => OrdersCurrent
  BY SettledHere, PlaceHere DEF PlaceInv, OrdersCurrent
<1> QED BY <1>1, <1>2, <1>3, PTL DEF Spec

-----------------------------------------------------------------------------
(* The entries of the method cache.  An entry that a type could answer     *)
(* with is what a walk over its order finds, unless an attribute is being  *)
(* written that the type inherits.  The tag of a type in the middle of     *)
(* assign_version_tag is in no entry yet.                                  *)

Writing(t) == \E a \in Actor : pend[a].op = "set" /\ pend[a].type \in Members(tp_mro[t])

TagsPositive == \A t \in Type : Tagged(t) => tp_version_tag[t] # 0
EntriesTagged == \A k \in Slot : method_cache[k].name # NoValue =>
  /\ method_cache[k].version < next_version_tag
  /\ \A t \in Type : OnStack(t) => method_cache[k].version # tp_version_tag[t]
EntriesCurrent == \A k \in Slot : \A n \in Name : \A t \in valid :
  /\ method_cache[k].name = n /\ method_cache[k].version = tp_version_tag[t]
  /\ ~Writing(t)
  => method_cache[k].value = Find(t, n)
Counted == Tag0 <= next_version_tag
Entries == TagsPositive /\ EntriesTagged /\ EntriesCurrent /\ Counted

\* What a walk finds for a type with a valid tag stays, unless a write to what the type inherits
\* begins.
SameAnswers == \A t \in valid' : t \in valid /\ ~Writing(t)' =>
  ~Writing(t) /\ \A n \in Name : Find(t, n)' = Find(t, n)

\* In the middle of an assignment to __bases__ the types whose order has changed have no
\* valid tag.
ValidKept == \A a \in Actor : pend[a].op = "bases" /\ Once(pend[a].temp) =>
               \A t \in valid : tp_mro[t] = Restored(tp_mro, pend[a])[t]

\* __module__ is written when no valid tag depends on it.
ModuleTold == \A a \in Actor : pend[a].op = "module" =>
                \A t \in valid : pend[a].type \notin Members(tp_mro[t])

\* The walk p has found nothing so far.
WalkOK(p) == /\ p.type \in live /\ p.mro = tp_mro[p.type] /\ p.pos \in Nat \ {0}
             /\ \A i \in DOMAIN p.mro : i < p.pos => tp_dict[p.mro[i]][p.name] = NoValue

\* The type t of a lookup is yet to get a tag, or getting it, or has it; or it was the first
\* to get a tag, when that is 0, which goes to no other type.
Reaching(s, t, v, tag, next) ==
  \/ s[1].left = <<t>>
  \/ /\ s[1].left = <<>>
     /\ t \in v \/ (Len(s) > 1 /\ s[2].type = t) \/ (Len(s) = 1 /\ tag[t] = 0 /\ next # 0 /\ Tag0 = 0)
TagOK(p) == /\ p.type \in live /\ p.value = Find(p.type, p.name)
            /\ Reaching(p.stack, p.type, valid, tp_version_tag, next_version_tag)
LookupsOK == \A a \in Actor : /\ pend[a].op = "walk" => WalkOK(pend[a])
                              /\ pend[a].op = "tag" => TagOK(pend[a])

Midway == ValidKept /\ ModuleTold /\ LookupsOK
FreshInv == OrderInv /\ TagsDistinct /\ PlaceInv /\ Entries /\ Midway

\* The comparison of two keys of a dictionary runs no Python code, and mro() answers what
\* type.mro() computes.
Plainly == Undisturbed /\ TagsLast /\ "compare" \notin Env /\ "foreign" \notin Env
-----------------------------------------------------------------------------
(* What a walk finds *)

\* FindIn(order, dict, t, n) is Find when the orders and dictionaries are those.
FindIn(order, dict, t, n) ==
  LET holders == {i \in DOMAIN order[t] : dict[order[t][i]][n] # NoValue}
  IN  IF holders = {} THEN NoValue
      ELSE dict[order[t][CHOOSE i \in holders : \A j \in holders : i <= j]][n]

LEMMA FindNext ==
  \A t, n : /\ Find(t, n) = FindIn(tp_mro, tp_dict, t, n)
            /\ Find(t, n)' = FindIn(tp_mro', tp_dict', t, n)
BY Zenon DEF Find, Holders, FindIn

\* The same order and the same dictionaries in it make the same answer.
LEMMA FindSame ==
  ASSUME NEW t, NEW n, tp_mro[t] \in Seq(Type), tp_mro'[t] = tp_mro[t],
         \A x \in Members(tp_mro[t]) : tp_dict'[x][n] = tp_dict[x][n]
  PROVE  Find(t, n)' = Find(t, n)
<1> DEFINE H == {i \in DOMAIN tp_mro[t] : tp_dict[tp_mro[t][i]][n] # NoValue}
           J == {i \in DOMAIN tp_mro'[t] : tp_dict'[tp_mro'[t][i]][n] # NoValue}
           k == CHOOSE i \in H : \A j \in H : i <= j
<1>1. \A i \in DOMAIN tp_mro[t] : tp_dict'[tp_mro[t][i]][n] = tp_dict[tp_mro[t][i]][n]
  BY DEF Members
<1>2. J = H
  BY <1>1
<1>3. Find(t, n) = IF H = {} THEN NoValue ELSE tp_dict[tp_mro[t][k]][n]
  BY DEF Find, Holders
<1>4. Find(t, n)' = IF J = {} THEN NoValue
                    ELSE tp_dict'[tp_mro'[t][CHOOSE i \in J : \A j \in J : i <= j]][n]
  BY FindNext DEF FindIn
<1>5. Find(t, n)' = IF H = {} THEN NoValue ELSE tp_dict'[tp_mro[t][k]][n]
  BY <1>2, <1>4, Zenon
<1>6. H # {} => k \in H
  <2>1. H \in SUBSET Nat
    OBVIOUS
  <2> HIDE DEF H
  <2> QED BY <2>1, LeastIndex
<1> HIDE DEF H, k
<1>7. CASE H = {}
  BY <1>3, <1>5, <1>7
<1>8. CASE H # {}
  <2>1. k \in DOMAIN tp_mro[t]
    BY <1>6, <1>8 DEF H
  <2> QED BY <1>1, <1>3, <1>5, <1>8, <2>1
<1> QED BY <1>7, <1>8

\* A walk that has found nothing before place k finds what is there.
LEMMA FindIs ==
  ASSUME TypeOK, NEW t \in Type, NEW n \in Name, NEW k \in Nat \ {0},
         \A i \in DOMAIN tp_mro[t] : i < k => tp_dict[tp_mro[t][i]][n] = NoValue,
         k \in DOMAIN tp_mro[t] => tp_dict[tp_mro[t][k]][n] # NoValue
  PROVE  Find(t, n) = IF k \in DOMAIN tp_mro[t] THEN tp_dict[tp_mro[t][k]][n] ELSE NoValue
<1> DEFINE H == Holders(t, n)
           c == CHOOSE i \in H : \A j \in H : i <= j
<1>1. /\ tp_mro[t] \in Seq(Type) /\ H \in SUBSET Nat
      /\ \A i \in H : i \in DOMAIN tp_mro[t] /\ i \in Nat /\ tp_dict[tp_mro[t][i]][n] # NoValue
  BY SMTT(30) DEF TypeOK, Holders
<1>2. Find(t, n) = IF H = {} THEN NoValue ELSE tp_dict[tp_mro[t][c]][n]
  BY DEF Find
<1>3. k \in DOMAIN tp_mro[t] <=> k \in H
  BY DEF Holders
<1>4. \A i \in H : k <= i
  BY <1>1
<1>5. H # {} => c \in H /\ \A j \in H : c <= j
  <2> HIDE DEF H
  <2> QED BY <1>1, LeastIndex
<1> HIDE DEF H, c
<1>6. CASE k \in DOMAIN tp_mro[t]
  <2>1. k \in H /\ c \in H /\ c <= k /\ k <= c
    BY <1>3, <1>4, <1>5, <1>6
  <2>2. c = k
    BY <1>1, <2>1
  <2> QED BY <1>2, <1>6, <2>1, <2>2
<1>7. CASE k \notin DOMAIN tp_mro[t]
  <2>1. ASSUME NEW i \in H PROVE FALSE
    <3>1. i \in Nat /\ k <= i /\ i \in 1 .. Len(tp_mro[t]) /\ Len(tp_mro[t]) \in Nat
      BY <1>1, <1>4, <2>1
    <3>2. k \in DOMAIN tp_mro[t]
      BY <1>1, <3>1
    <3> QED BY <1>7, <3>2
  <2> QED BY <1>2, <1>7, <2>1
<1> QED BY <1>6, <1>7
-----------------------------------------------------------------------------
(* Who else may be in the middle of something *)

LEMMA OnlyMine ==
  ASSUME TypeInv, Plainly, NEW a \in Actor, CanRun(a) \/ ~RunsPython(pend[a])
  PROVE  \A b \in Actor \ {a} : pend[b].op \in {"idle", "set"}
<1>1. \A b \in Actor \ {a} : RunsPython(pend[b])
  BY DEF TypeInv, OneBusy, CanRun
<1> QED BY <1>1 DEF RunsPython, Plainly, Undisturbed

LEMMA MidwayFree ==
  ASSUME \A b \in Actor : pend'[b].op \in {"idle", "set"}
  PROVE  Midway'
BY DEF Midway, ValidKept, ModuleTold, LookupsOK

LEMMA EndsFree ==
  ASSUME TypeInv, Plainly, NEW a \in Actor, CanRun(a) \/ ~RunsPython(pend[a]), NEW p, Becomes(a, p),
         p.op \in {"idle", "set"}
  PROVE  Midway'
<1>1. pend'[a] = p /\ \A b \in Actor \ {a} : pend'[b] = pend[b]
  BY BecomesMeans DEF TypeInv, TypeOK
<1>2. \A b \in Actor \ {a} : pend[b].op \in {"idle", "set"}
  BY OnlyMine
<1> QED BY <1>1, <1>2, MidwayFree

LEMMA StaysFree ==
  ASSUME TypeInv, Plainly, NEW a \in Actor, Starts(a), UNCHANGED pend
  PROVE  Midway'
<1>1. pend[a].op = "idle" /\ CanRun(a)
  BY DEF Starts, Idle
<1> QED BY <1>1, OnlyMine, MidwayFree

\* An operation that is not seen: the others are not in one.
LEMMA LookMidway ==
  ASSUME TypeInv, Plainly, NEW a \in Actor, CanRun(a) \/ ~RunsPython(pend[a]), NEW p, Becomes(a, p),
         p.op \in {"walk", "tag"}, p.op = "walk" => WalkOK(pend[a])', p.op = "tag" => TagOK(pend[a])'
  PROVE  Midway'
<1>1. pend'[a] = p /\ \A b \in Actor \ {a} : pend'[b] = pend[b]
  BY BecomesMeans DEF TypeInv, TypeOK
<1>2. \A b \in Actor \ {a} : pend'[b].op \in {"idle", "set"}
  BY <1>1, OnlyMine
<1> QED BY <1>1, <1>2 DEF Midway, ValidKept, ModuleTold, LookupsOK
-----------------------------------------------------------------------------
(* Steps that change no entry *)

LEMMA EntriesStay ==
  ASSUME Entries, UNCHANGED tagVars, ShortStacks', valid' \subseteq valid, valid \subseteq Type,
         SameAnswers
  PROVE  Entries'
<1>1. /\ tp_version_tag' = tp_version_tag /\ next_version_tag' = next_version_tag
      /\ method_cache' = method_cache
  BY DEF tagVars
<1>2. \A t \in Type : ~OnStack(t)'
  BY ShortStacksTagless
<1>3. TagsPositive'
  BY <1>1, <1>2 DEF Entries, TagsPositive, Tagged
<1>4. EntriesTagged'
  BY <1>1, <1>2 DEF Entries, EntriesTagged
<1>5. EntriesCurrent'
  <2> SUFFICES ASSUME NEW k \in Slot, NEW n \in Name, NEW t \in valid',
                      method_cache'[k].name = n, method_cache'[k].version = tp_version_tag'[t],
                      ~Writing(t)'
               PROVE  method_cache'[k].value = Find(t, n)'
    BY DEF EntriesCurrent
  <2>1. ~Writing(t) /\ Find(t, n)' = Find(t, n) /\ t \in valid
    BY DEF SameAnswers
  <2>2. method_cache[k].value = Find(t, n)
    BY <1>1, <2>1 DEF Entries, EntriesCurrent
  <2> QED BY <1>1, <2>1, <2>2
<1>6. Counted'
  BY <1>1 DEF Entries, Counted
<1> QED BY <1>3, <1>4, <1>5, <1>6 DEF Entries

\* Nobody starts or ends a write, and the orders and the dictionaries stay.
LEMMA NothingWritten ==
  ASSUME TypeOK, UNCHANGED <<tp_mro, tp_dict>>, NEW t \in Type,
         \A b \in Actor : /\ pend'[b].op = "set" <=> pend[b].op = "set"
                          /\ pend[b].op = "set" => pend'[b] = pend[b]
  PROVE  /\ Writing(t)' <=> Writing(t)
         /\ \A n \in Name : Find(t, n)' = Find(t, n)
<1>1. \A n \in Name : Find(t, n)' = Find(t, n)
  <2>1. tp_mro[t] \in Seq(Type) /\ tp_mro' = tp_mro /\ tp_dict' = tp_dict
    BY DEF TypeOK
  <2> QED BY <2>1, FindSame
<1>2. tp_mro' = tp_mro
  OBVIOUS
<1>3. Writing(t)' => Writing(t)
  BY <1>2 DEF Writing, Members
<1>4. Writing(t) => Writing(t)'
  BY <1>2 DEF Writing, Members
<1> QED BY <1>1, <1>3, <1>4
-----------------------------------------------------------------------------
(* PyType_Modified tells all types that inherit from x. *)

LEMMA Told ==
  ASSUME OrderInv, PlaceInv, NoBases, NEW x \in Type, PyType_Modified(x, valid)
  PROVE  \A u \in valid' : x \notin Members(tp_mro[u])
<1> DEFINE gone == Gone(x, valid)
           N(u) == Cardinality(Members(tp_mro[u]))
           Bad == {u \in valid \ gone : x \in Members(tp_mro[u])}
           Sizes == {N(u) : u \in Bad}
<1>1. valid' = valid \ gone
  BY DEF PyType_Modified
<1>2. /\ TypeOK /\ valid \subseteq live /\ valid \subseteq Type /\ live \subseteq Type
      /\ \A u \in live : BasesGood(u, tp_bases[u])
  BY BasesInvHere DEF OrderInv, TypeInv, TypeOK
<1>3. /\ \A u \in live \ {Object} : tp_mro[u] \in Merges(u, tp_bases[u])
      /\ tp_mro[Object] = <<Object>> /\ Object \in live
      /\ \A u \in live : /\ Members(tp_bases[u]) \subseteq live \ {u}
                         /\ tp_mro[u] \in Seq(Type) /\ tp_mro[u] # <<>> /\ tp_mro[u][1] = u
                         /\ tp_bases[u] \in Seq(Type)
  BY <1>2, PlaceHere DEF PlaceInv, Placed, TypeOK
<1>4. \A u \in live : Members(tp_mro[u]) \subseteq Type /\ IsFiniteSet(Members(tp_mro[u])) /\ N(u) \in Nat
  <2> SUFFICES ASSUME NEW u \in live
               PROVE  Members(tp_mro[u]) \subseteq Type /\ IsFiniteSet(Members(tp_mro[u])) /\ N(u) \in Nat
    OBVIOUS
  <2>1. Members(tp_mro[u]) \subseteq Type
    BY <1>3 DEF Members
  <2>2. IsFiniteSet(Members(tp_mro[u]))
    BY <2>1, FS_Subset, TypeAssumption
  <2> QED BY <2>1, <2>2, FS_CardinalityType
<1>5. ASSUME NEW u \in Bad, \A w \in Bad : N(u) <= N(w) PROVE FALSE
  <2>1. u \in valid /\ u \notin gone /\ x \in Members(tp_mro[u]) /\ u \in live /\ u \in Type
    BY <1>2
  <2>2. u # x
    BY <2>1, GoneFirst
  <2>3. u # Object
    BY <1>3, <2>1, <2>2 DEF Members
  <2>4. tp_mro[u] \in Merges(u, tp_bases[u])
    BY <1>3, <2>1, <2>3
  <2>5. /\ \A b \in Members(tp_bases[u]) : Members(tp_mro[b]) \subseteq Members(tp_mro[u])
        /\ x \in Members(tp_bases[u]) \/ \E b \in Members(tp_bases[u]) : x \in Members(tp_mro[b])
    BY <1>2, <1>3, <2>1, <2>2, <2>4, GivenNames
  <2>6. PICK b \in Members(tp_bases[u]) : x \in Members(tp_mro[b])
    <3>1. \A b \in Members(tp_bases[u]) : b \in Members(tp_mro[b])
      BY <1>3, <2>1, FirstIsMember
    <3> QED BY <2>5, <3>1
  <2>7. b \in live /\ b # u /\ b \in valid /\ u \in tp_subclasses[b] /\ b \in Type
    BY <1>2, <1>3, <2>1, <2>6 DEF BasesGood
  <2>8. b \notin gone
    BY <1>2, <2>1, <2>7, GoneClosed
  <2>9. b \in Bad
    BY <2>6, <2>7, <2>8
  <2>10. u \notin Members(tp_mro[b])
    <3>1. tp_mro[u] \in MergesIn(tp_mro, u, tp_bases[u])
      BY <2>4, MergesAre
    <3> QED BY <1>3, <2>1, <2>6, <2>7, <3>1, NotAbove
  <2>11. u \in Members(tp_mro[u]) /\ Members(tp_mro[b]) \subseteq Members(tp_mro[u])
    BY <1>3, <2>1, <2>5, <2>6, FirstIsMember
  <2>12. N(b) < N(u)
    <3>1. /\ IsFiniteSet(Members(tp_mro[u])) /\ Members(tp_mro[b]) \in SUBSET Members(tp_mro[u])
          /\ Members(tp_mro[b]) # Members(tp_mro[u]) /\ N(b) \in Nat /\ N(u) \in Nat
      BY <1>4, <2>1, <2>7, <2>10, <2>11
    <3>2. N(b) <= N(u) /\ N(b) # N(u)
      BY <3>1, FS_Subset, Zenon
    <3> QED BY <3>1, <3>2
  <2> QED BY <1>4, <1>5, <2>1, <2>7, <2>9, <2>12
<1>6. Bad = {}
  <2> SUFFICES ASSUME Bad # {} PROVE FALSE
    OBVIOUS
  <2>1. Sizes \in SUBSET Nat /\ Sizes # {}
    BY <1>2, <1>4
  <2>2. PICK i \in Sizes : \A j \in Sizes : i <= j
    <3> HIDE DEF Sizes
    <3> QED BY <2>1, LeastIndex
  <2>3. PICK u \in Bad : N(u) = i
    OBVIOUS
  <2>4. \A w \in Bad : N(u) <= N(w)
    BY <2>2, <2>3
  <2> HIDE DEF Bad, N
  <2> QED BY <1>5, <2>4
<1> QED BY <1>1, <1>6
-----------------------------------------------------------------------------
(* The steps, one after the other *)

LEMMA FreshMeans ==
  ASSUME FreshInv
  PROVE  /\ TypeInv /\ TypeOK /\ OrderInv /\ PlaceInv /\ TagsDistinct /\ Entries /\ Midway
         /\ valid \subseteq live /\ live \subseteq Type
         /\ \A t \in live : Members(tp_mro[t]) \subseteq live /\ tp_mro[t] \in Seq(Type)
BY DEF FreshInv, OrderInv, TypeInv, TypeOK, PlaceInv, Placed

LEMMA KeptNext ==
  ValidKept' <=> \A b \in Actor : pend'[b].op = "bases" /\ Once(pend'[b].temp) =>
                   \A t \in valid' : tp_mro'[t] = Restored(tp_mro', pend'[b])[t]
BY Zenon DEF ValidKept, Once, Restored, LastSaved

LEMMA OnlyBases ==
  ASSUME NEW a \in Actor, \A b \in Actor : pend'[b].op \in {"bases", "idle", "set"} /\ (pend'[b].op = "bases" => b = a),
         Once(pend'[a].temp) => \A t \in valid' : tp_mro'[t] = Restored(tp_mro', pend'[a])[t]
  PROVE  Midway'
<1>1. ValidKept'
  BY KeptNext
<1> QED BY <1>1 DEF Midway, ModuleTold, LookupsOK

LEMMA FreshAndNew ==
  ASSUME FreshInv, Plainly, NEW a \in Actor, NEW t \in Type \ live, NEW bases, NEW m, NEW d,
         type_new(a, t, bases, m, d)
  PROVE  Entries' /\ Midway' /\ SameAnswers
<1>1. Starts(a) /\ UNCHANGED <<tagVars, hearVars, pend>>
  BY DEF type_new
<1>2. \A u \in Type \ {t} : tp_mro'[u] = tp_mro[u] /\ tp_dict'[u] = tp_dict[u]
  BY FreshMeans DEF type_new, TypeOK
<1>3. Midway'
  BY <1>1, FreshMeans, StaysFree
<1>4. UNCHANGED tagVars /\ valid' \subseteq valid /\ ShortStacks'
  BY <1>1, FreshMeans, NobodyTags DEF hearVars
<1>5. ASSUME NEW u \in valid', ~Writing(u)'
      PROVE  ~Writing(u) /\ \A n \in Name : Find(u, n)' = Find(u, n)
  <2>1. /\ u \in live /\ u \in Type /\ u # t /\ tp_mro[u] \in Seq(Type)
        /\ t \notin Members(tp_mro[u]) /\ Members(tp_mro[u]) \subseteq Type
    BY <1>4, FreshMeans
  <2>2. tp_mro'[u] = tp_mro[u] /\ \A x \in Members(tp_mro[u]) : tp_dict'[x] = tp_dict[x]
    BY <1>2, <2>1
  <2>3. \A n \in Name : Find(u, n)' = Find(u, n)
    BY <2>1, <2>2, FindSame
  <2>4. Writing(u) => Writing(u)'
    BY <1>1, <2>2 DEF Writing, Members
  <2> QED BY <1>5, <2>3, <2>4
<1>6. SameAnswers
  BY <1>5 DEF SameAnswers
<1>7. Entries'
  BY <1>4, <1>6, FreshMeans, EntriesStay
<1> QED BY <1>3, <1>6, <1>7

\* Everybody is idle, and nothing live names the type.
LEMMA FreshAndDealloc ==
  ASSUME FreshInv, Plainly, NEW a \in Actor, NEW t \in Type, type_dealloc(a, t)
  PROVE  Entries' /\ Midway' /\ SameAnswers
<1>1. Starts(a) /\ UNCHANGED <<tagVars, pend>> /\ \A b \in Actor : pend[b] = Idle
  BY DEF type_dealloc, Unused
<1>2. \A u \in Type \ {t} : tp_mro'[u] = tp_mro[u] /\ tp_dict'[u] = tp_dict[u]
  BY FreshMeans DEF type_dealloc, TypeOK
<1>3. Midway'
  BY <1>1, FreshMeans, StaysFree
<1>4. UNCHANGED tagVars /\ valid' \subseteq valid \ {t} /\ ShortStacks'
  BY <1>1, FreshMeans, NobodyTags, TypesAndDealloc
<1>5. ASSUME NEW u \in valid', ~Writing(u)'
      PROVE  ~Writing(u) /\ \A n \in Name : Find(u, n)' = Find(u, n)
  <2>1. u \in live /\ u \in Type /\ u # t /\ tp_mro[u] \in Seq(Type) /\ Members(tp_mro[u]) \subseteq Type
    BY <1>4, FreshMeans
  <2>2. t \notin Members(tp_mro[u])
    BY <2>1 DEF type_dealloc, Unused
  <2>3. tp_mro'[u] = tp_mro[u] /\ \A x \in Members(tp_mro[u]) : tp_dict'[x] = tp_dict[x]
    BY <1>2, <2>1, <2>2
  <2>4. \A n \in Name : Find(u, n)' = Find(u, n)
    BY <2>1, <2>3, FindSame
  <2>5. ~Writing(u)
    BY <1>1 DEF Writing, Idle
  <2> QED BY <2>4, <2>5
<1>6. SameAnswers
  BY <1>5 DEF SameAnswers
<1>7. Entries'
  BY <1>4, <1>6, FreshMeans, EntriesStay
<1> QED BY <1>3, <1>6, <1>7

\* Nothing has been put aside yet.
LEMMA FreshAndMove ==
  ASSUME FreshInv, Plainly, NEW a \in Actor, NEW t \in Type, NEW bases \in BaseChoices[t],
         Members(bases) \subseteq live, type_set_bases(a, t, bases)
  PROVE  Entries' /\ Midway' /\ SameAnswers
<1> DEFINE p == [op |-> "bases", type |-> t, bases |-> tp_bases[t], mro |-> tp_mro[t],
                 stack |-> <<Level(NoType, {t})>>, temp |-> <<>>]
<1>1. /\ Starts(a) /\ Becomes(a, p) /\ p.op = "bases" /\ CanRun(a) /\ pend[a].op = "idle"
      /\ UNCHANGED <<tp_mro, tp_dict, tagVars, hearVars>>
  BY DEF type_set_bases, Starts, Idle
<1>2. Restored(tp_mro', pend'[a]) = tp_mro
  BY FreshMeans, PlaceAndMove
<1> HIDE DEF p
<1>3. pend'[a] = p /\ \A b \in Actor \ {a} : pend'[b] = pend[b] /\ pend[b].op \in {"idle", "set"}
  BY <1>1, FreshMeans, BecomesMeans, OnlyMine DEF TypeOK
<1>4. ShortStacks'
  BY <1>1, FreshMeans, SoloTag
<1>5. \A u \in Type : /\ Writing(u)' <=> Writing(u)
                      /\ \A n \in Name : Find(u, n)' = Find(u, n)
  <2>1. \A b \in Actor : /\ pend'[b].op = "set" <=> pend[b].op = "set"
                         /\ pend[b].op = "set" => pend'[b] = pend[b]
    BY <1>1, <1>3
  <2> QED BY <1>1, <2>1, FreshMeans, NothingWritten
<1>6. SameAnswers
  BY <1>1, <1>5, FreshMeans DEF SameAnswers, hearVars
<1>7. Entries'
  BY <1>1, <1>4, <1>6, FreshMeans, EntriesStay DEF hearVars
<1>8. Midway'
  <2>1. \A b \in Actor : pend'[b].op \in {"bases", "idle", "set"} /\ (pend'[b].op = "bases" => b = a)
    BY <1>1, <1>3
  <2>2. \A u : tp_mro'[u] = Restored(tp_mro', pend'[a])[u]
    BY <1>1, <1>2
  <2> QED BY <2>1, <2>2, OnlyBases
<1> QED BY <1>6, <1>7, <1>8
-----------------------------------------------------------------------------
(* Attributes *)

\* The types that inherit from the type are being written.
LEMMA FreshAndSet ==
  ASSUME FreshInv, Plainly, NEW a \in Actor, NEW t \in Type, NEW n \in Name, NEW v,
         type_setattro(a, t, n, v)
  PROVE  Entries' /\ Midway' /\ SameAnswers
<1> DEFINE p == [op |-> "set", type |-> t]
<1>1. /\ Starts(a) /\ Becomes(a, p) /\ p.op = "set" /\ p.type = t /\ CanRun(a) /\ pend[a].op = "idle"
      /\ UNCHANGED <<tp_mro, tagVars, hearVars>>
  BY DEF type_setattro, Starts, Idle, hierVars
<1>2. \A x \in Type \ {t} : tp_dict'[x] = tp_dict[x]
  BY FreshMeans DEF type_setattro, Write, TypeOK
<1> HIDE DEF p
<1>3. pend'[a] = p /\ \A b \in Actor \ {a} : pend'[b] = pend[b]
  BY <1>1, FreshMeans, BecomesMeans DEF TypeOK
<1>4. ShortStacks'
  BY <1>1, FreshMeans, SoloTag
<1>5. Midway'
  BY <1>1, FreshMeans, EndsFree
<1>6. ASSUME NEW u \in valid', ~Writing(u)'
      PROVE  ~Writing(u) /\ \A k \in Name : Find(u, k)' = Find(u, k)
  <2>1. u \in live /\ tp_mro[u] \in Seq(Type) /\ Members(tp_mro[u]) \subseteq Type /\ tp_mro' = tp_mro
    BY <1>1, FreshMeans DEF hearVars
  <2>2. t \notin Members(tp_mro[u])
    BY <1>1, <1>3, <1>6, <2>1 DEF Writing, Members
  <2>3. \A x \in Members(tp_mro[u]) : tp_dict'[x] = tp_dict[x]
    BY <1>2, <2>1, <2>2
  <2>4. \A k \in Name : Find(u, k)' = Find(u, k)
    BY <2>1, <2>3, FindSame
  <2>5. Writing(u) => Writing(u)'
    BY <1>1, <1>3, <2>1 DEF Writing, Members
  <2> QED BY <1>6, <2>4, <2>5
<1>7. SameAnswers
  BY <1>6 DEF SameAnswers
<1>8. Entries'
  BY <1>1, <1>4, <1>7, FreshMeans, EntriesStay DEF hearVars
<1> QED BY <1>5, <1>7, <1>8

\* The types that inherit from the type have lost their tags.
LEMMA FreshAndSlot ==
  ASSUME FreshInv, Plainly, NEW a \in Actor, update_slot(a)
  PROVE  Entries' /\ Midway' /\ SameAnswers
<1> DEFINE x == pend[a].type
<1>1. /\ Becomes(a, Idle) /\ Idle.op = "idle" /\ CanRun(a) /\ pend[a].op = "set"
      /\ UNCHANGED <<tp_mro, tp_dict, tagVars>> /\ PyType_Modified(x, valid) /\ TypeInv /\ TypeOK
  BY FreshMeans DEF update_slot, Idle, hierVars
<1>2. x \in Type
  <2>1. pend[a] \in SetOps
    BY <1>1, Kinds DEF TypeOK
  <2> QED BY <2>1 DEF SetOps
<1>3. pend'[a] = Idle /\ \A b \in Actor \ {a} : pend'[b] = pend[b] /\ pend[b].op \in {"idle", "set"}
  BY <1>1, BecomesMeans, OnlyMine DEF TypeOK
<1>4. ShortStacks' /\ NoBases
  BY <1>1, <1>3, SoloTag DEF NoBases
<1>5. Midway'
  BY <1>1, EndsFree
<1>6. valid' \subseteq valid /\ \A u \in valid' : x \notin Members(tp_mro[u])
  BY <1>1, <1>2, <1>4, FreshMeans, Told DEF PyType_Modified
<1>7. ASSUME NEW u \in valid', ~Writing(u)'
      PROVE  ~Writing(u) /\ \A n \in Name : Find(u, n)' = Find(u, n)
  <2>1. u \in live /\ tp_mro[u] \in Seq(Type) /\ tp_mro' = tp_mro /\ tp_dict' = tp_dict
    BY <1>1, <1>6, FreshMeans
  <2>2. \A n \in Name : Find(u, n)' = Find(u, n)
    BY <2>1, FindSame
  <2>3. Writing(u) => Writing(u)'
    BY <1>3, <1>6, <2>1 DEF Writing, Members
  <2> QED BY <1>7, <2>2, <2>3
<1>8. SameAnswers
  BY <1>7 DEF SameAnswers
<1>9. Entries'
  BY <1>1, <1>4, <1>6, <1>8, FreshMeans, EntriesStay
<1> QED BY <1>5, <1>8, <1>9

LEMMA FreshAndModule ==
  ASSUME FreshInv, Plainly, NEW a \in Actor, NEW t \in Type, NEW n, NEW v, type_set_module(a, t, n, v)
  PROVE  Entries' /\ Midway' /\ SameAnswers
<1> DEFINE p == [op |-> "module", type |-> t, name |-> n, value |-> v]
<1>1. /\ Starts(a) /\ Becomes(a, p) /\ p.op = "module" /\ p.type = t /\ CanRun(a) /\ pend[a].op = "idle"
      /\ UNCHANGED <<tp_mro, tp_dict, tagVars>> /\ PyType_Modified(t, valid) /\ TypeInv /\ TypeOK
  BY FreshMeans DEF type_set_module, Starts, Idle, hierVars
<1> HIDE DEF p
<1>2. pend'[a] = p /\ \A b \in Actor \ {a} : pend'[b] = pend[b] /\ pend[b].op \in {"idle", "set"}
  BY <1>1, BecomesMeans, OnlyMine DEF TypeOK
<1>3. ShortStacks' /\ NoBases
  BY <1>1, <1>2, SoloTag DEF NoBases
<1>4. valid' \subseteq valid /\ \A u \in valid' : t \notin Members(tp_mro[u])
  BY <1>1, <1>3, FreshMeans, Told DEF PyType_Modified
<1>5. \A u \in Type : /\ Writing(u)' <=> Writing(u)
                      /\ \A k \in Name : Find(u, k)' = Find(u, k)
  <2>1. \A b \in Actor : /\ pend'[b].op = "set" <=> pend[b].op = "set"
                         /\ pend[b].op = "set" => pend'[b] = pend[b]
    BY <1>1, <1>2
  <2> QED BY <1>1, <2>1, NothingWritten
<1>6. SameAnswers
  BY <1>4, <1>5, FreshMeans DEF SameAnswers
<1>7. Entries'
  BY <1>1, <1>3, <1>4, <1>6, FreshMeans, EntriesStay
<1>8. Midway'
  <2>1. \A b \in Actor : pend'[b].op \in {"module", "idle", "set"} /\ (pend'[b].op = "module" => b = a)
    BY <1>1, <1>2
  <2>2. \A u \in valid' : pend'[a].type \notin Members(tp_mro'[u])
    BY <1>1, <1>2, <1>4
  <2> QED BY <2>1, <2>2, Zenon DEF Midway, ValidKept, ModuleTold, LookupsOK, Members
<1> QED BY <1>6, <1>7, <1>8

LEMMA FreshAndModuleEnd ==
  ASSUME FreshInv, Plainly, NEW a \in Actor, SetModuleEnds(a)
  PROVE  Entries' /\ Midway' /\ SameAnswers
<1> DEFINE t == pend[a].type
<1>1. /\ Becomes(a, Idle) /\ Idle.op = "idle" /\ CanRun(a) /\ pend[a].op = "module"
      /\ UNCHANGED <<tp_mro, tagVars, hearVars>> /\ TypeInv /\ TypeOK
      /\ \A u \in valid : t \notin Members(tp_mro[u])
  BY FreshMeans DEF SetModuleEnds, Idle, hierVars, Midway, ModuleTold
<1>2. \A x \in Type \ {t} : tp_dict'[x] = tp_dict[x]
  BY <1>1 DEF SetModuleEnds, Write, TypeOK
<1>3. pend'[a] = Idle /\ \A b \in Actor \ {a} : pend'[b] = pend[b]
  BY <1>1, BecomesMeans DEF TypeOK
<1>4. ShortStacks'
  BY <1>1, SoloTag
<1>5. Midway'
  BY <1>1, EndsFree
<1>6. ASSUME NEW u \in valid', ~Writing(u)'
      PROVE  ~Writing(u) /\ \A n \in Name : Find(u, n)' = Find(u, n)
  <2>1. /\ u \in live /\ tp_mro[u] \in Seq(Type) /\ Members(tp_mro[u]) \subseteq Type
        /\ t \notin Members(tp_mro[u]) /\ tp_mro' = tp_mro
    BY <1>1, FreshMeans DEF hearVars
  <2>2. \A x \in Members(tp_mro[u]) : tp_dict'[x] = tp_dict[x]
    BY <1>2, <2>1
  <2>3. \A n \in Name : Find(u, n)' = Find(u, n)
    BY <2>1, <2>2, FindSame
  <2>4. Writing(u) => Writing(u)'
    BY <1>1, <1>3, <2>1 DEF Writing, Members
  <2> QED BY <1>6, <2>3, <2>4
<1>7. SameAnswers
  BY <1>6 DEF SameAnswers
<1>8. Entries'
  BY <1>1, <1>4, <1>7, FreshMeans, EntriesStay DEF hearVars
<1> QED BY <1>5, <1>7, <1>8

LEMMA FreshAndAttributes ==
  ASSUME FreshInv, Plainly, NEW a \in Actor, Attributes(a) \/ update_slot(a) \/ SetModuleEnds(a)
  PROVE  Entries' /\ Midway' /\ SameAnswers
<1>1. CASE Attributes(a)
  <2>1. PICK t \in Type, n \in Name, v \in Value :
          \/ type_setattro(a, t, n, v) \/ type_setattro(a, t, n, NoValue) \/ type_set_module(a, t, n, v)
    BY <1>1 DEF Attributes
  <2> QED BY <2>1, FreshAndSet, FreshAndModule
<1> QED BY <1>1, FreshAndSlot, FreshAndModuleEnd
-----------------------------------------------------------------------------
(* An assignment to __bases__ *)

\* What is common to its steps.
LEMMA FreshInTheMiddle ==
  ASSUME FreshInv, Plainly, NEW a \in Actor, SetBases(a)
  PROVE  /\ TypeInv /\ TypeOK /\ PlaceInv /\ pend[a].op = "bases" /\ CanRun(a)
         /\ \A b \in Actor \ {a} : pend[b].op \in {"idle", "set"}
         /\ UNCHANGED tagVars /\ UNCHANGED tp_dict /\ valid' \subseteq valid /\ ShortStacks'
<1>1. TypeInv /\ TypeOK /\ PlaceInv /\ pend[a].op = "bases" /\ CanRun(a)
  BY FreshMeans DEF SetBases, InBases
<1>2. valid' \subseteq valid /\ ShortStacks'
  BY <1>1, HierarchyQuietly
<1>3. UNCHANGED tagVars /\ UNCHANGED tp_dict
  BY DEF SetBases, MroUpdated, SetBasesFails, MroLevelDone, SetBasesEnds
<1> QED BY <1>1, <1>2, <1>3, OnlyMine

\* The orders of the types that keep their tags stay.
LEMMA EntriesInTheMiddle ==
  ASSUME FreshInv, Plainly, NEW a \in Actor, SetBases(a), \A u \in valid' : tp_mro'[u] = tp_mro[u],
         NEW p, Becomes(a, p), p.op # "set"
  PROVE  Entries' /\ SameAnswers
<1>1. /\ TypeInv /\ TypeOK /\ pend[a].op = "bases" /\ UNCHANGED tagVars /\ tp_dict' = tp_dict
      /\ valid' \subseteq valid /\ ShortStacks'
  BY FreshInTheMiddle
<1>2. pend'[a] = p /\ \A b \in Actor \ {a} : pend'[b] = pend[b]
  BY <1>1, BecomesMeans DEF TypeOK
<1>3. ASSUME NEW u \in valid', ~Writing(u)'
      PROVE  ~Writing(u) /\ \A n \in Name : Find(u, n)' = Find(u, n)
  <2>1. u \in live /\ tp_mro[u] \in Seq(Type) /\ tp_mro'[u] = tp_mro[u]
    BY <1>1, FreshMeans
  <2>2. \A n \in Name : Find(u, n)' = Find(u, n)
    BY <1>1, <2>1, FindSame
  <2>3. Writing(u) => Writing(u)'
    BY <1>1, <1>2, <2>1 DEF Writing, Members
  <2> QED BY <1>3, <2>2, <2>3
<1>4. SameAnswers
  BY <1>3 DEF SameAnswers
<1> QED BY <1>1, <1>4, FreshMeans, EntriesStay

LEMMA FreshAndLevel ==
  ASSUME FreshInv, Plainly, NEW a \in Actor, SetBases(a), MroLevelDone(a)
  PROVE  Entries' /\ Midway' /\ SameAnswers
<1> DEFINE q == [pend[a] EXCEPT !.stack = PopLast(pend[a].stack)]
<1>1. /\ TypeOK /\ PlaceInv /\ pend[a].op = "bases" /\ valid' \subseteq valid
      /\ \A b \in Actor \ {a} : pend[b].op \in {"idle", "set"}
  BY FreshInTheMiddle
<1>2. Becomes(a, q) /\ tp_mro' = tp_mro
  BY DEF MroLevelDone, hierVars
<1>3. q.op = "bases"
  <2>1. pend[a] \in BasesOps
    BY <1>1, Kinds DEF TypeOK
  <2> QED BY <1>1, <2>1 DEF BasesOps
<1> HIDE DEF q
<1>4. pend'[a] = q /\ \A b \in Actor \ {a} : pend'[b] = pend[b]
  BY <1>1, <1>2, BecomesMeans DEF TypeOK
<1>5. Once(pend'[a].temp) => Once(pend[a].temp) /\ Restored(tp_mro', pend'[a]) = Restored(tp_mro, pend[a])
  BY <1>1, PlaceAndLevel DEF RestoredSame
<1>6. Once(pend'[a].temp) => \A u \in valid' : tp_mro'[u] = Restored(tp_mro', pend'[a])[u]
  BY <1>1, <1>2, <1>5, FreshMeans DEF Midway, ValidKept
<1>7. Midway'
  <2>1. \A b \in Actor : pend'[b].op \in {"bases", "idle", "set"} /\ (pend'[b].op = "bases" => b = a)
    BY <1>1, <1>3, <1>4
  <2> QED BY <1>6, <2>1, OnlyBases
<1>8. Entries' /\ SameAnswers
  BY <1>2, <1>3, EntriesInTheMiddle
<1> QED BY <1>7, <1>8

\* The type whose order changes loses its tag.
LEMMA FreshAndUpdated ==
  ASSUME FreshInv, Plainly, NEW a \in Actor, SetBases(a), pend[a].stack # <<>>,
         NEW u \in Top(pend[a].stack).left, NEW m \in Answers(u, tp_bases[u]), MroUpdated(a, u, m)
  PROVE  Entries' /\ Midway' /\ SameAnswers
<1> DEFINE p == pend[a]
           s == p.stack
           q == [p EXCEPT
             !.stack = Append([s EXCEPT ![Len(s)].left = @ \ {u}], Level(u, tp_subclasses[u])),
             !.temp = IF Len(s) = 1 THEN @ ELSE Append(@, [type |-> u, mro |-> tp_mro[u]])]
<1>1. /\ TypeOK /\ PlaceInv /\ p.op = "bases" /\ valid' \subseteq valid
      /\ \A b \in Actor \ {a} : pend[b].op \in {"idle", "set"}
  BY FreshInTheMiddle
<1>2. p \in BasesOps
  BY <1>1, Kinds DEF TypeOK
<1>3. u \in Type /\ q \in BasesOps
  BY <1>1, <1>2, LevelMove DEF TypeOK
<1>4. q.op = "bases"
  BY <1>3 DEF BasesOps
<1>5. Becomes(a, q) /\ tp_mro' = [tp_mro EXCEPT ![u] = m]
  BY DEF MroUpdated, mro_internal
<1>6. u \notin valid'
  <2> DEFINE v == IF u \in have /\ KeepsTag(m, m, have) /\ KeepsTag(m, tp_bases[u], have) THEN valid ELSE valid \ {u}
  <2>1. PyType_Modified(u, v) /\ v \in SUBSET Type
    BY <1>1 DEF MroUpdated, mro_internal, TypeOK
  <2> HIDE DEF v
  <2> QED BY <1>1, <1>3, <2>1, ModifiedMeans DEF TypeOK
<1> HIDE DEF q
<1>7. pend'[a] = q /\ \A b \in Actor \ {a} : pend'[b] = pend[b]
  BY <1>1, <1>5, BecomesMeans DEF TypeOK
<1>8. Once(pend'[a].temp) => Once(p.temp) /\ Restored(tp_mro', pend'[a]) = Restored(tp_mro, p)
  BY <1>1, PlaceAndUpdated DEF RestoredSame, Plainly
<1>9. \A w \in valid' : tp_mro'[w] = tp_mro[w]
  BY <1>1, <1>5, <1>6 DEF TypeOK
<1>10. Once(pend'[a].temp) => \A w \in valid' : tp_mro'[w] = Restored(tp_mro', pend'[a])[w]
  BY <1>1, <1>8, <1>9, FreshMeans DEF Midway, ValidKept
<1>11. Midway'
  <2>1. \A b \in Actor : pend'[b].op \in {"bases", "idle", "set"} /\ (pend'[b].op = "bases" => b = a)
    BY <1>1, <1>4, <1>7
  <2> QED BY <1>10, <2>1, OnlyBases
<1>12. Entries' /\ SameAnswers
  BY <1>4, <1>5, <1>9, EntriesInTheMiddle
<1> QED BY <1>11, <1>12

\* What is put back is what the types with valid tags have.
LEMMA FreshAndFailure ==
  ASSUME FreshInv, Plainly, NoneTwice, NEW a \in Actor, SetBases(a), NEW u \in Type, SetBasesFails(a, u)
  PROVE  Entries' /\ Midway' /\ SameAnswers
<1>1. /\ TypeInv /\ pend[a].op = "bases" /\ CanRun(a) /\ Once(pend[a].temp)
  BY FreshInTheMiddle DEF NoneTwice
<1>2. Becomes(a, Idle) /\ Idle.op = "idle" /\ tp_mro' = Restored(tp_mro, pend[a]) /\ valid' = valid
  BY DEF SetBasesFails, Restored, hearVars, Idle
<1>3. \A w \in valid' : tp_mro'[w] = tp_mro[w]
  BY <1>1, <1>2, FreshMeans DEF Midway, ValidKept
<1>4. Entries' /\ SameAnswers
  BY <1>2, <1>3, EntriesInTheMiddle
<1> QED BY <1>1, <1>2, <1>4, EndsFree

LEMMA FreshAndEnd ==
  ASSUME FreshInv, Plainly, NEW a \in Actor, SetBases(a), SetBasesEnds(a)
  PROVE  Entries' /\ Midway' /\ SameAnswers
<1>1. TypeInv /\ CanRun(a)
  BY FreshInTheMiddle
<1>2. Becomes(a, Idle) /\ Idle.op = "idle" /\ tp_mro' = tp_mro
  BY DEF SetBasesEnds, Idle
<1>3. Entries' /\ SameAnswers
  BY <1>2, EntriesInTheMiddle
<1> QED BY <1>1, <1>2, <1>3, EndsFree

LEMMA FreshAndBases ==
  ASSUME FreshInv, Plainly, NoneTwice, NEW a \in Actor, SetBases(a)
  PROVE  Entries' /\ Midway' /\ SameAnswers
<1>1. \/ /\ pend[a].stack # <<>>
         /\ \E u \in Top(pend[a].stack).left :
              (\E m \in Answers(u, tp_bases[u]) : MroUpdated(a, u, m)) \/ SetBasesFails(a, u)
      \/ MroLevelDone(a) \/ SetBasesEnds(a)
  BY Zenon DEF SetBases
<1>2. ASSUME NEW u \in Top(pend[a].stack).left, pend[a].stack # <<>> PROVE u \in Type
  <2>1. pend[a].stack \in Seq(Levels)
    BY FreshMeans, PlaceInTheMiddle
  <2>2. Top(pend[a].stack) \in Levels
    BY <1>2, <2>1, Stack
  <2> QED BY <1>2, <2>2 DEF Levels
<1>3. CASE MroLevelDone(a) \/ SetBasesEnds(a)
  BY <1>3, FreshAndLevel, FreshAndEnd
<1>4. ASSUME NEW u \in Top(pend[a].stack).left, pend[a].stack # <<>>,
             NEW m \in Answers(u, tp_bases[u]), MroUpdated(a, u, m)
      PROVE  Entries' /\ Midway' /\ SameAnswers
  BY <1>4, FreshAndUpdated
<1>5. ASSUME NEW u \in Top(pend[a].stack).left, pend[a].stack # <<>>, SetBasesFails(a, u)
      PROVE  Entries' /\ Midway' /\ SameAnswers
  <2>1. u \in Type
    BY <1>2, <1>5
  <2> QED BY <1>5, <2>1, FreshAndFailure
<1> QED BY <1>1, <1>3, <1>4, <1>5
-----------------------------------------------------------------------------
(* Lookups *)

LEMMA TagNext == \A a : TagOK(pend[a])' <=>
  LET p == pend'[a]
  IN  /\ p.type \in live' /\ p.value = FindIn(tp_mro', tp_dict', p.type, p.name)
      /\ Reaching(p.stack, p.type, valid', tp_version_tag', next_version_tag')
BY Zenon DEF TagOK, Reaching, Find, Holders, FindIn

\* A lookup that is started or goes on, or is done without being cached.
LEMMA EntriesAndLooks ==
  ASSUME FreshInv, NEW a \in Actor, Looks(a), UNCHANGED <<tp_dict, tagVars>>,
         \A b \in Actor : /\ pend'[b].op = "set" <=> pend[b].op = "set"
                          /\ pend[b].op = "set" => pend'[b] = pend[b]
  PROVE  Entries' /\ SameAnswers
<1>1. UNCHANGED <<hierVars, valid>> /\ ShortStacks'
  BY FreshMeans, LooksQuietly
<1>2. \A u \in Type : /\ Writing(u)' <=> Writing(u)
                      /\ \A n \in Name : Find(u, n)' = Find(u, n)
  <2>1. UNCHANGED <<tp_mro, tp_dict>>
    BY <1>1 DEF hierVars
  <2> QED BY <2>1, FreshMeans, NothingWritten
<1>3. SameAnswers
  BY <1>1, <1>2, FreshMeans DEF SameAnswers
<1> QED BY <1>1, <1>3, FreshMeans, EntriesStay

LEMMA FreshAndStart ==
  ASSUME FreshInv, Plainly, NEW a \in Actor, NEW t \in Type, NEW n \in Name, NEW c \in Code \cup {NoCode},
         LookupHits(a, t, n, c) \/ LookupMisses(a, t, n, c)
  PROVE  Entries' /\ Midway' /\ SameAnswers
<1>1. Looks(a) /\ TypeInv /\ TypeOK
  BY FreshMeans DEF Looks
<1>2. CASE LookupHits(a, t, n, c)
  <2>1. Starts(a) /\ UNCHANGED pend /\ UNCHANGED <<tp_dict, tagVars>>
    BY <1>2 DEF LookupHits
  <2> QED BY <1>1, <2>1, StaysFree, EntriesAndLooks
<1>3. CASE LookupMisses(a, t, n, c)
  <2> DEFINE p == [op |-> "walk", type |-> t, name |-> n, code |-> c, mro |-> tp_mro[t], pos |-> 1]
  <2>1. /\ Becomes(a, p) /\ CanRun(a) /\ pend[a].op = "idle" /\ t \in live
        /\ UNCHANGED <<hierVars, tp_dict, tagVars>>
    BY <1>3 DEF LookupMisses, Starts, Idle
  <2>2. /\ p.op = "walk" /\ p.type = t /\ p.name = n /\ p.mro = tp_mro[t] /\ p.pos = 1
    OBVIOUS
  <2> HIDE DEF p
  <2>3. pend'[a] = p /\ \A b \in Actor \ {a} : pend'[b] = pend[b]
    BY <1>1, <2>1, BecomesMeans DEF TypeOK
  <2>4. WalkOK(pend[a])'
    <3>1. \A i \in DOMAIN tp_mro[t] : ~(i < 1)
      BY <2>1, FreshMeans
    <3> QED BY <2>1, <2>2, <2>3, <3>1 DEF WalkOK, hierVars
  <2>5. Midway'
    BY <1>1, <2>1, <2>2, <2>4, LookMidway
  <2>6. Entries' /\ SameAnswers
    BY <1>1, <2>1, <2>2, <2>3, EntriesAndLooks
  <2> QED BY <2>5, <2>6
<1> QED BY <1>2, <1>3

LEMMA FreshAndWalk ==
  ASSUME FreshInv, Plainly, NEW a \in Actor, LookupWalks(a)
  PROVE  Entries' /\ Midway' /\ SameAnswers
<1> DEFINE p == pend[a]
           v == IF p.pos \in DOMAIN p.mro THEN tp_dict[p.mro[p.pos]][p.name] ELSE NoValue
           q == [p EXCEPT !.pos = p.pos + 1]
           r == [op |-> "tag", type |-> p.type, name |-> p.name, code |-> p.code,
                 value |-> v, stack |-> <<Frame(NoType, <<p.type>>)>>]
<1>1. /\ Looks(a) /\ TypeInv /\ TypeOK /\ p.op = "walk" /\ CanRun(a) /\ WalkOK(p)
      /\ UNCHANGED <<hierVars, tp_dict, tagVars>>
  BY FreshMeans DEF Looks, LookupWalks, Midway, LookupsOK
<1>2. \/ v = NoValue /\ p.pos \in DOMAIN p.mro /\ Becomes(a, q)
      \/ ~(v = NoValue /\ p.pos \in DOMAIN p.mro) /\ Becomes(a, r)
      \/ Becomes(a, Idle)
  BY DEF LookupWalks
<1>3. p \in WalkOps
  BY <1>1, Kinds DEF TypeOK
<1>4. /\ p.type \in Type /\ p.name \in Name /\ p.type \in live /\ p.mro = tp_mro[p.type]
      /\ p.pos \in Nat \ {0}
      /\ \A i \in DOMAIN p.mro : i < p.pos => tp_dict[p.mro[i]][p.name] = NoValue
  BY <1>1, <1>3 DEF WalkOps, WalkOK
<1>5. /\ q.op = "walk" /\ q.type = p.type /\ q.name = p.name /\ q.mro = p.mro /\ q.pos = p.pos + 1
  BY <1>3 DEF WalkOps
<1>6. /\ r.op = "tag" /\ r.type = p.type /\ r.name = p.name /\ r.value = v
      /\ r.stack[1].left = <<p.type>> /\ Len(r.stack) = 1
  BY DEF Frame
<1>7. Idle.op = "idle"
  BY DEF Idle
<1> HIDE DEF q, r
<1>8. ASSUME NEW x, Becomes(a, x), x.op # "set" PROVE Entries' /\ SameAnswers
  <2>1. pend'[a] = x /\ \A b \in Actor \ {a} : pend'[b] = pend[b]
    BY <1>1, <1>8, BecomesMeans DEF TypeOK
  <2>2. \A b \in Actor : /\ pend'[b].op = "set" <=> pend[b].op = "set"
                         /\ pend[b].op = "set" => pend'[b] = pend[b]
    BY <1>1, <1>8, <2>1
  <2> HIDE DEF p, v
  <2> QED BY <1>1, <2>2, EntriesAndLooks
<1>9. CASE v = NoValue /\ p.pos \in DOMAIN p.mro /\ Becomes(a, q)
  <2>1. pend'[a] = q
    BY <1>1, <1>9, BecomesMeans DEF TypeOK
  <2>2. \A i \in DOMAIN p.mro : i < p.pos + 1 => tp_dict[p.mro[i]][p.name] = NoValue
    <3>1. \A i \in DOMAIN p.mro : i \in Nat
      BY <1>3 DEF WalkOps
    <3>2. PICK mro, pos, name : mro = p.mro /\ pos = p.pos /\ name = p.name
      OBVIOUS
    <3>3. /\ pos \in Nat \ {0} /\ \A i \in DOMAIN mro : i < pos => tp_dict[mro[i]][name] = NoValue
          /\ tp_dict[mro[pos]][name] = NoValue
      BY <1>4, <1>9, <3>2
    <3> HIDE DEF p, v
    <3>4. \A i \in DOMAIN mro : i \in Nat
      BY <3>1, <3>2
    <3>5. \A i \in DOMAIN mro : i < pos + 1 => tp_dict[mro[i]][name] = NoValue
      <4> TAKE i \in DOMAIN mro
      <4>1. i < pos + 1 => i < pos \/ i = pos
        BY <3>3, <3>4
      <4> QED BY <3>3, <4>1
    <3> QED BY <3>2, <3>5
  <2>3. p.pos + 1 \in Nat \ {0}
    BY <1>4
  <2>4. WalkOK(pend[a])'
    BY <1>1, <1>4, <1>5, <2>1, <2>2, <2>3 DEF WalkOK, hierVars
  <2> HIDE DEF p, v
  <2>5. Midway'
    BY <1>1, <1>5, <1>9, <2>4, LookMidway
  <2> QED BY <1>5, <1>8, <1>9, <2>5
<1>10. CASE ~(v = NoValue /\ p.pos \in DOMAIN p.mro) /\ Becomes(a, r)
  <2>1. pend'[a] = r
    BY <1>1, <1>10, BecomesMeans DEF TypeOK
  <2>2. v = Find(p.type, p.name)
    <3>1. PICK t, n, k : t = p.type /\ n = p.name /\ k = p.pos
      OBVIOUS
    <3>2. t \in Type /\ n \in Name /\ k \in Nat \ {0} /\ p.mro = tp_mro[t]
      BY <1>4, <3>1
    <3>3. \A i \in DOMAIN tp_mro[t] : i < k => tp_dict[tp_mro[t][i]][n] = NoValue
      BY <1>4, <3>1, <3>2
    <3>4. v = IF k \in DOMAIN tp_mro[t] THEN tp_dict[tp_mro[t][k]][n] ELSE NoValue
      BY <3>1, <3>2
    <3>5. k \in DOMAIN tp_mro[t] => tp_dict[tp_mro[t][k]][n] # NoValue
      BY <1>10, <3>1, <3>2, <3>4
    <3> HIDE DEF p, v
    <3>6. Find(t, n) = IF k \in DOMAIN tp_mro[t] THEN tp_dict[tp_mro[t][k]][n] ELSE NoValue
      BY <1>1, <3>2, <3>3, <3>5, FindIs
    <3> QED BY <3>1, <3>4, <3>6
  <2>3. v = FindIn(tp_mro', tp_dict', p.type, p.name)
    BY <1>1, <2>2, FindNext DEF hierVars
  <2>4. TagOK(pend[a])'
    <3>1. p.type \in live'
      BY <1>1, <1>4 DEF hierVars
    <3> HIDE DEF p, v
    <3> QED BY <1>6, <2>1, <2>3, <3>1, TagNext DEF Reaching
  <2> HIDE DEF p, v
  <2>5. Midway'
    BY <1>1, <1>6, <1>10, <2>4, LookMidway
  <2> QED BY <1>6, <1>8, <1>10, <2>5
<1>11. CASE Becomes(a, Idle)
  <2>1. Midway'
    BY <1>1, <1>7, <1>11, EndsFree
  <2> QED BY <1>7, <1>8, <1>11, <2>1
<1> QED BY <1>2, <1>9, <1>10, <1>11

LEMMA FreshAndRefused ==
  ASSUME FreshInv, Plainly, NEW a \in Actor, TagIsRefused(a)
  PROVE  Entries' /\ Midway' /\ SameAnswers
<1>1. /\ Looks(a) /\ TypeInv /\ TypeOK /\ pend[a].op = "tag" /\ Becomes(a, Idle) /\ Idle.op = "idle"
      /\ ~RunsPython(pend[a]) /\ UNCHANGED <<tp_dict, tagVars>>
  BY FreshMeans, InTagBusy DEF Looks, TagIsRefused, InTag, Idle
<1>2. pend'[a] = Idle /\ \A b \in Actor \ {a} : pend'[b] = pend[b]
  BY <1>1, BecomesMeans DEF TypeOK
<1>3. Entries' /\ SameAnswers
  BY <1>1, <1>2, EntriesAndLooks
<1> QED BY <1>1, <1>3, EndsFree
-----------------------------------------------------------------------------
(* assign_version_tag *)

\* What is common to its steps.
LEMMA AssignFrame ==
  ASSUME FreshInv, Plainly, NEW a \in Actor, Assigns(a)
  PROVE  LET p == pend[a]
             s == p.stack
             r == pend'[a].stack
         IN  /\ TypeInv /\ TypeOK /\ p.type \in Type /\ p.type \in live
             /\ \A z : StackIs(a, z) => r = z
             /\ Len(s) = 1 \/ Len(s) > 1
             /\ s \in Seq(Frames) /\ Len(s) \in Nat \ {0} /\ Top(s) = s[Len(s)] /\ s # <<>>
             /\ Reaching(s, p.type, valid, tp_version_tag, next_version_tag)
             /\ Reaching(r, p.type, valid', tp_version_tag', next_version_tag') => Midway'
             /\ \A t \in Type : OnStack(t) <=> \E i \in 2 .. Len(s) : s[i].type = t
             /\ \A t \in Type : OnStack(t)' <=> \E i \in 2 .. Len(r) : r[i].type = t
             /\ \A t \in Type : /\ Writing(t)' <=> Writing(t)
                                /\ \A n \in Name : Find(t, n)' = Find(t, n)
<1> DEFINE p == pend[a]
           s == p.stack
           r == pend'[a].stack
<1>1. TypeInv /\ TypeOK /\ NoBases /\ UNCHANGED hierVars
  BY FreshMeans, AssignIsAlone DEF Plainly
<1>2. /\ InTag(a) /\ InTag(a)' /\ \A b \in Actor \ {a} : ~InTag(b) /\ ~InTag(b)'
      /\ s \in Seq(Frames) /\ Len(s) \in Nat \ {0} /\ Top(s) = s[Len(s)] /\ s # <<>>
  BY <1>1, AssignMoves
<1>3. p \in TagOps /\ p.op = "tag" /\ p.type \in Type /\ p.name \in Name /\ ~RunsPython(p)
  <2>1. p.op = "tag" /\ p \in TagOps
    BY <1>1, <1>2, Kinds DEF TypeOK, InTag
  <2> QED BY <1>2, <2>1, InTagBusy DEF TagOps
<1>4. p.type \in live /\ p.value = Find(p.type, p.name)
      /\ Reaching(s, p.type, valid, tp_version_tag, next_version_tag)
  BY <1>3, FreshMeans DEF Midway, LookupsOK, TagOK
<1>5. PICK z : Becomes(a, [p EXCEPT !.stack = z])
  BY DEF Assigns, TagIsValid, TagIsNew, TagWraps, TagBecomesValid, StackIs
<1>6. UNCHANGED <<tp_mro, tp_dict, live>>
  <2>1. UNCHANGED tp_dict
    BY DEF Assigns, TagIsValid, TagIsNew, TagWraps, TagBecomesValid
  <2> QED BY <1>1, <2>1 DEF hierVars
<1> DEFINE q == [p EXCEPT !.stack = z]
<1>7. q.op = "tag" /\ q.type = p.type /\ q.name = p.name /\ q.value = p.value
  BY <1>3 DEF TagOps
<1> HIDE DEF q
<1>8. pend'[a] = q /\ \A b \in Actor \ {a} : pend'[b] = pend[b]
  BY <1>1, <1>5, BecomesMeans DEF TypeOK, q
<1>9. \A t \in Type : /\ Writing(t)' <=> Writing(t)
                      /\ \A n \in Name : Find(t, n)' = Find(t, n)
  <2>1. \A b \in Actor : /\ pend'[b].op = "set" <=> pend[b].op = "set"
                         /\ pend[b].op = "set" => pend'[b] = pend[b]
    BY <1>3, <1>7, <1>8
  <2> QED BY <1>1, <1>6, <2>1, NothingWritten
<1>10. ASSUME Reaching(r, p.type, valid', tp_version_tag', next_version_tag')
       PROVE  Midway'
  <2>1. q.value = FindIn(tp_mro', tp_dict', p.type, p.name)
    BY <1>4, <1>6, <1>7, FindNext
  <2>2. TagOK(pend[a])'
    <3> HIDE DEF p
    <3> QED BY <1>4, <1>6, <1>7, <1>8, <1>10, <2>1, TagNext
  <2>3. Becomes(a, q)
    BY <1>5 DEF q
  <2> HIDE DEF p
  <2> QED BY <1>1, <1>3, <1>7, <2>2, <2>3, LookMidway DEF p
<1>11. \A t \in Type : OnStack(t) <=> \E i \in 2 .. Len(s) : s[i].type = t
  BY <1>2 DEF OnStack
<1>12. \A t \in Type : OnStack(t)' <=> \E i \in 2 .. Len(r) : r[i].type = t
  BY <1>2 DEF OnStack
<1>13. ASSUME NEW y, StackIs(a, y) PROVE r = y
  <2>1. pend'[a] = [p EXCEPT !.stack = y]
    BY <1>1, <1>13, BecomesMeans DEF TypeOK, StackIs
  <2> QED BY <1>3, <2>1 DEF TagOps
<1>14. Len(s) = 1 \/ Len(s) > 1
  <2>1. \A k \in Nat \ {0} : k = 1 \/ k > 1
    OBVIOUS
  <2> QED BY <1>2, <2>1, Zenon
<1> QED BY <1>1, <1>2, <1>3, <1>4, <1>9, <1>10, <1>11, <1>12, <1>13, <1>14

LEMMA FreshAndValid ==
  ASSUME FreshInv, Plainly, NEW a \in Actor, TagIsValid(a)
  PROVE  Entries' /\ Midway'
<1> DEFINE p == pend[a]
           s == p.stack
           r == pend'[a].stack
<1>1. /\ Assigns(a) /\ TypeInv /\ TypeOK /\ p.type \in Type /\ (Len(s) = 1 \/ Len(s) > 1)
      /\ s \in Seq(Frames) /\ Len(s) \in Nat \ {0} /\ Top(s) = s[Len(s)] /\ s # <<>>
      /\ Reaching(s, p.type, valid, tp_version_tag, next_version_tag)
      /\ Reaching(r, p.type, valid', tp_version_tag', next_version_tag') => Midway'
      /\ \A t \in Type : OnStack(t) <=> \E i \in 2 .. Len(s) : s[i].type = t
      /\ \A t \in Type : OnStack(t)' <=> \E i \in 2 .. Len(r) : r[i].type = t
      /\ \A t \in Type : /\ Writing(t)' <=> Writing(t)
                         /\ \A n \in Name : Find(t, n)' = Find(t, n)
  BY AssignFrame DEF Assigns
<1>2. /\ Top(s).left # <<>> /\ Head(Top(s).left) \in valid /\ valid' = valid
      /\ tp_version_tag' = tp_version_tag /\ next_version_tag' = next_version_tag
      /\ method_cache' = method_cache
  BY DEF TagIsValid, hearVars, tagVars
<1>3. r = Advanced(s)
  <2>1. StackIs(a, Advanced(s))
    BY DEF TagIsValid
  <2> QED BY <2>1, AssignFrame DEF Assigns
<1>4. /\ Len(r) = Len(s) /\ \A i \in 1 .. Len(s) : r[i].type = s[i].type
      /\ \A i \in 1 .. Len(s) - 1 : r[i] = s[i]
      /\ r[Len(s)].left = Tail(Top(s).left)
  BY <1>1, <1>2, <1>3, AdvancedMeans
<1> HIDE DEF p, s, r
<1>5. Reaching(r, p.type, valid', tp_version_tag', next_version_tag')
  <2>1. CASE Len(s) = 1
    <3>1. s[1].left = <<p.type>>
      BY <1>1, <1>2, <2>1 DEF Reaching
    <3>2. r[1].left = <<>> /\ p.type \in valid
      BY <1>1, <1>2, <1>4, <2>1, <3>1
    <3> QED BY <1>2, <3>2 DEF Reaching
  <2>2. CASE Len(s) > 1
    <3>1. r[1] = s[1] /\ r[2].type = s[2].type
      BY <1>1, <1>4, <2>2
    <3> QED BY <1>1, <1>2, <1>4, <2>2, <3>1 DEF Reaching
  <2>3. Len(s) = 1 \/ Len(s) > 1
    BY <1>1
  <2> QED BY <2>1, <2>2, <2>3
<1>6. \A t \in Type : OnStack(t)' => OnStack(t)
  BY <1>1, <1>4
<1>7. Entries'
  BY <1>1, <1>2, <1>6, FreshMeans
     DEF Entries, TagsPositive, Tagged, EntriesTagged, EntriesCurrent, Counted
<1> QED BY <1>1, <1>5, <1>7

\* The type of the lookup is the first on the stack, or the new tag is not its tag; no entry has
\* the new tag, because it is greater than all.
LEMMA FreshAndTag ==
  ASSUME FreshInv, Plainly, NEW a \in Actor, TagIsNew(a)
  PROVE  Entries' /\ Midway'
<1> DEFINE p == pend[a]
           s == p.stack
           r == pend'[a].stack
           u == Head(Top(s).left)
           f == Frame(u, tp_bases[u])
<1>1. /\ Assigns(a) /\ TypeInv /\ TypeOK /\ p.type \in Type
      /\ Len(s) = 1 \/ Len(s) > 1
      /\ s \in Seq(Frames) /\ Len(s) \in Nat \ {0} /\ Top(s) = s[Len(s)] /\ s # <<>>
      /\ Reaching(s, p.type, valid, tp_version_tag, next_version_tag)
      /\ Reaching(r, p.type, valid', tp_version_tag', next_version_tag') => Midway'
      /\ \A t \in Type : OnStack(t) <=> \E i \in 2 .. Len(s) : s[i].type = t
      /\ \A t \in Type : OnStack(t)' <=> \E i \in 2 .. Len(r) : r[i].type = t
      /\ \A t \in Type : /\ Writing(t)' <=> Writing(t)
                         /\ \A n \in Name : Find(t, n)' = Find(t, n)
  BY AssignFrame DEF Assigns
<1>2. /\ Top(s).left # <<>> /\ u \notin valid /\ valid' = valid /\ next_version_tag # 0
      /\ next_version_tag < LastTag
      /\ tp_version_tag' = [tp_version_tag EXCEPT ![u] = next_version_tag]
      /\ next_version_tag' = (next_version_tag + 1) % (LastTag + 1)
      /\ method_cache' = method_cache
  BY DEF TagIsNew, NewTag, Plainly, TagsLast, hearVars
<1>3. r = Append(Advanced(s), f)
  <2>1. StackIs(a, Append(Advanced(s), f))
    BY DEF TagIsNew
  <2> QED BY <2>1, AssignFrame DEF Assigns
<1>4. /\ Advanced(s) \in Seq(Frames) /\ Len(Advanced(s)) = Len(s) /\ u \in Type
      /\ \A i \in 1 .. Len(s) : Advanced(s)[i].type = s[i].type
      /\ \A i \in 1 .. Len(s) - 1 : Advanced(s)[i] = s[i]
      /\ Advanced(s)[Len(s)].left = Tail(Top(s).left)
  BY <1>1, <1>2, AdvancedMeans
<1>5. f \in Frames /\ f.type = u
  BY <1>1, <1>4 DEF Frame, Frames, TypeOK
<1>6. next_version_tag \in Nat /\ LastTag \in Nat /\ valid \subseteq Type
  BY <1>1, TypeAssumption DEF TypeOK, Tag
<1>7. next_version_tag' = next_version_tag + 1
  BY <1>2, <1>6
<1>8. tp_version_tag'[u] = next_version_tag /\ \A t \in Type \ {u} : tp_version_tag'[t] = tp_version_tag[t]
  BY <1>1, <1>2, <1>4 DEF TypeOK
<1>9. u = p.type \/ Len(s) > 1
  <2>1. CASE Len(s) = 1
    <3>1. s[1].left = <<p.type>>
      BY <1>1, <1>2, <2>1 DEF Reaching
    <3> QED BY <1>1, <2>1, <3>1
  <2> QED BY <1>1, <2>1
<1> HIDE DEF p, s, r, f, u
<1>10. /\ Len(r) = Len(s) + 1 /\ r[Len(s) + 1] = f
       /\ \A i \in 1 .. Len(s) : r[i].type = s[i].type
       /\ \A i \in 1 .. Len(s) - 1 : r[i] = s[i]
       /\ r[Len(s)].left = Tail(Top(s).left)
  <2>1. Len(r) = Len(s) + 1 /\ r[Len(s) + 1] = f /\ \A i \in 1 .. Len(s) : r[i] = Advanced(s)[i]
    BY <1>1, <1>3, <1>4, <1>5
  <2>2. Len(s) \in 1 .. Len(s) /\ \A i \in 1 .. Len(s) - 1 : i \in 1 .. Len(s)
    BY <1>1
  <2> QED BY <1>4, <2>1, <2>2
<1>11. Reaching(r, p.type, valid', tp_version_tag', next_version_tag')
  <2>1. CASE Len(s) = 1
    <3>1. s[1].left = <<p.type>>
      BY <1>1, <1>2, <2>1 DEF Reaching
    <3>2. r[1].left = <<>>
      BY <1>1, <1>10, <2>1, <3>1
    <3>3. Len(r) > 1 /\ r[2].type = p.type
      <4>1. u = p.type
        BY <1>9, <2>1
      <4> QED BY <1>5, <1>10, <2>1, <4>1
    <3> QED BY <3>2, <3>3 DEF Reaching
  <2>2. CASE Len(s) > 1
    <3>1. r[1] = s[1] /\ r[2].type = s[2].type /\ Len(r) > 1
      BY <1>1, <1>10, <2>2
    <3>2. s[1].left = <<p.type>> \/ (s[1].left = <<>> /\ (p.type \in valid \/ s[2].type = p.type))
      BY <1>1, <2>2 DEF Reaching
    <3> QED BY <1>2, <3>1, <3>2 DEF Reaching
  <2>3. Len(s) = 1 \/ Len(s) > 1
    BY <1>1
  <2> QED BY <2>1, <2>2, <2>3
<1>12. \A t \in Type : OnStack(t)' => OnStack(t) \/ t = u
  <2> SUFFICES ASSUME NEW t \in Type, NEW i \in 2 .. Len(r), r[i].type = t
               PROVE  OnStack(t) \/ t = u
    BY <1>1
  <2>1. i = Len(s) + 1 \/ (i \in 2 .. Len(s) /\ i \in 1 .. Len(s))
    BY <1>1, <1>10
  <2> QED BY <1>1, <1>5, <1>10, <2>1
<1>13. /\ TagsPositive /\ EntriesTagged /\ EntriesCurrent
       /\ \A k \in Slot : method_cache[k].version \in Nat
  BY <1>1, FreshMeans DEF Entries, TypeOK, Entry, Tag
<1>14. TagsPositive'
  BY <1>2, <1>8, <1>12, <1>13 DEF TagsPositive, Tagged
<1>15. EntriesTagged'
  <2> SUFFICES ASSUME NEW k \in Slot, method_cache[k].name # NoValue
               PROVE  /\ method_cache[k].version < next_version_tag'
                      /\ \A t \in Type : OnStack(t)' => method_cache[k].version # tp_version_tag'[t]
    BY <1>2 DEF EntriesTagged
  <2>1. method_cache[k].version < next_version_tag /\ method_cache[k].version \in Nat
    BY <1>13 DEF EntriesTagged
  <2>2. method_cache[k].version < next_version_tag' /\ method_cache[k].version # next_version_tag
    BY <1>6, <1>7, <2>1
  <2>3. \A t \in Type : OnStack(t) => method_cache[k].version # tp_version_tag[t]
    BY <1>13 DEF EntriesTagged
  <2> QED BY <1>8, <1>12, <2>2, <2>3
<1>16. EntriesCurrent'
  <2> SUFFICES ASSUME NEW k \in Slot, NEW n \in Name, NEW t \in valid',
                      method_cache'[k].name = n, method_cache'[k].version = tp_version_tag'[t],
                      ~Writing(t)'
               PROVE  method_cache'[k].value = Find(t, n)'
    BY DEF EntriesCurrent
  <2>1. t \in valid /\ t \in Type /\ t # u /\ ~Writing(t) /\ Find(t, n)' = Find(t, n)
    BY <1>1, <1>2, <1>6
  <2>2. method_cache[k].name = n /\ method_cache[k].version = tp_version_tag[t]
    BY <1>2, <1>8, <2>1
  <2>3. method_cache[k].value = Find(t, n)
    BY <1>13, <2>1, <2>2 DEF EntriesCurrent
  <2> QED BY <1>2, <2>1, <2>3
<1>17. Counted'
  BY <1>6, <1>7, FreshMeans, TypeAssumption DEF Entries, Counted
<1> QED BY <1>1, <1>11, <1>14, <1>15, <1>16, <1>17 DEF Entries

\* Tag 0 makes every entry void.  With the tags not used up it is the first tag of all.
LEMMA FreshAndFirst ==
  ASSUME FreshInv, Plainly, NEW a \in Actor, TagWraps(a)
  PROVE  Entries' /\ Midway'
<1> DEFINE p == pend[a]
           s == p.stack
           r == pend'[a].stack
           u == Head(Top(s).left)
<1>1. /\ Assigns(a) /\ TypeInv /\ TypeOK /\ p.type \in Type /\ InTag(a)
      /\ Len(s) = 1 \/ Len(s) > 1
      /\ s \in Seq(Frames) /\ Len(s) \in Nat \ {0} /\ Top(s) = s[Len(s)] /\ s # <<>>
      /\ Reaching(s, p.type, valid, tp_version_tag, next_version_tag)
      /\ Reaching(r, p.type, valid', tp_version_tag', next_version_tag') => Midway'
      /\ \A t \in Type : OnStack(t)' <=> \E i \in 2 .. Len(r) : r[i].type = t
  BY AssignFrame DEF Assigns, TagWraps
<1>2. /\ Top(s).left # <<>> /\ u \in have \ valid /\ next_version_tag = 0 /\ next_version_tag < LastTag
      /\ tp_version_tag' = [tp_version_tag EXCEPT ![u] = next_version_tag]
      /\ next_version_tag' = (next_version_tag + 1) % (LastTag + 1)
      /\ method_cache' = [k \in Slot |-> [method_cache[k] EXCEPT !.name = NoValue, !.value = NoValue]]
      /\ valid' \subseteq valid
  BY DEF TagWraps, NewTag, Plainly, TagsLast, PyType_Modified
<1>3. r = Advanced(s)
  <2>1. StackIs(a, Advanced(s))
    BY DEF TagWraps
  <2> QED BY <2>1, AssignFrame DEF Assigns
<1>4. Len(r) = Len(s) /\ r[Len(s)].left = Tail(Top(s).left)
  BY <1>1, <1>2, <1>3, AdvancedMeans
<1>5. Len(s) = 1
  <2>1. Len(s) > 1 => next_version_tag # 0
    BY <1>1, FreshMeans DEF OrderInv, StacksUp, StackUp
  <2> QED BY <1>1, <1>2, <2>1
<1>6. s[1].left = <<p.type>> /\ u = p.type
  <2>1. s[1].left = <<p.type>>
    BY <1>1, <1>2, <1>5 DEF Reaching
  <2> QED BY <1>1, <1>5, <2>1
<1>7. next_version_tag' = 1
  <2>1. LastTag \in Nat /\ 0 < LastTag
    BY <1>2, TypeAssumption
  <2>2. next_version_tag' = (0 + 1) % (LastTag + 1)
    BY <1>2
  <2>3. (0 + 1) % (LastTag + 1) = 1
    BY <2>1
  <2> QED BY <2>2, <2>3
<1>8. tp_version_tag'[u] = 0 /\ \A t \in Type \ {u} : tp_version_tag'[t] = tp_version_tag[t]
  BY <1>1, <1>2, <1>6 DEF TypeOK
<1> HIDE DEF p, s, r, u
<1>9. Reaching(r, p.type, valid', tp_version_tag', next_version_tag')
  <2>1. r[1].left = <<>> /\ Len(r) = 1
    BY <1>1, <1>4, <1>5, <1>6
  <2>2. Tag0 = 0
    <3>1. Tag0 <= 0
      BY <1>2, FreshMeans DEF Entries, Counted
    <3> QED BY <3>1, TypeAssumption
  <2> QED BY <1>6, <1>7, <1>8, <2>1, <2>2 DEF Reaching
<1>10. \A t \in Type : ~OnStack(t)'
  BY <1>1, <1>4, <1>5
<1>11. TagsPositive'
  BY <1>2, <1>8, <1>10, FreshMeans DEF Entries, TagsPositive, Tagged
<1>12. \A k \in Slot : method_cache'[k].name = NoValue
  BY <1>1, <1>2, ZenonT(60) DEF TypeOK, Entry
<1>13. EntriesTagged' /\ EntriesCurrent'
  BY <1>12, TypeAssumption DEF EntriesTagged, EntriesCurrent
<1>14. Counted'
  <2>1. Tag0 <= 0
    BY <1>2, FreshMeans DEF Entries, Counted
  <2> QED BY <1>7, <2>1, TypeAssumption DEF Counted
<1> QED BY <1>1, <1>9, <1>11, <1>13, <1>14 DEF Entries

\* No entry has the tag that becomes valid.
LEMMA FreshAndBecomes ==
  ASSUME FreshInv, Plainly, NEW a \in Actor, TagBecomesValid(a)
  PROVE  Entries' /\ Midway'
<1> DEFINE p == pend[a]
           s == p.stack
           r == pend'[a].stack
           u == Top(s).type
<1>1. /\ Assigns(a) /\ TypeInv /\ TypeOK /\ p.type \in Type
      /\ s \in Seq(Frames) /\ Len(s) \in Nat \ {0} /\ Top(s) = s[Len(s)] /\ s # <<>>
      /\ Reaching(s, p.type, valid, tp_version_tag, next_version_tag)
      /\ Reaching(r, p.type, valid', tp_version_tag', next_version_tag') => Midway'
      /\ \A t \in Type : OnStack(t) <=> \E i \in 2 .. Len(s) : s[i].type = t
      /\ \A t \in Type : OnStack(t)' <=> \E i \in 2 .. Len(r) : r[i].type = t
      /\ \A t \in Type : /\ Writing(t)' <=> Writing(t)
                         /\ \A n \in Name : Find(t, n)' = Find(t, n)
  BY AssignFrame DEF Assigns
<1>2. /\ Top(s).left = <<>> /\ Len(s) > 1 /\ valid' = valid \cup {u}
      /\ tp_version_tag' = tp_version_tag /\ next_version_tag' = next_version_tag
      /\ method_cache' = method_cache
  BY DEF TagBecomesValid, tagVars
<1>3. r = PopLast(s)
  <2>1. StackIs(a, PopLast(s))
    BY DEF TagBecomesValid
  <2> QED BY <2>1, AssignFrame DEF Assigns
<1>4. Len(r) = Len(s) - 1 /\ \A i \in 1 .. Len(s) - 1 : r[i] = s[i]
  BY <1>1, <1>3, Stack
<1>5. valid' \subseteq Type /\ valid \subseteq Type
  <2>1. TypeInv'
    BY <1>1, TypesAndStack
  <2> QED BY <1>1, <2>1 DEF TypeInv, TypeOK
<1> HIDE DEF p, s, r
<1>6. Reaching(r, p.type, valid', tp_version_tag', next_version_tag')
  <2>1. r[1] = s[1]
    BY <1>1, <1>2, <1>4
  <2>2. s[1].left = <<p.type>> \/ (s[1].left = <<>> /\ (p.type \in valid \/ s[2].type = p.type))
    BY <1>1, <1>2 DEF Reaching
  <2>3. CASE s[2].type = p.type /\ Len(s) = 2
    <3>1. p.type \in valid'
      BY <1>1, <1>2, <2>3
    <3> QED BY <2>1, <2>2, <3>1 DEF Reaching
  <2>4. CASE s[2].type = p.type /\ Len(s) # 2
    <3>1. Len(r) > 1 /\ r[2].type = p.type
      BY <1>1, <1>2, <1>4, <2>4
    <3> QED BY <2>1, <2>2, <3>1 DEF Reaching
  <2>5. CASE s[2].type # p.type
    BY <1>2, <2>1, <2>2, <2>5 DEF Reaching
  <2> QED BY <2>3, <2>4, <2>5
<1>7. OnStack(u) /\ u \in Type
  <2>1. Len(s) \in 2 .. Len(s)
    BY <1>1, <1>2
  <2> QED BY <1>1, <1>2, <1>5, <2>1
<1>8. \A t \in Type : OnStack(t)' => OnStack(t)
  <2>1. \A i \in 2 .. Len(r) : i \in 2 .. Len(s) /\ r[i] = s[i]
    BY <1>1, <1>2, <1>4
  <2> QED BY <1>1, <2>1
<1>9. TagsPositive /\ EntriesTagged /\ EntriesCurrent
  BY FreshMeans DEF Entries
<1> HIDE DEF u
<1>10. TagsPositive' /\ EntriesTagged'
  BY <1>2, <1>7, <1>8, <1>9 DEF TagsPositive, Tagged, EntriesTagged
<1>11. EntriesCurrent'
  <2> SUFFICES ASSUME NEW k \in Slot, NEW n \in Name, NEW t \in valid',
                      method_cache'[k].name = n, method_cache'[k].version = tp_version_tag'[t],
                      ~Writing(t)'
               PROVE  method_cache'[k].value = Find(t, n)'
    BY DEF EntriesCurrent
  <2>1. t # u
    BY <1>2, <1>7, <1>9, TypeAssumption DEF EntriesTagged
  <2>2. t \in valid /\ ~Writing(t) /\ Find(t, n)' = Find(t, n)
    BY <1>1, <1>2, <1>5, <2>1
  <2>3. method_cache[k].value = Find(t, n)
    BY <1>2, <1>9, <2>2 DEF EntriesCurrent
  <2> QED BY <1>2, <2>2, <2>3
<1>12. Counted'
  BY <1>2, FreshMeans DEF Entries, Counted
<1> QED BY <1>1, <1>6, <1>10, <1>11, <1>12 DEF Entries

\* The new entry has the tag of the type, which is nobody else's; or it has tag 0.
LEMMA FreshAndCached ==
  ASSUME FreshInv, Plainly, NEW a \in Actor, LookupCaches(a)
  PROVE  Entries' /\ Midway' /\ SameAnswers
<1> DEFINE p == pend[a]
           e == [version |-> tp_version_tag[p.type], name |-> p.name, value |-> p.value]
           h == Hash(tp_version_tag[p.type], p.name)
<1>1. /\ TypeInv /\ TypeOK /\ p.op = "tag" /\ ~RunsPython(p) /\ Looks(a) /\ Idle.op = "idle"
      /\ Becomes(a, Idle) /\ Top(p.stack).left = <<>> /\ Len(p.stack) = 1
      /\ method_cache' = [method_cache EXCEPT ![h] = e]
      /\ UNCHANGED <<tp_mro, tp_dict, tp_version_tag, next_version_tag, valid>>
  BY FreshMeans, InTagBusy DEF LookupCaches, InTag, Looks, Idle, hierVars
<1>2. TagOK(p) /\ TagsPositive /\ EntriesTagged /\ EntriesCurrent /\ TagsDistinct
  BY <1>1, FreshMeans DEF Midway, LookupsOK, Entries
<1>3. p \in TagOps
  BY <1>1, Kinds DEF TypeOK
<1>4. p.type \in Type /\ p.name \in Name /\ p.stack[1].left = <<>>
  BY <1>1, <1>3 DEF TagOps, Top
<1>5. p.value = Find(p.type, p.name)
  BY <1>2 DEF TagOK
<1>6. p.type \in valid \/ (tp_version_tag[p.type] = 0 /\ next_version_tag # 0)
  BY <1>1, <1>2, <1>4 DEF TagOK, Reaching
<1>7. \A k \in Slot : method_cache'[k] = IF k = h THEN e ELSE method_cache[k]
  BY <1>1 DEF TypeOK
<1>8. e.version = tp_version_tag[p.type] /\ e.name = p.name /\ e.value = p.value
  OBVIOUS
<1>9. pend'[a] = Idle /\ \A b \in Actor \ {a} : pend'[b] = pend[b]
  BY <1>1, BecomesMeans DEF TypeOK
<1> HIDE DEF p, e, h
<1>10. \A t \in Type : /\ Writing(t)' <=> Writing(t)
                       /\ \A n \in Name : Find(t, n)' = Find(t, n)
  <2>1. \A b \in Actor : /\ pend'[b].op = "set" <=> pend[b].op = "set"
                         /\ pend[b].op = "set" => pend'[b] = pend[b]
    BY <1>1, <1>9 DEF p
  <2> QED BY <1>1, <2>1, NothingWritten
<1>11. \A t \in Type : ~OnStack(t)'
  BY <1>1, LooksQuietly, ShortStacksTagless
<1>12. TagsPositive'
  BY <1>1, <1>2, <1>11 DEF TagsPositive, Tagged
<1>13. EntriesTagged'
  <2>1. e.version < next_version_tag
    <3>1. next_version_tag \in Nat
      BY <1>1, TypeAssumption DEF TypeOK, Tag
    <3> QED BY <1>2, <1>4, <1>6, <1>8, <3>1 DEF TagsDistinct, Tagged
  <2> QED BY <1>1, <1>2, <1>7, <1>11, <2>1 DEF EntriesTagged
<1>14. EntriesCurrent'
  <2> SUFFICES ASSUME NEW k \in Slot, NEW n \in Name, NEW t \in valid',
                      method_cache'[k].name = n, method_cache'[k].version = tp_version_tag'[t],
                      ~Writing(t)'
               PROVE  method_cache'[k].value = Find(t, n)'
    BY DEF EntriesCurrent
  <2>1. t \in valid /\ t \in Type /\ ~Writing(t) /\ Find(t, n)' = Find(t, n)
    BY <1>1, <1>10 DEF TypeOK
  <2>2. CASE k # h
    BY <1>1, <1>2, <1>7, <2>1, <2>2 DEF EntriesCurrent
  <2>3. CASE k = h
    <3>1. tp_version_tag[p.type] = tp_version_tag[t] /\ p.name = n
      BY <1>1, <1>7, <1>8, <2>3
    <3>2. tp_version_tag[t] # 0
      BY <1>2, <2>1 DEF TagsPositive, Tagged
    <3>3. p.type \in valid
      BY <1>6, <3>1, <3>2
    <3>4. p.type = t
      BY <1>2, <1>4, <2>1, <3>1, <3>3 DEF TagsDistinct, Tagged
    <3> QED BY <1>5, <1>7, <1>8, <2>1, <2>3, <3>1, <3>4
  <2> QED BY <2>2, <2>3
<1>15. Midway'
  BY <1>1, EndsFree DEF p
<1>16. Counted' /\ SameAnswers
  BY <1>1, <1>10, FreshMeans DEF Entries, Counted, SameAnswers
<1> QED BY <1>12, <1>13, <1>14, <1>15, <1>16 DEF Entries

LEMMA FreshAndLookups ==
  ASSUME FreshInv, Plainly, NEW a \in Actor, Lookups(a)
  PROVE  Entries' /\ Midway' /\ SameAnswers
<1>1. Looks(a) \/ Assigns(a)
  BY LookupsSplit
<1>2. CASE Looks(a)
  BY <1>2, FreshAndStart, FreshAndWalk, FreshAndRefused, FreshAndCached DEF Looks
<1>3. CASE Assigns(a)
  <2>1. SameAnswers
    <3>1. \A t \in Type : /\ Writing(t)' <=> Writing(t)
                          /\ \A n \in Name : Find(t, n)' = Find(t, n)
      BY <1>3, AssignFrame
    <3> QED BY <3>1, FreshMeans DEF SameAnswers
  <2> QED BY <1>3, <2>1, FreshAndValid, FreshAndTag, FreshAndFirst, FreshAndBecomes DEF Assigns
<1> QED BY <1>1, <1>2, <1>3
-----------------------------------------------------------------------------
LEMMA StepFresh ==
  ASSUME Plainly, FreshInv, [Next]_vars, [NoneTwice]_vars PROVE FreshInv'
<1>1. OrderInv'
  BY StepOrder DEF FreshInv, Plainly
<1>2. TagsDistinct'
  BY StepUnique DEF FreshInv, Plainly, UniqueInv, OrderInv
<1>3. PlaceInv'
  BY StepPlace DEF FreshInv, Plainly
<1>4. CASE UNCHANGED vars
  <2>1. /\ live' = live /\ valid' = valid /\ tp_mro' = tp_mro /\ tp_dict' = tp_dict /\ pend' = pend
        /\ tp_version_tag' = tp_version_tag /\ next_version_tag' = next_version_tag
        /\ method_cache' = method_cache
    BY <1>4 DEF vars, hierVars, tagVars, hearVars
  <2>2. \A t, n : Find(t, n)' = Find(t, n)
    BY <2>1, FindNext
  <2>3. \A t \in Type : OnStack(t)' => OnStack(t)
    BY <2>1 DEF OnStack, InTag
  <2>4. \A t : Writing(t)' <=> Writing(t)
    BY <2>1 DEF Writing, Members
  <2>5. Entries'
    <3>1. TagsPositive /\ EntriesTagged
      BY FreshMeans DEF Entries
    <3>2. TagsPositive'
      BY <2>1, <2>3, <3>1 DEF TagsPositive, Tagged
    <3>3. EntriesTagged'
      BY <2>1, <2>3, <3>1 DEF EntriesTagged
    <3>4. EntriesCurrent'
      <4> SUFFICES ASSUME NEW k \in Slot, NEW n \in Name, NEW t \in valid',
                          method_cache'[k].name = n, method_cache'[k].version = tp_version_tag'[t],
                          ~Writing(t)'
                   PROVE  method_cache'[k].value = Find(t, n)'
        BY DEF EntriesCurrent
      <4> QED BY <2>1, <2>2, <2>4, FreshMeans DEF Entries, EntriesCurrent
    <3>5. Counted'
      BY <2>1, FreshMeans DEF Entries, Counted
    <3> QED BY <3>2, <3>3, <3>4, <3>5 DEF Entries
  <2>6. ValidKept' /\ ModuleTold'
    BY <2>1, FreshMeans, KeptNext DEF Midway, ValidKept, ModuleTold, Members
  <2>7. LookupsOK'
    <3>1. ASSUME NEW a \in Actor, pend'[a].op = "tag" PROVE TagOK(pend[a])'
      <4>1. TagOK(pend[a])
        BY <2>1, <3>1, FreshMeans DEF Midway, LookupsOK
      <4> QED BY <2>1, <4>1, TagNext, FindNext DEF TagOK
    <3>2. ASSUME NEW a \in Actor, pend'[a].op = "walk" PROVE WalkOK(pend[a])'
      BY <2>1, <3>2, FreshMeans DEF Midway, LookupsOK, WalkOK
    <3> QED BY <3>1, <3>2 DEF LookupsOK
  <2> QED BY <1>1, <1>2, <1>3, <2>5, <2>6, <2>7 DEF FreshInv, Midway
<1>5. ASSUME NEW a \in Actor, NEW t \in Type, type_dealloc(a, t) PROVE FreshInv'
  BY <1>1, <1>2, <1>3, <1>5, FreshAndDealloc DEF FreshInv
<1>6. ASSUME NEW a \in Actor, Classes(a) PROVE FreshInv'
  <2>1. PICK t \in Type, bases \in UNION {BaseChoices[u] : u \in Type} :
          /\ bases \in BaseChoices[t] /\ Members(bases) \subseteq live
          /\ \/ /\ t \notin live
                /\ \E m \in Answers(t, bases), d \in [Name -> Value \cup {NoValue}] :
                     type_new(a, t, bases, m, d)
             \/ type_set_bases(a, t, bases)
    BY <1>6 DEF Classes
  <2>2. Entries' /\ Midway'
    BY <2>1, FreshAndNew, FreshAndMove
  <2> QED BY <1>1, <1>2, <1>3, <2>2 DEF FreshInv
<1>7. ASSUME NEW a \in Actor, Attributes(a) \/ update_slot(a) \/ SetModuleEnds(a) PROVE FreshInv'
  BY <1>1, <1>2, <1>3, <1>7, FreshAndAttributes DEF FreshInv
<1>8. ASSUME NEW a \in Actor, Lookups(a) PROVE FreshInv'
  BY <1>1, <1>2, <1>3, <1>8, FreshAndLookups DEF FreshInv
<1>9. ASSUME NEW a \in Actor, SetBases(a), ~UNCHANGED vars PROVE FreshInv'
  BY <1>1, <1>2, <1>3, <1>9, FreshAndBases DEF FreshInv
<1>10. ~PyType_ClearCache
  BY DEF PyType_ClearCache, Plainly, TagsLast
<1> QED BY <1>4, <1>5, <1>6, <1>7, <1>8, <1>9, <1>10 DEF Next

LEMMA InitFresh ==
  ASSUME Plainly, Init PROVE FreshInv
<1>1. OrderInv /\ TagsDistinct /\ PlaceInv
  BY InitOrder, InitUnique, InitPlace DEF Plainly, UniqueInv
<1>2. \A a \in Actor : pend[a].op = "idle"
  BY DEF Init, Idle
<1>3. Entries
  BY <1>2, TypeAssumption DEF Init, Empty, Entries, TagsPositive, Tagged, OnStack, InTag, EntriesTagged, EntriesCurrent, Counted
<1>4. Midway
  BY <1>2 DEF Midway, ValidKept, ModuleTold, LookupsOK
<1> QED BY <1>1, <1>3, <1>4 DEF FreshInv

\* What _PyType_Lookup answers from the method cache is what a walk over the order of the type
\* would find, unless an attribute that the type inherits is being written: for types that all
\* have version tags which are not used up, and for the orders that type.mro() computes, as
\* long as no assignment to __bases__ fails that has treated a type twice.
THEOREM CacheAlwaysCurrent ==
  ASSUME Plainly
  PROVE  Spec /\ [][NoneTwice]_vars => []CacheCurrent
<1>1. Init => FreshInv
  BY InitFresh
<1>2. FreshInv /\ [Next]_vars /\ [NoneTwice]_vars => FreshInv'
  BY StepFresh
<1>3. FreshInv => CacheCurrent
  <2> SUFFICES ASSUME FreshInv, NEW t \in live, NEW n \in Name, Hit(t, n), ~Altering(t)
               PROVE  EntryOf(t, n).value = Find(t, n)
    BY DEF CacheCurrent
  <2> DEFINE k == Hash(tp_version_tag[t], n)
  <2>1. /\ t \in valid /\ t \in Type /\ tp_version_tag[t] \in 0 .. LastTag /\ EntriesCurrent
    BY FreshMeans DEF Hit, TypeOK, Tag, Entries
  <2>2. k \in Slot /\ EntryOf(t, n) = method_cache[k]
    BY <2>1, HashAssumption DEF EntryOf
  <2>3. ~Writing(t)
    BY DEF Altering, Writing
  <2> HIDE DEF k
  <2> QED BY <2>1, <2>2, <2>3 DEF Hit, EntriesCurrent
<1> QED BY <1>1, <1>2, <1>3, PTL DEF Spec
-----------------------------------------------------------------------------
(* The machine code.  A code object with machine code that may be used     *)
(* listens to the types it relies on, and they have valid tags.            *)

FactsHeard == \A c \in Code : native[c] = "valid" => \A f \in assumed[c] :
  /\ f.type \in valid /\ c \in tp_code_listeners[f.type]
  /\ ~Writing(f.type) => Find(f.type, f.name) = f.value

\* assign_version_tag waits for live types; the bottom of the stack is in Reaching.
FramesLive == \A a \in Actor : InTag(a) =>
  \A i \in 2 .. Len(pend[a].stack) : Members(pend[a].stack[i].left) \subseteq live

HeardInv == FreshInv /\ FramesLive /\ FactsHeard

\* Beyond Plainly: every name is short enough for the cache, tag 0 has been given before code
\* is compiled, and no attribute may be a descriptor.
PlainCode == /\ Plainly /\ Cacheable = Name /\ Tag0 # 0
             /\ \A v \in Value : ClassOf[v] = NoType

\* A step that compiles nothing tells the code that listens to a type that loses its tag.
Hears ==
  /\ assumed' = assumed
  /\ \A c \in Code : native'[c] = "valid" =>
       /\ native[c] = "valid"
       /\ \A t \in valid : c \in tp_code_listeners[t] => t \in valid' /\ c \in tp_code_listeners'[t]

LEMMA FactsNext ==
  FactsHeard' <=> \A c \in Code : native'[c] = "valid" => \A f \in assumed'[c] :
    /\ f.type \in valid' /\ c \in tp_code_listeners'[f.type]
    /\ ~Writing(f.type)' => Find(f.type, f.name)' = f.value
BY Zenon DEF FactsHeard, Writing, Members, Find, Holders

LEMMA FactTyped ==
  ASSUME TypeOK, NEW c \in Code, NEW f \in assumed[c]
  PROVE  f.type \in Type /\ f.name \in Name
BY DEF TypeOK, Fact

LEMMA FactStays ==
  ASSUME TypeOK, FactsHeard, SameAnswers, NEW c \in Code, native[c] = "valid", NEW f \in assumed[c],
         f.type \in valid', ~Writing(f.type)'
  PROVE  Find(f.type, f.name)' = f.value
<1>1. f.name \in Name /\ f.type \in valid
  BY FactTyped DEF FactsHeard
<1>2. ~Writing(f.type) => Find(f.type, f.name) = f.value
  BY DEF FactsHeard
<1>3. ~Writing(f.type) /\ \A n \in Name : Find(f.type, n)' = Find(f.type, n)
  BY <1>1 DEF SameAnswers
<1> QED BY <1>1, <1>2, <1>3

LEMMA FactsStay ==
  ASSUME TypeOK, FactsHeard, SameAnswers, Hears
  PROVE  FactsHeard'
<1> SUFFICES ASSUME NEW c \in Code, native'[c] = "valid", NEW f \in assumed'[c]
             PROVE  /\ f.type \in valid' /\ c \in tp_code_listeners'[f.type]
                    /\ ~Writing(f.type)' => Find(f.type, f.name)' = f.value
  BY FactsNext
<1>1. native[c] = "valid" /\ f \in assumed[c]
  BY DEF Hears
<1>2. f.type \in valid /\ c \in tp_code_listeners[f.type]
  BY <1>1 DEF FactsHeard
<1>3. f.type \in valid' /\ c \in tp_code_listeners'[f.type]
  BY <1>2 DEF Hears
<1> QED BY <1>1, <1>3, FactStays

LEMMA QuietHears ==
  ASSUME UNCHANGED <<tp_code_listeners, native, assumed>>, valid \subseteq valid'
  PROVE  Hears
BY DEF Hears

LEMMA ModifiedHears ==
  ASSUME TypeOK, NEW x \in Type, PyType_Modified(x, valid), assumed' = assumed
  PROVE  Hears
<1> DEFINE gone == Gone(x, valid)
           told == UNION {tp_code_listeners[t] : t \in gone}
<1>1. /\ valid' = valid \ gone /\ valid \subseteq Type
      /\ tp_code_listeners' = [t \in Type |-> IF t \in gone THEN {} ELSE tp_code_listeners[t]]
      /\ native' = [c \in Code |-> IF c \in told /\ native[c] = "valid" THEN "invalid" ELSE native[c]]
  BY DEF PyType_Modified, TypeOK
<1> HIDE DEF gone
<1> SUFFICES ASSUME NEW c \in Code, native'[c] = "valid"
             PROVE  /\ native[c] = "valid"
                    /\ \A t \in valid : c \in tp_code_listeners[t] => t \in valid' /\ c \in tp_code_listeners'[t]
  BY DEF Hears
<1>2. native[c] = "valid" /\ c \notin told
  BY <1>1
<1>3. \A t \in valid : c \in tp_code_listeners[t] => t \notin gone
  BY <1>2
<1> QED BY <1>1, <1>2, <1>3
-----------------------------------------------------------------------------
LEMMA HeardAndDealloc ==
  ASSUME TypeOK, NEW a \in Actor, NEW t \in Type, type_dealloc(a, t)
  PROVE  Hears
<1> DEFINE gone == Gone(t, valid)
           told == UNION {tp_code_listeners[u] : u \in gone}
<1>1. /\ valid' = valid \ gone /\ assumed' = assumed /\ valid \subseteq Type
      /\ tp_code_listeners' = [u \in Type |-> IF u \in gone \cup {t} THEN {} ELSE tp_code_listeners[u]]
      /\ native' = [c \in Code |-> IF c \in told /\ native[c] = "valid" THEN "invalid" ELSE native[c]]
  BY DEF type_dealloc, TypeOK
<1>2. t \in valid => t \in gone
  BY GoneFirst
<1> HIDE DEF gone
<1> SUFFICES ASSUME NEW c \in Code, native'[c] = "valid"
             PROVE  /\ native[c] = "valid"
                    /\ \A u \in valid : c \in tp_code_listeners[u] => u \in valid' /\ c \in tp_code_listeners'[u]
  BY <1>1 DEF Hears
<1>3. native[c] = "valid" /\ c \notin told
  BY <1>1
<1>4. \A u \in valid : c \in tp_code_listeners[u] => u \notin gone /\ u # t
  BY <1>2, <1>3
<1> QED BY <1>1, <1>3, <1>4

LEMMA HeardAndClasses ==
  ASSUME NEW a \in Actor, Classes(a)
  PROVE  Hears
<1>1. UNCHANGED <<hearVars, assumed>>
  BY DEF Classes, type_new, type_set_bases
<1> QED BY <1>1, QuietHears DEF hearVars

LEMMA HeardAndAttributes ==
  ASSUME TypeOK, NEW a \in Actor, Attributes(a) \/ update_slot(a) \/ SetModuleEnds(a)
  PROVE  Hears
<1>1. CASE UNCHANGED <<hearVars, assumed>>
  BY <1>1, QuietHears DEF hearVars
<1>2. CASE update_slot(a)
  <2>1. pend[a] \in SetOps
    BY <1>2, Kinds DEF TypeOK, update_slot
  <2>2. pend[a].type \in Type /\ PyType_Modified(pend[a].type, valid) /\ assumed' = assumed
    BY <1>2, <2>1 DEF SetOps, update_slot
  <2> QED BY <2>2, ModifiedHears
<1>3. ASSUME NEW t \in Type, NEW n, NEW v, type_set_module(a, t, n, v) PROVE Hears
  BY <1>3, ModifiedHears DEF type_set_module
<1>4. CASE Attributes(a)
  <2>1. PICK t \in Type, n \in Name, v \in Value :
          \/ type_setattro(a, t, n, v) \/ type_setattro(a, t, n, NoValue) \/ type_set_module(a, t, n, v)
    BY <1>4 DEF Attributes
  <2> QED BY <1>1, <1>3, <2>1 DEF type_setattro
<1> QED BY <1>1, <1>2, <1>4 DEF SetModuleEnds

\* No type ever loses the flag that it may have a tag.
LEMMA HeardAndBases ==
  ASSUME FreshInv, Plainly, NEW a \in Actor, SetBases(a)
  PROVE  Hears
<1>1. /\ TypeOK /\ OrderInv /\ Undisturbed /\ pend[a].stack \in Seq(Levels) /\ pend[a].type \in Type
  <2>1. pend[a] \in BasesOps
    BY FreshMeans, FreshInTheMiddle, Kinds DEF TypeOK
  <2> QED BY <2>1, FreshMeans DEF BasesOps, Plainly
<1>2. CASE UNCHANGED <<hearVars, assumed>>
  BY <1>2, QuietHears DEF hearVars
<1>3. CASE SetBasesEnds(a)
  BY <1>1, <1>3, ModifiedHears DEF SetBasesEnds
<1>4. ASSUME NEW u \in Top(pend[a].stack).left, pend[a].stack # <<>>,
             NEW m \in Answers(u, tp_bases[u]), MroUpdated(a, u, m)
      PROVE  Hears
  <2> DEFINE keeps == u \in have /\ KeepsTag(m, m, have) /\ KeepsTag(m, tp_bases[u], have)
  <2>1. /\ have' = IF keeps THEN have ELSE have \ {u}
        /\ PyType_Modified(u, IF keeps THEN valid ELSE valid \ {u})
        /\ live' = live /\ assumed' = assumed
    BY <1>4 DEF MroUpdated, mro_internal
  <2>2. have = live /\ have' = live'
    BY <1>1, <1>4, OrderAndUpdated DEF OrderInv, AllHave
  <2>3. u \in have => keeps
    BY <2>1, <2>2
  <2>4. valid \subseteq have
    BY <1>1 DEF TypeOK
  <2> HIDE DEF keeps
  <2>5. PyType_Modified(u, valid)
    <3>1. (IF keeps THEN valid ELSE valid \ {u}) = valid
      BY <2>3, <2>4
    <3> QED BY <2>1, <3>1
  <2>6. u \in Type
    <3>1. Top(pend[a].stack) \in Levels
      BY <1>1, <1>4, Stack
    <3> QED BY <3>1 DEF Levels
  <2> QED BY <1>1, <2>1, <2>5, <2>6, ModifiedHears
<1>5. \/ MroLevelDone(a) \/ SetBasesEnds(a)
      \/ /\ pend[a].stack # <<>>
         /\ \E u \in Top(pend[a].stack).left :
              (\E m \in Answers(u, tp_bases[u]) : MroUpdated(a, u, m)) \/ SetBasesFails(a, u)
  BY Zenon DEF SetBases
<1>6. CASE MroLevelDone(a)
  BY <1>2, <1>6 DEF MroLevelDone
<1>7. \A u : SetBasesFails(a, u) => UNCHANGED <<hearVars, assumed>>
  BY DEF SetBasesFails
<1> QED BY <1>2, <1>3, <1>4, <1>5, <1>6, <1>7, Zenon
-----------------------------------------------------------------------------
(* A lookup is done *)

\* The compilation relies on what a walk finds for a type with a valid tag, and listens to it.
LEMMA FoundHeard ==
  ASSUME TypeOK, FactsHeard, SameAnswers, PlainCode, valid' = valid,
         NEW t \in valid, NEW n \in Name, NEW res \in Value \cup {NoValue}, NEW c \in Code \cup {NoCode},
         Found(t, n, res, c), ~Writing(t)' => Find(t, n)' = res
  PROVE  FactsHeard'
<1>1. res # NoValue => ~HasGetter(res)
  BY DEF PlainCode, HasGetter
<1>2. CASE UNCHANGED <<tp_code_listeners, native, assumed>>
  BY <1>2, QuietHears, FactsStay
<1>3. CASE ~UNCHANGED <<tp_code_listeners, native, assumed>>
  <2> DEFINE K == {ClassOf[v] : v \in {res} \ {NoValue}} \ {NoType}
             e == [type |-> t, name |-> n, value |-> res]
  <2>1. K = {}
    BY DEF PlainCode
  <2>2. /\ Listening(c, {t} \cup K) /\ native' = [native EXCEPT ![c] = "valid"]
        /\ assumed' = [assumed EXCEPT ![c] = {e}
               \cup {[type |-> d, name |-> Getter, value |-> Find(d, Getter)] : d \in K}]
        /\ c # NoCode
    BY <1>1, <1>3 DEF Found
  <2> HIDE DEF K
  <2>3. /\ native' = [native EXCEPT ![c] = "valid"] /\ assumed' = [assumed EXCEPT ![c] = {e}]
        /\ tp_code_listeners' = [x \in Type |-> IF x \in {t} THEN tp_code_listeners[x] \cup {c}
                                                ELSE tp_code_listeners[x]]
    BY <2>1, <2>2 DEF Listening
  <2>4. c \in Code /\ valid \subseteq Type
    BY <2>2 DEF TypeOK
  <2>5. /\ assumed'[c] = {e} /\ c \in tp_code_listeners'[t]
        /\ \A b \in Code \ {c} : native'[b] = native[b] /\ assumed'[b] = assumed[b]
        /\ \A x \in Type : tp_code_listeners[x] \subseteq tp_code_listeners'[x]
    BY <2>3, <2>4 DEF TypeOK
  <2>6. e.type = t /\ e.name = n /\ e.value = res
    OBVIOUS
  <2> HIDE DEF e
  <2> SUFFICES ASSUME NEW b \in Code, native'[b] = "valid", NEW f \in assumed'[b]
               PROVE  /\ f.type \in valid' /\ b \in tp_code_listeners'[f.type]
                      /\ ~Writing(f.type)' => Find(f.type, f.name)' = f.value
    BY FactsNext
  <2>7. CASE b = c
    <3>1. f = e
      BY <2>5, <2>7
    <3> QED BY <2>5, <2>6, <2>7, <3>1
  <2>8. CASE b # c
    <3>1. native[b] = "valid" /\ f \in assumed[b]
      BY <2>5, <2>8
    <3>2. f.type \in valid /\ b \in tp_code_listeners[f.type]
      BY <3>1 DEF FactsHeard
    <3>3. f.type \in valid' /\ b \in tp_code_listeners'[f.type]
      BY <2>4, <2>5, <3>2
    <3> QED BY <3>1, <3>3, FactStays
  <2> QED BY <2>7, <2>8
<1> QED BY <1>2, <1>3

LEMMA HeardAndHit ==
  ASSUME HeardInv, PlainCode, NEW a \in Actor, NEW t \in Type, NEW n \in Name, NEW c \in Code \cup {NoCode},
         LookupHits(a, t, n, c), SameAnswers
  PROVE  FactsHeard'
<1> DEFINE v == EntryOf(t, n).value
           k == Hash(tp_version_tag[t], n)
<1>1. /\ TypeOK /\ FactsHeard /\ EntriesCurrent /\ valid' = valid /\ Hit(t, n) /\ t \in valid
      /\ Found(t, n, v, c)
  BY FreshMeans DEF HeardInv, LookupHits, Hit, Entries
<1>2. k \in Slot /\ EntryOf(t, n) = method_cache[k]
  <2>1. tp_version_tag[t] \in 0 .. LastTag
    BY <1>1 DEF TypeOK, Tag
  <2> QED BY <2>1, HashAssumption DEF EntryOf
<1>3. v \in Value \cup {NoValue}
  BY <1>1, <1>2 DEF TypeOK, Entry
<1>4. ~Writing(t)' => Find(t, n)' = v
  <2>1. ~Writing(t)' => ~Writing(t) /\ Find(t, n)' = Find(t, n)
    BY <1>1 DEF SameAnswers
  <2>2. ~Writing(t) => v = Find(t, n)
    <3> HIDE DEF k
    <3> QED BY <1>1, <1>2 DEF Hit, EntriesCurrent
  <2> QED BY <2>1, <2>2
<1> HIDE DEF v
<1> QED BY <1>1, <1>3, <1>4, FoundHeard

LEMMA HeardAndCached ==
  ASSUME HeardInv, PlainCode, NEW a \in Actor, LookupCaches(a), SameAnswers
  PROVE  FactsHeard'
<1> DEFINE p == pend[a]
<1>1. /\ TypeOK /\ FactsHeard /\ p.op = "tag" /\ Top(p.stack).left = <<>> /\ Len(p.stack) = 1
      /\ Found(p.type, p.name, p.value, p.code)
      /\ UNCHANGED <<tp_mro, tp_dict, valid>>
  BY FreshMeans DEF HeardInv, LookupCaches, InTag, hierVars
<1>2. p \in TagOps /\ TagOK(p)
  BY <1>1, FreshMeans, Kinds DEF TypeOK, HeardInv, Midway, LookupsOK
<1>3. /\ p.type \in Type /\ p.name \in Name /\ p.value \in Value \cup {NoValue}
      /\ p.code \in Code \cup {NoCode} /\ p.stack[1].left = <<>> /\ p.value = Find(p.type, p.name)
  BY <1>1, <1>2 DEF TagOps, TagOK, Top
<1>4. p.type \in valid
  BY <1>1, <1>2, <1>3 DEF TagOK, Reaching, PlainCode
<1>5. PICK t \in valid, n \in Name, res \in Value \cup {NoValue}, c \in Code \cup {NoCode} :
        t = p.type /\ n = p.name /\ res = p.value /\ c = p.code
  BY <1>3, <1>4
<1>6. Found(t, n, res, c) /\ res = Find(t, n)
  BY <1>1, <1>3, <1>5
<1> HIDE DEF p
<1>7. Find(t, n)' = res
  BY <1>1, <1>6, FindNext
<1> QED BY <1>1, <1>6, <1>7, FoundHeard

\* All types may have tags.
LEMMA NeverRefused ==
  ASSUME HeardInv, NEW a \in Actor, TagIsRefused(a)
  PROVE  FALSE
<1> DEFINE p == pend[a]
           s == p.stack
           x == Head(Top(s).left)
<1>1. /\ TypeOK /\ FramesLive /\ InTag(a) /\ Top(s).left # <<>> /\ x \notin live
  BY FreshMeans DEF HeardInv, TagIsRefused, OrderInv, AllHave
<1>2. p \in TagOps /\ TagOK(p) /\ s # <<>>
  BY <1>1, FreshMeans, Kinds DEF TypeOK, HeardInv, Midway, LookupsOK, InTag, TypeInv, FramesPlaced
<1>3. s \in Seq(Frames) /\ Len(s) \in Nat \ {0} /\ Top(s) = s[Len(s)] /\ Top(s).left \in Seq(Type)
  <2>1. s \in Seq(Frames)
    BY <1>2 DEF TagOps
  <2>2. Len(s) \in Nat \ {0} /\ Top(s) \in Frames
    BY <1>2, <2>1, Stack
  <2> QED BY <2>1, <2>2 DEF Top, Frames
<1>4. CASE Len(s) = 1
  <2>1. Top(s).left = <<p.type>> /\ p.type \in live
    BY <1>1, <1>2, <1>3, <1>4 DEF TagOK, Reaching
  <2> QED BY <1>1, <2>1
<1>5. CASE Len(s) > 1
  <2>1. Len(s) \in 2 .. Len(s)
    BY <1>3, <1>5
  <2>2. Members(Top(s).left) \subseteq live
    BY <1>1, <1>3, <2>1 DEF FramesLive
  <2>3. x \in Members(Top(s).left)
    BY <1>1, <1>3 DEF Members
  <2> QED BY <1>1, <2>2, <2>3
<1>6. Len(s) = 1 \/ Len(s) > 1
  <2>1. \A k \in Nat \ {0} : k = 1 \/ k > 1
    OBVIOUS
  <2> QED BY <1>3, <2>1, Zenon
<1> QED BY <1>4, <1>5, <1>6

LEMMA HeardAndLookups ==
  ASSUME HeardInv, PlainCode, NEW a \in Actor, Lookups(a), SameAnswers
  PROVE  FactsHeard'
<1>1. TypeOK /\ FactsHeard /\ next_version_tag # 0
  <2>1. next_version_tag \in Nat /\ Tag0 \in Nat \ {0} /\ Tag0 <= next_version_tag
    BY FreshMeans, TypeAssumption DEF HeardInv, TypeOK, Tag, Entries, Counted, PlainCode
  <2> QED BY <2>1, FreshMeans DEF HeardInv
<1>2. CASE UNCHANGED <<tp_code_listeners, native, assumed>> /\ valid \subseteq valid'
  BY <1>1, <1>2, QuietHears, FactsStay
<1>3. CASE LookupWalks(a)
  <2>1. pend[a] \in WalkOps
    BY <1>1, <1>3, Kinds DEF TypeOK, LookupWalks
  <2>2. pend[a].name \in Cacheable
    BY <2>1 DEF WalkOps, PlainCode
  <2> QED BY <1>2, <1>3, <2>2 DEF LookupWalks, hearVars
<1>4. CASE Assigns(a)
  <2>1. ~TagWraps(a)
    BY <1>1 DEF TagWraps
  <2> QED BY <1>2, <1>4, <2>1 DEF Assigns, TagIsValid, TagIsNew, TagBecomesValid, hearVars
<1>5. ASSUME NEW t \in Type, NEW n \in Name, NEW c \in Code \cup {NoCode},
             LookupHits(a, t, n, c) \/ LookupMisses(a, t, n, c)
      PROVE  FactsHeard'
  <2>1. CASE LookupHits(a, t, n, c)
    BY <2>1, HeardAndHit
  <2>2. CASE LookupMisses(a, t, n, c)
    BY <1>2, <2>2 DEF LookupMisses, hearVars
  <2> QED BY <1>5, <2>1, <2>2
<1>6. CASE TagIsRefused(a)
  BY <1>6, NeverRefused
<1>7. CASE LookupCaches(a)
  BY <1>7, HeardAndCached
<1>8. Looks(a) \/ Assigns(a)
  BY LookupsSplit
<1> QED BY <1>3, <1>4, <1>5, <1>6, <1>7, <1>8 DEF Looks
-----------------------------------------------------------------------------
LEMMA ShortFramesLive ==
  ASSUME ShortStacks'
  PROVE  FramesLive'
<1>1. \A a \in Actor : InTag(a)' => Len(pend'[a].stack) = 1
  BY DEF ShortStacks
<1> QED BY <1>1 DEF FramesLive

LEMMA FramesAndAssign ==
  ASSUME HeardInv, Plainly, NEW a \in Actor, Assigns(a)
  PROVE  FramesLive'
<1> DEFINE s == pend[a].stack
           r == pend'[a].stack
           f == Frame(Head(Top(s).left), tp_bases[Head(Top(s).left)])
<1>1. /\ TypeInv /\ TypeOK /\ OrderInv /\ FramesLive /\ have = live /\ OrdersLive
  BY FreshMeans DEF HeardInv, OrderInv, AllHave
<1>2. /\ NoBases /\ live' = live /\ \A b \in Actor \ {a} : ~InTag(b)'
  BY <1>1, AssignIsAlone DEF Plainly, hierVars
<1>3. /\ InTag(a) /\ s \in Seq(Frames) /\ Len(s) \in Nat \ {0} /\ Top(s) = s[Len(s)] /\ s # <<>>
      /\ \/ r = Advanced(s) /\ Top(s).left # <<>>
         \/ TagIsNew(a) /\ Top(s).left # <<>> /\ r = Append(Advanced(s), f)
         \/ r = PopLast(s)
  BY <1>1, AssignMoves
<1>4. \A i \in 2 .. Len(s) : Members(s[i].left) \subseteq live
  BY <1>1, <1>3 DEF FramesLive
<1>7. ASSUME r = PopLast(s), NEW i \in 2 .. Len(r) PROVE i \in 2 .. Len(s) /\ r[i] = s[i]
  <2> HIDE DEF s, r
  <2>1. Len(r) = Len(s) - 1 /\ \A k \in 1 .. Len(s) - 1 : r[k] = s[k]
    BY <1>3, <1>7, Stack
  <2>2. i \in 2 .. Len(s) /\ i \in 1 .. Len(s) - 1
    BY <1>3, <1>7, <2>1
  <2> QED BY <2>1, <2>2
<1> SUFFICES ASSUME NEW i \in 2 .. Len(r) PROVE Members(r[i].left) \subseteq live
  BY <1>2 DEF FramesLive
<1>5. CASE Top(s).left # <<>>
  <2>1. /\ Advanced(s) \in Seq(Frames) /\ Len(Advanced(s)) = Len(s)
        /\ \A k \in 1 .. Len(s) - 1 : Advanced(s)[k] = s[k]
        /\ Advanced(s)[Len(s)].left = Tail(Top(s).left)
        /\ Top(s).left \in Seq(Type)
    <3>1. Top(s) \in Frames
      BY <1>3, Stack
    <3> QED BY <1>3, <1>5, <3>1, AdvancedMeans DEF Frames
  <2>2. Members(Tail(Top(s).left)) \subseteq Members(Top(s).left)
    BY <1>5, <2>1 DEF Members
  <2>3. ASSUME NEW k \in 2 .. Len(s) PROVE Members(Advanced(s)[k].left) \subseteq live
    <3>1. CASE k = Len(s)
      BY <1>3, <1>4, <2>1, <2>2, <3>1
    <3>2. CASE k # Len(s)
      <4>1. k \in 1 .. Len(s) - 1
        BY <1>3, <3>2
      <4> QED BY <1>4, <2>1, <4>1
    <3> QED BY <3>1, <3>2
  <2>4. CASE r = Advanced(s)
    BY <2>1, <2>3, <2>4
  <2>5. CASE TagIsNew(a) /\ r = Append(Advanced(s), f)
    <3>1. Head(Top(s).left) \in live
      BY <1>1, <2>5 DEF TagIsNew
    <3>2. Members(f.left) \subseteq live /\ f \in Frames
      BY <1>1, <1>2, <3>1, OrdersLiveHere DEF Frame, Frames, TypeOK
    <3> HIDE DEF s, r, f
    <3>3. Len(r) = Len(s) + 1 /\ r[Len(s) + 1] = f /\ \A k \in 1 .. Len(s) : r[k] = Advanced(s)[k]
      BY <1>3, <2>1, <2>5, <3>2
    <3>4. i = Len(s) + 1 \/ (i \in 2 .. Len(s) /\ i \in 1 .. Len(s))
      BY <1>3, <3>3
    <3> QED BY <2>3, <3>2, <3>3, <3>4
  <2>6. CASE r = PopLast(s)
    <3>1. i \in 2 .. Len(s) /\ r[i] = s[i]
      BY <1>7, <2>6
    <3> QED BY <1>4, <3>1
  <2> QED BY <1>3, <2>4, <2>5, <2>6
<1>6. CASE r = PopLast(s)
  <2>1. i \in 2 .. Len(s) /\ r[i] = s[i]
    BY <1>6, <1>7
  <2> QED BY <1>4, <2>1
<1> QED BY <1>3, <1>5, <1>6

LEMMA StepHeard ==
  ASSUME PlainCode, HeardInv, [Next]_vars, [NoneTwice]_vars PROVE HeardInv'
<1>1. FreshInv' /\ Plainly /\ TypeInv /\ TypeOK
  BY StepFresh, FreshMeans DEF HeardInv, PlainCode
<1>2. CASE UNCHANGED vars
  <2>1. /\ live' = live /\ valid' = valid /\ tp_mro' = tp_mro /\ tp_dict' = tp_dict /\ pend' = pend
        /\ tp_code_listeners' = tp_code_listeners /\ native' = native /\ assumed' = assumed
    BY <1>2 DEF vars, hierVars, hearVars
  <2>2. \A t, n : Find(t, n)' = Find(t, n)
    BY <2>1, FindNext
  <2>3. \A t : Writing(t)' <=> Writing(t)
    BY <2>1 DEF Writing, Members
  <2>4. FramesLive'
    BY <2>1 DEF HeardInv, FramesLive, InTag, Members
  <2>5. FactsHeard'
    BY <1>1, <2>1, <2>2, <2>3, QuietHears, FactsStay DEF HeardInv, SameAnswers
  <2> QED BY <1>1, <2>4, <2>5 DEF HeardInv
<1>3. FreshInv /\ FactsHeard
  BY DEF HeardInv
<1>4. ASSUME NEW a \in Actor, NEW t \in Type, type_dealloc(a, t) PROVE HeardInv'
  BY <1>1, <1>3, <1>4, FreshAndDealloc, HeardAndDealloc, FactsStay, HierarchyQuietly, ShortFramesLive
     DEF HeardInv
<1>5. ASSUME NEW a \in Actor, Classes(a) PROVE HeardInv'
  <2>1. SameAnswers
    <3>1. PICK t \in Type, bases \in UNION {BaseChoices[u] : u \in Type} :
            /\ bases \in BaseChoices[t] /\ Members(bases) \subseteq live
            /\ \/ /\ t \notin live
                  /\ \E m \in Answers(t, bases), d \in [Name -> Value \cup {NoValue}] :
                       type_new(a, t, bases, m, d)
               \/ type_set_bases(a, t, bases)
      BY <1>5 DEF Classes
    <3> QED BY <1>1, <1>3, <3>1, FreshAndNew, FreshAndMove
  <2> QED BY <1>1, <1>3, <1>5, <2>1, HeardAndClasses, FactsStay, HierarchyQuietly, ShortFramesLive
          DEF HeardInv
<1>6. ASSUME NEW a \in Actor, Attributes(a) \/ update_slot(a) \/ SetModuleEnds(a) PROVE HeardInv'
  <2>1. SameAnswers
    BY <1>1, <1>3, <1>6, FreshAndAttributes
  <2>2. ShortStacks'
    BY <1>1, <1>6, WritesQuietly
  <2> QED BY <1>1, <1>3, <1>6, <2>1, <2>2, HeardAndAttributes, FactsStay, ShortFramesLive DEF HeardInv
<1>7. ASSUME NEW a \in Actor, Lookups(a) PROVE HeardInv'
  <2>1. SameAnswers
    BY <1>1, <1>3, <1>7, FreshAndLookups
  <2>2. FactsHeard'
    BY <1>7, <2>1, HeardAndLookups
  <2>3. FramesLive'
    BY <1>1, <1>7, LookupsSplit, FramesAndAssign, LooksQuietly, ShortFramesLive
  <2> QED BY <1>1, <2>2, <2>3 DEF HeardInv
<1>8. ASSUME NEW a \in Actor, SetBases(a), ~UNCHANGED vars PROVE HeardInv'
  <2>1. SameAnswers
    BY <1>1, <1>3, <1>8, FreshAndBases
  <2> QED BY <1>1, <1>3, <1>8, <2>1, HeardAndBases, FactsStay, HierarchyQuietly, ShortFramesLive DEF HeardInv
<1>9. ~PyType_ClearCache
  BY <1>1 DEF PyType_ClearCache, Plainly, TagsLast
<1> QED BY <1>2, <1>4, <1>5, <1>6, <1>7, <1>8, <1>9 DEF Next

LEMMA InitHeard ==
  ASSUME PlainCode, Init PROVE HeardInv
<1>1. FreshInv
  BY InitFresh DEF PlainCode
<1>2. \A a \in Actor : ~InTag(a)
  BY DEF Init, Idle, InTag
<1>3. \A c \in Code : native[c] # "valid"
  BY DEF Init
<1> QED BY <1>1, <1>2, <1>3 DEF HeardInv, FramesLive, FactsHeard

\* Machine code that may be used relies on live types and on what a walk over their orders would
\* find, unless an attribute they inherit is being written: for attributes that are no
\* descriptors, whose names the cache takes, and code compiled after the first tag was given.
THEOREM NativeAlwaysCurrent ==
  ASSUME PlainCode
  PROVE  Spec /\ [][NoneTwice]_vars => []NativeCurrent
<1>1. Init => HeardInv
  BY InitHeard
<1>2. HeardInv /\ [Next]_vars /\ [NoneTwice]_vars => HeardInv'
  BY StepHeard
<1>3. HeardInv => NativeCurrent
  <2> SUFFICES ASSUME HeardInv, NEW c \in Code, native[c] = "valid", NEW f \in assumed[c]
               PROVE  f.type \in live /\ (~Altering(f.type) => StillTrue(f))
    BY DEF NativeCurrent
  <2>1. f.type \in live /\ (~Writing(f.type) => Find(f.type, f.name) = f.value)
    BY FreshMeans DEF HeardInv, FactsHeard
  <2>2. Writing(f.type) => Altering(f.type)
    BY DEF Writing, Altering
  <2> QED BY <2>1, <2>2 DEF StillTrue
<1> QED BY <1>1, <1>2, <1>3, PTL DEF Spec
=============================================================================
