-------------------------------- MODULE MroC3 --------------------------------
(***************************************************************************)
(* The method resolution order of new-style classes: mro_implementation    *)
(* and pmerge of Objects/typeobject.c, for hierarchies that class          *)
(* statements build one class at a time.                                   *)
(***************************************************************************)
EXTENDS Naturals, Sequences, FiniteSets, SequencesExt

CONSTANTS MaxClass,    \* classes are made in the order 1 .. MaxClass; 0 is object
          MaxBases     \* bases of one class statement

ASSUME BoundsAssumption == MaxClass \in Nat /\ MaxBases \in Nat \ {0}

VARIABLES made,        \* number of classes made
          tp_bases,    \* [0 .. MaxClass -> Seq(classes)]
          tp_mro,      \* [0 .. MaxClass -> Seq(classes)]
          refused      \* the last tuple of bases for which there was no order
vars == <<made, tp_bases, tp_mro, refused>>
-----------------------------------------------------------------------------
Class == 0 .. MaxClass
Failed == <<MaxClass + 1>>      \* pmerge returned -1

tail_contains(l, c) == l # <<>> /\ c \in ToSet(Tail(l))

\* Indices of the lists whose first class may come next.
Candidates_without_tails(lists) == {i \in DOMAIN lists : lists[i] # <<>>}
Candidates_of_first(lists) == {i \in DOMAIN lists :
  /\ lists[i] # <<>> /\ \A j \in DOMAIN lists : ~tail_contains(lists[j], Head(lists[i]))
  /\ \A j \in DOMAIN lists : j < i => lists[j] = <<>>}
Candidates(lists) == {i \in DOMAIN lists :
  lists[i] # <<>> /\ \A j \in DOMAIN lists : ~tail_contains(lists[j], Head(lists[i]))}
First_latest(lists) == Max(Candidates(lists))
First(lists) == Min(Candidates(lists))
Without(c, l) == IF l # <<>> /\ Head(l) = c THEN Tail(l) ELSE l

pmerge[lists \in Seq(Seq(Class))] ==
  IF \A i \in DOMAIN lists : lists[i] = <<>> THEN <<>>
  ELSE IF Candidates(lists) = {} THEN Failed
  ELSE LET c == Head(lists[First(lists)])
           rest == pmerge[[i \in DOMAIN lists |-> Without(c, lists[i])]]
       IN  IF rest = Failed THEN Failed ELSE <<c>> \o rest

mro_implementation_no_tuple(c, bases) ==
  LET merged == pmerge[[i \in DOMAIN bases |-> tp_mro[bases[i]]]]
  IN  IF ~IsInjective(bases) \/ merged = Failed THEN Failed ELSE <<c>> \o merged
mro_implementation(c, bases) ==
  LET merged == pmerge[[i \in DOMAIN bases |-> tp_mro[bases[i]]] \o <<bases>>]
  IN  IF ~IsInjective(bases) \/ merged = Failed THEN Failed ELSE <<c>> \o merged

Init == /\ made = 0 /\ refused = <<>>
        /\ tp_bases = [c \in Class |-> <<>>]
        /\ tp_mro = [c \in Class |-> IF c = 0 THEN <<0>> ELSE <<>>]

Tuples == UNION {[1 .. k -> 0 .. made] : k \in 1 .. MaxBases}

type_new(bases) ==
  LET c == made + 1
      mro == mro_implementation(c, bases)
  IN  /\ made < MaxClass
      /\ IF mro = Failed
         THEN refused' = bases /\ UNCHANGED <<made, tp_bases, tp_mro>>
         ELSE /\ made' = c /\ refused' = <<>>
              /\ tp_bases' = [tp_bases EXCEPT ![c] = bases]
              /\ tp_mro' = [tp_mro EXCEPT ![c] = mro]

Next == \E bases \in Tuples : type_new(bases)
Spec == Init /\ [][Next]_vars
-----------------------------------------------------------------------------
(* Reference definitions and properties *)

Before(l, x, y) == \E i, j \in DOMAIN l : i < j /\ l[i] = x /\ l[j] = y

\* The classes above c: the least set with c that holds the bases of its members.
Above(c) == {x \in Class : \A S \in SUBSET Class :
               c \in S /\ (\A s \in S : ToSet(tp_bases[s]) \subseteq S) => x \in S}

\* The order of a class names every class above it, once, itself first and object last.
OrderIsAbove == \A c \in 0 .. made :
  /\ ToSet(tp_mro[c]) = Above(c) /\ IsInjective(tp_mro[c])
  /\ Head(tp_mro[c]) = c /\ Last(tp_mro[c]) = 0

\* Local precedence order and monotonicity, as the comment above tail_contains has them:
\* if A precedes B in the tuple of bases or in the order of C, it does so in every subclass of C.
Monotonic == \A c \in 0 .. made : \A d \in Above(c) : \A x, y \in Class :
  Before(tp_mro[d], x, y) \/ Before(tp_bases[d], x, y) => Before(tp_mro[c], x, y)

\* A tuple of bases is refused only when it names a class twice or when no order satisfies
\* all the constraints: some set of classes each has to come after another one of the set.
RefusedOnlyWhenInconsistent == refused # <<>> /\ IsInjective(refused) =>
  LET lists == {tp_mro[b] : b \in ToSet(refused)} \cup {refused}
  IN  \E S \in SUBSET UNION {ToSet(l) : l \in lists} :
        S # {} /\ \A x \in S : \E y \in S, l \in lists : Before(l, y, x)

\* When several classes could come next, the one that appears in the order of the earliest
\* direct superclass does (the comment in pmerge): wherever the order of c has y right after
\* x and nothing forces them, the first list that has x or y has x.
EarliestFirst == \A c \in 1 .. made : \A k \in 2 .. Len(tp_mro[c]) - 1 :
  LET x == tp_mro[c][k]
      y == tp_mro[c][k + 1]
      lists == [i \in DOMAIN tp_bases[c] |-> tp_mro[tp_bases[c][i]]] \o <<tp_bases[c]>>
      Has(z) == {i \in DOMAIN lists : z \in ToSet(lists[i])}
  IN  (\A i \in DOMAIN lists : ~Before(lists[i], x, y)) => Min(Has(x)) < Min(Has(y))
=============================================================================
