---------------------------- MODULE MroC3_proofs ----------------------------
(***************************************************************************)
(* The method resolution orders of MroC3, for any number of classes and of *)
(* bases.  pmerge is a recursion over data: that it has a solution, and    *)
(* what the solution is, follows from the number of classes that are left  *)
(* to merge, which each step makes less.                                   *)
(***************************************************************************)
EXTENDS MroC3, FiniteSetTheorems, SequenceTheorems, WellFoundedInduction, TLAPS

\* A set of naturals has a least member: the least counterexample of the arguments below.
LEMMA LeastNumber ==
  ASSUME NEW T \in SUBSET Nat, T # {}
  PROVE  \E i \in T : \A j \in T : i <= j
<1> DEFINE R == OpToRel(<, Nat)
<1>1. IsWellFoundedOn(R, Nat)
  BY NatLessThanWellFounded
<1>2. PICK i \in T : \A j \in T : <<j, i>> \notin R
  BY <1>1, WFMin, Zenon
<1>3. \A j \in Nat, k \in Nat : j < k => <<j, k>> \in R
  BY DEF OpToRel
<1> HIDE DEF R
<1>4. \A j \in T : ~(j < i)
  BY <1>2, <1>3
<1> QED BY <1>4
-----------------------------------------------------------------------------
(* Sequences.                                                               *)

\* A sequence with one more element in front.
LEMMA ConsIs ==
  ASSUME NEW X, NEW c \in X, NEW r \in Seq(X)
  PROVE  /\ <<c>> \o r \in Seq(X) /\ Head(<<c>> \o r) = c /\ Tail(<<c>> \o r) = r
         /\ <<c>> \o r # <<>> /\ Len(<<c>> \o r) = Len(r) + 1 /\ (<<c>> \o r)[1] = c
         /\ \A k \in 1 .. Len(r) : (<<c>> \o r)[k + 1] = r[k]
         /\ ToSet(<<c>> \o r) = {c} \cup ToSet(r)
         /\ c \notin ToSet(r) /\ IsInjective(r) => IsInjective(<<c>> \o r)
         /\ \A x, y : Before(<<c>> \o r, x, y) <=> Before(r, x, y) \/ (x = c /\ y \in ToSet(r))
<1>1. PICK s : s = <<c>> \o r
  OBVIOUS
<1>2. /\ s \in Seq(X) /\ Head(s) = c /\ Tail(s) = r /\ s # <<>> /\ Len(s) = Len(r) + 1 /\ s[1] = c
      /\ \A k \in 1 .. Len(r) : s[k + 1] = r[k]
      /\ DOMAIN s = 1 .. (Len(r) + 1) /\ DOMAIN r = 1 .. Len(r) /\ Len(r) \in Nat
  BY <1>1
<1>3. \A k \in 2 .. (Len(r) + 1) : k - 1 \in 1 .. Len(r) /\ s[k] = r[k - 1]
  <2> TAKE k \in 2 .. (Len(r) + 1)
  <2>1. k - 1 \in 1 .. Len(r) /\ (k - 1) + 1 = k
    BY <1>2
  <2> QED BY <1>2, <2>1
<1>4. ToSet(s) = {c} \cup ToSet(r)
  <2>1. ASSUME NEW x \in ToSet(s) PROVE x \in {c} \cup ToSet(r)
    <3>1. PICK k \in 1 .. (Len(r) + 1) : x = s[k]
      BY <1>2, <2>1 DEF ToSet
    <3>2. k # 1 => k - 1 \in DOMAIN r /\ x = r[k - 1]
      BY <1>2, <1>3, <3>1
    <3> QED BY <1>2, <3>1, <3>2 DEF ToSet
  <2>2. ASSUME NEW x \in ToSet(r) PROVE x \in ToSet(s)
    <3>1. PICK k \in 1 .. Len(r) : x = r[k]
      BY <1>2, <2>2 DEF ToSet
    <3>2. k + 1 \in DOMAIN s /\ s[k + 1] = x
      BY <1>2, <3>1
    <3> QED BY <3>2 DEF ToSet
  <2>3. c \in ToSet(s)
    BY <1>2 DEF ToSet
  <2> QED BY <2>1, <2>2, <2>3
<1>5. ASSUME c \notin ToSet(r), IsInjective(r) PROVE IsInjective(s)
  <2> SUFFICES ASSUME NEW i \in DOMAIN s, NEW j \in DOMAIN s, s[i] = s[j] PROVE i = j
    BY DEF IsInjective
  <2>1. i = 1 \/ (i - 1 \in DOMAIN r /\ s[i] = r[i - 1])
    BY <1>2, <1>3
  <2>2. j = 1 \/ (j - 1 \in DOMAIN r /\ s[j] = r[j - 1])
    BY <1>2, <1>3
  <2>3. \A k \in DOMAIN r : r[k] # c
    BY <1>5 DEF ToSet
  <2>4. i - 1 \in DOMAIN r /\ j - 1 \in DOMAIN r /\ r[i - 1] = r[j - 1] => i - 1 = j - 1
    BY <1>5 DEF IsInjective
  <2> QED BY <1>2, <2>1, <2>2, <2>3, <2>4
<1>6. ASSUME NEW x, NEW y, Before(s, x, y) PROVE Before(r, x, y) \/ (x = c /\ y \in ToSet(r))
  <2>1. PICK i \in DOMAIN s, j \in DOMAIN s : i < j /\ s[i] = x /\ s[j] = y
    BY <1>6 DEF Before
  <2>2. j - 1 \in DOMAIN r /\ r[j - 1] = y
    BY <1>2, <1>3, <2>1
  <2>3. CASE i = 1
    BY <1>2, <2>1, <2>2, <2>3 DEF ToSet
  <2>4. CASE i # 1
    <3>1. i - 1 \in DOMAIN r /\ r[i - 1] = x /\ i - 1 < j - 1
      BY <1>2, <1>3, <2>1, <2>4
    <3> QED BY <2>2, <3>1 DEF Before
  <2> QED BY <2>3, <2>4
<1>7. ASSUME NEW x, NEW y, Before(r, x, y) PROVE Before(s, x, y)
  <2>1. PICK i \in DOMAIN r, j \in DOMAIN r : i < j /\ r[i] = x /\ r[j] = y
    BY <1>7 DEF Before
  <2>2. i + 1 \in DOMAIN s /\ j + 1 \in DOMAIN s /\ i + 1 < j + 1 /\ s[i + 1] = x /\ s[j + 1] = y
    BY <1>2, <2>1
  <2> QED BY <2>2 DEF Before
<1>8. ASSUME NEW y \in ToSet(r) PROVE Before(s, c, y)
  <2>1. PICK j \in DOMAIN r : r[j] = y
    BY <1>8 DEF ToSet
  <2>2. 1 \in DOMAIN s /\ j + 1 \in DOMAIN s /\ 1 < j + 1 /\ s[1] = c /\ s[j + 1] = y
    BY <1>2, <2>1
  <2> QED BY <2>2 DEF Before
<1> QED BY <1>1, <1>2, <1>4, <1>5, <1>6, <1>7, <1>8

\* A sequence that is not empty is its head in front of its tail.
LEMMA HeadAndTail ==
  ASSUME NEW X, NEW s \in Seq(X), s # <<>>
  PROVE  /\ Head(s) \in X /\ Tail(s) \in Seq(X) /\ s = <<Head(s)>> \o Tail(s)
         /\ ToSet(s) = {Head(s)} \cup ToSet(Tail(s))
<1>1. Len(s) \in Nat \ {0} /\ DOMAIN s = 1 .. Len(s)
  BY EmptySeq
<1>2. Head(s) \in X /\ Tail(s) \in Seq(X) /\ Len(Tail(s)) = Len(s) - 1
  BY <1>1
<1>3. PICK h, q, t : h = Head(s) /\ q = Tail(s) /\ t = <<h>> \o q
  OBVIOUS
<1>4. t \in Seq(X) /\ Len(t) = Len(q) + 1 /\ ToSet(t) = {h} \cup ToSet(q)
  <2>1. h \in X /\ q \in Seq(X)
    BY <1>2, <1>3
  <2>2. <<h>> \o q \in Seq(X) /\ Len(<<h>> \o q) = Len(q) + 1
    BY <2>1
  <2>3. ToSet(<<h>> \o q) = {h} \cup ToSet(q)
    BY <2>1, ConsIs
  <2> QED BY <1>3, <2>2, <2>3
<1>5. Len(t) = Len(s) /\ \A k \in 1 .. Len(s) : t[k] = s[k]
  BY <1>1, <1>2, <1>3
<1>6. t = s
  BY <1>4, <1>5, SeqEqual
<1> QED BY <1>2, <1>3, <1>4, <1>6
-----------------------------------------------------------------------------
(* One step of pmerge.                                                      *)

Lists == Seq(Seq(Class))
All(lists) == UNION {ToSet(lists[i]) : i \in DOMAIN lists}
Done(lists) == \A i \in DOMAIN lists : lists[i] = <<>>
Chosen(lists) == Head(lists[First(lists)])
Remaining(lists) == [i \in DOMAIN lists |-> Without(Chosen(lists), lists[i])]

\* r is l, or l after c was taken from its front, and c is not in r.
Takes(l, r, c) == r \in Seq(Class) /\ c \notin ToSet(r) /\ (l = r \/ l = <<c>> \o r)

\* A set of numbers has its least element.
LEMMA MinIs ==
  ASSUME NEW S \in SUBSET Nat, S # {}
  PROVE  Min(S) \in S /\ \A i \in S : Min(S) <= i
<1>1. \E i \in S : \A j \in S : i <= j
  BY LeastNumber
<1> QED BY <1>1 DEF Min

\* The class that a step chooses is then in none of the lists.
LEMMA StepIs ==
  ASSUME NEW lists \in Lists, Candidates(lists) # {}
  PROVE  /\ First(lists) \in Candidates(lists) /\ \A i \in Candidates(lists) : First(lists) <= i
         /\ Candidates(lists) \subseteq DOMAIN lists /\ ~Done(lists)
         /\ Chosen(lists) \in Class \cap All(lists)
         /\ Remaining(lists) \in Lists /\ DOMAIN Remaining(lists) = DOMAIN lists
         /\ \A i \in DOMAIN lists : Takes(lists[i], Remaining(lists)[i], Chosen(lists))
         /\ All(Remaining(lists)) = All(lists) \ {Chosen(lists)}
<1> DEFINE c == Chosen(lists)
           r == Remaining(lists)
<1>1. DOMAIN lists \subseteq Nat /\ \A i \in DOMAIN lists : lists[i] \in Seq(Class)
  BY DEF Lists
<1>2. First(lists) \in Candidates(lists) /\ \A i \in Candidates(lists) : First(lists) <= i
  <2>1. Candidates(lists) \in SUBSET Nat
    BY <1>1 DEF Candidates
  <2> QED BY <2>1, MinIs DEF First
<1>3. /\ First(lists) \in DOMAIN lists /\ lists[First(lists)] # <<>>
      /\ \A j \in DOMAIN lists : ~tail_contains(lists[j], c)
  BY <1>2 DEF Candidates, Chosen
<1>4. c \in Class /\ c \in All(lists)
  <2>1. lists[First(lists)] \in Seq(Class)
    BY <1>1, <1>3
  <2>2. c \in Class /\ c \in ToSet(lists[First(lists)])
    <3>1. PICK l \in Seq(Class) : l = lists[First(lists)] /\ l # <<>>
      BY <1>3, <2>1
    <3>2. Head(l) \in Class /\ ToSet(l) = {Head(l)} \cup ToSet(Tail(l))
      BY <3>1, HeadAndTail
    <3> QED BY <3>1, <3>2 DEF Chosen
  <2> QED BY <1>3, <2>2 DEF All
<1>5. DOMAIN r = DOMAIN lists /\ \A i \in DOMAIN lists : r[i] = Without(c, lists[i])
  BY DEF Remaining
<1>6. ASSUME NEW i \in DOMAIN lists PROVE Takes(lists[i], r[i], c)
  <2>1. lists[i] \in Seq(Class) /\ ~tail_contains(lists[i], c) /\ r[i] = Without(c, lists[i])
    BY <1>1, <1>3, <1>5
  <2>2. CASE lists[i] = <<>>
    <3>1. r[i] = <<>> /\ ToSet(r[i]) = {}
      BY <2>1, <2>2 DEF Without, ToSet
    <3> QED BY <2>1, <2>2, <3>1 DEF Takes
  <2>3. CASE lists[i] # <<>>
    <3> DEFINE h == Head(lists[i])
               t == Tail(lists[i])
    <3>1. h \in Class /\ t \in Seq(Class) /\ lists[i] = <<h>> \o t /\ c \notin ToSet(t)
      BY <2>1, <2>3, HeadAndTail DEF tail_contains
    <3>2. r[i] = IF h = c THEN t ELSE lists[i]
      BY <2>1, <2>3 DEF Without
    <3>3. ToSet(lists[i]) = {h} \cup ToSet(t)
      <4> HIDE DEF h, t
      <4> QED BY <3>1, ConsIs
    <3> HIDE DEF h, t, c, r
    <3> QED BY <2>1, <3>1, <3>2, <3>3 DEF Takes
  <2> QED BY <2>2, <2>3
<1>7. r \in Lists
  <2>1. \E n \in Nat : DOMAIN lists = 1 .. n
    BY DEF Lists
  <2>2. \A i \in DOMAIN lists : r[i] \in Seq(Class)
    BY <1>6 DEF Takes
  <2>3. r = [i \in DOMAIN lists |-> r[i]]
    BY <1>5 DEF Remaining
  <2> HIDE DEF r
  <2>4. PICK n \in Nat : DOMAIN lists = 1 .. n
    BY <2>1
  <2>5. r \in [1 .. n -> Seq(Class)]
    BY <2>2, <2>3, <2>4
  <2> QED BY <2>5 DEF Lists
<1>8. All(r) = All(lists) \ {c}
  <2>1. \A i \in DOMAIN lists : ToSet(r[i]) = ToSet(lists[i]) \ {c}
    <3> TAKE i \in DOMAIN lists
    <3>1. r[i] \in Seq(Class) /\ c \notin ToSet(r[i]) /\ (lists[i] = r[i] \/ lists[i] = <<c>> \o r[i])
      BY <1>6 DEF Takes
    <3>2. ToSet(<<c>> \o r[i]) = {c} \cup ToSet(r[i])
      BY <1>4, <3>1, ConsIs
    <3> QED BY <3>1, <3>2
  <2> HIDE DEF r, c
  <2> QED BY <1>5, <2>1 DEF All
<1>9. ~Done(lists)
  BY <1>3 DEF Done
<1>10. Candidates(lists) \subseteq DOMAIN lists
  BY DEF Candidates
<1> QED BY <1>2, <1>4, <1>5, <1>6, <1>7, <1>8, <1>9, <1>10

\* The number of classes that are left to merge.
Left(lists) == Cardinality(All(lists))

LEMMA LeftIs ==
  ASSUME BoundsAssumption, NEW lists \in Lists
  PROVE  /\ Left(lists) \in Nat /\ All(lists) \subseteq Class
         /\ Candidates(lists) # {} => Left(Remaining(lists)) < Left(lists)
<1>1. IsFiniteSet(Class)
  BY FS_Interval DEF Class, BoundsAssumption
<1>2. ASSUME NEW ls \in Lists PROVE All(ls) \subseteq Class /\ IsFiniteSet(All(ls)) /\ Left(ls) \in Nat
  <2>1. \A i \in DOMAIN ls : ls[i] \in Seq(Class)
    BY <1>2 DEF Lists
  <2>2. \A i \in DOMAIN ls : ToSet(ls[i]) \subseteq Class
    BY <2>1 DEF ToSet
  <2>3. All(ls) \subseteq Class
    BY <2>2 DEF All
  <2>4. IsFiniteSet(All(ls))
    BY <1>1, <2>3, FS_Subset
  <2> QED BY <2>3, <2>4, FS_CardinalityType DEF Left
<1>3. ASSUME Candidates(lists) # {} PROVE Left(Remaining(lists)) < Left(lists)
  <2>1. /\ Remaining(lists) \in Lists /\ Chosen(lists) \in All(lists)
        /\ All(Remaining(lists)) = All(lists) \ {Chosen(lists)}
    BY <1>3, StepIs
  <2>2. All(Remaining(lists)) \in SUBSET All(lists) /\ All(Remaining(lists)) # All(lists)
    BY <2>1
  <2>3. Left(Remaining(lists)) <= Left(lists) /\ Left(Remaining(lists)) # Left(lists)
    BY <1>2, <2>2, FS_Subset DEF Left
  <2> QED BY <1>2, <2>1, <2>3
<1> QED BY <1>2, <1>3
-----------------------------------------------------------------------------
(* The recursion of pmerge has one solution.                                *)

\* What pmerge returns for lists when f is what it returns for fewer classes.
Merges(f, lists) ==
  IF Done(lists) THEN <<>>
  ELSE IF Candidates(lists) = {} \/ f[Remaining(lists)] = Failed THEN Failed
  ELSE <<Chosen(lists)>> \o f[Remaining(lists)]
\* f is a solution for lists of fewer than n classes.
Solves(f, n) == \A lists \in Lists : Left(lists) < n => f[lists] = Merges(f, lists)

LEMMA MergesSame ==
  ASSUME BoundsAssumption, NEW f, NEW g, NEW lists \in Lists,
         \A ls \in Lists : Left(ls) < Left(lists) => f[ls] = g[ls]
  PROVE  Merges(f, lists) = Merges(g, lists)
<1>1. ASSUME Candidates(lists) # {} PROVE f[Remaining(lists)] = g[Remaining(lists)]
  <2>1. Remaining(lists) \in Lists /\ Left(Remaining(lists)) < Left(lists)
    BY <1>1, StepIs, LeftIs
  <2> QED BY <2>1
<1> QED BY <1>1 DEF Merges

LEMMA OneSolution ==
  ASSUME BoundsAssumption, NEW f, NEW g, NEW m \in Nat, NEW n \in Nat, Solves(f, m), Solves(g, n)
  PROVE  \A lists \in Lists : Left(lists) < m /\ Left(lists) < n => f[lists] = g[lists]
<1> DEFINE Differ(lists) == Left(lists) < m /\ Left(lists) < n /\ f[lists] # g[lists]
           Bad == {k \in Nat : \E lists \in Lists : Left(lists) = k /\ Differ(lists)}
<1> SUFFICES ASSUME NEW ls \in Lists, Differ(ls) PROVE FALSE
  OBVIOUS
<1>1. PICK k \in Bad : \A j \in Bad : k <= j
  <2>1. Left(ls) \in Bad
    BY LeftIs
  <2> QED BY <2>1, LeastNumber
<1>2. PICK lists \in Lists : Left(lists) = k /\ Differ(lists)
  BY <1>1
<1>3. ASSUME NEW r \in Lists, Left(r) < Left(lists) PROVE f[r] = g[r]
  <2>1. Left(r) \in Nat /\ Left(r) \notin Bad
    BY <1>1, <1>2, <1>3, LeftIs
  <2>2. Left(r) < m /\ Left(r) < n
    BY <1>2, <1>3, <2>1, LeftIs
  <2> QED BY <1>3, <2>1, <2>2
<1>4. Merges(f, lists) = Merges(g, lists)
  BY <1>3, MergesSame
<1> QED BY <1>2, <1>4 DEF Solves

LEMMA SolutionExists ==
  ASSUME BoundsAssumption, NEW n \in Nat
  PROVE  \E f : Solves(f, n)
<1> DEFINE Bad == {k \in Nat : ~\E f : Solves(f, k)}
<1> SUFFICES ASSUME Bad # {} PROVE FALSE
  OBVIOUS
<1>1. PICK k \in Bad : \A j \in Bad : k <= j
  <2>1. Bad \in SUBSET Nat
    OBVIOUS
  <2> QED BY <2>1, LeastNumber
<1>2. k # 0
  <2>1. Solves([lists \in Lists |-> <<>>], 0)
    <3>1. \A lists \in Lists : ~(Left(lists) < 0)
      BY LeftIs
    <3> QED BY <3>1 DEF Solves
  <2> QED BY <1>1, <2>1
<1>3. PICK f : Solves(f, k - 1)
  <2>1. k - 1 \in Nat /\ k - 1 \notin Bad
    BY <1>1, <1>2
  <2> QED BY <2>1
<1> DEFINE g == [lists \in Lists |-> IF Left(lists) < k - 1 THEN f[lists] ELSE Merges(f, lists)]
<1>4. ASSUME NEW lists \in Lists, Left(lists) < k PROVE g[lists] = Merges(g, lists)
  <2>1. g[lists] = Merges(f, lists)
    BY <1>3 DEF Solves
  <2>2. ASSUME NEW r \in Lists, Left(r) < Left(lists) PROVE f[r] = g[r]
    <3>1. Left(r) < k - 1
      BY <1>1, <1>4, <2>2, LeftIs
    <3> QED BY <3>1
  <2>3. Merges(f, lists) = Merges(g, lists)
    <3> HIDE DEF g
    <3> QED BY <2>2, MergesSame
  <2> QED BY <2>1, <2>3
<1>5. Solves(g, k)
  <2> HIDE DEF g
  <2> QED BY <1>4 DEF Solves
<1> QED BY <1>1, <1>5

\* The function that pmerge is satisfies the equation that defines it.
LEMMA PmergeIs ==
  ASSUME BoundsAssumption
  PROVE  \A lists \in Lists : pmerge[lists] = Merges(pmerge, lists)
<1> DEFINE Sol(lists) == CHOOSE f : Solves(f, Left(lists) + 1)
           p == [lists \in Lists |-> Sol(lists)[lists]]
           Rec(f) == [lists \in Lists |-> Merges(f, lists)]
<1>1. \A lists \in Lists : Solves(Sol(lists), Left(lists) + 1)
  <2> TAKE lists \in Lists
  <2>1. Left(lists) + 1 \in Nat
    BY LeftIs
  <2> QED BY <2>1, SolutionExists
<1> HIDE DEF Sol
<1>2. ASSUME NEW lists \in Lists PROVE p[lists] = Merges(p, lists)
  <2>1. p[lists] = Merges(Sol(lists), lists)
    BY <1>1, LeftIs DEF Solves
  <2>2. ASSUME NEW r \in Lists, Left(r) < Left(lists) PROVE Sol(lists)[r] = p[r]
    <3>1. /\ Left(r) + 1 \in Nat /\ Left(lists) + 1 \in Nat
          /\ Left(r) < Left(r) + 1 /\ Left(r) < Left(lists) + 1
      BY <2>2, LeftIs
    <3>2. Solves(Sol(lists), Left(lists) + 1) /\ Solves(Sol(r), Left(r) + 1)
      BY <1>1
    <3> QED BY <3>1, <3>2, OneSolution
  <2>3. Merges(Sol(lists), lists) = Merges(p, lists)
    <3> HIDE DEF p
    <3> QED BY <2>2, MergesSame
  <2> QED BY <2>1, <2>3
<1>3. p = Rec(p)
  BY <1>2
<1>4. \A f : Rec(f) = [lists \in Seq(Seq(Class)) |->
        IF \A i \in DOMAIN lists : lists[i] = <<>> THEN <<>>
        ELSE IF Candidates(lists) = {} THEN Failed
        ELSE LET c == Head(lists[First(lists)])
                 rest == f[[i \in DOMAIN lists |-> Without(c, lists[i])]]
             IN  IF rest = Failed THEN Failed ELSE <<c>> \o rest]
  BY DEF Merges, Lists, Done, Chosen, Remaining
<1>5. pmerge = CHOOSE f : f = Rec(f)
  <2> HIDE DEF Rec
  <2> QED BY <1>4 DEF pmerge
<1> HIDE DEF p
<1>6. pmerge = Rec(pmerge)
  <2> HIDE DEF Rec
  <2> QED BY <1>3, <1>5, Zenon
<1> QED BY <1>6
-----------------------------------------------------------------------------
(* What pmerge returns.                                                     *)

Having(lists, z) == {i \in DOMAIN lists : z \in ToSet(lists[i])}
Early(lists, x, y) == (\A i \in DOMAIN lists : ~Before(lists[i], x, y)) =>
                        Min(Having(lists, x)) < Min(Having(lists, y))
\* m has the classes of lists, once, in the order of each list, the earliest ones first.
Merged(lists, m) ==
  /\ m \in Seq(Class) /\ ToSet(m) = All(lists) /\ IsInjective(m)
  /\ \A i \in DOMAIN lists : \A x, y : Before(lists[i], x, y) => Before(m, x, y)
  /\ \A k \in 1 .. (Len(m) - 1) : Early(lists, m[k], m[k + 1])
\* Some of the classes each have to come after another one of them.
Stuck(lists) == \E S \in SUBSET All(lists) :
  S # {} /\ \A x \in S : \E y \in S, i \in DOMAIN lists : Before(lists[i], y, x)

LEMMA TakesIs ==
  ASSUME NEW l, NEW r, NEW c \in Class, Takes(l, r, c)
  PROVE  /\ ToSet(r) = ToSet(l) \ {c}
         /\ \A x, y : Before(r, x, y) => Before(l, x, y)
         /\ \A x, y : Before(l, x, y) => Before(r, x, y) \/ (x = c /\ y \in ToSet(r))
<1>1. r \in Seq(Class) /\ c \notin ToSet(r) /\ (l = r \/ l = <<c>> \o r)
  BY DEF Takes
<1>2. /\ ToSet(<<c>> \o r) = {c} \cup ToSet(r)
      /\ \A x, y : Before(<<c>> \o r, x, y) <=> Before(r, x, y) \/ (x = c /\ y \in ToSet(r))
  BY <1>1, ConsIs
<1>3. CASE l = r
  BY <1>1, <1>3
<1>4. CASE l = <<c>> \o r
  BY <1>1, <1>2, <1>4
<1> QED BY <1>1, <1>3, <1>4

\* Nothing comes before the first element of a sequence that has no element twice.
LEMMA FirstOnce ==
  ASSUME NEW X, NEW m \in Seq(X), IsInjective(m), m # <<>>, NEW z
  PROVE  ~Before(m, z, m[1])
<1> SUFFICES ASSUME Before(m, z, m[1]) PROVE FALSE
  OBVIOUS
<1>1. PICK i \in DOMAIN m, j \in DOMAIN m : i < j /\ m[j] = m[1]
  BY DEF Before
<1>2. DOMAIN m = 1 .. Len(m) /\ Len(m) \in Nat \ {0}
  BY EmptySeq
<1>3. 1 \in DOMAIN m /\ j # 1
  BY <1>1, <1>2
<1> QED BY <1>1, <1>3 DEF IsInjective

\* A list in which nothing comes before y has y at its front alone.
LEMMA FrontOnly ==
  ASSUME NEW l \in Seq(Class), NEW y \in ToSet(l), \A z : ~Before(l, z, y)
  PROVE  l # <<>> /\ Head(l) = y /\ y \notin ToSet(Tail(l))
<1>1. l # <<>>
  BY DEF ToSet
<1>2. PICK h, t : h = Head(l) /\ t = Tail(l)
  OBVIOUS
<1>3. h \in Class /\ t \in Seq(Class) /\ l = <<h>> \o t /\ ToSet(l) = {h} \cup ToSet(t)
  BY <1>1, <1>2, HeadAndTail
<1>4. \A x : Before(<<h>> \o t, h, x) <=> Before(t, h, x) \/ x \in ToSet(t)
  BY <1>3, ConsIs
<1>5. y \notin ToSet(t)
  BY <1>3, <1>4
<1> QED BY <1>1, <1>2, <1>3, <1>5

\* The class chosen and the next one: if no list orders them, the chosen one is in an earlier list.
LEMMA EarlyFirst ==
  ASSUME NEW lists \in Lists, Candidates(lists) # {}, NEW m, Merged(Remaining(lists), m), m # <<>>
  PROVE  Early(lists, Chosen(lists), m[1])
<1>0. PICK c, r, y : c = Chosen(lists) /\ r = Remaining(lists) /\ y = m[1]
  OBVIOUS
<1>1. /\ c \in Class \cap All(lists) /\ r \in Lists /\ DOMAIN r = DOMAIN lists
      /\ First(lists) \in Candidates(lists) /\ \A i \in Candidates(lists) : First(lists) <= i
      /\ \A i \in DOMAIN lists : Takes(lists[i], r[i], c)
      /\ All(r) = All(lists) \ {c}
  BY <1>0, StepIs
<1>2. /\ DOMAIN lists \subseteq Nat /\ \A i \in DOMAIN lists : lists[i] \in Seq(Class)
  BY DEF Lists
<1>3. m \in Seq(Class) /\ IsInjective(m) /\ ToSet(m) = All(r)
  BY <1>0 DEF Merged
<1>4. y \in All(lists) /\ y # c
  <2>1. 1 \in DOMAIN m
    <3>1. DOMAIN m = 1 .. Len(m) /\ Len(m) \in Nat \ {0}
      BY <1>3, EmptySeq
    <3> QED BY <3>1
  <2>2. y \in ToSet(m)
    BY <1>0, <2>1 DEF ToSet
  <2> QED BY <1>1, <1>3, <2>2
<1>5. \A i \in DOMAIN lists : \A z : ~Before(r[i], z, y)
  <2>1. \A z : ~Before(m, z, y)
    BY <1>0, <1>3, FirstOnce
  <2> QED BY <1>0, <1>1, <2>1 DEF Merged
<1> SUFFICES ASSUME \A i \in DOMAIN lists : ~Before(lists[i], c, y)
             PROVE  Min(Having(lists, c)) < Min(Having(lists, y))
  BY <1>0 DEF Early
<1>6. ASSUME NEW i \in DOMAIN lists, y \in ToSet(lists[i])
      PROVE  lists[i] # <<>> /\ Head(lists[i]) = y /\ y \notin ToSet(Tail(lists[i]))
  <2>1. PICK l, q : l = lists[i] /\ q = r[i]
    OBVIOUS
  <2>2. Takes(l, q, c)
    BY <1>1, <2>1
  <2>3. y \in ToSet(q) /\ q \in Seq(Class)
    BY <1>1, <1>4, <1>6, <2>1, <2>2, TakesIs DEF Takes
  <2>4. Before(<<c>> \o q, c, y)
    BY <1>1, <2>3, ConsIs
  <2>5. l = q
    BY <2>1, <2>2, <2>4 DEF Takes
  <2>6. \A z : ~Before(q, z, y)
    BY <1>5, <2>1
  <2>7. q # <<>> /\ Head(q) = y /\ y \notin ToSet(Tail(q))
    BY <2>3, <2>6, FrontOnly
  <2> QED BY <2>1, <2>5, <2>7
<1>7. \A j \in DOMAIN lists : ~tail_contains(lists[j], y)
  <2> SUFFICES ASSUME NEW j \in DOMAIN lists, lists[j] # <<>>, y \in ToSet(Tail(lists[j])) PROVE FALSE
    BY DEF tail_contains
  <2>1. y \in ToSet(lists[j])
    BY <1>2, HeadAndTail
  <2> QED BY <1>6, <2>1
<1>8. ASSUME NEW i \in Having(lists, y) PROVE First(lists) < i
  <2>1. i \in DOMAIN lists /\ lists[i] # <<>> /\ Head(lists[i]) = y
    BY <1>6, <1>8 DEF Having
  <2>2. i \in Candidates(lists)
    BY <1>7, <2>1 DEF Candidates
  <2>3. i # First(lists)
    BY <1>0, <1>4, <2>1 DEF Chosen
  <2> QED BY <1>1, <1>2, <2>1, <2>2, <2>3 DEF Candidates
<1>9. First(lists) \in Having(lists, c)
  <2>1. First(lists) \in DOMAIN lists /\ lists[First(lists)] # <<>>
    BY <1>1 DEF Candidates
  <2>2. Head(lists[First(lists)]) \in ToSet(lists[First(lists)])
    BY <1>2, <2>1, HeadAndTail
  <2> QED BY <1>0, <2>1, <2>2 DEF Having, Chosen
<1>10. Having(lists, y) # {}
  BY <1>4 DEF All, Having
<1>11. \A z : Having(lists, z) \in SUBSET Nat
  BY <1>2 DEF Having
<1>12. Min(Having(lists, c)) <= First(lists) /\ Min(Having(lists, c)) \in Nat
  BY <1>9, <1>11, MinIs
<1>13. Min(Having(lists, y)) \in Having(lists, y)
  BY <1>10, <1>11, MinIs
<1>14. First(lists) < Min(Having(lists, y)) /\ Min(Having(lists, y)) \in Nat /\ First(lists) \in Nat
  BY <1>8, <1>9, <1>11, <1>13
<1> QED BY <1>12, <1>14

\* The result of a step, when the rest was merged.
LEMMA MergedStep ==
  ASSUME NEW lists \in Lists, Candidates(lists) # {}, NEW m, Merged(Remaining(lists), m)
  PROVE  Merged(lists, <<Chosen(lists)>> \o m)
<1>0. PICK c, r, s : c = Chosen(lists) /\ r = Remaining(lists) /\ s = <<c>> \o m
  OBVIOUS
<1>1. /\ c \in Class /\ c \in All(lists) /\ r \in Lists /\ DOMAIN r = DOMAIN lists
      /\ \A i \in DOMAIN lists : Takes(lists[i], r[i], c)
      /\ All(r) = All(lists) \ {c}
  BY <1>0, StepIs
<1>2. m \in Seq(Class) /\ IsInjective(m) /\ ToSet(m) = All(r) /\ Merged(r, m)
  BY <1>0 DEF Merged
<1>3. /\ s \in Seq(Class) /\ Len(s) = Len(m) + 1 /\ s[1] = c
      /\ \A k \in 1 .. Len(m) : s[k + 1] = m[k]
      /\ ToSet(s) = {c} \cup ToSet(m)
      /\ c \notin ToSet(m) /\ IsInjective(m) => IsInjective(s)
      /\ \A x, y : Before(s, x, y) <=> Before(m, x, y) \/ (x = c /\ y \in ToSet(m))
  BY <1>0, <1>1, <1>2, ConsIs, SMTT(30)
<1>4. ToSet(s) = All(lists) /\ IsInjective(s)
  BY <1>1, <1>2, <1>3
<1>5. ASSUME NEW i \in DOMAIN lists, NEW x, NEW y, Before(lists[i], x, y) PROVE Before(s, x, y)
  <2>1. Before(r[i], x, y) \/ (x = c /\ y \in ToSet(r[i]))
    BY <1>1, <1>5, TakesIs
  <2>2. Before(r[i], x, y) => Before(m, x, y)
    BY <1>1, <1>2 DEF Merged
  <2>3. ToSet(r[i]) \subseteq ToSet(m)
    BY <1>1, <1>2 DEF All
  <2> QED BY <1>3, <2>1, <2>2, <2>3
<1>6. ASSUME NEW k \in 1 .. (Len(s) - 1) PROVE Early(lists, s[k], s[k + 1])
  <2>0. Len(m) \in Nat /\ DOMAIN m = 1 .. Len(m) /\ k \in 1 .. Len(m)
    BY <1>2, <1>3
  <2>1. CASE k = 1
    <3>1. m # <<>> /\ s[k] = c /\ s[k + 1] = m[1]
      BY <1>3, <2>0, <2>1
    <3>2. Early(lists, Chosen(lists), m[1])
      BY <3>1, EarlyFirst
    <3> QED BY <1>0, <3>1, <3>2
  <2>2. CASE k # 1
    <3>1. PICK j \in 1 .. (Len(m) - 1) : k = j + 1
      <4>1. k - 1 \in 1 .. (Len(m) - 1) /\ k = (k - 1) + 1
        BY <2>0, <2>2
      <4> QED BY <4>1
    <3>2. PICK x, y : x = m[j] /\ y = m[j + 1]
      OBVIOUS
    <3>3. s[k] = x /\ s[k + 1] = y /\ j \in DOMAIN m /\ j + 1 \in DOMAIN m
      BY <1>3, <2>0, <3>1, <3>2
    <3>4. x \in ToSet(m) /\ y \in ToSet(m)
      BY <3>2, <3>3 DEF ToSet
    <3>5. x # c /\ y # c
      BY <1>1, <1>2, <3>4
    <3>6. Early(r, x, y)
      BY <1>2, <3>1, <3>2 DEF Merged
    <3>7. Having(r, x) = Having(lists, x) /\ Having(r, y) = Having(lists, y)
      BY <1>1, <3>5, TakesIs DEF Having
    <3>8. \A i \in DOMAIN lists : Before(r[i], x, y) => Before(lists[i], x, y)
      BY <1>1, TakesIs
    <3>9. Early(lists, x, y)
      BY <1>1, <3>6, <3>7, <3>8 DEF Early
    <3> QED BY <3>3, <3>9
  <2> QED BY <2>1, <2>2
<1>7. Merged(lists, s)
  BY <1>3, <1>4, <1>5, <1>6 DEF Merged
<1> QED BY <1>0, <1>7

LEMMA StuckStep ==
  ASSUME NEW lists \in Lists, Candidates(lists) # {}, Stuck(Remaining(lists))
  PROVE  Stuck(lists)
<1>1. PICK c, r : c = Chosen(lists) /\ r = Remaining(lists)
  OBVIOUS
<1>2. /\ c \in Class /\ DOMAIN r = DOMAIN lists /\ All(r) \subseteq All(lists)
      /\ \A i \in DOMAIN lists : Takes(lists[i], r[i], c)
  BY <1>1, StepIs
<1>3. PICK S \in SUBSET All(r) :
        S # {} /\ \A x \in S : \E y \in S, i \in DOMAIN r : Before(r[i], y, x)
  BY <1>1 DEF Stuck
<1>4. \A i \in DOMAIN lists : \A x, y : Before(r[i], x, y) => Before(lists[i], x, y)
  BY <1>2, TakesIs
<1> QED BY <1>2, <1>3, <1>4 DEF Stuck

\* When no class can come next, the classes at the front of the lists are such a set.
LEMMA StuckHere ==
  ASSUME NEW lists \in Lists, ~Done(lists), Candidates(lists) = {}
  PROVE  Stuck(lists)
<1> DEFINE I == {i \in DOMAIN lists : lists[i] # <<>>}
           S == {Head(lists[i]) : i \in I}
<1>1. ASSUME NEW i \in I
      PROVE  /\ lists[i] \in Seq(Class) /\ Head(lists[i]) \in Class /\ Tail(lists[i]) \in Seq(Class)
             /\ lists[i] = <<Head(lists[i])>> \o Tail(lists[i])
             /\ Head(lists[i]) \in ToSet(lists[i])
  <2>1. lists[i] \in Seq(Class) /\ lists[i] # <<>>
    BY <1>1 DEF Lists
  <2> QED BY <2>1, HeadAndTail
<1>2. S # {}
  BY DEF Done
<1>3. S \in SUBSET All(lists)
  BY <1>1 DEF All
<1>4. ASSUME NEW x \in S PROVE \E y \in S, j \in DOMAIN lists : Before(lists[j], y, x)
  <2>1. PICK i \in I : x = Head(lists[i])
    BY <1>4
  <2>2. PICK j \in DOMAIN lists : tail_contains(lists[j], x)
    BY <2>1 DEF Candidates
  <2>3. j \in I /\ x \in ToSet(Tail(lists[j]))
    BY <2>2 DEF tail_contains
  <2>4. PICK h, t : h = Head(lists[j]) /\ t = Tail(lists[j])
    OBVIOUS
  <2>5. h \in Class /\ t \in Seq(Class) /\ lists[j] = <<h>> \o t /\ x \in ToSet(t) /\ h \in S
    BY <1>1, <2>3, <2>4
  <2>6. Before(<<h>> \o t, h, x)
    BY <2>5, ConsIs
  <2> QED BY <2>5, <2>6
<1> HIDE DEF S
<1> QED BY <1>2, <1>3, <1>4 DEF Stuck

\* pmerge merges the lists, or fails because no order has that of each of them.
LEMMA MergeIs ==
  ASSUME BoundsAssumption
  PROVE  \A lists \in Lists : IF pmerge[lists] = Failed THEN Stuck(lists)
                              ELSE Merged(lists, pmerge[lists])
<1> DEFINE Good(lists) == IF pmerge[lists] = Failed THEN Stuck(lists)
                          ELSE Merged(lists, pmerge[lists])
           Bad == {k \in Nat : \E lists \in Lists : Left(lists) = k /\ ~Good(lists)}
<1> SUFFICES ASSUME NEW ls \in Lists, ~Good(ls) PROVE FALSE
  OBVIOUS
<1>1. PICK k \in Bad : \A j \in Bad : k <= j
  <2>1. Left(ls) \in Bad
    BY LeftIs
  <2>2. Bad \in SUBSET Nat /\ Bad # {}
    BY <2>1
  <2> HIDE DEF Bad
  <2> QED BY <2>2, LeastNumber
<1>2. PICK lists \in Lists : Left(lists) = k /\ ~Good(lists)
  BY <1>1
<1>3. pmerge[lists] = Merges(pmerge, lists)
  BY PmergeIs
<1>4. CASE Done(lists)
  <2>1. pmerge[lists] = <<>>
    BY <1>3, <1>4 DEF Merges
  <2>2. \A i \in DOMAIN lists : ToSet(lists[i]) = {} /\ \A x, y : ~Before(lists[i], x, y)
    BY <1>4 DEF Done, ToSet, Before
  <2>3. All(lists) = {}
    BY <2>2 DEF All
  <2>4. <<>> \in Seq(Class) /\ ToSet(<<>>) = {} /\ IsInjective(<<>>) /\ 1 .. (Len(<<>>) - 1) = {}
    BY DEF ToSet, IsInjective
  <2>5. Merged(lists, <<>>)
    BY <2>2, <2>3, <2>4 DEF Merged
  <2>6. <<>> # Failed
    BY DEF Failed
  <2> QED BY <1>2, <2>1, <2>5, <2>6
<1>5. CASE ~Done(lists) /\ Candidates(lists) = {}
  <2>1. pmerge[lists] = Failed
    BY <1>3, <1>5 DEF Merges
  <2> QED BY <1>2, <1>5, <2>1, StuckHere
<1>6. CASE ~Done(lists) /\ Candidates(lists) # {}
  <2>1. Remaining(lists) \in Lists /\ Chosen(lists) \in Class
    BY <1>6, StepIs
  <2>2. Good(Remaining(lists))
    <3>1. Left(Remaining(lists)) \in Nat /\ Left(Remaining(lists)) < k
      BY <1>2, <1>6, <2>1, LeftIs
    <3>2. Left(Remaining(lists)) \notin Bad
      BY <1>1, <3>1
    <3> QED BY <2>1, <3>1, <3>2
  <2>3. CASE pmerge[Remaining(lists)] = Failed
    <3>1. pmerge[lists] = Failed
      BY <1>3, <1>6, <2>3 DEF Merges
    <3> QED BY <1>2, <1>6, <2>2, <2>3, <3>1, StuckStep
  <2>4. CASE pmerge[Remaining(lists)] # Failed
    <3>1. PICK m : m = pmerge[Remaining(lists)]
      OBVIOUS
    <3>2. pmerge[lists] = <<Chosen(lists)>> \o m
      BY <1>3, <1>6, <2>4, <3>1 DEF Merges
    <3>3. Merged(Remaining(lists), m) /\ m \in Seq(Class)
      BY <2>2, <2>4, <3>1 DEF Merged
    <3>4. Merged(lists, <<Chosen(lists)>> \o m)
      BY <1>6, <3>3, MergedStep
    <3>5. <<Chosen(lists)>> \o m # Failed
      <4>1. (<<Chosen(lists)>> \o m)[1] = Chosen(lists)
        BY <2>1, <3>3, ConsIs
      <4>2. Failed[1] \notin Class
        BY DEF Failed, Class, BoundsAssumption
      <4> QED BY <2>1, <4>1, <4>2
    <3> QED BY <1>2, <3>2, <3>4, <3>5
  <2> QED BY <2>3, <2>4
<1> QED BY <1>4, <1>5, <1>6
-----------------------------------------------------------------------------
(* The classes that were made.                                              *)

\* The lists that mro_implementation merges, when the order of a class is f's.
Orders(f, bases) == [i \in DOMAIN bases |-> f[bases[i]]] \o <<bases>>

LEMMA OrdersIs ==
  ASSUME NEW f \in [Class -> Seq(Class)], NEW bases \in Seq(Class)
  PROVE  /\ Orders(f, bases) \in Lists /\ Len(bases) \in Nat
         /\ DOMAIN Orders(f, bases) = 1 .. (Len(bases) + 1)
         /\ \A i \in DOMAIN bases : i \in DOMAIN Orders(f, bases) /\ Orders(f, bases)[i] = f[bases[i]]
         /\ \A b \in ToSet(bases) : \E i \in DOMAIN Orders(f, bases) : Orders(f, bases)[i] = f[b]
         /\ \E i \in DOMAIN Orders(f, bases) : Orders(f, bases)[i] = bases
         /\ \A i \in DOMAIN Orders(f, bases) :
              Orders(f, bases)[i] \in {f[b] : b \in ToSet(bases)} \cup {bases}
         /\ All(Orders(f, bases)) = ToSet(bases) \cup UNION {ToSet(f[b]) : b \in ToSet(bases)}
<1>1. PICK n, p, s : n = Len(bases) /\ p = [i \in DOMAIN bases |-> f[bases[i]]] /\ s = Orders(f, bases)
  OBVIOUS
<1>2. n \in Nat /\ DOMAIN bases = 1 .. n /\ \A i \in 1 .. n : bases[i] \in Class
  BY <1>1
<1>3. p \in Seq(Seq(Class)) /\ Len(p) = n /\ \A i \in 1 .. n : p[i] = f[bases[i]]
  <2>1. p \in [1 .. n -> Seq(Class)]
    BY <1>1, <1>2
  <2> QED BY <1>1, <1>2, <2>1
<1>4. /\ s \in Lists /\ DOMAIN s = 1 .. (n + 1)
      /\ \A i \in 1 .. n : s[i] = f[bases[i]]
      /\ s[n + 1] = bases
  BY <1>1, <1>2, <1>3 DEF Orders, Lists
<1>5. \A b \in ToSet(bases) : \E i \in 1 .. n : s[i] = f[b]
  BY <1>2, <1>4 DEF ToSet
<1>6. ASSUME NEW i \in 1 .. (n + 1) PROVE s[i] \in {f[b] : b \in ToSet(bases)} \cup {bases}
  <2>1. CASE i \in 1 .. n
    <3>1. s[i] = f[bases[i]] /\ bases[i] \in ToSet(bases)
      BY <1>2, <1>4, <2>1 DEF ToSet
    <3> QED BY <3>1
  <2>2. CASE i = n + 1
    BY <1>4, <2>2
  <2> QED BY <1>2, <2>1, <2>2
<1>7. 1 .. n \subseteq 1 .. (n + 1) /\ n + 1 \in 1 .. (n + 1)
  BY <1>2
<1>8. All(s) = ToSet(bases) \cup UNION {ToSet(f[b]) : b \in ToSet(bases)}
  <2>1. ASSUME NEW x \in All(s) PROVE x \in ToSet(bases) \cup UNION {ToSet(f[b]) : b \in ToSet(bases)}
    <3>1. PICK i \in 1 .. (n + 1) : x \in ToSet(s[i])
      BY <1>4, <2>1 DEF All
    <3> QED BY <1>6, <3>1
  <2>2. ToSet(bases) \subseteq All(s)
    BY <1>4, <1>7 DEF All
  <2>3. ASSUME NEW b \in ToSet(bases) PROVE ToSet(f[b]) \subseteq All(s)
    <3>1. PICK i \in 1 .. n : s[i] = f[b]
      BY <1>5
    <3> QED BY <1>4, <1>7, <3>1 DEF All
  <2> QED BY <2>1, <2>2, <2>3
<1> QED BY <1>1, <1>2, <1>4, <1>5, <1>6, <1>7, <1>8

LEMMA OrdersSame ==
  ASSUME NEW f, NEW g, NEW bases, \A i \in DOMAIN bases : f[bases[i]] = g[bases[i]]
  PROVE  Orders(f, bases) = Orders(g, bases)
<1>1. [i \in DOMAIN bases |-> f[bases[i]]] = [i \in DOMAIN bases |-> g[bases[i]]]
  OBVIOUS
<1> QED BY <1>1 DEF Orders

\* A class has bases made before it, and itself before what pmerge made of them.
ClassMade(c) ==
  /\ tp_bases[c] # <<>> /\ tp_bases[c] \in Seq(0 .. (c - 1))
  /\ \E m : tp_mro[c] = <<c>> \o m /\ Merged(Orders(tp_mro, tp_bases[c]), m)
ClassesMade ==
  /\ made \in 0 .. MaxClass
  /\ tp_bases \in [Class -> Seq(Class)] /\ tp_mro \in [Class -> Seq(Class)]
  /\ tp_bases[0] = <<>> /\ tp_mro[0] = <<0>>
  /\ \A c \in 1 .. made : ClassMade(c)
  /\ refused # <<>> => /\ refused \in Seq(0 .. made)
                       /\ IsInjective(refused) => Stuck(Orders(tp_mro, refused))

LEMMA InitClassesMade ==
  ASSUME BoundsAssumption, Init
  PROVE  ClassesMade
<1>1. 0 \in Class /\ made \in 0 .. MaxClass /\ 1 .. made = {} /\ refused = <<>>
  BY DEF Init, Class, BoundsAssumption
<1>2. <<>> \in Seq(Class) /\ <<0>> \in Seq(Class)
  BY <1>1
<1>3. /\ tp_bases \in [Class -> Seq(Class)] /\ tp_mro \in [Class -> Seq(Class)]
      /\ tp_bases[0] = <<>> /\ tp_mro[0] = <<0>>
  BY <1>1, <1>2 DEF Init
<1> QED BY <1>1, <1>3 DEF ClassesMade

\* The functions on 1 .. k are sequences.
LEMMA FunctionSequences ==
  ASSUME NEW S, NEW k \in Nat, NEW s \in [1 .. k -> S]
  PROVE  s \in Seq(S)
OBVIOUS

LEMMA ElementsIn ==
  ASSUME NEW S, NEW s \in Seq(S)
  PROVE  \A i \in DOMAIN s : s[i] \in S
OBVIOUS

\* Sequences over fewer classes.
LEMMA Subsequences ==
  ASSUME NEW S, NEW T, S \subseteq T
  PROVE  Seq(S) \subseteq Seq(T)
BY SeqMonotonic

LEMMA NextClassesMade ==
  ASSUME BoundsAssumption, ClassesMade, [Next]_vars
  PROVE  ClassesMade'
<1>1. CASE UNCHANGED vars
  BY <1>1 DEF vars, ClassesMade, ClassMade
<1>2. ASSUME NEW bases \in Tuples, type_new(bases) PROVE ClassesMade'
  <2>1. PICK c, merged, mro : /\ c = made + 1 /\ merged = pmerge[Orders(tp_mro, bases)]
                              /\ mro = IF ~IsInjective(bases) \/ merged = Failed THEN Failed
                                       ELSE <<c>> \o merged
    OBVIOUS
  <2>2. mro = mro_implementation(c, bases)
    BY <2>1 DEF mro_implementation, Orders
  <2>3. /\ made < MaxClass
        /\ IF mro = Failed THEN refused' = bases /\ UNCHANGED <<made, tp_bases, tp_mro>>
           ELSE /\ made' = c /\ refused' = <<>>
                /\ tp_bases' = [tp_bases EXCEPT ![c] = bases]
                /\ tp_mro' = [tp_mro EXCEPT ![c] = mro]
    BY <1>2, <2>1, <2>2 DEF type_new
  <2>4. /\ made \in Nat /\ c \in Class /\ c \in 1 .. MaxClass /\ 0 .. made \subseteq Class
        /\ c \notin 0 .. made /\ c - 1 = made /\ c # 0 /\ 0 \in Class
    BY <2>1, <2>3 DEF ClassesMade, Class, BoundsAssumption
  <2>5. bases \in Seq(0 .. made) /\ bases # <<>> /\ bases \in Seq(Class)
    <3>1. PICK k \in 1 .. MaxBases : bases \in [1 .. k -> 0 .. made]
      BY DEF Tuples
    <3>2. k \in Nat /\ 1 \in 1 .. k
      BY BoundsAssumption DEF BoundsAssumption
    <3>3. bases \in Seq(0 .. made)
      BY <3>1, <3>2, FunctionSequences
    <3>4. bases # <<>>
      BY <3>1, <3>2, EmptySeq
    <3> QED BY <2>4, <3>3, <3>4, Subsequences
  <2>6. /\ tp_bases \in [Class -> Seq(Class)] /\ tp_mro \in [Class -> Seq(Class)]
        /\ tp_bases[0] = <<>> /\ tp_mro[0] = <<0>>
    BY DEF ClassesMade
  <2>7. Orders(tp_mro, bases) \in Lists
    BY <2>5, <2>6, OrdersIs
  <2>8. IF merged = Failed THEN Stuck(Orders(tp_mro, bases)) ELSE Merged(Orders(tp_mro, bases), merged)
    BY <2>1, <2>7, MergeIs
  <2>9. CASE mro = Failed
    <3>1. IsInjective(bases) => merged = Failed
      <4>1. ASSUME merged # Failed PROVE <<c>> \o merged # Failed
        <5>1. merged \in Seq(Class)
          BY <2>8, <4>1 DEF Merged
        <5>2. (<<c>> \o merged)[1] = c
          BY <2>4, <5>1, ConsIs
        <5>3. Failed[1] \notin Class
          BY DEF Failed, Class, BoundsAssumption
        <5> QED BY <2>4, <5>2, <5>3
      <4> QED BY <2>1, <2>9, <4>1
    <3>2. IsInjective(bases) => Stuck(Orders(tp_mro, bases))
      BY <2>8, <3>1
    <3>3. refused' = bases /\ made' = made /\ tp_bases' = tp_bases /\ tp_mro' = tp_mro
      BY <2>3, <2>9
    <3> QED BY <2>5, <3>2, <3>3 DEF ClassesMade, ClassMade
  <2>10. CASE mro # Failed
    <3>1. mro = <<c>> \o merged /\ Merged(Orders(tp_mro, bases), merged)
      BY <2>1, <2>8, <2>10
    <3>2. mro \in Seq(Class)
      <4>1. merged \in Seq(Class)
        BY <3>1 DEF Merged
      <4> QED BY <2>4, <3>1, <4>1, ConsIs
    <3>3. /\ made' = c /\ refused' = <<>>
          /\ tp_bases' \in [Class -> Seq(Class)] /\ tp_mro' \in [Class -> Seq(Class)]
          /\ tp_bases'[c] = bases /\ tp_mro'[c] = mro
          /\ \A d \in Class : d # c => tp_bases'[d] = tp_bases[d] /\ tp_mro'[d] = tp_mro[d]
      BY <2>3, <2>4, <2>5, <2>6, <2>10, <3>2
    <3>4. \A bs \in Seq(0 .. made) : Orders(tp_mro', bs) = Orders(tp_mro, bs)
      <4> TAKE bs \in Seq(0 .. made)
      <4>1. \A i \in DOMAIN bs : tp_mro'[bs[i]] = tp_mro[bs[i]]
        <5>1. \A i \in DOMAIN bs : bs[i] \in 0 .. made
          BY ElementsIn
        <5>2. \A d \in 0 .. made : tp_mro'[d] = tp_mro[d]
          BY <2>4, <3>3
        <5> QED BY <5>1, <5>2
      <4> QED BY <4>1, OrdersSame
    <3>5. ASSUME NEW d \in 1 .. c PROVE ClassMade(d)'
      <4>1. CASE d = c
        BY <2>4, <2>5, <3>1, <3>3, <3>4, <4>1 DEF ClassMade
      <4>2. CASE d # c
        <5>1. d \in 1 .. made /\ d \in Class /\ 0 .. (d - 1) \subseteq 0 .. made
          BY <2>4, <4>2
        <5>2. ClassMade(d)
          BY <5>1 DEF ClassesMade
        <5>3. tp_bases[d] \in Seq(0 .. made)
          BY <5>1, <5>2, Subsequences DEF ClassMade
        <5> QED BY <3>3, <3>4, <4>2, <5>1, <5>2, <5>3 DEF ClassMade
      <4> QED BY <4>1, <4>2
    <3>6. made' \in 0 .. MaxClass /\ tp_bases'[0] = <<>> /\ tp_mro'[0] = <<0>>
      BY <2>4, <2>6, <3>3
    <3> QED BY <3>3, <3>5, <3>6 DEF ClassesMade
  <2> QED BY <2>9, <2>10
<1> QED BY <1>1, <1>2 DEF Next

\* ClassesMade is an invariant.
THEOREM ClassesMadeHolds == Spec => []ClassesMade
<1>1. Init => ClassesMade
  BY InitClassesMade, BoundsAssumption
<1>2. ClassesMade /\ [Next]_vars => ClassesMade'
  BY NextClassesMade, BoundsAssumption
<1> QED BY <1>1, <1>2, PTL DEF Spec
-----------------------------------------------------------------------------
(* What the orders of the classes have.                                     *)

LEMMA AboveIs ==
  ASSUME tp_bases \in [Class -> Seq(Class)], NEW c \in Class
  PROVE  /\ Above(c) = {c} \cup UNION {Above(b) : b \in ToSet(tp_bases[c])}
         /\ c \in Above(c) /\ Above(c) \subseteq Class /\ ToSet(tp_bases[c]) \subseteq Class
<1> DEFINE T == {c} \cup UNION {Above(b) : b \in ToSet(tp_bases[c])}
<1>1. \A d \in Class : ToSet(tp_bases[d]) \subseteq Class
  <2>1. \A d \in Class : tp_bases[d] \in Seq(Class)
    OBVIOUS
  <2> QED BY <2>1 DEF ToSet
<1>2. \A d \in Class : d \in Above(d)
  BY DEF Above
<1>3. \A d : Above(d) \subseteq Class
  BY DEF Above
<1>4. ASSUME NEW d, NEW s \in Above(d) PROVE ToSet(tp_bases[s]) \subseteq Above(d)
  BY <1>1 DEF Above
<1>5. ASSUME NEW b \in ToSet(tp_bases[c]) PROVE Above(b) \subseteq Above(c)
  BY <1>5 DEF Above
<1>6. Above(c) \subseteq T
  <2>1. T \in SUBSET Class /\ c \in T
    BY <1>3
  <2>2. ASSUME NEW s \in T PROVE ToSet(tp_bases[s]) \subseteq T
    <3>1. CASE s = c
      BY <1>1, <1>2, <3>1
    <3>2. CASE s # c
      <4>1. PICK b \in ToSet(tp_bases[c]) : s \in Above(b)
        BY <2>2, <3>2
      <4>2. ToSet(tp_bases[s]) \subseteq Above(b)
        BY <1>4, <4>1
      <4> QED BY <4>2
    <3> QED BY <3>1, <3>2
  <2> HIDE DEF T
  <2> QED BY <2>1, <2>2 DEF Above
<1>7. T \subseteq Above(c)
  BY <1>2, <1>5
<1> HIDE DEF T
<1>8. Above(c) = T
  BY <1>6, <1>7
<1> QED BY <1>1, <1>2, <1>3, <1>8 DEF T

\* The element that each other one comes before is the last.
LEMMA LastIs ==
  ASSUME NEW X, NEW s \in Seq(X), s # <<>>, NEW z
  PROVE  /\ Last(s) = z => z \in ToSet(s) /\ \A x \in ToSet(s) : x = z \/ Before(s, x, z)
         /\ IsInjective(s) /\ (\A x \in ToSet(s) : x = z \/ Before(s, x, z)) => Last(s) = z
<1>1. PICK n : n = Len(s)
  OBVIOUS
<1>2. n \in Nat \ {0} /\ DOMAIN s = 1 .. n /\ n \in 1 .. n /\ Last(s) = s[n]
  BY <1>1, EmptySeq DEF Last
<1>3. ASSUME s[n] = z PROVE z \in ToSet(s) /\ \A x \in ToSet(s) : x = z \/ Before(s, x, z)
  <2>1. z \in ToSet(s)
    BY <1>2, <1>3 DEF ToSet
  <2>2. ASSUME NEW x \in ToSet(s), x # z PROVE Before(s, x, z)
    <3>1. PICK i \in 1 .. n : s[i] = x
      BY <1>2 DEF ToSet
    <3>2. i < n
      BY <1>2, <1>3, <2>2, <3>1
    <3> QED BY <1>2, <1>3, <3>1, <3>2 DEF Before
  <2> QED BY <2>1, <2>2
<1>4. ASSUME IsInjective(s), \A x \in ToSet(s) : x = z \/ Before(s, x, z), s[n] # z PROVE FALSE
  <2>1. s[n] \in ToSet(s)
    BY <1>2 DEF ToSet
  <2>2. PICK i \in 1 .. n, j \in 1 .. n : i < j /\ s[i] = s[n]
    BY <1>2, <1>4, <2>1 DEF Before
  <2>3. i = n
    BY <1>2, <1>4, <2>2 DEF IsInjective
  <2> QED BY <1>2, <2>2, <2>3
<1> QED BY <1>2, <1>3, <1>4

\* The order of c has what OrderIsAbove says, and only classes that were made before it.
Ordered(c) ==
  /\ tp_mro[c] # <<>> /\ ToSet(tp_mro[c]) = Above(c) /\ IsInjective(tp_mro[c])
  /\ Head(tp_mro[c]) = c /\ Last(tp_mro[c]) = 0 /\ Above(c) \subseteq 0 .. c

LEMMA ObjectOrdered ==
  ASSUME BoundsAssumption, ClassesMade
  PROVE  Ordered(0)
<1>1. 0 \in Class
  BY DEF Class, BoundsAssumption
<1>2. tp_bases \in [Class -> Seq(Class)] /\ ToSet(tp_bases[0]) = {} /\ tp_mro[0] = <<0>>
  BY DEF ClassesMade, ToSet
<1>3. Above(0) = {0}
  BY <1>1, <1>2, AboveIs
<1>4. <<0>> # <<>> /\ IsInjective(<<0>>) /\ Head(<<0>>) = 0 /\ Last(<<0>>) = 0
  BY DEF IsInjective, Last
<1>5. ToSet(<<0>>) = {0}
  BY DEF ToSet
<1>6. {0} \subseteq 0 .. 0
  OBVIOUS
<1> QED BY <1>2, <1>3, <1>4, <1>5, <1>6 DEF Ordered

\* What ClassMade says of c, its bases and the order that was made of theirs.
LEMMA MadeIs ==
  ASSUME BoundsAssumption, ClassesMade, NEW c \in 1 .. made
  PROVE  /\ c \in Class /\ c \in Nat /\ c # 0 /\ 0 .. (c - 1) \subseteq Class \cap 0 .. made
         /\ tp_bases \in [Class -> Seq(Class)] /\ tp_mro \in [Class -> Seq(Class)]
         /\ tp_bases[c] \in Seq(Class) /\ tp_bases[c] # <<>>
         /\ ToSet(tp_bases[c]) \subseteq 0 .. (c - 1) /\ ToSet(tp_bases[c]) # {}
         /\ \E m \in Seq(Class) :
              /\ tp_mro[c] = <<c>> \o m /\ Merged(Orders(tp_mro, tp_bases[c]), m)
              /\ \A b \in ToSet(tp_bases[c]) : \A x, y : Before(tp_mro[b], x, y) => Before(m, x, y)
              /\ \A x, y : Before(tp_bases[c], x, y) => Before(m, x, y)
              /\ ToSet(m) = ToSet(tp_bases[c]) \cup UNION {ToSet(tp_mro[b]) : b \in ToSet(tp_bases[c])}
<1>1. /\ tp_bases \in [Class -> Seq(Class)] /\ tp_mro \in [Class -> Seq(Class)] /\ ClassMade(c)
      /\ made \in 0 .. MaxClass
  BY DEF ClassesMade
<1>2. c \in Class /\ c \in Nat /\ c # 0 /\ 0 .. (c - 1) \subseteq Class \cap 0 .. made
  BY <1>1 DEF Class, BoundsAssumption
<1>3. PICK bases : bases = tp_bases[c]
  OBVIOUS
<1>4. bases \in Seq(Class) /\ bases # <<>> /\ bases \in Seq(0 .. (c - 1))
  BY <1>1, <1>2, <1>3 DEF ClassMade
<1>5. ToSet(bases) \subseteq 0 .. (c - 1) /\ ToSet(bases) # {}
  <2>1. 1 \in DOMAIN bases
    BY <1>4, EmptySeq
  <2> QED BY <1>4, <2>1 DEF ToSet
<1>6. PICK m : tp_mro[c] = <<c>> \o m /\ Merged(Orders(tp_mro, bases), m)
  BY <1>1, <1>3 DEF ClassMade
<1>7. PICK lists : lists = Orders(tp_mro, bases)
  OBVIOUS
<1>8. /\ \A b \in ToSet(bases) : \E i \in DOMAIN lists : lists[i] = tp_mro[b]
      /\ \E i \in DOMAIN lists : lists[i] = bases
      /\ All(lists) = ToSet(bases) \cup UNION {ToSet(tp_mro[b]) : b \in ToSet(bases)}
  <2>1. tp_mro \in [Class -> Seq(Class)] /\ bases \in Seq(Class)
    BY <1>1, <1>4
  <2>2. /\ \A b \in ToSet(bases) : \E i \in DOMAIN Orders(tp_mro, bases) : Orders(tp_mro, bases)[i] = tp_mro[b]
        /\ \E i \in DOMAIN Orders(tp_mro, bases) : Orders(tp_mro, bases)[i] = bases
        /\ All(Orders(tp_mro, bases))
             = ToSet(bases) \cup UNION {ToSet(tp_mro[b]) : b \in ToSet(bases)}
    BY <2>1, OrdersIs, ZenonT(60)
  <2> QED BY <1>7, <2>2, Zenon
<1>9. /\ m \in Seq(Class) /\ ToSet(m) = All(lists)
      /\ \A i \in DOMAIN lists : \A x, y : Before(lists[i], x, y) => Before(m, x, y)
  BY <1>6, <1>7 DEF Merged
<1>10. \A b \in ToSet(bases) : \A x, y : Before(tp_mro[b], x, y) => Before(m, x, y)
  BY <1>8, <1>9
<1>11. \A x, y : Before(bases, x, y) => Before(m, x, y)
  BY <1>8, <1>9
<1> QED BY <1>1, <1>2, <1>3, <1>4, <1>5, <1>6, <1>8, <1>9, <1>10, <1>11

LEMMA ClassOrdered ==
  ASSUME BoundsAssumption, ClassesMade, NEW c \in 1 .. made, \A b \in 0 .. (c - 1) : Ordered(b)
  PROVE  Ordered(c)
<1>1. /\ c \in Class /\ c \in Nat /\ c # 0 /\ 0 .. (c - 1) \subseteq Class \cap 0 .. made
      /\ tp_bases \in [Class -> Seq(Class)] /\ tp_mro \in [Class -> Seq(Class)]
  BY MadeIs
<1>2. PICK B : B = ToSet(tp_bases[c])
  OBVIOUS
<1>3. B \subseteq 0 .. (c - 1) /\ B # {}
  BY <1>2, MadeIs
<1>4. PICK m \in Seq(Class) :
        /\ tp_mro[c] = <<c>> \o m /\ Merged(Orders(tp_mro, tp_bases[c]), m)
        /\ \A b \in B : \A x, y : Before(tp_mro[b], x, y) => Before(m, x, y)
        /\ ToSet(m) = B \cup UNION {ToSet(tp_mro[b]) : b \in B}
  BY <1>2, MadeIs
<1>5. \A b \in B : b \in Above(b) /\ Above(b) = ToSet(tp_mro[b]) /\ Above(b) \subseteq 0 .. (c - 1)
  <2> TAKE b \in B
  <2>1. Ordered(b) /\ b \in Class /\ b \in 0 .. (c - 1)
    BY <1>1, <1>3
  <2>2. 0 .. b \subseteq 0 .. (c - 1)
    BY <1>1, <2>1
  <2> QED BY <1>1, <2>1, <2>2, AboveIs DEF Ordered
<1>6. ToSet(m) = UNION {Above(b) : b \in B} /\ ToSet(m) \subseteq 0 .. (c - 1)
  BY <1>4, <1>5
<1>7. c \notin ToSet(m) /\ IsInjective(m)
  <2>1. c \notin 0 .. (c - 1)
    BY <1>1
  <2> QED BY <1>4, <1>6, <2>1 DEF Merged
<1>8. PICK s : s = <<c>> \o m
  OBVIOUS
<1>9. /\ s \in Seq(Class) /\ s # <<>> /\ Head(s) = c /\ ToSet(s) = {c} \cup ToSet(m)
      /\ c \notin ToSet(m) /\ IsInjective(m) => IsInjective(s)
      /\ \A x, y : Before(s, x, y) <=> Before(m, x, y) \/ (x = c /\ y \in ToSet(m))
  BY <1>1, <1>8, ConsIs
<1>10. Above(c) = {c} \cup UNION {Above(b) : b \in B}
  BY <1>1, <1>2, AboveIs
<1>11. \A b \in B : 0 \in Above(b) /\ \A x \in Above(b) : x = 0 \/ Before(tp_mro[b], x, 0)
  <2> TAKE b \in B
  <2>1. Ordered(b) /\ tp_mro[b] \in Seq(Class)
    BY <1>1, <1>3
  <2> QED BY <2>1, LastIs DEF Ordered
<1>12. 0 \in ToSet(m) /\ \A x \in ToSet(m) : x = 0 \/ Before(m, x, 0)
  BY <1>3, <1>4, <1>6, <1>11
<1>13. \A x \in ToSet(s) : x = 0 \/ Before(s, x, 0)
  BY <1>9, <1>12
<1>14. Last(s) = 0
  BY <1>7, <1>9, <1>13, LastIs
<1>15. {c} \cup ToSet(m) \subseteq 0 .. c
  <2>1. c \in 0 .. c /\ 0 .. (c - 1) \subseteq 0 .. c
    BY <1>1
  <2> QED BY <1>6, <2>1
<1> QED BY <1>4, <1>6, <1>7, <1>8, <1>9, <1>10, <1>14, <1>15 DEF Ordered

LEMMA AllOrdered ==
  ASSUME BoundsAssumption, ClassesMade
  PROVE  \A c \in 0 .. made : Ordered(c)
<1> DEFINE Bad == {c \in 0 .. made : ~Ordered(c)}
<1> SUFFICES ASSUME Bad # {} PROVE FALSE
  OBVIOUS
<1>1. made \in Nat /\ Bad \in SUBSET Nat
  BY DEF ClassesMade, BoundsAssumption
<1>2. PICK c \in Bad : \A d \in Bad : c <= d
  BY <1>1, LeastNumber
<1>3. c \in 1 .. made
  BY <1>1, <1>2, ObjectOrdered
<1>4. \A b \in 0 .. (c - 1) : Ordered(b)
  BY <1>1, <1>2, <1>3
<1> QED BY <1>2, <1>3, <1>4, ClassOrdered

\* The order of a class has every class above it, once, itself first and object last: what
\* mro_implementation returns for every hierarchy that class statements can build.
THEOREM OrdersAlwaysAbove == Spec => []OrderIsAbove
<1>1. ClassesMade => OrderIsAbove
  BY AllOrdered, BoundsAssumption DEF OrderIsAbove, Ordered
<1> QED BY <1>1, ClassesMadeHolds, PTL

\* The orders and the bases of the classes above c are kept in the order of c.
Keeps(c) == \A d \in Above(c) : \A x, y \in Class :
  Before(tp_mro[d], x, y) \/ Before(tp_bases[d], x, y) => Before(tp_mro[c], x, y)

LEMMA ClassKeeps ==
  ASSUME BoundsAssumption, ClassesMade, NEW c \in 0 .. made, \A b \in 0 .. (c - 1) : Keeps(b)
  PROVE  Keeps(c)
<1>1. CASE c = 0
  <2>1. Above(c) = {0}
    <3>1. 0 \in Class
      BY DEF Class, BoundsAssumption
    <3>2. tp_bases \in [Class -> Seq(Class)] /\ ToSet(tp_bases[0]) = {}
      BY DEF ClassesMade, ToSet
    <3> QED BY <1>1, <3>1, <3>2, AboveIs
  <2>2. \A x, y : ~Before(tp_bases[0], x, y)
    BY DEF ClassesMade, Before
  <2> QED BY <1>1, <2>1, <2>2 DEF Keeps
<1>2. CASE c # 0
  <2>1. c \in 1 .. made
    <3>1. made \in Nat
      BY DEF ClassesMade, BoundsAssumption
    <3> QED BY <1>2, <3>1
  <2>2. PICK m \in Seq(Class) :
          /\ tp_mro[c] = <<c>> \o m
          /\ \A b \in ToSet(tp_bases[c]) : \A x, y : Before(tp_mro[b], x, y) => Before(m, x, y)
          /\ \A x, y : Before(tp_bases[c], x, y) => Before(m, x, y)
    BY <2>1, MadeIs
  <2>3. /\ c \in Class /\ tp_bases \in [Class -> Seq(Class)]
        /\ ToSet(tp_bases[c]) \subseteq 0 .. (c - 1)
    BY <2>1, MadeIs
  <2>4. \A x, y : Before(<<c>> \o m, x, y) <=> Before(m, x, y) \/ (x = c /\ y \in ToSet(m))
    BY <2>3, ConsIs
  <2>5. \A x, y : Before(m, x, y) => Before(tp_mro[c], x, y)
    BY <2>2, <2>4
  <2>6. ASSUME NEW d \in Above(c), NEW x \in Class, NEW y \in Class,
               Before(tp_mro[d], x, y) \/ Before(tp_bases[d], x, y)
        PROVE  Before(tp_mro[c], x, y)
    <3>1. CASE d = c
      BY <2>2, <2>5, <2>6, <3>1
    <3>2. CASE d # c
      <4>1. PICK b \in ToSet(tp_bases[c]) : d \in Above(b)
        BY <2>3, <2>6, <3>2, AboveIs
      <4>2. Before(tp_mro[b], x, y)
        BY <2>3, <2>6, <4>1 DEF Keeps
      <4> QED BY <2>2, <2>5, <4>2
    <3> QED BY <3>1, <3>2
  <2> QED BY <2>6 DEF Keeps
<1> QED BY <1>1, <1>2

\* The order of a class keeps the order of each class above it and that of each tuple of bases:
\* the constraints that pmerge takes from the lists are handed down through the whole hierarchy.
THEOREM AlwaysMonotonic == Spec => []Monotonic
<1>1. ASSUME ClassesMade PROVE Monotonic
  <2> DEFINE Bad == {c \in 0 .. made : ~Keeps(c)}
  <2>1. made \in Nat /\ Bad \in SUBSET Nat
    BY <1>1 DEF ClassesMade, BoundsAssumption
  <2>2. ASSUME Bad # {} PROVE FALSE
    <3>1. PICK c \in Bad : \A d \in Bad : c <= d
      BY <2>1, <2>2, LeastNumber
    <3>2. \A b \in 0 .. (c - 1) : Keeps(b)
      BY <2>1, <3>1
    <3> QED BY <1>1, <3>1, <3>2, ClassKeeps, BoundsAssumption
  <2>3. \A c \in 0 .. made : Keeps(c)
    BY <2>2
  <2> QED BY <2>3 DEF Monotonic, Keeps
<1> QED BY <1>1, ClassesMadeHolds, PTL

\* A tuple of bases without a duplicate is refused only when no order satisfies the lists:
\* pmerge fails on no hierarchy that has one.
THEOREM RefusedAlwaysInconsistent == Spec => []RefusedOnlyWhenInconsistent
<1>1. ASSUME ClassesMade PROVE RefusedOnlyWhenInconsistent
  <2> DEFINE L == {tp_mro[b] : b \in ToSet(refused)} \cup {refused}
  <2> SUFFICES ASSUME refused # <<>>, IsInjective(refused)
               PROVE  \E S \in SUBSET UNION {ToSet(l) : l \in L} :
                        S # {} /\ \A x \in S : \E y \in S, l \in L : Before(l, y, x)
    BY DEF RefusedOnlyWhenInconsistent
  <2>1. Stuck(Orders(tp_mro, refused)) /\ tp_mro \in [Class -> Seq(Class)] /\ refused \in Seq(Class)
    <3>1. 0 .. made \subseteq Class
      <4>1. made \in 0 .. MaxClass /\ MaxClass \in Nat
        BY <1>1, BoundsAssumption DEF ClassesMade, BoundsAssumption
      <4> QED BY <4>1 DEF Class
    <3> QED BY <1>1, <3>1, Subsequences DEF ClassesMade
  <2>2. PICK lists : lists = Orders(tp_mro, refused)
    OBVIOUS
  <2>3. /\ \A i \in DOMAIN lists : lists[i] \in L
        /\ All(lists) = ToSet(refused) \cup UNION {ToSet(tp_mro[b]) : b \in ToSet(refused)}
    BY <2>1, <2>2, OrdersIs
  <2>4. PICK S \in SUBSET All(lists) :
          S # {} /\ \A x \in S : \E y \in S, i \in DOMAIN lists : Before(lists[i], y, x)
    BY <2>1, <2>2 DEF Stuck
  <2>5. All(lists) \subseteq UNION {ToSet(l) : l \in L}
    BY <2>3
  <2>6. \A x \in S : \E y \in S, l \in L : Before(l, y, x)
    BY <2>3, <2>4
  <2> HIDE DEF L
  <2> QED BY <2>4, <2>5, <2>6
<1> QED BY <1>1, ClassesMadeHolds, PTL

\* Of two classes that follow each other in an order and that no list orders, the first is in
\* an earlier list: pmerge takes a class from the first list that has one to give.
THEOREM AlwaysEarliestFirst == Spec => []EarliestFirst
<1>1. ASSUME ClassesMade PROVE EarliestFirst
  <2>1. ASSUME NEW c \in 1 .. made, NEW k \in 2 .. (Len(tp_mro[c]) - 1)
        PROVE  Early(Orders(tp_mro, tp_bases[c]), tp_mro[c][k], tp_mro[c][k + 1])
    <3>1. PICK m \in Seq(Class) :
            tp_mro[c] = <<c>> \o m /\ Merged(Orders(tp_mro, tp_bases[c]), m)
      BY <1>1, <2>1, MadeIs, BoundsAssumption
    <3>2. c \in Class
      BY <1>1, MadeIs, BoundsAssumption
    <3>3. /\ Len(<<c>> \o m) = Len(m) + 1
          /\ \A j \in 1 .. Len(m) : (<<c>> \o m)[j + 1] = m[j]
      BY <3>2, ConsIs
    <3>4. PICK s, n : s = tp_mro[c] /\ n = Len(m)
      OBVIOUS
    <3>5. /\ n \in Nat /\ Len(s) = n + 1 /\ k \in 2 .. (Len(s) - 1)
          /\ \A j \in 1 .. n : s[j + 1] = m[j]
      BY <3>1, <3>3, <3>4
    <3>6. PICK j \in 1 .. (n - 1) : k = j + 1
      <4>1. k - 1 \in 1 .. (n - 1) /\ k = (k - 1) + 1
        BY <3>5
      <4> QED BY <4>1
    <3>7. s[k] = m[j] /\ s[k + 1] = m[j + 1]
      <4>1. j \in 1 .. n /\ j + 1 \in 1 .. n
        BY <3>5, <3>6
      <4> QED BY <3>5, <3>6, <4>1
    <3>8. Early(Orders(tp_mro, tp_bases[c]), m[j], m[j + 1])
      BY <3>1, <3>4, <3>6 DEF Merged
    <3> QED BY <3>4, <3>7, <3>8
  <2> QED BY <2>1 DEF EarliestFirst, Early, Having, Orders
<1> QED BY <1>1, ClassesMadeHolds, PTL
=============================================================================
