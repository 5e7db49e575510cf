--------------------------- MODULE CyclicGC_proofs ---------------------------
(***************************************************************************)
(* The collector, weak references and deallocation of CyclicGC, for any    *)
(* objects, classes of objects and number of generations: HeapInv is       *)
(* inductive.  It says which objects are being deallocated, that nothing   *)
(* refers to them and no list has them, and which frames the stack has.    *)
(* From it: the heap is well formed, the lists are exact while they are    *)
(* walked, and move_unreachable computes what is unreachable.  For         *)
(* programs whose weak references with callbacks are trash only together   *)
(* with what they refer to: no Python code gets at the trash (HideInv), a  *)
(* collection frees all of it (ClearInv), and no callback is lost          *)
(* (CallInv).                                                              *)
(***************************************************************************)
EXTENDS CyclicGC, FiniteSetTheorems, SequenceTheorems, WellFoundedInduction, TLAPS

\* A set of naturals has a least member: the least counterexample of the arguments below.
LEMMA LeastIndex ==
  ASSUME NEW T \in SUBSET Nat, T # {}
  PROVE  \E i \in T : \A j \in T : i <= j
<1> DEFINE R == OpToRel(<, Nat)
<1>1. IsWellFoundedOn(R, Nat)
  BY NatLessThanWellFounded
<1>2. PICK i \in T : \A j \in T : <<j, i>> \notin R
  BY <1>1, WFMin, Zenon
<1>3. \A j \in Nat, k \in Nat : j < k => <<j, k>> \in R
  BY DEF OpToRel
<1> HIDE DEF R
<1>4. \A j \in T : ~(j < i)
  BY <1>2, <1>3
<1> QED BY <1>4

\* A value for each step of a recursion: what a recursive function on 0 .. N is.
Recursed(f, N, a, G) == f[0] = a /\ \A n \in 1 .. N : f[n] = G[n][f[n - 1]]

\* A recursion over 0 .. N has a solution; then the CHOOSE of a recursive function picks one.
LEMMA RecursionExists ==
  ASSUME NEW N \in Nat, NEW A, NEW a \in A, NEW G \in [1 .. N -> [A -> A]]
  PROVE  \E f \in [0 .. N -> A] : Recursed(f, N, a, G)
<1> DEFINE Good(m) == \E f \in [0 .. m -> A] : f[0] = a /\ \A n \in 1 .. m : f[n] = G[n][f[n - 1]]
           Bad == {m \in 0 .. N : ~Good(m)}
<1>1. Good(0)
  <2>1. [n \in 0 .. 0 |-> a] \in [0 .. 0 -> A]
    OBVIOUS
  <2>2. [n \in 0 .. 0 |-> a][0] = a
    OBVIOUS
  <2>3. 1 .. 0 = {}
    OBVIOUS
  <2> QED BY <2>1, <2>2, <2>3
<1>2. ASSUME NEW m \in 0 .. N, m # 0, Good(m - 1) PROVE Good(m)
  <2>1. m \in 1 .. N /\ m - 1 \in Nat /\ m \in Nat
    BY <1>2
  <2>2. PICK f \in [0 .. (m - 1) -> A] :
          f[0] = a /\ \A n \in 1 .. (m - 1) : f[n] = G[n][f[n - 1]]
    BY <1>2
  <2> DEFINE h == [n \in 0 .. m |-> IF n = m THEN G[m][f[m - 1]] ELSE f[n]]
  <2>3. h \in [0 .. m -> A]
    BY <2>1, <2>2
  <2>4. h[0] = a
    BY <2>1, <2>2
  <2>5. ASSUME NEW n \in 1 .. m PROVE h[n] = G[n][h[n - 1]]
    <3>1. n - 1 \in 0 .. (m - 1) /\ h[n - 1] = f[n - 1]
      BY <2>1
    <3> QED BY <2>1, <2>2, <3>1
  <2> HIDE DEF h
  <2> QED BY <2>3, <2>4, <2>5
<1> HIDE DEF Good
<1>3. Bad = {}
  <2> SUFFICES ASSUME Bad # {} PROVE FALSE
    OBVIOUS
  <2>1. PICK m \in Bad : \A k \in Bad : m <= k
    <3>1. Bad \subseteq Nat
      OBVIOUS
    <3> QED BY <3>1, LeastIndex
  <2>2. m \in 0 .. N /\ ~Good(m) /\ m # 0
    BY <1>1
  <2>3. m - 1 \in 0 .. N /\ m - 1 \notin Bad
    BY <2>1, <2>2
  <2> QED BY <1>2, <2>2, <2>3
<1>4. Good(N)
  BY <1>3
<1> QED BY <1>4 DEF Good, Recursed

\* A function that satisfies the equations of a recursion has its values where they are.
Follows(h, N, A, a, G) ==
  h[0] = a /\ \A n \in 1 .. N : h[n - 1] \in A => h[n] = G[n][h[n - 1]]

\* A function that satisfies the equations of a recursion stays in the set they stay in.
LEMMA RecursionIs ==
  ASSUME NEW N \in Nat, NEW A, NEW a \in A, NEW G \in [1 .. N -> [A -> A]],
         NEW h, Follows(h, N, A, a, G)
  PROVE  \A n \in 0 .. N : h[n] \in A
<1> DEFINE Bad == {n \in 0 .. N : h[n] \notin A}
<1> SUFFICES ASSUME Bad # {} PROVE FALSE
  OBVIOUS
<1>1. PICK m \in Bad : \A k \in Bad : m <= k
  <2>1. Bad \in SUBSET Nat
    OBVIOUS
  <2> QED BY <2>1, LeastIndex
<1>2. m # 0
  BY DEF Follows
<1>3. m \in 1 .. N /\ m - 1 \in 0 .. N /\ h[m - 1] \in A
  BY <1>1, <1>2
<1>4. h[m] = G[m][h[m - 1]] /\ G[m] \in [A -> A]
  BY <1>3 DEF Follows
<1> QED BY <1>1, <1>3, <1>4

Filters(f, s, S) ==
  /\ f[0] = <<>>
  /\ \A n \in 1 .. Len(s) : f[n] = IF s[n] \in S THEN Append(f[n - 1], s[n]) ELSE f[n - 1]
  /\ Only(s, S) = f[Len(s)]

\* The recursive function of Only satisfies its equations.
LEMMA OnlyIs ==
  ASSUME NEW X, NEW s \in Seq(X), NEW S
  PROVE  \E f \in [0 .. Len(s) -> Seq(X)] : Filters(f, s, S)
<1> DEFINE N == Len(s)
           G == [n \in 1 .. N |-> [q \in Seq(X) |-> IF s[n] \in S THEN Append(q, s[n]) ELSE q]]
           Rec(f) == [n \in 0 .. Len(s) |->
                        IF n = 0 THEN <<>>
                        ELSE IF s[n] \in S THEN Append(f[n - 1], s[n]) ELSE f[n - 1]]
           only == CHOOSE f : f = Rec(f)
<1>1. N \in Nat /\ <<>> \in Seq(X) /\ \A n \in 1 .. N : s[n] \in X
  OBVIOUS
<1>2. G \in [1 .. N -> [Seq(X) -> Seq(X)]]
  <2>1. \A n \in 1 .. N, q \in Seq(X) : Append(q, s[n]) \in Seq(X)
    BY <1>1
  <2> QED BY <2>1
<1>3. PICK f \in [0 .. N -> Seq(X)] : f[0] = <<>> /\ \A n \in 1 .. N : f[n] = G[n][f[n - 1]]
  <2> DEFINE A == Seq(X)
             a == <<>>
  <2>1. N \in Nat /\ a \in A /\ G \in [1 .. N -> [A -> A]]
    BY <1>1, <1>2
  <2>2. \E f \in [0 .. N -> A] : Recursed(f, N, a, G)
    <3> HIDE DEF G, N, A, a
    <3> QED BY <2>1, RecursionExists
  <2> QED BY <2>2 DEF Recursed
<1>4. \A n \in 1 .. N : f[n] = IF s[n] \in S THEN Append(f[n - 1], s[n]) ELSE f[n - 1]
  <2>1. \A n \in 1 .. N : n - 1 \in 0 .. N
    BY <1>1
  <2> QED BY <1>3, <2>1
<1>5. f = Rec(f)
  <2>1. \A n \in 0 .. N : f[n] = Rec(f)[n]
    <3> TAKE n \in 0 .. N
    <3>1. CASE n = 0
      BY <1>1, <1>3, <3>1
    <3>2. CASE n # 0
      <4>1. n \in 1 .. N
        BY <3>2
      <4>2. Rec(f)[n] = IF s[n] \in S THEN Append(f[n - 1], s[n]) ELSE f[n - 1]
        BY <4>1
      <4> QED BY <1>4, <4>1, <4>2
    <3> QED BY <3>1, <3>2
  <2> QED BY <1>3, <2>1
<1>6. only = Rec(only)
  <2> HIDE DEF Rec
  <2> QED BY <1>5, Zenon
<1>7. DOMAIN only = 0 .. N
  BY <1>6
<1>8. \A n \in 0 .. N : only[n] = f[n]
  <2> DEFINE Bad == {n \in 0 .. N : only[n] # f[n]}
  <2> HIDE DEF only
  <2> SUFFICES ASSUME Bad # {} PROVE FALSE
    OBVIOUS
  <2>1. PICK m \in Bad : \A k \in Bad : m <= k
    <3>1. Bad \in SUBSET Nat
      OBVIOUS
    <3> QED BY <3>1, LeastIndex
  <2>2. m # 0
    BY <1>1, <1>3, <1>6
  <2>3. m - 1 \in 0 .. N /\ only[m - 1] = f[m - 1]
    BY <1>1, <2>1, <2>2
  <2>4. only[m] = Rec(only)[m]
    BY <1>6
  <2>5. only[m] = IF s[m] \in S THEN Append(only[m - 1], s[m]) ELSE only[m - 1]
    BY <2>2, <2>4
  <2> QED BY <1>4, <2>1, <2>2, <2>3, <2>5
<1>9. Only(s, S) = only[Len(s)]
  BY Zenon DEF Only
<1>10. N \in 0 .. N
  BY <1>1
<1> HIDE DEF only, Rec, G
<1> QED BY <1>1, <1>3, <1>4, <1>8, <1>9, <1>10 DEF Filters

\* What Only gives: the elements of s in S, each as often as s has it, and a first one that is
\* kept stays the first.
LEMMA OnlyElements ==
  ASSUME NEW X, NEW s \in Seq(X), NEW S
  PROVE  /\ Only(s, S) \in Seq(X)
         /\ Range(Only(s, S)) = Range(s) \cap S
         /\ IsInjective(s) => IsInjective(Only(s, S))
         /\ s # <<>> /\ s[1] \in S => Only(s, S) # <<>> /\ Only(s, S)[1] = s[1]
<1> DEFINE N == Len(s)
<1>1. N \in Nat /\ s \in [1 .. N -> X] /\ DOMAIN s = 1 .. N
  OBVIOUS
<1>2. PICK f \in [0 .. N -> Seq(X)] :
        /\ f[0] = <<>>
        /\ \A n \in 1 .. N : f[n] = IF s[n] \in S THEN Append(f[n - 1], s[n]) ELSE f[n - 1]
        /\ Only(s, S) = f[N]
  <2>1. \E f \in [0 .. Len(s) -> Seq(X)] : Filters(f, s, S)
    BY OnlyIs
  <2> QED BY <2>1, Zenon DEF Filters
<1> DEFINE Good(n) ==
      /\ Range(f[n]) = {s[i] : i \in 1 .. n} \cap S
      /\ IsInjective(s) => IsInjective(f[n])
      /\ n # 0 /\ s[1] \in S => f[n] # <<>> /\ f[n][1] = s[1]
    Bad == {n \in 0 .. N : ~Good(n)}
<1>3. Good(0)
  <2>1. f[0] = <<>> /\ 1 .. 0 = {} /\ DOMAIN <<>> = {}
    BY <1>2
  <2>2. Range(f[0]) = {}
    BY <2>1 DEF Range
  <2>3. IsInjective(f[0])
    BY <2>1 DEF IsInjective
  <2> QED BY <2>1, <2>2, <2>3
<1>4. ASSUME NEW n \in 0 .. N, n # 0, Good(n - 1) PROVE Good(n)
  <2> DEFINE q == f[n - 1]
  <2>1. n \in 1 .. N /\ n - 1 \in 0 .. N /\ n - 1 \in Nat /\ s[n] \in X
    BY <1>1, <1>4
  <2>2. q \in Seq(X) /\ f[n] = IF s[n] \in S THEN Append(q, s[n]) ELSE q
    BY <1>2, <2>1
  <2>3. 1 .. n = (1 .. (n - 1)) \cup {n}
    BY <2>1
  <2>4. {s[i] : i \in 1 .. n} = {s[i] : i \in 1 .. (n - 1)} \cup {s[n]}
    BY <2>3
  <2>5. CASE s[n] \in S
    <3>1. f[n] = Append(q, s[n]) /\ f[n] \in Seq(X) /\ Len(q) \in Nat /\ Len(f[n]) = Len(q) + 1
      BY <2>1, <2>2, <2>5
    <3>2. /\ DOMAIN f[n] = 1 .. (Len(q) + 1) /\ DOMAIN q = 1 .. Len(q)
          /\ f[n][Len(q) + 1] = s[n] /\ \A i \in 1 .. Len(q) : f[n][i] = q[i]
      BY <2>1, <2>2, <3>1
    <3>3. Range(f[n]) = Range(q) \cup {s[n]}
      <4>1. ASSUME NEW x \in Range(f[n]) PROVE x \in Range(q) \cup {s[n]}
        <5>1. PICK i \in 1 .. (Len(q) + 1) : x = f[n][i]
          BY <3>2, <4>1 DEF Range
        <5>2. i \in 1 .. Len(q) \/ i = Len(q) + 1
          BY <3>1
        <5> QED BY <3>2, <5>1, <5>2 DEF Range
      <4>2. Range(q) \subseteq Range(f[n])
        <5>1. \A i \in 1 .. Len(q) : i \in 1 .. (Len(q) + 1)
          BY <3>1
        <5> QED BY <3>2, <5>1 DEF Range
      <4>3. s[n] \in Range(f[n])
        <5>1. Len(q) + 1 \in 1 .. (Len(q) + 1)
          BY <3>1
        <5> QED BY <3>2, <5>1 DEF Range
      <4> QED BY <4>1, <4>2, <4>3
    <3>4. Range(f[n]) = {s[i] : i \in 1 .. n} \cap S
      BY <1>4, <2>4, <2>5, <3>3
    <3>5. ASSUME IsInjective(s) PROVE IsInjective(f[n])
      <4>1. s[n] \notin {s[i] : i \in 1 .. (n - 1)}
        BY <1>1, <2>1, <3>5 DEF IsInjective
      <4>2. \A i \in 1 .. Len(q) : q[i] # s[n]
        BY <1>4, <3>2, <4>1 DEF Range
      <4>3. \A i, j \in 1 .. Len(q) : q[i] = q[j] => i = j
        BY <1>4, <3>2, <3>5 DEF IsInjective
      <4>4. \A i \in 1 .. (Len(q) + 1) : i \in 1 .. Len(q) \/ i = Len(q) + 1
        BY <3>1
      <4>5. ASSUME NEW i \in DOMAIN f[n], NEW j \in DOMAIN f[n], f[n][i] = f[n][j] PROVE i = j
        BY <3>2, <4>2, <4>3, <4>4, <4>5
      <4> QED BY <4>5 DEF IsInjective
    <3>6. ASSUME s[1] \in S PROVE f[n] # <<>> /\ f[n][1] = s[1]
      <4>1. CASE n = 1
        <5>1. Len(q) = 0
          BY <1>2, <4>1
        <5> QED BY <3>1, <3>2, <4>1, <5>1, SMTT(30)
      <4>2. CASE n # 1
        <5>1. q # <<>> /\ q[1] = s[1]
          BY <1>4, <2>1, <3>6, <4>2
        <5>2. 1 \in 1 .. Len(q)
          BY <2>2, <3>1, <5>1
        <5> QED BY <3>1, <3>2, <5>1, <5>2
      <4> QED BY <4>1, <4>2
    <3> QED BY <3>4, <3>5, <3>6
  <2>6. CASE s[n] \notin S
    <3>1. f[n] = q
      BY <2>2, <2>6
    <3>2. n - 1 # 0 \/ s[1] \notin S
      BY <2>1, <2>6
    <3> QED BY <1>4, <2>4, <2>6, <3>1, <3>2
  <2> QED BY <2>5, <2>6
<1> HIDE DEF Good
<1>5. Bad = {}
  <2> SUFFICES ASSUME Bad # {} PROVE FALSE
    OBVIOUS
  <2>1. PICK m \in Bad : \A k \in Bad : m <= k
    <3>1. Bad \in SUBSET Nat
      BY <1>1
    <3> QED BY <3>1, LeastIndex
  <2>2. m # 0
    BY <1>3, <2>1
  <2>3. m - 1 \in 0 .. N /\ Good(m - 1)
    BY <1>1, <2>1, <2>2
  <2> QED BY <1>4, <2>1, <2>2, <2>3
<1>6. Good(N)
  BY <1>1, <1>5
<1>7. {s[i] : i \in 1 .. N} = Range(s)
  BY <1>1 DEF Range
<1>8. s # <<>> => N # 0
  BY <1>1
<1>9. f[N] \in Seq(X)
  BY <1>1, <1>2
<1> QED BY <1>2, <1>6, <1>7, <1>8, <1>9 DEF Good

\* RemoveAt, element by element.
LEMMA RemoveAtIs ==
  ASSUME NEW X, NEW s \in Seq(X), NEW i \in 1 .. Len(s)
  PROVE  /\ RemoveAt(s, i) \in Seq(X) /\ Len(RemoveAt(s, i)) = Len(s) - 1
         /\ \A j \in 1 .. (i - 1) : RemoveAt(s, i)[j] = s[j]
         /\ \A j \in i .. (Len(s) - 1) : RemoveAt(s, i)[j] = s[j + 1]
<1> DEFINE a == SubSeq(s, 1, i - 1)
           b == SubSeq(s, i + 1, Len(s))
<1>1. /\ Len(s) \in Nat /\ DOMAIN s = 1 .. Len(s) /\ \A j \in 1 .. Len(s) : s[j] \in X
  OBVIOUS
<1>2. a \in Seq(X) /\ Len(a) = i - 1 /\ \A j \in 1 .. (i - 1) : a[j] = s[j]
  <2>1. \A j \in 1 .. (i - 1) : j \in 1 .. Len(s)
    BY <1>1
  <2> QED BY <1>1, <2>1, SubSeqProperties
<1>3. /\ b \in Seq(X) /\ Len(b) = Len(s) - i
      /\ \A j \in 1 .. (Len(s) - i) : b[j] = s[i + j]
  <2>1. \A j \in (i + 1) .. Len(s) : j \in 1 .. Len(s)
    BY <1>1
  <2>2. i + 1 \in 1 .. (Len(s) + 1) /\ Len(s) \in i .. Len(s) /\ Len(s) - (i + 1) + 1 = Len(s) - i
    BY <1>1
  <2>3. /\ b \in Seq(X)
        /\ Len(b) = IF i + 1 <= Len(s) THEN Len(s) - (i + 1) + 1 ELSE 0
        /\ \A j \in 1 .. Len(b) : b[j] = s[(i + 1) + j - 1]
    BY <1>1, <2>1, <2>2
  <2>4. \A j \in 1 .. (Len(s) - i) : (i + 1) + j - 1 = i + j
    BY <1>1
  <2> HIDE DEF b
  <2>5. Len(b) = Len(s) - i
    <3>1. CASE i + 1 <= Len(s)
      BY <1>1, <2>3, <3>1
    <3>2. CASE ~(i + 1 <= Len(s))
      <4>1. Len(s) - i = 0
        <5>1. i \in Int /\ Len(s) \in Int /\ i <= Len(s)
          BY <1>1
        <5> QED BY <3>2, <5>1
      <4> QED BY <2>3, <3>2, <4>1
    <3> QED BY <3>1, <3>2
  <2> QED BY <2>3, <2>4, <2>5
<1>4. RemoveAt(s, i) = a \o b
  BY DEF RemoveAt
<1> HIDE DEF a, b
<1>5. /\ a \o b \in Seq(X) /\ Len(a \o b) = Len(s) - 1
      /\ \A j \in 1 .. (Len(s) - 1) : (a \o b)[j] = IF j <= i - 1 THEN a[j] ELSE b[j - (i - 1)]
  <2>1. /\ a \o b \in Seq(X) /\ Len(a \o b) = Len(a) + Len(b)
        /\ \A j \in 1 .. (Len(a) + Len(b)) : (a \o b)[j] = IF j <= Len(a) THEN a[j] ELSE b[j - Len(a)]
    BY <1>2, <1>3, ConcatProperties
  <2>2. Len(a) + Len(b) = Len(s) - 1
    BY <1>1, <1>2, <1>3
  <2> QED BY <1>2, <2>1, <2>2
<1>6. ASSUME NEW j \in i .. (Len(s) - 1) PROVE (a \o b)[j] = s[j + 1]
  <2>1. j \in 1 .. (Len(s) - 1) /\ ~(j <= i - 1) /\ j - (i - 1) \in 1 .. (Len(s) - i)
    BY <1>1
  <2>2. (a \o b)[j] = b[j - (i - 1)]
    BY <1>5, <2>1
  <2>3. b[j - (i - 1)] = s[i + (j - (i - 1))] /\ i + (j - (i - 1)) = j + 1
    BY <1>1, <1>3, <2>1
  <2> QED BY <2>2, <2>3
<1>7. ASSUME NEW j \in 1 .. (i - 1) PROVE (a \o b)[j] = s[j]
  <2>1. j \in 1 .. (Len(s) - 1) /\ j <= i - 1
    BY <1>1
  <2> QED BY <1>2, <1>5, <2>1
<1> QED BY <1>4, <1>5, <1>6, <1>7

\* An element taken out of a list that has each element once.
LEMMA RemovedOnce ==
  ASSUME NEW X, NEW s \in Seq(X), NEW i \in 1 .. Len(s), IsInjective(s)
  PROVE  /\ RemoveAt(s, i) \in Seq(X) /\ IsInjective(RemoveAt(s, i))
         /\ Range(RemoveAt(s, i)) = Range(s) \ {s[i]}
<1> DEFINE r == RemoveAt(s, i)
<1>1. /\ r \in Seq(X) /\ Len(r) = Len(s) - 1 /\ Len(s) \in Nat
      /\ \A j \in 1 .. (i - 1) : r[j] = s[j]
      /\ \A j \in i .. (Len(s) - 1) : r[j] = s[j + 1]
      /\ DOMAIN r = 1 .. (Len(s) - 1) /\ DOMAIN s = 1 .. Len(s)
  BY RemoveAtIs
<1> HIDE DEF r
<1>2. \A j \in 1 .. (Len(s) - 1) : j \in 1 .. (i - 1) \/ j \in i .. (Len(s) - 1)
  BY <1>1
<1>3. \A j, k \in 1 .. Len(s) : s[j] = s[k] => j = k
  BY <1>1 DEF IsInjective
<1>4. ASSUME NEW j \in 1 .. (Len(s) - 1)
      PROVE  \E k \in 1 .. Len(s) : k # i /\ r[j] = s[k] /\ k = IF j < i THEN j ELSE j + 1
  <2>1. CASE j \in 1 .. (i - 1)
    BY <1>1, <2>1
  <2>2. CASE j \in i .. (Len(s) - 1)
    BY <1>1, <2>2
  <2> QED BY <1>2, <2>1, <2>2
<1>5. IsInjective(r)
  <2> SUFFICES ASSUME NEW j \in 1 .. (Len(s) - 1), NEW k \in 1 .. (Len(s) - 1), r[j] = r[k] PROVE j = k
    BY <1>1 DEF IsInjective
  <2>1. PICK m \in 1 .. Len(s) : m # i /\ r[j] = s[m] /\ m = IF j < i THEN j ELSE j + 1
    BY <1>4
  <2>2. PICK n \in 1 .. Len(s) : n # i /\ r[k] = s[n] /\ n = IF k < i THEN k ELSE k + 1
    BY <1>4
  <2>3. m = n
    BY <1>3, <2>1, <2>2
  <2> QED BY <1>1, <2>1, <2>2, <2>3
<1>6. ASSUME NEW k \in 1 .. Len(s), k # i PROVE \E j \in 1 .. (Len(s) - 1) : r[j] = s[k]
  <2>1. CASE k < i
    <3>1. k \in 1 .. (i - 1) /\ k \in 1 .. (Len(s) - 1)
      BY <1>1, <2>1
    <3> QED BY <1>1, <3>1
  <2>2. CASE k > i
    <3>1. k - 1 \in i .. (Len(s) - 1) /\ k - 1 \in 1 .. (Len(s) - 1) /\ (k - 1) + 1 = k
      BY <1>1, <2>2
    <3> QED BY <1>1, <3>1
  <2> QED BY <1>1, <1>6, <2>1, <2>2
<1>7. Range(r) = {r[j] : j \in 1 .. (Len(s) - 1)} /\ Range(s) = {s[k] : k \in 1 .. Len(s)}
  BY <1>1 DEF Range
<1>8. Range(r) \subseteq Range(s) \ {s[i]}
  BY <1>3, <1>4, <1>7
<1>9. Range(s) \ {s[i]} \subseteq Range(r)
  BY <1>6, <1>7
<1> QED BY <1>1, <1>5, <1>8, <1>9 DEF r

\* Two lists without a common element, joined.
LEMMA JoinedOnce ==
  ASSUME NEW X, NEW s \in Seq(X), NEW t \in Seq(X)
  PROVE  /\ s \o t \in Seq(X) /\ Range(s \o t) = Range(s) \cup Range(t)
         /\ (IsInjective(s) /\ IsInjective(t) /\ Range(s) \cap Range(t) = {}) => IsInjective(s \o t)
<1>1. s \o t \in Seq(X) /\ Range(s \o t) = Range(s) \cup Range(t)
  BY RangeConcatenation
<1>2. /\ Len(s) \in Nat /\ Len(t) \in Nat /\ Len(s \o t) = Len(s) + Len(t)
      /\ DOMAIN s = 1 .. Len(s) /\ DOMAIN t = 1 .. Len(t) /\ DOMAIN (s \o t) = 1 .. (Len(s) + Len(t))
      /\ \A i \in 1 .. (Len(s) + Len(t)) : (s \o t)[i] = IF i <= Len(s) THEN s[i] ELSE t[i - Len(s)]
  BY ConcatProperties
<1>3. ASSUME IsInjective(s), IsInjective(t), Range(s) \cap Range(t) = {} PROVE IsInjective(s \o t)
  <2> SUFFICES ASSUME NEW i \in DOMAIN (s \o t), NEW j \in DOMAIN (s \o t), (s \o t)[i] = (s \o t)[j] PROVE i = j
    BY DEF IsInjective
  <2>1. \A k \in DOMAIN (s \o t) : (k \in DOMAIN s /\ (s \o t)[k] = s[k])
                              \/ (k - Len(s) \in DOMAIN t /\ (s \o t)[k] = t[k - Len(s)])
    BY <1>2
  <2>2. \A k \in DOMAIN s, l \in DOMAIN t : s[k] # t[l]
    BY <1>3 DEF Range
  <2>3. \/ i \in DOMAIN s /\ j \in DOMAIN s /\ s[i] = s[j]
        \/ i - Len(s) \in DOMAIN t /\ j - Len(s) \in DOMAIN t /\ t[i - Len(s)] = t[j - Len(s)]
    BY <2>1, <2>2
  <2>4. i \in Int /\ j \in Int
    BY <1>2
  <2>5. CASE i \in DOMAIN s /\ j \in DOMAIN s /\ s[i] = s[j]
    BY <1>3, <2>5 DEF IsInjective
  <2>6. CASE i - Len(s) \in DOMAIN t /\ j - Len(s) \in DOMAIN t /\ t[i - Len(s)] = t[j - Len(s)]
    <3>1. i - Len(s) = j - Len(s)
      BY <1>3, <2>6 DEF IsInjective
    <3> QED BY <1>2, <2>4, <3>1
  <2> QED BY <2>3, <2>5, <2>6
<1> QED BY <1>1, <1>3

\* gc_list_append of an element that the list does not have.
LEMMA AppendedOnce ==
  ASSUME NEW X, NEW s \in Seq(X), NEW e \in X
  PROVE  /\ Append(s, e) \in Seq(X) /\ Range(Append(s, e)) = Range(s) \cup {e}
         /\ IsInjective(s) /\ e \notin Range(s) => IsInjective(Append(s, e))
<1>1. <<e>> \in Seq(X) /\ Append(s, e) = s \o <<e>>
  BY AppendIsConcat
<1>2. DOMAIN <<e>> = {1} /\ <<e>>[1] = e
  OBVIOUS
<1>3. Range(<<e>>) = {e} /\ IsInjective(<<e>>)
  BY <1>2 DEF Range, IsInjective
<1>4. /\ s \o <<e>> \in Seq(X) /\ Range(s \o <<e>>) = Range(s) \cup Range(<<e>>)
      /\ (IsInjective(s) /\ IsInjective(<<e>>) /\ Range(s) \cap Range(<<e>>) = {})
           => IsInjective(s \o <<e>>)
  BY <1>1, JoinedOnce, Zenon
<1> QED BY <1>1, <1>3, <1>4

\* A list without its first element.
LEMMA TailOnce ==
  ASSUME NEW X, NEW s \in Seq(X), s # <<>>
  PROVE  /\ Tail(s) \in Seq(X) /\ Head(s) \in X /\ Head(s) = s[1] /\ Range(s) = {Head(s)} \cup Range(Tail(s))
         /\ IsInjective(s) => IsInjective(Tail(s)) /\ Head(s) \notin Range(Tail(s))
<1>1. /\ Len(s) \in Nat \ {0} /\ DOMAIN s = 1 .. Len(s) /\ Tail(s) \in Seq(X) /\ Head(s) = s[1] /\ s[1] \in X
      /\ Len(Tail(s)) = Len(s) - 1 /\ DOMAIN Tail(s) = 1 .. (Len(s) - 1)
      /\ \A i \in 1 .. (Len(s) - 1) : Tail(s)[i] = s[i + 1]
  BY HeadTailProperties, EmptySeq
<1>2. \A i \in 1 .. Len(s) : i = 1 \/ (i - 1 \in 1 .. (Len(s) - 1) /\ Tail(s)[i - 1] = s[i])
  BY <1>1
<1>3. \A i \in 1 .. (Len(s) - 1) : i + 1 \in 1 .. Len(s) /\ i + 1 # 1
  BY <1>1
<1>4. 1 \in 1 .. Len(s)
  BY <1>1
<1>5. Range(s) = {Head(s)} \cup Range(Tail(s))
  <2>1. \A i \in 1 .. Len(s) : s[i] = s[1] \/ s[i] \in Range(Tail(s))
    <3>1. Range(Tail(s)) = {Tail(s)[i] : i \in 1 .. (Len(s) - 1)}
      BY <1>1 DEF Range
    <3> QED BY <1>2, <3>1
  <2>2. \A i \in 1 .. (Len(s) - 1) : Tail(s)[i] \in Range(s)
    BY <1>1, <1>3 DEF Range
  <2>3. Range(s) \subseteq {Head(s)} \cup Range(Tail(s))
    BY <1>1, <2>1 DEF Range
  <2>4. Head(s) \in Range(s)
    BY <1>1, <1>4 DEF Range
  <2>5. Range(Tail(s)) \subseteq Range(s)
    BY <1>1, <2>2 DEF Range
  <2> QED BY <2>3, <2>4, <2>5
<1>6. ASSUME IsInjective(s) PROVE IsInjective(Tail(s)) /\ Head(s) \notin Range(Tail(s))
  <2>1. \A i, j \in 1 .. Len(s) : s[i] = s[j] => i = j
    BY <1>1, <1>6 DEF IsInjective
  <2>2. \A i, j \in 1 .. (Len(s) - 1) : Tail(s)[i] = Tail(s)[j] => i + 1 = j + 1
    BY <1>1, <1>3, <2>1
  <2>3. \A i, j \in 1 .. (Len(s) - 1) : i + 1 = j + 1 => i = j
    BY <1>1
  <2>4. \A i \in 1 .. (Len(s) - 1) : Tail(s)[i] # s[1]
    BY <1>1, <1>3, <1>4, <2>1
  <2> QED BY <1>1, <2>2, <2>3, <2>4 DEF IsInjective, Range
<1> QED BY <1>1, <1>5, <1>6

-----------------------------------------------------------------------------
(* What the recursive functions of the model compute. *)

\* One more round of Reaching: what S has of the neighbours of T.
Further(T, S, N) == T \cup (S \cap UNION {N[p] : p \in T})
Widens(f, R, S, N) ==
  /\ f[0] = R \cap S /\ \A n \in 1 .. Cardinality(S) : f[n] = Further(f[n - 1], S, N)
  /\ Reaching(R, S, N) = f[Cardinality(S)]

\* The rounds of Reaching are those of its recursive function.
LEMMA ReachingWidens ==
  ASSUME NEW R, NEW S, NEW N, IsFiniteSet(S)
  PROVE  \E f \in [0 .. Cardinality(S) -> SUBSET S] : Widens(f, R, S, N)
<1> DEFINE M == Cardinality(S)
           A == SUBSET S
           a == R \cap S
           G == [n \in 1 .. M |-> [T \in A |-> Further(T, S, N)]]
           Rec(f) == [n \in 0 .. Cardinality(S) |->
                        IF n = 0 THEN R \cap S
                        ELSE LET T == f[n - 1] IN T \cup (S \cap UNION {N[p] : p \in T})]
           within == CHOOSE f : f = Rec(f)
<1>1. M \in Nat
  BY FS_CardinalityType
<1>2. a \in A /\ G \in [1 .. M -> [A -> A]]
  BY DEF Further
<1>3. PICK f \in [0 .. M -> A] : Recursed(f, M, a, G)
  <2> HIDE DEF M, A, a, G
  <2> QED BY <1>1, <1>2, RecursionExists
<1>4. f = Rec(f)
  <2>1. ASSUME NEW n \in 0 .. M PROVE f[n] = Rec(f)[n]
    <3>1. CASE n = 0
      BY <1>1, <1>3, <3>1 DEF Recursed
    <3>2. CASE n # 0
      <4>1. n \in 1 .. M /\ n - 1 \in 0 .. M
        BY <1>1, <3>2
      <4>2. f[n] = Further(f[n - 1], S, N)
        BY <1>3, <4>1 DEF Recursed
      <4> QED BY <3>2, <4>2 DEF Further
    <3> QED BY <3>1, <3>2
  <2> QED BY <1>3, <2>1
<1>5. within = Rec(within)
  <2> HIDE DEF Rec
  <2> QED BY <1>4, Zenon
<1> HIDE DEF within
<1>6. /\ DOMAIN within = 0 .. M
      /\ within[0] = a /\ \A n \in 1 .. M : within[n] = Further(within[n - 1], S, N)
  <2>1. DOMAIN within = 0 .. M /\ 0 \in 0 .. M
    BY <1>1, <1>5
  <2>2. within[0] = a
    BY <1>5, <2>1
  <2>3. ASSUME NEW n \in 1 .. M PROVE within[n] = Further(within[n - 1], S, N)
    <3>1. n \in 0 .. M /\ n # 0
      OBVIOUS
    <3>2. within[n] = Rec(within)[n]
      BY <1>5
    <3> HIDE DEF M
    <3> QED BY <3>1, <3>2 DEF Further, M
  <2> QED BY <2>1, <2>2, <2>3
<1>7. \A n \in 1 .. M : within[n - 1] \in A => within[n] = G[n][within[n - 1]]
  BY <1>6
<1>8. \A n \in 0 .. M : within[n] \in A
  <2>1. Follows(within, M, A, a, G)
    BY <1>6, <1>7 DEF Follows
  <2> HIDE DEF M, A, a, G
  <2> QED BY <1>1, <1>2, <2>1, RecursionIs
<1>9. within \in [0 .. M -> A]
  <2>1. within = [n \in 0 .. M |-> within[n]]
    BY <1>5
  <2> QED BY <1>8, <2>1
<1>10. Reaching(R, S, N) = within[M]
  BY Zenon DEF Reaching, within
<1>11. Widens(within, R, S, N)
  BY <1>6, <1>10 DEF Widens
<1> QED BY <1>9, <1>11

\* Reaching is the closure: it is in S, holds what S has of R, is closed under N within S, and
\* holds nothing that is closed off from R.
LEMMA ReachingIs ==
  ASSUME NEW R, NEW S, NEW N, IsFiniteSet(S)
  PROVE  /\ R \cap S \subseteq Reaching(R, S, N) /\ Reaching(R, S, N) \subseteq S
         /\ \A p \in Reaching(R, S, N) : N[p] \cap S \subseteq Reaching(R, S, N)
<1> DEFINE M == Cardinality(S)
           W == Reaching(R, S, N)
<1>1. M \in Nat
  BY FS_CardinalityType
<1>2. PICK f \in [0 .. M -> SUBSET S] : Widens(f, R, S, N)
  BY ReachingWidens
<1>3. /\ f[0] = R \cap S /\ W = f[M]
      /\ \A n \in 1 .. M : f[n] = Further(f[n - 1], S, N)
  BY <1>2 DEF Widens
<1>4. \A n \in 1 .. M : f[n - 1] \subseteq f[n]
  BY <1>3 DEF Further
<1> DEFINE Wide(n) == /\ R \cap S \subseteq f[n]
                      /\ Further(f[n], S, N) = f[n] \/ Cardinality(f[n]) >= n + 1
           Bad == {n \in 0 .. M : ~Wide(n)}
<1>5. \A n \in 0 .. M : f[n] \subseteq S /\ IsFiniteSet(f[n]) /\ Cardinality(f[n]) \in Nat
  BY <1>2, FS_Subset, FS_CardinalityType
<1>6. Wide(0)
  <2>1. CASE R \cap S = {}
    BY <1>3, <2>1 DEF Further
  <2>2. CASE R \cap S # {}
    <3>1. 0 \in 0 .. M /\ f[0] # {}
      BY <1>1, <1>3, <2>2
    <3>2. Cardinality(f[0]) # 0
      BY <1>5, <3>1, FS_EmptySet
    <3>3. Cardinality(f[0]) \in Nat
      BY <1>5, <3>1
    <3>4. Cardinality(f[0]) >= 0 + 1
      BY <3>2, <3>3
    <3> QED BY <1>3, <3>4
  <2> QED BY <2>1, <2>2
<1>7. ASSUME NEW n \in 0 .. M, n # 0, Wide(n - 1) PROVE Wide(n)
  <2>1. n \in 1 .. M /\ n - 1 \in 0 .. M /\ f[n] = Further(f[n - 1], S, N) /\ f[n - 1] \subseteq f[n]
    BY <1>1, <1>3, <1>4, <1>7
  <2>2. CASE f[n] = f[n - 1]
    <3>1. Further(f[n], S, N) = f[n]
      BY <2>1, <2>2
    <3> QED BY <1>7, <2>1, <3>1
  <2>3. CASE f[n] # f[n - 1]
    <3>1. Cardinality(f[n - 1]) >= n
      BY <1>7, <2>1, <2>3
    <3>2. PICK x \in f[n] : x \notin f[n - 1]
      BY <2>1, <2>3
    <3>3. /\ IsFiniteSet(f[n - 1] \cup {x})
          /\ Cardinality(f[n - 1] \cup {x}) = Cardinality(f[n - 1]) + 1
      BY <1>5, <2>1, <3>2, FS_AddElement
    <3>4. Cardinality(f[n - 1] \cup {x}) <= Cardinality(f[n])
      <4>1. f[n - 1] \cup {x} \subseteq f[n]
        BY <2>1, <3>2
      <4> QED BY <1>5, <4>1, FS_Subset
    <3>5. Cardinality(f[n]) >= n + 1
      BY <1>5, <2>1, <3>1, <3>3, <3>4
    <3> QED BY <1>7, <2>1, <3>5
  <2> QED BY <2>2, <2>3
<1> HIDE DEF Wide
<1>8. Bad = {}
  <2> SUFFICES ASSUME Bad # {} PROVE FALSE
    OBVIOUS
  <2>1. PICK m \in Bad : \A k \in Bad : m <= k
    <3>1. Bad \in SUBSET Nat
      OBVIOUS
    <3> QED BY <3>1, LeastIndex
  <2>2. m # 0
    BY <1>6, <2>1
  <2>3. m - 1 \in 0 .. M /\ Wide(m - 1)
    BY <1>1, <2>1, <2>2
  <2> QED BY <1>7, <2>1, <2>2, <2>3
<1>9. Wide(M) /\ M \in 0 .. M
  BY <1>1, <1>8
<1>10. Further(W, S, N) = W
  <2>1. CASE Cardinality(W) >= M + 1
    <3>1. Cardinality(W) <= M
      BY <1>3, <1>5, <1>9, FS_Subset
    <3> QED BY <1>1, <1>3, <1>5, <1>9, <2>1, <3>1
  <2> QED BY <1>3, <1>9, <2>1 DEF Wide
<1>11. R \cap S \subseteq W /\ W \subseteq S
  BY <1>3, <1>5, <1>9 DEF Wide
<1>12. ASSUME NEW p \in W PROVE N[p] \cap S \subseteq W
  BY <1>10 DEF Further
<1> QED BY <1>11, <1>12

\* A set that neither R nor the N of what is outside it enters is not reached.
LEMMA ReachingAvoids ==
  ASSUME NEW R, NEW S, NEW N, IsFiniteSet(S), NEW B,
         R \cap S \cap B = {}, \A p \in S \ B : N[p] \cap S \cap B = {}
  PROVE  Reaching(R, S, N) \cap B = {}
<1> DEFINE M == Cardinality(S)
           a == R \cap S
           A == {T \in SUBSET S : T \cap B = {}}
           G == [n \in 1 .. M |-> [T \in A |-> Further(T, S, N)]]
<1>1. M \in Nat
  BY FS_CardinalityType
<1>2. a \in A /\ G \in [1 .. M -> [A -> A]]
  <2>1. ASSUME NEW T \in A PROVE Further(T, S, N) \in A
    BY DEF Further
  <2> QED BY <2>1
<1>3. PICK f \in [0 .. M -> SUBSET S] : Widens(f, R, S, N)
  BY ReachingWidens
<1>4. Follows(f, M, A, a, G) /\ Reaching(R, S, N) = f[M]
  BY <1>3 DEF Widens, Follows
<1>5. \A n \in 0 .. M : f[n] \in A
  <2> HIDE DEF M, A, a, G
  <2> QED BY <1>1, <1>2, <1>4, RecursionIs
<1> QED BY <1>1, <1>4, <1>5

\* The merging of the younger generations into generations[g].
Appends(f, g) ==
  /\ f[0] = generations[g] /\ \A i \in 1 .. g : f[i] = f[i - 1] \o generations[i - 1]
  /\ Merged(g) = f[g]

\* The recursive function of Merged satisfies its equations.
LEMMA MergedAppends ==
  ASSUME generations \in [Generation -> Seq(Obj)], NUM_GENERATIONS \in Nat, NEW g \in Generation
  PROVE  \E f \in [0 .. g -> Seq(Obj)] : Appends(f, g)
<1> DEFINE A == Seq(Obj)
           a == generations[g]
           G == [n \in 1 .. g |-> [q \in A |-> q \o generations[n - 1]]]
           Rec(f) == [i \in 0 .. g |->
                        IF i = 0 THEN generations[g] ELSE f[i - 1] \o generations[i - 1]]
           upto == CHOOSE f : f = Rec(f)
<1>1. g \in Nat /\ a \in A /\ \A n \in 1 .. g : n - 1 \in Generation
  BY DEF Generation
<1>2. G \in [1 .. g -> [A -> A]]
  <2>1. \A n \in 1 .. g : generations[n - 1] \in Seq(Obj)
    BY <1>1
  <2> QED BY <2>1
<1>3. PICK f \in [0 .. g -> A] : Recursed(f, g, a, G)
  <2> HIDE DEF A, a, G
  <2> QED BY <1>1, <1>2, RecursionExists
<1>4. f = Rec(f)
  <2>1. ASSUME NEW n \in 0 .. g PROVE f[n] = Rec(f)[n]
    <3>1. CASE n = 0
      BY <1>1, <1>3, <3>1 DEF Recursed
    <3>2. CASE n # 0
      <4>1. n \in 1 .. g /\ n - 1 \in 0 .. g /\ f[n - 1] \in A
        BY <1>1, <1>3, <3>2
      <4>2. f[n] = G[n][f[n - 1]]
        BY <1>3, <4>1 DEF Recursed
      <4>3. f[n] = f[n - 1] \o generations[n - 1]
        BY <4>1, <4>2
      <4> QED BY <3>2, <4>3
    <3> QED BY <3>1, <3>2
  <2> QED BY <1>3, <2>1
<1>5. upto = Rec(upto)
  <2> HIDE DEF Rec
  <2> QED BY <1>4, Zenon
<1> HIDE DEF upto
<1>6. /\ DOMAIN upto = 0 .. g
      /\ upto[0] = a /\ \A n \in 1 .. g : upto[n] = upto[n - 1] \o generations[n - 1]
  <2>1. DOMAIN upto = 0 .. g /\ 0 \in 0 .. g
    BY <1>1, <1>5
  <2>2. upto[0] = a
    BY <1>5, <2>1
  <2>3. ASSUME NEW n \in 1 .. g PROVE upto[n] = upto[n - 1] \o generations[n - 1]
    <3>1. n \in 0 .. g /\ n # 0
      OBVIOUS
    <3>2. upto[n] = Rec(upto)[n]
      BY <1>5
    <3> QED BY <3>1, <3>2
  <2> QED BY <2>1, <2>2, <2>3
<1>7. Follows(upto, g, A, a, G)
  BY <1>6 DEF Follows
<1>8. \A n \in 0 .. g : upto[n] \in A
  <2> HIDE DEF A, a, G
  <2> QED BY <1>1, <1>2, <1>7, RecursionIs
<1>9. upto \in [0 .. g -> A]
  <2>1. upto = [n \in 0 .. g |-> upto[n]]
    BY <1>5
  <2> QED BY <1>8, <2>1
<1>10. Merged(g) = upto[g]
  BY Zenon DEF Merged, upto
<1>11. Appends(upto, g)
  BY <1>6, <1>10 DEF Appends
<1> QED BY <1>9, <1>11

Apart(S) == \A i, j \in S : i # j => Range(generations[i]) \cap Range(generations[j]) = {}

\* Merged(g) has the members of generations 0 to g, once.
LEMMA MergedIs ==
  ASSUME generations \in [Generation -> Seq(Obj)], NUM_GENERATIONS \in Nat, NEW g \in Generation,
         \A i \in Generation : IsInjective(generations[i]), Apart(Generation)
  PROVE  /\ Merged(g) \in Seq(Obj) /\ IsInjective(Merged(g))
         /\ Range(Merged(g)) = UNION {Range(generations[i]) : i \in 0 .. g}
<1>1. PICK f \in [0 .. g -> Seq(Obj)] : Appends(f, g)
  BY MergedAppends
<1>2. /\ g \in Nat /\ \A i \in 0 .. g : i \in Generation
      /\ f[0] = generations[g] /\ \A i \in 1 .. g : f[i] = f[i - 1] \o generations[i - 1]
      /\ Merged(g) = f[g]
  <2>1. g \in Nat /\ \A i \in 0 .. g : i \in Generation
    BY DEF Generation
  <2> QED BY <1>1, <2>1 DEF Appends
<1> DEFINE Upto(n) == {g} \cup (0 .. (n - 1))
           Good(n) == IsInjective(f[n]) /\ Range(f[n]) = UNION {Range(generations[i]) : i \in Upto(n)}
           Bad == {n \in 0 .. g : ~Good(n)}
<1>3. Good(0)
  <2>1. Upto(0) = {g}
    OBVIOUS
  <2> QED BY <1>2, <2>1
<1>4. ASSUME NEW n \in 0 .. g, n # 0, Good(n - 1) PROVE Good(n)
  <2>1. /\ n \in 1 .. g /\ n - 1 \in 0 .. g /\ n - 1 \in Generation
        /\ f[n] = f[n - 1] \o generations[n - 1] /\ f[n - 1] \in Seq(Obj) /\ generations[n - 1] \in Seq(Obj)
    <3>1. n \in 1 .. g /\ n - 1 \in 0 .. g
      BY <1>2, <1>4
    <3> QED BY <1>1, <1>2, <3>1
  <2>2. Upto(n) = Upto(n - 1) \cup {n - 1} /\ n - 1 \notin Upto(n - 1) /\ Upto(n - 1) \subseteq Generation
    <3>1. 0 .. (n - 1) = (0 .. ((n - 1) - 1)) \cup {n - 1} /\ n - 1 # g /\ n - 1 \notin 0 .. ((n - 1) - 1)
      BY <1>2, <2>1, SMTT(30)
    <3>2. \A i \in 0 .. ((n - 1) - 1) : i \in 0 .. g
      BY <1>2, <2>1
    <3> QED BY <1>2, <3>1, <3>2
  <2>3. Range(f[n - 1]) \cap Range(generations[n - 1]) = {}
    BY <1>4, <2>1, <2>2 DEF Apart
  <2>4. Range(f[n]) = Range(f[n - 1]) \cup Range(generations[n - 1]) /\ IsInjective(f[n])
    BY <1>4, <2>1, <2>3, JoinedOnce
  <2> HIDE DEF Upto
  <2>5. Range(f[n]) = UNION {Range(generations[i]) : i \in Upto(n)}
    BY <1>4, <2>2, <2>4
  <2> QED BY <2>4, <2>5
<1> HIDE DEF Good
<1>5. Bad = {}
  <2> SUFFICES ASSUME Bad # {} PROVE FALSE
    OBVIOUS
  <2>1. PICK m \in Bad : \A k \in Bad : m <= k
    <3>1. Bad \in SUBSET Nat
      OBVIOUS
    <3> QED BY <3>1, LeastIndex
  <2>2. m # 0
    BY <1>3, <2>1
  <2>3. m - 1 \in 0 .. g /\ Good(m - 1)
    BY <1>2, <2>1, <2>2
  <2> QED BY <1>4, <2>1, <2>2, <2>3
<1>6. Good(g) /\ g \in 0 .. g
  <2>1. g \in 0 .. g
    BY <1>2
  <2> QED BY <1>5, <2>1
<1>7. Upto(g) = 0 .. g
  BY <1>2
<1> QED BY <1>1, <1>2, <1>6, <1>7 DEF Good

\* The orders that SetToSeqs enumerates have each element once.
LEMMA SetToSeqsIs ==
  ASSUME NEW S, IsFiniteSet(S), NEW s \in SetToSeqs(S)
  PROVE  s \in Seq(S) /\ IsInjective(s) /\ Range(s) = S
<1> DEFINE D == 1 .. Cardinality(S)
<1>1. Cardinality(S) \in Nat
  BY FS_CardinalityType
<1>2. s \in [D -> S] /\ \A i, j \in D : i # j => s[i] # s[j]
  BY DEF SetToSeqs
<1>3. s \in Injection(D, S) /\ IsInjective(s)
  BY <1>2 DEF Injection, IsInjective
<1>4. IsFiniteSet(D) /\ Cardinality(D) = Cardinality(S)
  BY <1>1, FS_Interval
<1>5. s \in Surjection(D, S)
  <2> HIDE DEF D
  <2> QED BY <1>3, <1>4, FS_Injection
<1>6. Range(s) = S
  BY <1>2, <1>5 DEF Surjection, Range
<1> QED BY <1>1, <1>2, <1>3, <1>6

-----------------------------------------------------------------------------
(* The stack of C functions.                                                *)

Below(s) == {s[i] : i \in 1 .. (Len(s) - 1)}

\* r is s with its top replaced by t.
Swapped(s, r, t) ==
  /\ Len(s) \in Nat \ {0} /\ Len(t) \in Nat /\ Len(r) = Len(s) - 1 + Len(t)
  /\ DOMAIN s = 1 .. Len(s) /\ DOMAIN t = 1 .. Len(t) /\ DOMAIN r = 1 .. Len(r)
  /\ \A i \in 1 .. (Len(s) - 1) : r[i] = s[i]
  /\ \A j \in 1 .. Len(t) : r[Len(s) - 1 + j] = t[j]

\* The stack below its top.
LEMMA FrontIs ==
  ASSUME NEW X, NEW s \in Seq(X), s # <<>>
  PROVE  /\ Len(s) \in Nat \ {0} /\ Front(s) \in Seq(X) /\ Len(Front(s)) = Len(s) - 1
         /\ \A i \in 1 .. (Len(s) - 1) : Front(s)[i] = s[i]
<1>1. Len(s) \in Nat \ {0} /\ \A i \in 1 .. Len(s) : s[i] \in X
  BY EmptySeq
<1>2. \A i \in 1 .. (Len(s) - 1) : s[i] \in X
  BY <1>1
<1>3. Front(s) = SubSeq(s, 1, Len(s) - 1)
  BY DEF Front
<1>4. /\ SubSeq(s, 1, Len(s) - 1) \in Seq(X)
      /\ Len(SubSeq(s, 1, Len(s) - 1)) = IF 1 <= Len(s) - 1 THEN Len(s) - 1 - 1 + 1 ELSE 0
      /\ \A i \in 1 .. (Len(s) - 1 - 1 + 1) : SubSeq(s, 1, Len(s) - 1)[i] = s[1 + i - 1]
  BY <1>1, <1>2, SubSeqProperties
<1>5. Len(s) - 1 - 1 + 1 = Len(s) - 1 /\ \A i \in 1 .. (Len(s) - 1) : 1 + i - 1 = i
  BY <1>1
<1>6. Len(SubSeq(s, 1, Len(s) - 1)) = Len(s) - 1
  <2> DEFINE n == Len(s)
             m == Len(SubSeq(s, 1, n - 1))
  <2>1. n \in Nat \ {0} /\ m = IF 1 <= n - 1 THEN n - 1 - 1 + 1 ELSE 0
    BY <1>1, <1>4
  <2> HIDE DEF n, m
  <2>2. m = n - 1
    BY <2>1
  <2> QED BY <2>2 DEF n, m
<1> QED BY <1>1, <1>3, <1>4, <1>5, <1>6

\* Front(s) \o t is s with its top replaced by t.
LEMMA SwapIs ==
  ASSUME NEW X, NEW s \in Seq(X), s # <<>>, NEW t \in Seq(X)
  PROVE  Front(s) \o t \in Seq(X) /\ Swapped(s, Front(s) \o t, t)
<1> DEFINE n == Len(s) - 1
           r == Front(s) \o t
<1>1. /\ n \in Nat /\ Len(s) \in Nat \ {0} /\ Front(s) \in Seq(X) /\ Len(Front(s)) = n
      /\ \A i \in 1 .. n : Front(s)[i] = s[i]
  BY FrontIs
<1>2. Len(t) \in Nat /\ DOMAIN t = 1 .. Len(t) /\ DOMAIN s = 1 .. Len(s)
  OBVIOUS
<1>3. /\ r \in Seq(X) /\ Len(r) = n + Len(t)
      /\ \A i \in 1 .. (n + Len(t)) : r[i] = IF i <= n THEN Front(s)[i] ELSE t[i - n]
  <2>1. /\ r \in Seq(X) /\ Len(r) = Len(Front(s)) + Len(t)
        /\ \A i \in 1 .. (Len(Front(s)) + Len(t)) :
             r[i] = IF i <= Len(Front(s)) THEN Front(s)[i] ELSE t[i - Len(Front(s))]
    BY <1>1, ConcatProperties
  <2> QED BY <1>1, <2>1
<1>4. DOMAIN r = 1 .. Len(r)
  BY <1>3
<1> HIDE DEF r, n
<1>5. \A i \in 1 .. n : r[i] = s[i]
  BY <1>1, <1>2, <1>3
<1>6. ASSUME NEW j \in 1 .. Len(t) PROVE r[n + j] = t[j]
  <2>1. n + j \in 1 .. (n + Len(t)) /\ ~(n + j <= n) /\ (n + j) - n = j
    BY <1>1, <1>2
  <2> QED BY <1>3, <2>1
<1> QED BY <1>1, <1>2, <1>3, <1>4, <1>5, <1>6 DEF Swapped, r, n

\* The frames before and after the top is replaced.
LEMMA SwapMembers ==
  ASSUME NEW s, NEW r, NEW t, Swapped(s, r, t)
  PROVE  /\ Range(s) = Below(s) \cup {s[Len(s)]} /\ Range(r) = Below(s) \cup Range(t)
         /\ Range(t) # {} => r[Len(r)] = t[Len(t)] /\ Len(r) # 0
<1> DEFINE n == Len(s) - 1
<1>1. /\ n \in Nat /\ Len(s) = n + 1 /\ Len(t) \in Nat /\ Len(r) = n + Len(t)
      /\ DOMAIN s = 1 .. (n + 1) /\ DOMAIN t = 1 .. Len(t) /\ DOMAIN r = 1 .. (n + Len(t))
      /\ \A i \in 1 .. n : r[i] = s[i]
      /\ \A j \in 1 .. Len(t) : r[n + j] = t[j]
      /\ Below(s) = {s[i] : i \in 1 .. n}
  BY DEF Swapped, Below
<1> HIDE DEF n
<1>2. 1 .. (n + 1) = (1 .. n) \cup {n + 1}
  BY <1>1
<1>3. Range(s) = Below(s) \cup {s[Len(s)]}
  BY <1>1, <1>2 DEF Range
<1>4. ASSUME NEW i \in 1 .. (n + Len(t)) PROVE r[i] \in Below(s) \cup Range(t)
  <2>1. CASE i \in 1 .. n
    BY <1>1, <2>1
  <2>2. CASE i \notin 1 .. n
    <3>1. i - n \in 1 .. Len(t) /\ n + (i - n) = i
      BY <1>1, <2>2
    <3>2. r[i] = t[i - n]
      BY <1>1, <3>1
    <3> QED BY <1>1, <3>1, <3>2 DEF Range
  <2> QED BY <2>1, <2>2
<1>5. ASSUME NEW i \in 1 .. n PROVE s[i] \in Range(r)
  <2>1. i \in 1 .. (n + Len(t))
    BY <1>1
  <2> QED BY <1>1, <2>1 DEF Range
<1>6. ASSUME NEW j \in 1 .. Len(t) PROVE t[j] \in Range(r)
  <2>1. n + j \in 1 .. (n + Len(t))
    BY <1>1
  <2> QED BY <1>1, <2>1 DEF Range
<1>7. Range(r) = Below(s) \cup Range(t)
  <2>1. Range(r) \subseteq Below(s) \cup Range(t)
    BY <1>1, <1>4 DEF Range
  <2>2. Range(t) \subseteq Range(r)
    BY <1>1, <1>6 DEF Range
  <2>3. Below(s) \subseteq Range(r)
    BY <1>1, <1>5
  <2> QED BY <2>1, <2>2, <2>3
<1>8. ASSUME Range(t) # {} PROVE r[Len(r)] = t[Len(t)] /\ Len(r) # 0
  <2>1. Len(t) # 0
    BY <1>1, <1>8 DEF Range
  <2>2. Len(t) \in 1 .. Len(t)
    BY <1>1, <2>1
  <2> QED BY <1>1, <2>2
<1> QED BY <1>3, <1>7, <1>8

\* Two frames are of the same deallocation, or both of a collection.
Same(f, g) == \/ f.op = "dealloc" /\ g.op = "dealloc" /\ f.obj = g.obj
              \/ f.op = "collect" /\ g.op = "collect"
Separate(s) == \A i, j \in DOMAIN s : i # j => ~Same(s[i], s[j])
Plain(f) == f.op \in {"python", "drop"}

\* Frames that are plain, or continue the top, keep the frames separate.
LEMMA SwapSeparate ==
  ASSUME NEW s, NEW r, NEW t, Swapped(s, r, t), Separate(s),
         \A j \in DOMAIN t : Plain(t[j]) \/ (j = 1 /\ Same(t[j], s[Len(s)]))
  PROVE  Separate(r) /\ \A f \in Below(s) : ~Same(f, s[Len(s)]) /\ ~Same(s[Len(s)], f)
<1> DEFINE n == Len(s) - 1
<1>1. /\ n \in Nat /\ Len(s) = n + 1 /\ Len(t) \in Nat /\ Len(r) = n + Len(t)
      /\ DOMAIN s = 1 .. (n + 1) /\ DOMAIN t = 1 .. Len(t) /\ DOMAIN r = 1 .. (n + Len(t))
      /\ \A i \in 1 .. n : r[i] = s[i]
      /\ \A j \in 1 .. Len(t) : r[n + j] = t[j]
      /\ Below(s) = {s[i] : i \in 1 .. n}
  BY DEF Swapped, Below
<1> HIDE DEF n
<1>2. \A i \in 1 .. n : i \in DOMAIN s /\ i # n + 1 /\ n + 1 \in DOMAIN s
  BY <1>1
<1>3. \A i \in 1 .. n : ~Same(s[i], s[n + 1]) /\ ~Same(s[n + 1], s[i])
  BY <1>2 DEF Separate
<1>4. \A i, j \in 1 .. n : i # j => ~Same(s[i], s[j])
  BY <1>2 DEF Separate
<1>5. \A j \in 1 .. Len(t) : Plain(t[j]) \/ (j = 1 /\ Same(t[j], s[n + 1]))
  BY <1>1
<1>6. \A i \in DOMAIN r : \/ i \in 1 .. n /\ r[i] = s[i]
                          \/ Plain(r[i])
                          \/ i = n + 1 /\ Same(r[i], s[n + 1])
  <2> TAKE i \in DOMAIN r
  <2>1. CASE i \in 1 .. n
    BY <1>1, <2>1
  <2>2. CASE i \notin 1 .. n
    <3>1. i - n \in 1 .. Len(t) /\ n + (i - n) = i
      BY <1>1, <2>2
    <3>2. r[i] = t[i - n]
      BY <1>1, <3>1
    <3>3. Plain(r[i]) \/ (i - n = 1 /\ Same(r[i], s[n + 1]))
      BY <1>5, <3>1, <3>2
    <3>4. i - n = 1 => i = n + 1
      BY <1>1
    <3> QED BY <3>3, <3>4
  <2> QED BY <2>1, <2>2
<1>7. \A f, g : Plain(f) => ~Same(f, g) /\ ~Same(g, f)
  BY DEF Plain, Same
<1>8. \A f, g, h : Same(f, h) /\ Same(f, g) => Same(g, h) /\ Same(h, g)
  BY DEF Same
<1>9. \A f, g : Same(f, g) => Same(g, f)
  BY DEF Same
<1>10. ASSUME NEW i \in DOMAIN r, NEW j \in DOMAIN r, i # j PROVE ~Same(r[i], r[j])
  <2>1. (~Plain(r[i]) /\ ~Plain(r[j])) \/ ~Same(r[i], r[j])
    BY <1>7
  <2>2. CASE i \in 1 .. n /\ r[i] = s[i] /\ j \in 1 .. n /\ r[j] = s[j]
    BY <1>4, <1>10, <2>2
  <2>3. CASE i \in 1 .. n /\ r[i] = s[i] /\ j = n + 1 /\ Same(r[j], s[n + 1])
    BY <1>3, <1>8, <1>9, <2>3
  <2>4. CASE j \in 1 .. n /\ r[j] = s[j] /\ i = n + 1 /\ Same(r[i], s[n + 1])
    BY <1>3, <1>8, <1>9, <2>4
  <2> QED BY <1>6, <1>10, <2>1, <2>2, <2>3, <2>4
<1> QED BY <1>1, <1>3, <1>10 DEF Separate

\* An element of a sequence is in its range, and the other way round.
LEMMA RangeIs ==
  ASSUME NEW s
  PROVE  (\A i \in DOMAIN s : s[i] \in Range(s)) /\ (\A f \in Range(s) : \E i \in DOMAIN s : s[i] = f)
BY DEF Range

\* The functions below a collection, which wait for it.
Under == {f \in Range(stack) : \E j \in DOMAIN stack : \E i \in 1 .. (j - 1) :
                                 stack[j].op = "collect" /\ stack[i] = f}
\* What becomes of the stack when its top is replaced by the frames in F.
Replaced(F) ==
  /\ stack' \in Seq(Frames) /\ Separate(stack') /\ Under' \subseteq Under
  /\ Range(stack) = Below(stack) \cup {Top} /\ Range(stack') = Below(stack) \cup F
  /\ \A f \in Below(stack) : ~Same(f, Top) /\ ~Same(Top, f)
RestSet(objs) == IF objs = {} THEN {} ELSE {Drop(objs)}
Fits(f) == f \in Frames /\ (Plain(f) \/ Same(f, Top))

\* A step that replaces the top by plain frames and at most one that continues it.
LEMMA ReplacedBy ==
  ASSUME stack \in Seq(Frames), stack # <<>>, Separate(stack), NEW t \in Seq(Frames),
         stack' = Front(stack) \o t,
         \A j \in DOMAIN t : Plain(t[j]) \/ (j = 1 /\ Same(t[j], Top))
  PROVE  Replaced(Range(t)) /\ (Range(t) # {} => stack' # <<>> /\ Top' = t[Len(t)])
<1>1. stack' \in Seq(Frames) /\ Swapped(stack, stack', t)
  BY SwapIs
<1>2. Top = stack[Len(stack)] /\ Top' = stack'[Len(stack')]
  BY DEF Top
<1>3. Separate(stack') /\ \A f \in Below(stack) : ~Same(f, Top) /\ ~Same(Top, f)
  BY <1>1, <1>2, SwapSeparate
<1>4. /\ Range(stack) = Below(stack) \cup {Top} /\ Range(stack') = Below(stack) \cup Range(t)
      /\ Range(t) # {} => Top' = t[Len(t)] /\ Len(stack') # 0
  BY <1>1, <1>2, SwapMembers
<1>5. Len(stack') # 0 => stack' # <<>>
  OBVIOUS
<1>6. Under' \subseteq Under
  <2> SUFFICES ASSUME NEW j \in DOMAIN stack', NEW i \in 1 .. (j - 1), stack'[j].op = "collect"
               PROVE  stack'[i] \in Under
    BY DEF Under
  <2> DEFINE n == Len(stack)
             m == Len(t)
  <2>1. /\ n \in Nat \ {0} /\ m \in Nat /\ DOMAIN stack' = 1 .. (n - 1 + m)
        /\ DOMAIN stack = 1 .. n /\ DOMAIN t = 1 .. m
        /\ \A k \in 1 .. (n - 1) : stack'[k] = stack[k]
        /\ \A k \in 1 .. m : stack'[n - 1 + k] = t[k]
    BY <1>1 DEF Swapped
  <2> HIDE DEF n, m
  <2>2. \E k \in 1 .. n : k = j /\ stack[k].op = "collect"
    <3>1. CASE j <= n - 1
      BY <2>1, <3>1
    <3>2. CASE ~(j <= n - 1)
      <4>1. j - (n - 1) \in 1 .. m /\ n - 1 + (j - (n - 1)) = j
        <5>1. j \in Int /\ n \in Int /\ m \in Int /\ j <= n - 1 + m /\ ~(j <= n - 1)
          BY <2>1, <3>2
        <5> QED BY <5>1
      <4>2. t[j - (n - 1)].op = "collect" /\ ~Plain(t[j - (n - 1)])
        BY <2>1, <4>1 DEF Plain
      <4>3. j - (n - 1) = 1 /\ Same(t[j - (n - 1)], Top)
        BY <2>1, <4>1, <4>2
      <4>4. Top.op = "collect"
        BY <4>2, <4>3 DEF Same
      <4>5. j = n /\ Top = stack[n]
        BY <1>2, <2>1, <4>3 DEF n
      <4> QED BY <2>1, <4>4, <4>5
    <3> QED BY <3>1, <3>2
  <2>3. i \in 1 .. (n - 1) /\ stack'[i] = stack[i] /\ i \in DOMAIN stack /\ j \in DOMAIN stack
    BY <2>1, <2>2
  <2>4. stack[i] \in Range(stack)
    BY <2>3, RangeIs
  <2> QED BY <2>2, <2>3, <2>4 DEF Under
<1> QED BY <1>1, <1>3, <1>4, <1>5, <1>6 DEF Replaced

\* Rest is a frame that drops the objects, or nothing.
LEMMA RestIs ==
  ASSUME NEW S, Drop(S) \in Frames
  PROVE  /\ Rest(S) \in Seq(Frames) /\ Range(Rest(S)) = RestSet(S)
         /\ \A j \in DOMAIN Rest(S) : Plain(Rest(S)[j])
         /\ Len(Rest(S)) = IF S = {} THEN 0 ELSE 1
         /\ S # {} => Rest(S)[1] = Drop(S)
<1>1. CASE S = {}
  <2>1. Rest(S) = <<>> /\ RestSet(S) = {}
    BY <1>1 DEF Rest, RestSet
  <2>2. <<>> \in Seq(Frames) /\ DOMAIN <<>> = {} /\ Len(<<>>) = 0
    OBVIOUS
  <2>3. Range(<<>>) = {}
    BY <2>2 DEF Range
  <2>4. /\ Rest(S) \in Seq(Frames) /\ DOMAIN Rest(S) = {} /\ Len(Rest(S)) = 0
        /\ Range(Rest(S)) = RestSet(S)
    BY <2>1, <2>2, <2>3, Zenon
  <2> QED BY <1>1, <2>4
<1>2. CASE S # {}
  <2>1. Rest(S) = <<Drop(S)>> /\ RestSet(S) = {Drop(S)}
    BY <1>2 DEF Rest, RestSet
  <2>2. DOMAIN <<Drop(S)>> = {1} /\ <<Drop(S)>>[1] = Drop(S) /\ <<Drop(S)>> \in Seq(Frames) /\ Len(<<Drop(S)>>) = 1
    OBVIOUS
  <2>3. Plain(Drop(S))
    BY DEF Plain, Drop
  <2> QED BY <1>2, <2>1, <2>2, <2>3 DEF Range
<1> QED BY <1>1, <1>2

\* The top replaced by the given frame and what it calls.
LEMMA ReplacedBySome ==
  ASSUME stack \in Seq(Frames), stack # <<>>, Separate(stack)
  PROVE  /\ stack' = Front(stack) => Replaced({})
         /\ \A f : Fits(f) /\ (stack' = Append(Front(stack), f) \/ stack' = Front(stack) \o <<f>>)
                     => Replaced({f}) /\ stack' # <<>> /\ Top' = f
         /\ \A f, g : Fits(f) /\ g \in Frames /\ Plain(g) /\ stack' = Front(stack) \o <<f, g>>
                     => Replaced({f, g}) /\ stack' # <<>> /\ Top' = g
<1>0. Front(stack) \in Seq(Frames)
  BY FrontIs
<1>1. ASSUME stack' = Front(stack) PROVE Replaced({})
  <2>1. <<>> \in Seq(Frames) /\ Front(stack) \o <<>> = Front(stack) /\ DOMAIN <<>> = {} /\ Range(<<>>) = {}
    BY <1>0, ConcatEmptySeq DEF Range
  <2> QED BY <1>1, <2>1, ReplacedBy
<1>2. ASSUME NEW f, Fits(f), stack' = Append(Front(stack), f) \/ stack' = Front(stack) \o <<f>>
      PROVE  Replaced({f}) /\ stack' # <<>> /\ Top' = f
  <2>0. f \in Frames /\ (Plain(f) \/ Same(f, Top))
    BY <1>2 DEF Fits
  <2>1. /\ <<f>> \in Seq(Frames) /\ DOMAIN <<f>> = {1} /\ <<f>>[1] = f /\ Len(<<f>>) = 1
    BY <2>0
  <2>2. stack' = Front(stack) \o <<f>>
    BY <1>0, <1>2, <2>0, AppendIsConcat
  <2>3. Range(<<f>>) = {f}
    BY <2>1 DEF Range
  <2>4. \A j \in DOMAIN <<f>> : Plain(<<f>>[j]) \/ (j = 1 /\ Same(<<f>>[j], Top))
    BY <2>0, <2>1
  <2>5. Replaced(Range(<<f>>)) /\ (Range(<<f>>) # {} => stack' # <<>> /\ Top' = <<f>>[Len(<<f>>)])
    BY <2>1, <2>2, <2>4, ReplacedBy
  <2> QED BY <2>1, <2>3, <2>5
<1>3. ASSUME NEW f, NEW g, Fits(f), g \in Frames, Plain(g), stack' = Front(stack) \o <<f, g>>
      PROVE  Replaced({f, g}) /\ stack' # <<>> /\ Top' = g
  <2>0. f \in Frames /\ (Plain(f) \/ Same(f, Top))
    BY <1>3 DEF Fits
  <2> DEFINE t == <<f, g>>
  <2>1. t \in Seq(Frames) /\ DOMAIN t = {1, 2} /\ t[1] = f /\ t[2] = g /\ Len(t) = 2
    BY <1>3, <2>0
  <2> HIDE DEF t
  <2>2. Range(t) = {f, g}
    BY <2>1 DEF Range
  <2>3. \A j \in DOMAIN t : Plain(t[j]) \/ (j = 1 /\ Same(t[j], Top))
    BY <1>3, <2>0, <2>1
  <2>4. Replaced(Range(t)) /\ (Range(t) # {} => stack' # <<>> /\ Top' = t[Len(t)])
    BY <1>3, <2>1, <2>3, ReplacedBy DEF t
  <2> QED BY <2>1, <2>2, <2>4
<1> QED BY <1>1, <1>2, <1>3

\* The top replaced by what is left to drop, below the given frame.
LEMMA ReplacedByRest ==
  ASSUME stack \in Seq(Frames), stack # <<>>, Separate(stack), NEW S, Drop(S) \in Frames
  PROVE  /\ stack' = Front(stack) \o Rest(S) => Replaced(RestSet(S))
         /\ \A f : Fits(f) /\ stack' = Front(stack) \o <<f>> \o Rest(S)
                     => Replaced({f} \cup RestSet(S)) /\ stack' # <<>>
<1>0. Front(stack) \in Seq(Frames)
  BY FrontIs
<1>1. /\ Rest(S) \in Seq(Frames) /\ Range(Rest(S)) = RestSet(S)
      /\ \A j \in DOMAIN Rest(S) : Plain(Rest(S)[j])
  BY RestIs
<1>2. ASSUME stack' = Front(stack) \o Rest(S) PROVE Replaced(RestSet(S))
  BY <1>1, <1>2, ReplacedBy
<1>3. ASSUME NEW f, Fits(f), stack' = Front(stack) \o <<f>> \o Rest(S)
      PROVE  Replaced({f} \cup RestSet(S)) /\ stack' # <<>>
  <2>0. f \in Frames /\ (Plain(f) \/ Same(f, Top))
    BY <1>3 DEF Fits
  <2>1. <<f>> \in Seq(Frames) /\ Len(<<f>>) = 1 /\ <<f>>[1] = f /\ DOMAIN <<f>> = {1}
    BY <2>0
  <2>2. Range(<<f>>) = {f}
    BY <2>1 DEF Range
  <2> DEFINE t == <<f>> \o Rest(S)
  <2>3. /\ t \in Seq(Frames) /\ Range(t) = {f} \cup RestSet(S)
    <3>1. \A q, r \in Seq(Frames) : q \o r \in Seq(Frames) /\ Range(q \o r) = Range(q) \cup Range(r)
      BY JoinedOnce
    <3>2. t \in Seq(Frames) /\ Range(t) = Range(<<f>>) \cup Range(Rest(S))
      BY <1>1, <2>1, <3>1, Zenon
    <3> QED BY <1>1, <2>2, <3>2, Zenon
  <2>4. stack' = Front(stack) \o t
    BY <1>0, <1>1, <1>3, <2>1, ConcatAssociative
  <2>5. /\ Len(t) = 1 + Len(Rest(S)) /\ Len(Rest(S)) \in Nat /\ DOMAIN Rest(S) = 1 .. Len(Rest(S))
        /\ DOMAIN t = 1 .. Len(t)
        /\ \A j \in 1 .. (1 + Len(Rest(S))) : t[j] = IF j <= 1 THEN <<f>>[j] ELSE Rest(S)[j - 1]
    <3>1. /\ Len(t) = Len(<<f>>) + Len(Rest(S))
          /\ \A j \in 1 .. (Len(<<f>>) + Len(Rest(S))) :
               t[j] = IF j <= Len(<<f>>) THEN <<f>>[j] ELSE Rest(S)[j - Len(<<f>>)]
      BY <1>1, <2>1, ConcatProperties
    <3> HIDE DEF t
    <3> QED BY <1>1, <2>1, <2>3, <3>1
  <2> HIDE DEF t
  <2>6. ASSUME NEW j \in DOMAIN t PROVE Plain(t[j]) \/ (j = 1 /\ Same(t[j], Top))
    <3>1. CASE j = 1
      BY <2>0, <2>1, <2>5, <3>1
    <3>2. CASE j # 1
      <4>1. j - 1 \in DOMAIN Rest(S) /\ ~(j <= 1)
        BY <2>5, <3>2
      <4> QED BY <1>1, <2>5, <4>1
    <3> QED BY <3>1, <3>2
  <2>7. Replaced(Range(t)) /\ (Range(t) # {} => stack' # <<>>)
    BY <2>3, <2>4, <2>6, ReplacedBy
  <2> QED BY <2>3, <2>7
<1> QED BY <1>2, <1>3

\* A frame pushed on the stack.
LEMMA PushedOn ==
  ASSUME stack \in Seq(Frames), Separate(stack), NEW f \in Frames,
         stack' = Append(stack, f), \A g \in Range(stack) : ~Same(f, g) /\ ~Same(g, f)
  PROVE  /\ stack' \in Seq(Frames) /\ Separate(stack') /\ Range(stack') = Range(stack) \cup {f}
         /\ stack' # <<>> /\ Top' = f
<1> DEFINE n == Len(stack)
<1>1. /\ n \in Nat /\ stack' \in Seq(Frames) /\ Len(stack') = n + 1 /\ stack' # <<>>
      /\ DOMAIN stack = 1 .. n /\ DOMAIN stack' = 1 .. (n + 1)
      /\ \A i \in 1 .. n : stack'[i] = stack[i]
      /\ stack'[n + 1] = f
  BY AppendProperties
<1>2. Top' = f
  BY <1>1 DEF Top
<1> HIDE DEF n
<1>3. \A i \in 1 .. (n + 1) : i \in 1 .. n \/ i = n + 1
  BY <1>1
<1>4. Range(stack') = Range(stack) \cup {f}
  <2>1. \A i \in 1 .. n : i \in 1 .. (n + 1)
    BY <1>1
  <2>2. n + 1 \in 1 .. (n + 1)
    BY <1>1
  <2> QED BY <1>1, <1>3, <2>1, <2>2 DEF Range
<1>5. \A i \in 1 .. n : stack[i] \in Range(stack)
  BY <1>1 DEF Range
<1>6. Separate(stack')
  <2> SUFFICES ASSUME NEW i \in 1 .. (n + 1), NEW j \in 1 .. (n + 1), i # j PROVE ~Same(stack'[i], stack'[j])
    BY <1>1 DEF Separate
  <2>1. CASE i \in 1 .. n /\ j \in 1 .. n
    BY <1>1, <2>1 DEF Separate
  <2>2. CASE i = n + 1 /\ j \in 1 .. n
    BY <1>1, <1>5, <2>2
  <2>3. CASE j = n + 1 /\ i \in 1 .. n
    BY <1>1, <1>5, <2>3
  <2> QED BY <1>3, <2>1, <2>2, <2>3
<1> QED BY <1>1, <1>2, <1>4, <1>6
-----------------------------------------------------------------------------
(* The invariants.                                                          *)

\* Objects that are being deallocated and have not been given to their __del__.
Buries(f, o) == f.op = "dealloc" /\ f.obj = o /\ f.stage # "deleted"
Buried == {o \in live : \E f \in Range(stack) : Buries(f, o)}

\* Nothing refers to o.
Unreferred(o) == /\ \A p \in live : o \notin refs[p]
                 /\ o \notin held /\ o \notin garbage
                 /\ \A f \in Range(stack) : o \notin f.holds
Lost(o) == Unreferred(o) /\ \A w \in Obj : wr_object[w] # o

DeallocOK(f) ==
  /\ f.obj \in live /\ \A wc \in f.calls : {wc[1], wc[2]} \subseteq f.holds
  /\ f.stage = "deleted" => f.obj \in Finalizer
  /\ f.obj \in Weak => wr_object[f.obj] = None
\* The object that the collector treats is the first of its list, unless it was freed.
HeadOf(list, o) == o \in Range(list) => list[1] = o
CollectOK(f) ==
  /\ gc # NoCollection /\ (f.stage = "next" => f.obj = None)
  /\ gc.phase = "move" => f = Collection("next", None, {})
  /\ gc.phase = "weakrefs" => /\ Range(wrcb_to_call) \subseteq f.holds \cup {f.obj}
                              /\ f.stage # "released" => Range(wrcb_to_call) \subseteq f.holds
                              /\ HeadOf(wrcb_to_call, f.obj)
  /\ gc.phase = "delete" => HeadOf(unreachable, f.obj)
FrameOK(f) == /\ f.op = "dealloc" => DeallocOK(f)
              /\ f.op = "collect" => CollectOK(f)
FramesOK == \A f \in Range(stack) : FrameOK(f)

Moves == gc # NoCollection /\ gc.phase = "move"
MoveOK ==
  /\ Moves => stack # <<>> /\ Top.op = "collect" /\ Doomed = {} /\ gc.scanned <= Len(young)
  /\ gc = NoCollection => unreachable = <<>>
  /\ gc = NoCollection \/ gc.phase = "move" => finalizers = <<>>
  /\ gc = NoCollection \/ gc.phase # "weakrefs" => wrcb_to_call = <<>>

\* Lists that have each element once, and no two of them the same one.
Tidy(G) ==
  /\ G \in [Generation -> Seq(Obj)] /\ \A g \in Generation : IsInjective(G[g])
  /\ \A g, h \in Generation : g # h => Range(G[g]) \cap Range(G[h]) = {}
Members(G) == UNION {Range(G[g]) : g \in Generation}
Gens == Members(generations)
ListsApart ==
  /\ Tidy(generations)
  /\ IsInjective(unreachable) /\ IsInjective(finalizers) /\ IsInjective(wrcb_to_call)
  /\ Gens \cap Range(unreachable) = {} /\ Gens \cap Range(finalizers) = {}
  /\ Gens \cap Range(wrcb_to_call) = {} /\ Range(unreachable) \cap Range(finalizers) = {}
  /\ Range(unreachable) \cap Range(wrcb_to_call) = {}
  /\ Range(finalizers) \cap Range(wrcb_to_call) = {}
Listed == Gens \cup Range(unreachable) \cup Range(finalizers) \cup Range(wrcb_to_call)

WeakOK == \A w \in Obj : wr_object[w] # None =>
            {w, wr_object[w]} \subseteq live /\ <<w, wr_object[w]>> \in MayWatch

HeapOK == /\ IsFiniteSet(live)
          /\ \A o \in Obj \ live : refs[o] = {}
          /\ \A o \in Buried : Lost(o)

HeapInv == /\ TypeOK /\ HeapOK /\ WeakOK /\ Separate(stack) /\ FramesOK /\ MoveOK
           /\ ListsApart /\ Listed = live \ Buried

\* The kinds of frames and what each carries.
LEMMA FrameKinds ==
  /\ \A f \in Frames : f.holds \subseteq Obj /\ f.op \in {"python", "drop", "dealloc", "collect"}
  /\ \A f \in Frames : f.op = "dealloc" =>
       /\ f.obj \in Obj /\ f.stage \in {"call", "del", "deleted"} /\ f.calls \subseteq Weak \X Obj
       /\ f = Dealloc(f.obj, f.stage, f.holds, f.calls)
  /\ \A f \in Frames : f.op = "collect" =>
       /\ f.obj \in Obj \cup {None} /\ f.stage \in {"next", "called", "released"}
       /\ f = Collection(f.stage, f.obj, f.holds)
  /\ \A S \in SUBSET Obj : /\ Call(S) \in Frames /\ Call(S).op = "python" /\ Call(S).holds = S
                           /\ Drop(S) \in Frames /\ Drop(S).op = "drop" /\ Drop(S).holds = S
<1>1. ASSUME NEW f \in Frames PROVE f.holds \subseteq Obj /\ f.op \in {"python", "drop", "dealloc", "collect"}
  BY DEF Frames
<1>2. ASSUME NEW f \in Frames, f.op = "dealloc"
      PROVE  /\ f.obj \in Obj /\ f.stage \in {"call", "del", "deleted"} /\ f.calls \subseteq Weak \X Obj
             /\ f = Dealloc(f.obj, f.stage, f.holds, f.calls)
  BY <1>2 DEF Frames, Dealloc
<1>3. ASSUME NEW f \in Frames, f.op = "collect"
      PROVE  /\ f.obj \in Obj \cup {None} /\ f.stage \in {"next", "called", "released"}
             /\ f = Collection(f.stage, f.obj, f.holds)
  BY <1>3 DEF Frames, Collection
<1>4. ASSUME NEW S \in SUBSET Obj
      PROVE  /\ Call(S) \in Frames /\ Call(S).op = "python" /\ Call(S).holds = S
             /\ Drop(S) \in Frames /\ Drop(S).op = "drop" /\ Drop(S).holds = S
  BY DEF Frames, Call, Drop
<1> QED BY <1>1, <1>2, <1>3, <1>4

\* A deallocation frame and its fields.
LEMMA DeallocFrame ==
  ASSUME NEW o \in Obj, NEW st \in {"call", "del", "deleted"}, NEW h \in SUBSET Obj,
         NEW c \in SUBSET (Weak \X Obj)
  PROVE  LET f == Dealloc(o, st, h, c) IN
           /\ f \in Frames /\ f.op = "dealloc" /\ f.obj = o /\ f.stage = st /\ f.holds = h
           /\ f.calls = c
BY DEF Frames, Dealloc

\* A collection frame and its fields.
LEMMA CollectionFrame ==
  ASSUME NEW st \in {"next", "called", "released"}, NEW o \in Obj \cup {None}, NEW h \in SUBSET Obj
  PROVE  LET f == Collection(st, o, h) IN
           f \in Frames /\ f.op = "collect" /\ f.obj = o /\ f.stage = st /\ f.holds = h
BY DEF Frames, Collection

\* The reference count is zero when nothing refers to the object.
LEMMA RefcntZero ==
  ASSUME IsFiniteSet(live), stack \in Seq(Frames), NEW o
  PROVE  ob_refcnt(o) \in Nat /\ (ob_refcnt(o) = 0 <=> Unreferred(o))
<1> DEFINE A == Referring(live, o)
           H == {i \in DOMAIN stack : o \in stack[i].holds}
<1>1. IsFiniteSet(A) /\ IsFiniteSet(H) /\ IsFiniteSet({o} \cap held) /\ IsFiniteSet({o} \cap garbage)
  <2>1. IsFiniteSet(A)
    <3>1. A \subseteq live
      BY DEF Referring
    <3> QED BY <3>1, FS_Subset
  <2>2. IsFiniteSet(H)
    <3>1. Len(stack) \in Nat /\ DOMAIN stack = 1 .. Len(stack)
      OBVIOUS
    <3>2. IsFiniteSet(1 .. Len(stack))
      BY <3>1, FS_Interval
    <3>3. H \subseteq 1 .. Len(stack)
      BY <3>1
    <3> QED BY <3>2, <3>3, FS_Subset
  <2>3. IsFiniteSet({o})
    BY FS_Singleton
  <2>4. {o} \cap held \subseteq {o} /\ {o} \cap garbage \subseteq {o}
    OBVIOUS
  <2> QED BY <2>1, <2>2, <2>3, <2>4, FS_Subset
<1> DEFINE a == Cardinality(A)
           b == Cardinality({o} \cap held)
           c == Cardinality({o} \cap garbage)
           d == Cardinality(H)
<1>2. a \in Nat /\ b \in Nat /\ c \in Nat /\ d \in Nat
  BY <1>1, FS_CardinalityType
<1>3. (a = 0 <=> A = {}) /\ (b = 0 <=> {o} \cap held = {}) /\ (c = 0 <=> {o} \cap garbage = {}) /\ (d = 0 <=> H = {})
  BY <1>1, FS_EmptySet
<1>4. ob_refcnt(o) = a + b + c + d
  BY DEF ob_refcnt
<1>5. A = {} <=> \A p \in live : o \notin refs[p]
  BY DEF Referring
<1>6. H = {} <=> \A f \in Range(stack) : o \notin f.holds
  BY DEF Range
<1> HIDE DEF a, b, c, d, A, H
<1>7. a + b + c + d \in Nat /\ (a + b + c + d = 0 <=> a = 0 /\ b = 0 /\ c = 0 /\ d = 0)
  BY <1>2
<1> QED BY <1>3, <1>4, <1>5, <1>6, <1>7 DEF Unreferred

\* The objects whose reference count is 0.
LEMMA DoomedIs ==
  ASSUME IsFiniteSet(live), stack \in Seq(Frames)
  PROVE  Doomed = {o \in live : Unreferred(o) /\ \A f \in Range(stack) : ~(f.op = "dealloc" /\ f.obj = o)}
<1>1. \A o : InDealloc(o) <=> \E f \in Range(stack) : f.op = "dealloc" /\ f.obj = o
  BY DEF InDealloc, Range
<1>2. \A o : ob_refcnt(o) = 0 <=> Unreferred(o)
  BY RefcntZero
<1> QED BY <1>1, <1>2 DEF Doomed

\* What a nonempty stack has, in one place.
LEMMA StackIs ==
  ASSUME TypeOK
  PROVE  /\ \A f \in Range(stack) : f \in Frames /\ f.holds \subseteq live
         /\ stack # <<>> => Top \in Range(stack)
<1>1. ASSUME NEW f \in Range(stack) PROVE f \in Frames /\ f.holds \subseteq live
  <2>1. PICK i \in DOMAIN stack : stack[i] = f
    BY RangeIs
  <2> QED BY <2>1 DEF TypeOK
<1>2. ASSUME stack # <<>> PROVE Top \in Range(stack)
  <2>1. Len(stack) \in DOMAIN stack
    BY <1>2 DEF TypeOK
  <2> QED BY <2>1, RangeIs DEF Top
<1> QED BY <1>1, <1>2

\* Python code gets at no object that is being deallocated.
LEMMA AccessibleIs ==
  ASSUME TypeOK, HeapOK
  PROVE  Accessible \subseteq live /\ Accessible \cap Buried = {}
<1> DEFINE N == [p \in Obj |-> refs[p] \cup {wr_object[p]}]
<1>1. \A f \in Range(stack), o \in Buried : o \notin f.holds
  BY DEF HeapOK, Lost, Unreferred
<1>2. \A i \in DOMAIN stack : stack[i].holds \cap Buried = {}
  BY <1>1, RangeIs
<1>3. Roots \cap Buried = {}
  <2>1. \A o \in Buried : o \notin held /\ o \notin garbage
    BY DEF HeapOK, Lost, Unreferred
  <2> QED BY <1>2, <2>1 DEF Roots
<1>4. \A p \in live \ Buried : N[p] \cap live \cap Buried = {}
  <2>1. \A o \in Buried, p \in live : o \notin refs[p] /\ o # wr_object[p]
    BY DEF HeapOK, Lost, Unreferred, TypeOK
  <2> QED BY <2>1 DEF TypeOK
<1>5. IsFiniteSet(live)
  BY DEF HeapOK
<1>6. Accessible = Reaching(Roots, live, N)
  BY DEF Accessible
<1> HIDE DEF N
<1>7. Reaching(Roots, live, N) \subseteq live
  BY <1>5, ReachingIs
<1>8. Reaching(Roots, live, N) \cap Buried = {}
  <2>1. Roots \cap live \cap Buried = {}
    BY <1>3
  <2> QED BY <1>4, <1>5, <2>1, ReachingAvoids
<1> QED BY <1>6, <1>7, <1>8

\* What a step on the stack alone has to leave in order.
StackStep(F) ==
  /\ Replaced(F) /\ stack # <<>> /\ ~Moves
  /\ UNCHANGED <<heapVars, listVars, gc>>
  /\ cleared' \subseteq live /\ trash' \subseteq live /\ called' \subseteq live
  /\ \A f \in F : f.holds \subseteq live \ Buried /\ FrameOK(f)
  /\ \A o : (\E f \in F : Buries(f, o)) <=> Buries(Top, o)

LEMMA StackStepKeeps ==
  ASSUME HeapInv, NEW F, StackStep(F)
  PROVE  HeapInv'
<1> USE DEF heapVars, listVars, StackStep
<1>1. /\ TypeOK /\ HeapOK /\ WeakOK /\ Separate(stack) /\ FramesOK /\ MoveOK
      /\ ListsApart /\ Listed = live \ Buried
  BY DEF HeapInv
<1>2. /\ stack' \in Seq(Frames) /\ Separate(stack')
      /\ Range(stack) = Below(stack) \cup {Top} /\ Range(stack') = Below(stack) \cup F
  BY DEF Replaced
<1>3. \A f \in Range(stack') : f.holds \subseteq live /\ FrameOK(f)
  BY <1>1, <1>2, StackIs DEF FramesOK
<1>4. TypeOK'
  <2>1. \A i \in DOMAIN stack' : stack'[i].holds \subseteq live
    BY <1>3, RangeIs
  <2> QED BY <1>1, <1>2, <2>1 DEF TypeOK
<1>5. Buried' = Buried
  <2>1. \A o : (\E f \in Range(stack') : Buries(f, o)) <=> (\E f \in Range(stack) : Buries(f, o))
    BY <1>2
  <2> QED BY <2>1 DEF Buried
<1>6. HeapOK'
  <2>1. ASSUME NEW o \in Buried PROVE Lost(o)'
    <3>1. \A f \in Range(stack') : o \notin f.holds
      BY <1>1, <1>2, <2>1 DEF HeapOK, Lost, Unreferred
    <3> QED BY <1>1, <2>1, <3>1 DEF HeapOK, Lost, Unreferred
  <2> QED BY <1>1, <1>5, <2>1 DEF HeapOK
<1>7. WeakOK'
  BY <1>1 DEF WeakOK
<1>8. FramesOK'
  BY <1>3 DEF FramesOK, FrameOK, DeallocOK, CollectOK, HeadOf
<1>9. MoveOK'
  BY <1>1 DEF MoveOK, Moves
<1>10. ListsApart'
  BY <1>1 DEF ListsApart, Tidy, Gens, Members
<1>11. Listed' = live' \ Buried'
  BY <1>1, <1>5 DEF Listed, Gens, Members
<1> QED BY <1>2, <1>4, <1>6, <1>7, <1>8, <1>9, <1>10, <1>11 DEF HeapInv
\* What is known of the function under way.
LEMMA TopIs ==
  ASSUME HeapInv, stack # <<>>
  PROVE  /\ stack \in Seq(Frames) /\ Separate(stack)
         /\ Top \in Frames /\ Top.holds \subseteq live \ Buried /\ FrameOK(Top)
         /\ live \subseteq Obj /\ (Top.op # "collect" => ~Moves)
         /\ cleared \subseteq live /\ trash \subseteq live /\ called \subseteq live
<1>1. TypeOK /\ HeapOK /\ FramesOK /\ MoveOK /\ Separate(stack)
  BY DEF HeapInv
<1>2. Top \in Range(stack) /\ Top \in Frames /\ Top.holds \subseteq live
  BY <1>1, StackIs
<1>3. \A o \in Buried : o \notin Top.holds
  BY <1>1, <1>2 DEF HeapOK, Lost, Unreferred
<1>4. FrameOK(Top)
  BY <1>1, <1>2 DEF FramesOK
<1> QED BY <1>1, <1>2, <1>3, <1>4 DEF TypeOK, MoveOK

\* Frames that hold references and nothing else.
LEMMA PlainFrames ==
  ASSUME NEW S \in SUBSET Obj
  PROVE  \A f \in {Call(S), Drop(S)} : /\ f \in Frames /\ Plain(f) /\ f.holds = S /\ FrameOK(f)
                                       /\ \A o : ~Buries(f, o)
<1>1. \A f \in {Call(S), Drop(S)} : f \in Frames /\ f.op \in {"python", "drop"} /\ f.holds = S
  BY FrameKinds
<1> QED BY <1>1 DEF Plain, FrameOK, Buries

\* The frames of Rest hold what they drop and nothing else.
LEMMA RestFrames ==
  ASSUME NEW S \in SUBSET Obj
  PROVE  \A f \in RestSet(S) : /\ f \in Frames /\ Plain(f) /\ f.holds = S /\ FrameOK(f)
                               /\ \A o : ~Buries(f, o)
<1>1. \A f \in RestSet(S) : f \in {Call(S), Drop(S)}
  BY DEF RestSet
<1> QED BY <1>1, PlainFrames

\* A function returns.
LEMMA ReturnKeeps ==
  ASSUME HeapInv, Return
  PROVE  HeapInv'
<1> DEFINE f == Drop(Top.holds)
<1>1. /\ stack # <<>> /\ Top.op = "python" /\ stack' = Append(Front(stack), f)
      /\ UNCHANGED <<heapVars, listVars, gc, histVars>>
  BY DEF Return, In, Replace
<1>2. /\ stack \in Seq(Frames) /\ Separate(stack)
      /\ Top \in Frames /\ Top.holds \subseteq live \ Buried /\ FrameOK(Top)
      /\ live \subseteq Obj /\ ~Moves /\ cleared \subseteq live /\ trash \subseteq live /\ called \subseteq live
  BY <1>1, TopIs
<1>3. Top.holds \in SUBSET Obj
  BY <1>2
<1>4. f \in Frames /\ Plain(f) /\ f.holds = Top.holds /\ FrameOK(f) /\ \A o : ~Buries(f, o)
  BY <1>3, PlainFrames
<1>5. \A o : ~Buries(Top, o)
  BY <1>1 DEF Buries
<1> HIDE DEF f
<1>6. Replaced({f})
  BY <1>1, <1>2, <1>4, ReplacedBySome DEF Fits
<1>7. StackStep({f})
  BY <1>1, <1>2, <1>4, <1>5, <1>6 DEF StackStep, histVars
<1> QED BY <1>7, StackStepKeeps

\* A frame drops a reference.
LEMMA Py_DECREFKeeps ==
  ASSUME HeapInv, NEW o, Py_DECREF(o)
  PROVE  HeapInv'
<1> DEFINE S == Top.holds \ {o}
<1>1. /\ stack # <<>> /\ Top.op = "drop" /\ stack' = Front(stack) \o Rest(S)
      /\ UNCHANGED <<heapVars, listVars, gc, histVars>>
  BY DEF Py_DECREF, In
<1>2. /\ stack \in Seq(Frames) /\ Separate(stack)
      /\ Top \in Frames /\ Top.holds \subseteq live \ Buried /\ FrameOK(Top)
      /\ live \subseteq Obj /\ ~Moves /\ cleared \subseteq live /\ trash \subseteq live /\ called \subseteq live
  BY <1>1, TopIs
<1>3. S \in SUBSET Obj /\ S \subseteq live \ Buried
  BY <1>2
<1> HIDE DEF S
<1>4. \A f \in RestSet(S) : f \in Frames /\ Plain(f) /\ f.holds = S /\ FrameOK(f) /\ \A b : ~Buries(f, b)
  BY <1>3, RestFrames
<1>5. \A b : ~Buries(Top, b)
  BY <1>1 DEF Buries
<1>6. Drop(S) \in Frames
  BY <1>3, FrameKinds
<1>7. Replaced(RestSet(S))
  BY <1>1, <1>2, <1>6, ReplacedByRest
<1>8. StackStep(RestSet(S))
  BY <1>1, <1>2, <1>3, <1>4, <1>5, <1>7 DEF StackStep, histVars
<1> QED BY <1>8, StackStepKeeps

\* handle_callback from a deallocation: one of the callbacks still to be made.
LEMMA DeallocCallsKeeps ==
  ASSUME HeapInv, ObjAssumption, NEW wc \in Weak \X Obj, DeallocCalls(wc)
  PROVE  HeapInv'
<1> DEFINE c == Top.calls \ {wc}
           f == Dealloc(Top.obj, "call", Top.holds, c)
           S == {wc[1], wc[2]}
           g == Call(S)
<1>1. /\ stack # <<>> /\ Top.op = "dealloc" /\ Top.stage = "call" /\ wc \in Top.calls
      /\ stack' = Front(stack) \o <<[Top EXCEPT !.calls = c], g>>
      /\ UNCHANGED <<heapVars, listVars, gc, cleared, trash>> /\ called' = called \cup {wc[1]}
  BY DEF DeallocCalls, In
<1>2. /\ stack \in Seq(Frames) /\ Separate(stack)
      /\ Top \in Frames /\ Top.holds \subseteq live \ Buried /\ FrameOK(Top)
      /\ live \subseteq Obj /\ ~Moves /\ cleared \subseteq live /\ trash \subseteq live /\ called \subseteq live
  BY <1>1, TopIs
<1>3. /\ Top.obj \in Obj /\ Top.calls \subseteq Weak \X Obj
      /\ Top = Dealloc(Top.obj, "call", Top.holds, Top.calls)
  BY <1>1, <1>2, FrameKinds
<1>4. [Top EXCEPT !.calls = c] = f
  BY <1>3, SMTT(30) DEF Dealloc
<1>5. Top.holds \in SUBSET Obj /\ c \in SUBSET (Weak \X Obj)
  BY <1>2, <1>3
<1>6. /\ f \in Frames /\ f.op = "dealloc" /\ f.obj = Top.obj /\ f.stage = "call"
      /\ f.holds = Top.holds /\ f.calls = c
  BY <1>3, <1>5, DeallocFrame
<1>7. DeallocOK(Top) /\ S \subseteq Top.holds
  BY <1>1, <1>2 DEF FrameOK, DeallocOK
<1>8. FrameOK(f)
  BY <1>1, <1>6, <1>7 DEF FrameOK, DeallocOK
<1>9. g \in Frames /\ Plain(g) /\ g.holds = S /\ FrameOK(g) /\ \A o : ~Buries(g, o)
  <2>1. S \in SUBSET Obj
    BY <1>2, <1>7
  <2> QED BY <2>1, PlainFrames
<1> HIDE DEF f, g, S, c
<1>10. Replaced({f, g})
  BY <1>1, <1>2, <1>4, <1>6, <1>9, ReplacedBySome DEF Fits, Same
<1>11. \A o : Buries(f, o) <=> Buries(Top, o)
  BY <1>1, <1>6 DEF Buries
<1>12. called' \subseteq live
  BY <1>1, <1>2, <1>7 DEF S
<1>13. StackStep({f, g})
  BY <1>1, <1>2, <1>6, <1>7, <1>8, <1>9, <1>10, <1>11, <1>12 DEF StackStep, histVars
<1> QED BY <1>13, StackStepKeeps

\* The callbacks of a deallocation are made.
LEMMA DeallocCalledKeeps ==
  ASSUME HeapInv, DeallocCalled
  PROVE  HeapInv'
<1> DEFINE f == Dealloc(Top.obj, "del", {}, {})
           S == Top.holds
<1>1. /\ stack # <<>> /\ Top.op = "dealloc" /\ Top.stage = "call"
      /\ stack' = Front(stack) \o <<f>> \o Rest(S)
      /\ UNCHANGED <<heapVars, listVars, gc, histVars>>
  BY DEF DeallocCalled, In
<1>2. /\ stack \in Seq(Frames) /\ Separate(stack)
      /\ Top \in Frames /\ Top.holds \subseteq live \ Buried /\ FrameOK(Top)
      /\ live \subseteq Obj /\ ~Moves /\ cleared \subseteq live /\ trash \subseteq live /\ called \subseteq live
  BY <1>1, TopIs
<1>3. Top.obj \in Obj /\ S \in SUBSET Obj
  BY <1>1, <1>2, FrameKinds
<1>4. f \in Frames /\ f.op = "dealloc" /\ f.obj = Top.obj /\ f.stage = "del" /\ f.holds = {} /\ f.calls = {}
  <2>1. "del" \in {"call", "del", "deleted"} /\ {} \in SUBSET Obj /\ {} \in SUBSET (Weak \X Obj)
    OBVIOUS
  <2> QED BY <1>3, <2>1, DeallocFrame
<1>5. FrameOK(f)
  BY <1>1, <1>2, <1>4 DEF FrameOK, DeallocOK
<1>6. Drop(S) \in Frames
  BY <1>3, FrameKinds
<1>7. \A h \in RestSet(S) : h \in Frames /\ Plain(h) /\ h.holds = S /\ FrameOK(h) /\ \A o : ~Buries(h, o)
  BY <1>3, RestFrames
<1> HIDE DEF f
<1>8. Replaced({f} \cup RestSet(S))
  BY <1>1, <1>2, <1>4, <1>6, ReplacedByRest DEF Fits, Same
<1>9. \A o : Buries(f, o) <=> Buries(Top, o)
  BY <1>1, <1>4 DEF Buries
<1>10. StackStep({f} \cup RestSet(S))
  BY <1>1, <1>2, <1>4, <1>5, <1>7, <1>8, <1>9 DEF StackStep, histVars
<1> QED BY <1>10, StackStepKeeps

\* __del__ left a new reference: the deallocation is abandoned.
LEMMA DeallocResurrectedKeeps ==
  ASSUME HeapInv, DeallocResurrected
  PROVE  HeapInv'
<1>1. /\ stack # <<>> /\ Top.op = "dealloc" /\ Top.stage = "deleted" /\ stack' = Front(stack)
      /\ UNCHANGED <<heapVars, listVars, gc, histVars>>
  BY DEF DeallocResurrected, In
<1>2. /\ stack \in Seq(Frames) /\ Separate(stack)
      /\ Top \in Frames /\ Top.holds \subseteq live \ Buried /\ FrameOK(Top)
      /\ live \subseteq Obj /\ ~Moves /\ cleared \subseteq live /\ trash \subseteq live /\ called \subseteq live
  BY <1>1, TopIs
<1>3. Replaced({})
  BY <1>1, <1>2, ReplacedBySome
<1>4. \A o : ~Buries(Top, o)
  BY <1>1 DEF Buries
<1>5. StackStep({})
  BY <1>1, <1>2, <1>3, <1>4 DEF StackStep, histVars
<1> QED BY <1>5, StackStepKeeps

\* handle_weakrefs calls the callback of the next weak reference.
LEMMA CallNextKeeps ==
  ASSUME HeapInv, ObjAssumption, CallNext
  PROVE  HeapInv'
<1> DEFINE next == Head(wrcb_to_call)
           f == Collection("called", next, Top.holds)
           S == {next} \cup refs[next]
           g == Call(S)
<1>1. /\ stack # <<>> /\ Top.op = "collect" /\ gc.phase = "weakrefs" /\ Top.stage = "next"
      /\ wrcb_to_call # <<>> /\ stack' = Front(stack) \o <<f, g>>
      /\ UNCHANGED <<heapVars, listVars, gc, cleared, trash>> /\ called' = called \cup {next}
  BY DEF CallNext, InStage, In
<1>2. /\ stack \in Seq(Frames) /\ Separate(stack)
      /\ Top \in Frames /\ Top.holds \subseteq live \ Buried /\ FrameOK(Top)
      /\ live \subseteq Obj /\ cleared \subseteq live /\ trash \subseteq live /\ called \subseteq live
  BY <1>1, TopIs
<1>3. ~Moves
  BY <1>1 DEF Moves
<1>4. next \in Obj /\ next \in Range(wrcb_to_call) /\ wrcb_to_call[1] = next
  <2>1. wrcb_to_call \in Seq(Obj)
    BY DEF HeapInv, TypeOK
  <2>2. Head(wrcb_to_call) \in Obj /\ Head(wrcb_to_call) = wrcb_to_call[1]
        /\ Range(wrcb_to_call) = {Head(wrcb_to_call)} \cup Range(Tail(wrcb_to_call))
    BY <1>1, <2>1, TailOnce
  <2> QED BY <2>2
<1>5. next \in live \ Buried
  BY <1>4 DEF HeapInv, Listed
<1>6. S \subseteq live \ Buried
  <2>1. refs[next] \subseteq live
    BY <1>4 DEF HeapInv, TypeOK
  <2>2. \A o \in Buried : o \notin refs[next]
    BY <1>5 DEF HeapInv, HeapOK, Lost, Unreferred
  <2> QED BY <1>5, <2>1, <2>2
<1>7. f \in Frames /\ f.op = "collect" /\ f.obj = next /\ f.stage = "called" /\ f.holds = Top.holds
  <2>1. "called" \in {"next", "called", "released"} /\ next \in Obj \cup {None} /\ Top.holds \in SUBSET Obj
    BY <1>2, <1>4
  <2> QED BY <2>1, CollectionFrame
<1>8. CollectOK(Top)
  BY <1>1, <1>2 DEF FrameOK
<1>9. FrameOK(f)
  <2>1. gc # NoCollection /\ Range(wrcb_to_call) \subseteq Top.holds
    BY <1>1, <1>8 DEF CollectOK
  <2> QED BY <1>1, <1>4, <1>7, <2>1 DEF FrameOK, CollectOK, HeadOf
<1>10. g \in Frames /\ Plain(g) /\ g.holds = S /\ FrameOK(g) /\ \A o : ~Buries(g, o)
  <2>1. S \in SUBSET Obj
    BY <1>2, <1>6
  <2> QED BY <2>1, PlainFrames
<1> HIDE DEF f, g, S, next
<1>11. Replaced({f, g})
  BY <1>1, <1>2, <1>7, <1>10, ReplacedBySome DEF Fits, Same
<1>12. \A o : ~Buries(f, o) /\ ~Buries(Top, o)
  BY <1>1, <1>7 DEF Buries
<1>13. StackStep({f, g})
  BY <1>1, <1>2, <1>3, <1>5, <1>6, <1>7, <1>9, <1>10, <1>11, <1>12 DEF StackStep, histVars
<1> QED BY <1>13, StackStepKeeps

\* The collector drops its reference to the object it treats.
LEMMA CollectDecrefKeeps ==
  ASSUME HeapInv, CollectDecref
  PROVE  HeapInv'
<1> DEFINE S == Top.holds \ {Top.obj}
           f == Collection("released", Top.obj, S)
<1>1. /\ stack # <<>> /\ Top.op = "collect" /\ Top.stage = "called" /\ stack' = Append(Front(stack), f)
      /\ UNCHANGED <<heapVars, listVars, gc, histVars>>
  BY DEF CollectDecref, In, Replace
<1>2. /\ stack \in Seq(Frames) /\ Separate(stack)
      /\ Top \in Frames /\ Top.holds \subseteq live \ Buried /\ FrameOK(Top)
      /\ live \subseteq Obj /\ cleared \subseteq live /\ trash \subseteq live /\ called \subseteq live
  BY <1>1, TopIs
<1>3. CollectOK(Top)
  BY <1>1, <1>2 DEF FrameOK
<1>4. ~Moves
  <2>1. Collection("next", None, {}).stage # "called"
    BY DEF Collection
  <2> QED BY <1>1, <1>3, <2>1 DEF CollectOK, Moves
<1>5. Top.obj \in Obj \cup {None} /\ S \in SUBSET Obj
  BY <1>1, <1>2, FrameKinds
<1>6. f \in Frames /\ f.op = "collect" /\ f.obj = Top.obj /\ f.stage = "released" /\ f.holds = S
  <2>1. "released" \in {"next", "called", "released"}
    OBVIOUS
  <2> QED BY <1>5, <2>1, CollectionFrame
<1>7. FrameOK(f)
  BY <1>1, <1>3, <1>4, <1>6 DEF FrameOK, CollectOK, Moves
<1>8. S \subseteq live \ Buried
  BY <1>2
<1> HIDE DEF f, S
<1>9. Replaced({f})
  BY <1>1, <1>2, <1>6, ReplacedBySome DEF Fits, Same
<1>10. \A o : ~Buries(f, o) /\ ~Buries(Top, o)
  BY <1>1, <1>6 DEF Buries
<1>11. StackStep({f})
  BY <1>1, <1>2, <1>4, <1>6, <1>7, <1>8, <1>9, <1>10 DEF StackStep, histVars
<1> QED BY <1>11, StackStepKeeps
-----------------------------------------------------------------------------
(* The lists of the generations.                                            *)

\* A list of objects in no generation is appended to one.
LEMMA TidyGrow ==
  ASSUME NEW G, Tidy(G), NEW g \in Generation, NEW t \in Seq(Obj), IsInjective(t),
         Range(t) \cap Members(G) = {},
         NEW H, H = [G EXCEPT ![g] = G[g] \o t]
  PROVE  Tidy(H) /\ Members(H) = Members(G) \cup Range(t)
<1> DEFINE r == G[g] \o t
<1>1. G \in [Generation -> Seq(Obj)] /\ \A h \in Generation : IsInjective(G[h]) /\ G[h] \in Seq(Obj)
  BY DEF Tidy
<1>2. \A h \in Generation : Range(G[h]) \subseteq Members(G)
  BY DEF Members
<1>3. r \in Seq(Obj) /\ Range(r) = Range(G[g]) \cup Range(t) /\ IsInjective(r)
  <2>1. Range(G[g]) \cap Range(t) = {}
    BY <1>2
  <2>2. G[g] \in Seq(Obj) /\ IsInjective(G[g])
    BY <1>1
  <2> QED BY <2>1, <2>2, JoinedOnce
<1> HIDE DEF r
<1>4. H = [G EXCEPT ![g] = r]
  BY DEF r
<1>5. /\ H \in [Generation -> Seq(Obj)] /\ H[g] = r
      /\ \A h \in Generation : h # g => H[h] = G[h]
  BY <1>1, <1>3, <1>4
<1>6. ASSUME NEW h \in Generation, NEW k \in Generation, h # k PROVE Range(H[h]) \cap Range(H[k]) = {}
  <2>1. Range(G[h]) \cap Range(G[k]) = {}
    BY <1>6 DEF Tidy
  <2> QED BY <1>2, <1>3, <1>5, <1>6, <2>1
<1>7. \A h \in Generation : IsInjective(H[h])
  BY <1>1, <1>3, <1>5
<1>8. Members(H) = Members(G) \cup Range(t)
  <2>0. /\ Range(H[g]) = Range(G[g]) \cup Range(t)
        /\ \A h \in Generation : h # g => Range(H[h]) = Range(G[h])
    BY <1>3, <1>5
  <2>1. ASSUME NEW x, x \in Members(H) PROVE x \in Members(G) \cup Range(t)
    <3>1. PICK h \in Generation : x \in Range(H[h])
      BY <2>1 DEF Members
    <3>2. x \in Range(G[h]) \/ x \in Range(t)
      BY <2>0, <3>1
    <3> QED BY <3>2 DEF Members
  <2>2. \A x : x \in Members(G) => x \in Members(H)
    BY <2>0 DEF Members
  <2>3. \A x : x \in Range(t) => x \in Members(H)
    BY <1>3, <1>5 DEF Members
  <2> QED BY <2>1, <2>2, <2>3
<1> QED BY <1>5, <1>6, <1>7, <1>8 DEF Tidy

\* gc_list_append to a generation of an object that is in none.
LEMMA TidyAppend ==
  ASSUME NEW G, Tidy(G), NEW g \in Generation, NEW o \in Obj, o \notin Members(G),
         NEW H, H = [G EXCEPT ![g] = Append(G[g], o)]
  PROVE  Tidy(H) /\ Members(H) = Members(G) \cup {o}
<1>1. G[g] \in Seq(Obj)
  BY DEF Tidy
<1>2. <<o>> \in Seq(Obj) /\ Append(G[g], o) = G[g] \o <<o>>
  BY <1>1, AppendIsConcat
<1>3. DOMAIN <<o>> = {1} /\ <<o>>[1] = o
  OBVIOUS
<1>4. Range(<<o>>) = {o} /\ IsInjective(<<o>>)
  BY <1>3 DEF Range, IsInjective
<1> DEFINE t == <<o>>
<1>5. t \in Seq(Obj) /\ IsInjective(t) /\ Range(t) = {o} /\ H = [G EXCEPT ![g] = G[g] \o t]
  BY <1>2, <1>4
<1> HIDE DEF t
<1>6. Range(t) \cap Members(G) = {}
  BY <1>5
<1>7. Tidy(H) /\ Members(H) = Members(G) \cup Range(t)
  BY <1>5, <1>6, TidyGrow
<1> QED BY <1>5, <1>7

\* Only the objects in K stay in the generations.
LEMMA TidyOnly ==
  ASSUME NEW G, Tidy(G), NEW K, NEW H, H = [g \in Generation |-> Only(G[g], K)]
  PROVE  Tidy(H) /\ Members(H) = Members(G) \cap K
<1>1. \A g \in Generation : G[g] \in Seq(Obj) /\ IsInjective(G[g])
  BY DEF Tidy
<1>2. ASSUME NEW g \in Generation
      PROVE  H[g] \in Seq(Obj) /\ IsInjective(H[g]) /\ Range(H[g]) = Range(G[g]) \cap K
  <2>1. G[g] \in Seq(Obj) /\ IsInjective(G[g]) /\ H[g] = Only(G[g], K)
    BY <1>1
  <2>2. /\ Only(G[g], K) \in Seq(Obj) /\ Range(Only(G[g], K)) = Range(G[g]) \cap K
        /\ IsInjective(G[g]) => IsInjective(Only(G[g], K))
    <3>1. \A s \in Seq(Obj) :
            /\ Only(s, K) \in Seq(Obj) /\ Range(Only(s, K)) = Range(s) \cap K
            /\ IsInjective(s) => IsInjective(Only(s, K))
      BY OnlyElements
    <3> QED BY <2>1, <3>1, Zenon
  <2> QED BY <2>1, <2>2
<1>3. H \in [Generation -> Seq(Obj)]
  BY <1>2
<1>4. ASSUME NEW h \in Generation, NEW k \in Generation, h # k PROVE Range(H[h]) \cap Range(H[k]) = {}
  <2>1. Range(G[h]) \cap Range(G[k]) = {}
    BY <1>4 DEF Tidy
  <2> QED BY <1>2, <2>1
<1>5. Members(H) = Members(G) \cap K
  BY <1>2 DEF Members
<1> QED BY <1>2, <1>3, <1>4, <1>5 DEF Tidy

\* H is G without the element o of G[g].
GivesUp(G, H, g, o) ==
  /\ Tidy(H) /\ Members(H) = Members(G) \ {o} /\ o \in Members(G)
  /\ Range(H[g]) = Range(G[g]) \ {o}

\* One object leaves its generation.
LEMMA TidyRemove ==
  ASSUME NEW G, Tidy(G), NEW g \in Generation, NEW i \in 1 .. Len(G[g]),
         NEW H, H = [G EXCEPT ![g] = RemoveAt(G[g], i)]
  PROVE  GivesUp(G, H, g, G[g][i])
<1>1. G \in [Generation -> Seq(Obj)] /\ \A h \in Generation : IsInjective(G[h]) /\ G[h] \in Seq(Obj)
  BY DEF Tidy
<1> DEFINE r == RemoveAt(G[g], i)
           o == G[g][i]
<1>2. r \in Seq(Obj) /\ IsInjective(r) /\ Range(r) = Range(G[g]) \ {o}
  BY <1>1, RemovedOnce
<1>3. o \in Range(G[g])
  <2>1. i \in DOMAIN G[g]
    BY <1>1
  <2> QED BY <2>1, RangeIs
<1>4. H = [G EXCEPT ![g] = r]
  OBVIOUS
<1> HIDE DEF r, o
<1>5. /\ H \in [Generation -> Seq(Obj)] /\ H[g] = r
      /\ \A h \in Generation : h # g => H[h] = G[h]
  BY <1>1, <1>2, <1>4
<1>6. \A h \in Generation : h # g => o \notin Range(G[h])
  BY <1>3 DEF Tidy
<1>7. ASSUME NEW h \in Generation, NEW k \in Generation, h # k PROVE Range(H[h]) \cap Range(H[k]) = {}
  <2>1. Range(G[h]) \cap Range(G[k]) = {}
    BY <1>7 DEF Tidy
  <2> QED BY <1>2, <1>5, <1>7, <2>1
<1>8. \A h \in Generation : IsInjective(H[h])
  BY <1>1, <1>2, <1>5
<1>9. Members(H) = Members(G) \ {o} /\ o \in Members(G)
  <2>1. \A h \in Generation : Range(H[h]) = Range(G[h]) \ {o}
    BY <1>2, <1>5, <1>6
  <2>2. \A x : x \in Members(H) <=> x \in Members(G) /\ x # o
    BY <2>1 DEF Members
  <2> QED BY <1>3, <2>2 DEF Members
<1> QED BY <1>2, <1>5, <1>7, <1>8, <1>9 DEF Tidy, o, GivesUp

\* The list of generation i is appended to that of j.
LEMMA TidyMoved ==
  ASSUME NEW G, Tidy(G), NEW i \in Generation, NEW j \in Generation, i # j,
         NEW H, H = [G EXCEPT ![i] = <<>>, ![j] = @ \o G[i]]
  PROVE  Tidy(H) /\ Members(H) = Members(G)
<1>1. G \in [Generation -> Seq(Obj)] /\ \A h \in Generation : IsInjective(G[h]) /\ G[h] \in Seq(Obj)
  BY DEF Tidy
<1> DEFINE r == G[j] \o G[i]
           e == <<>>
<1>2. r \in Seq(Obj) /\ IsInjective(r) /\ Range(r) = Range(G[j]) \cup Range(G[i])
  <2>1. Range(G[j]) \cap Range(G[i]) = {}
    BY DEF Tidy
  <2>2. G[j] \in Seq(Obj) /\ IsInjective(G[j]) /\ G[i] \in Seq(Obj) /\ IsInjective(G[i])
    BY <1>1
  <2> QED BY <2>1, <2>2, JoinedOnce
<1>3. e \in Seq(Obj) /\ IsInjective(e) /\ Range(e) = {}
  <2>1. <<>> \in Seq(Obj) /\ DOMAIN <<>> = {}
    OBVIOUS
  <2> QED BY <2>1 DEF Range, IsInjective
<1>4. H = [G EXCEPT ![i] = e, ![j] = r]
  BY <1>1
<1> HIDE DEF r, e
<1>5. /\ H \in [Generation -> Seq(Obj)] /\ H[i] = e /\ H[j] = r
      /\ \A h \in Generation : h # i /\ h # j => H[h] = G[h]
  BY <1>1, <1>2, <1>3, <1>4
<1>6. ASSUME NEW h \in Generation, NEW k \in Generation, h # k PROVE Range(H[h]) \cap Range(H[k]) = {}
  <2>1. /\ Range(G[h]) \cap Range(G[k]) = {}
        /\ \A m \in Generation : m # i => Range(G[m]) \cap Range(G[i]) = {}
        /\ \A m \in Generation : m # j => Range(G[m]) \cap Range(G[j]) = {}
    BY <1>6 DEF Tidy
  <2> QED BY <1>2, <1>3, <1>5, <1>6, <2>1
<1>7. \A h \in Generation : IsInjective(H[h])
  BY <1>1, <1>2, <1>3, <1>5
<1>8. Members(H) = Members(G)
  <2>1. ASSUME NEW x, x \in Members(H) PROVE x \in Members(G)
    <3>1. PICK h \in Generation : x \in Range(H[h])
      BY <2>1 DEF Members
    <3>2. x \in Range(G[h]) \/ x \in Range(G[i]) \/ x \in Range(G[j])
      BY <1>2, <1>3, <1>5, <3>1
    <3> QED BY <3>2 DEF Members
  <2>2. ASSUME NEW x, x \in Members(G) PROVE x \in Members(H)
    <3>1. PICK h \in Generation : x \in Range(G[h])
      BY <2>2 DEF Members
    <3>2. x \in Range(H[h]) \/ x \in Range(H[j])
      BY <1>2, <1>5, <3>1
    <3> QED BY <3>2 DEF Members
  <2> QED BY <2>1, <2>2
<1> QED BY <1>5, <1>6, <1>7, <1>8 DEF Tidy

\* A collection takes generations 0 to g and leaves them empty.
LEMMA TidyCollected ==
  ASSUME Tidy(generations), NUM_GENERATIONS \in Nat, NEW g \in Generation,
         NEW H, H = [i \in Generation |-> IF i < g THEN <<>> ELSE IF i = g THEN Merged(g) ELSE generations[i]]
  PROVE  Tidy(H) /\ Members(H) = Members(generations)
<1>1. /\ generations \in [Generation -> Seq(Obj)]
      /\ \A h \in Generation : IsInjective(generations[h]) /\ generations[h] \in Seq(Obj)
  BY DEF Tidy
<1>2. Apart(Generation)
  BY DEF Tidy, Apart
<1> DEFINE r == Merged(g)
           e == <<>>
<1>3. r \in Seq(Obj) /\ IsInjective(r) /\ Range(r) = UNION {Range(generations[i]) : i \in 0 .. g}
  BY <1>1, <1>2, MergedIs
<1>4. e \in Seq(Obj) /\ IsInjective(e) /\ Range(e) = {}
  <2>1. <<>> \in Seq(Obj) /\ DOMAIN <<>> = {}
    OBVIOUS
  <2> QED BY <2>1 DEF Range, IsInjective
<1>5. H = [i \in Generation |-> IF i < g THEN e ELSE IF i = g THEN r ELSE generations[i]]
  OBVIOUS
<1> HIDE DEF r, e
<1>6. /\ g \in Nat /\ \A i \in Generation : i \in Nat
      /\ \A i \in Generation : i \in 0 .. g <=> (i < g \/ i = g)
      /\ \A i \in 0 .. g : i \in Generation
  BY DEF Generation
<1>7. /\ \A i \in Generation : i < g => H[i] = e
      /\ H[g] = r
      /\ \A i \in Generation : ~(i < g) /\ i # g => H[i] = generations[i]
  BY <1>5, <1>6
<1>8. H \in [Generation -> Seq(Obj)] /\ \A h \in Generation : IsInjective(H[h])
  BY <1>1, <1>3, <1>4, <1>5, <1>7
<1>9. \A h \in Generation : h \notin 0 .. g => Range(generations[h]) \cap Range(r) = {}
  BY <1>3, <1>6 DEF Tidy
<1>10. ASSUME NEW h \in Generation, NEW k \in Generation, h # k PROVE Range(H[h]) \cap Range(H[k]) = {}
  <2>1. Range(generations[h]) \cap Range(generations[k]) = {}
    BY <1>10 DEF Tidy
  <2>2. \A i \in Generation : H[i] = e \/ (i = g /\ H[i] = r) \/ (i \notin 0 .. g /\ i # g /\ H[i] = generations[i])
    BY <1>6, <1>7
  <2> QED BY <1>4, <1>9, <1>10, <2>1, <2>2
<1>11. Members(H) = Members(generations)
  <2>1. ASSUME NEW x, x \in Members(H) PROVE x \in Members(generations)
    <3>1. PICK h \in Generation : x \in Range(H[h])
      BY <2>1 DEF Members
    <3>2. x \in Range(generations[h]) \/ x \in Range(r)
      BY <1>4, <1>7, <3>1
    <3>3. x \in Range(r) => x \in Members(generations)
      BY <1>3, <1>6 DEF Members
    <3> QED BY <3>2, <3>3 DEF Members
  <2>2. ASSUME NEW x, x \in Members(generations) PROVE x \in Members(H)
    <3>1. PICK h \in Generation : x \in Range(generations[h])
      BY <2>2 DEF Members
    <3>2. CASE h \in 0 .. g
      <4>1. x \in Range(r)
        BY <1>3, <3>1, <3>2
      <4> QED BY <1>7, <4>1 DEF Members
    <3>3. CASE h \notin 0 .. g
      <4>1. H[h] = generations[h]
        BY <1>6, <1>7, <3>3
      <4> QED BY <3>1, <4>1 DEF Members
    <3> QED BY <3>2, <3>3
  <2> QED BY <2>1, <2>2
<1> QED BY <1>8, <1>10, <1>11 DEF Tidy
-----------------------------------------------------------------------------
(* Steps of the program.                                                    *)

\* What a step on the references alone has to leave in order.
HeapStep ==
  /\ ~Moves /\ UNCHANGED <<live, wr_object, listVars, gc, stack, histVars>>
  /\ refs' \in [Obj -> SUBSET live] /\ \A p \in live : refs'[p] \cap Buried = {}
  /\ \A p \in Obj \ live : refs'[p] = {}
  /\ held' \subseteq live \ Buried /\ garbage' \subseteq live \ Buried

\* Such a step keeps HeapInv.
LEMMA HeapStepKeeps ==
  ASSUME HeapInv, HeapStep
  PROVE  HeapInv'
<1> USE DEF listVars, histVars, HeapStep
<1>1. /\ TypeOK /\ HeapOK /\ WeakOK /\ Separate(stack) /\ FramesOK /\ MoveOK
      /\ ListsApart /\ Listed = live \ Buried
  BY DEF HeapInv
<1>2. TypeOK'
  BY <1>1 DEF TypeOK
<1>3. Buried' = Buried
  BY DEF Buried
<1>4. HeapOK'
  <2>1. ASSUME NEW o \in Buried PROVE Lost(o)'
    BY <1>1, <2>1 DEF HeapOK, Lost, Unreferred
  <2> QED BY <1>1, <1>3, <2>1 DEF HeapOK
<1>5. WeakOK' /\ Separate(stack)'
  BY <1>1 DEF WeakOK, Separate
<1>6. FramesOK'
  BY <1>1 DEF FramesOK, FrameOK, DeallocOK, CollectOK, HeadOf
<1>7. MoveOK'
  BY <1>1 DEF MoveOK, Moves
<1>8. ListsApart'
  BY <1>1 DEF ListsApart, Tidy, Gens, Members
<1>9. Listed' = live' \ Buried'
  BY <1>1, <1>3 DEF Listed, Gens, Members
<1> QED BY <1>2, <1>4, <1>5, <1>6, <1>7, <1>8, <1>9 DEF HeapInv

\* What a step that allocates n has to leave in order.
BirthStep(n) ==
  /\ n \in Obj \ live /\ ~Moves /\ live' = live \cup {n} /\ held' = held \cup {n} /\ Track(n)
  /\ UNCHANGED <<garbage, unreachable, finalizers, wrcb_to_call, gc, stack, histVars>>
  /\ refs' \in [Obj -> SUBSET live'] /\ \A p \in live' : refs'[p] \cap Buried = {}
  /\ \A p \in Obj \ live' : refs'[p] = {}
  /\ wr_object' \in [Obj -> Obj \cup {None}] /\ \A p \in Obj : wr_object'[p] \notin Buried
  /\ \A p \in Obj \ {n} : wr_object'[p] = wr_object[p]
  /\ WeakOK'

\* Such a step keeps HeapInv.
LEMMA BirthStepKeeps ==
  ASSUME HeapInv, ObjAssumption, NEW n, BirthStep(n)
  PROVE  HeapInv'
<1> USE DEF histVars, BirthStep
<1>1. /\ TypeOK /\ HeapOK /\ WeakOK /\ Separate(stack) /\ FramesOK /\ MoveOK
      /\ ListsApart /\ Listed = live \ Buried
  BY DEF HeapInv
<1>2. Tidy(generations') /\ Members(generations') = Gens \cup {n}
  <2>1. Tidy(generations) /\ n \notin Members(generations)
    BY <1>1 DEF ListsApart, Listed, Gens
  <2>2. 0 \in Generation /\ generations' = [generations EXCEPT ![0] = Append(generations[0], n)]
    BY DEF Track, Generation, ObjAssumption
  <2>3. Tidy(generations') /\ Members(generations') = Members(generations) \cup {n}
    BY <2>1, <2>2, TidyAppend
  <2> QED BY <2>3 DEF Gens
<1>3. TypeOK'
  <2>1. generations' \in [Generation -> Seq(Obj)]
    BY <1>2 DEF Tidy
  <2>2. \A i \in DOMAIN stack' : stack'[i].holds \subseteq live'
    BY <1>1 DEF TypeOK
  <2> QED BY <1>1, <2>1, <2>2 DEF TypeOK
<1>4. Buried' = Buried /\ n \notin Buried
  <2>1. n \notin Buried
    BY DEF Buried
  <2>2. \A f \in Range(stack) : ~Buries(f, n)
    BY <1>1 DEF FramesOK, FrameOK, DeallocOK, Buries
  <2> QED BY <2>1, <2>2 DEF Buried
<1>5. HeapOK'
  <2>1. ASSUME NEW o \in Buried PROVE Lost(o)'
    <3>1. o \in live /\ o # n
      BY <2>1 DEF Buried
    <3> QED BY <1>1, <2>1, <3>1 DEF HeapOK, Lost, Unreferred
  <2>2. IsFiniteSet(live \cup {n})
    BY <1>1, FS_AddElement DEF HeapOK
  <2> QED BY <1>1, <1>4, <2>1, <2>2 DEF HeapOK
<1>6. Separate(stack)'
  BY <1>1 DEF Separate
<1>7. FramesOK'
  <2>1. ASSUME NEW f \in Range(stack) PROVE FrameOK(f)'
    <3>1. FrameOK(f)
      BY <1>1, <2>1 DEF FramesOK
    <3>2. ASSUME f.op = "dealloc" PROVE DeallocOK(f)'
      <4>1. DeallocOK(f) /\ f.obj \in live /\ f.obj \in Obj /\ f.obj # n
        BY <1>1, <3>1, <3>2 DEF FrameOK, DeallocOK, TypeOK
      <4> QED BY <4>1 DEF DeallocOK
    <3>3. ASSUME f.op = "collect" PROVE CollectOK(f)'
      BY <3>1, <3>3 DEF FrameOK, CollectOK, HeadOf
    <3> QED BY <3>2, <3>3 DEF FrameOK
  <2> QED BY <2>1 DEF FramesOK
<1>8. MoveOK'
  BY <1>1 DEF MoveOK, Moves
<1>9. ListsApart' /\ Gens' = Gens \cup {n}
  <2>1. n \notin Listed
    BY <1>1
  <2>2. Tidy(generations)' /\ Gens' = Gens \cup {n}
    BY <1>2 DEF Tidy, Members, Gens
  <2> QED BY <1>1, <2>1, <2>2 DEF ListsApart, Listed
<1>10. Listed' = live' \ Buried'
  BY <1>1, <1>4, <1>9 DEF Listed
<1> QED BY <1>3, <1>5, <1>6, <1>7, <1>8, <1>9, <1>10 DEF HeapInv

\* The program runs in no step of move_unreachable, and has no object that is being deallocated.
LEMMA ProgramIs ==
  ASSUME HeapInv, PythonRuns
  PROVE  /\ ~Moves /\ Accessible \subseteq live \ Buried
         /\ \A p \in live : refs[p] \subseteq live \ Buried
         /\ held \subseteq live \ Buried /\ garbage \subseteq live \ Buried
         /\ live \subseteq Obj /\ refs \in [Obj -> SUBSET live] /\ \A p \in Obj \ live : refs[p] = {}
<1>1. TypeOK /\ HeapOK /\ MoveOK
  BY DEF HeapInv
<1>2. ~Moves
  BY <1>1 DEF MoveOK, PythonRuns
<1>3. \A o \in Buried : o \notin held /\ o \notin garbage /\ \A p \in live : o \notin refs[p]
  BY <1>1 DEF HeapOK, Lost, Unreferred
<1> QED BY <1>1, <1>2, <1>3, AccessibleIs DEF TypeOK, HeapOK

\* An object is allocated and tracked.
LEMMA NewKeeps ==
  ASSUME HeapInv, ObjAssumption, PythonRuns, NEW o \in Obj, New(o)
  PROVE  HeapInv'
<1>1. /\ o \notin live \cup Weak /\ live' = live \cup {o} /\ held' = held \cup {o} /\ Track(o)
      /\ refs' = refs /\ wr_object' = wr_object
      /\ UNCHANGED <<garbage, unreachable, finalizers, wrcb_to_call, gc, stack, histVars>>
  BY DEF New
<1>2. ~Moves /\ refs \in [Obj -> SUBSET live] /\ \A p \in Obj \ live : refs[p] = {}
  BY ProgramIs
<1>3. \A p \in live : refs[p] \subseteq live \ Buried
  BY ProgramIs
<1>4. TypeOK /\ WeakOK /\ HeapOK
  BY DEF HeapInv
<1>5. \A p \in live' : refs'[p] \cap Buried = {}
  BY <1>1, <1>2, <1>3
<1>6. \A p \in Obj : wr_object'[p] \notin Buried
  BY <1>1, <1>4 DEF HeapOK, Lost
<1>7. WeakOK'
  BY <1>1, <1>4 DEF WeakOK
<1>8. wr_object' \in [Obj -> Obj \cup {None}] /\ refs' \in [Obj -> SUBSET live']
  BY <1>1, <1>2, <1>4 DEF TypeOK
<1>9. BirthStep(o)
  BY <1>1, <1>2, <1>5, <1>6, <1>7, <1>8 DEF BirthStep
<1> QED BY <1>9, BirthStepKeeps

\* A weak reference is created.
LEMMA PyWeakref_NewRefKeeps ==
  ASSUME HeapInv, ObjAssumption, PythonRuns, NEW w \in Weak, NEW o \in Accessible, PyWeakref_NewRef(w, o)
  PROVE  HeapInv'
<1>1. /\ w \in Weak \ live /\ <<w, o>> \in MayWatch
      /\ refs' = refs \/ \E c \in Callbacks(w) \cap Accessible : refs' = [refs EXCEPT ![w] = {c}]
      /\ wr_object' = [wr_object EXCEPT ![w] = o]
      /\ live' = live \cup {w} /\ held' = held \cup {w} /\ Track(w)
      /\ UNCHANGED <<garbage, unreachable, finalizers, wrcb_to_call, gc, stack, histVars>>
  BY DEF PyWeakref_NewRef
<1>2. ~Moves /\ refs \in [Obj -> SUBSET live] /\ live \subseteq Obj
  BY ProgramIs
<1>3. \A p \in live : refs[p] \subseteq live \ Buried
  BY ProgramIs
<1>4. TypeOK /\ WeakOK /\ HeapOK
  BY DEF HeapInv
<1>5. \A p \in Obj \ live : refs[p] = {}
  BY ProgramIs
<1>6. Accessible \subseteq live \ Buried
  BY ProgramIs
<1>7. w \in Obj \ live /\ o \in live \ Buried
  BY <1>1, <1>6 DEF ObjAssumption
<1>8. /\ refs' \in [Obj -> SUBSET live'] /\ \A p \in live' : refs'[p] \cap Buried = {}
      /\ \A p \in Obj \ live' : refs'[p] = {}
  <2>1. CASE refs' = refs
    BY <1>1, <1>2, <1>3, <1>5, <1>7, <2>1
  <2>2. ASSUME NEW c \in Accessible, refs' = [refs EXCEPT ![w] = {c}]
        PROVE  /\ refs' \in [Obj -> SUBSET live'] /\ \A p \in live' : refs'[p] \cap Buried = {}
               /\ \A p \in Obj \ live' : refs'[p] = {}
    <3>1. c \in live \ Buried
      BY <1>6, <2>2
    <3>2. refs'[w] = {c} /\ \A p \in Obj \ {w} : refs'[p] = refs[p]
      BY <1>2, <1>7, <2>2
    <3> QED BY <1>1, <1>2, <1>3, <1>5, <1>7, <2>2, <3>1, <3>2
  <2> QED BY <1>1, <2>1, <2>2
<1>9. /\ wr_object' \in [Obj -> Obj \cup {None}] /\ wr_object'[w] = o
      /\ \A p \in Obj \ {w} : wr_object'[p] = wr_object[p]
  BY <1>1, <1>2, <1>4, <1>7 DEF TypeOK
<1>10. \A p \in Obj : wr_object'[p] \notin Buried
  BY <1>4, <1>7, <1>9 DEF HeapOK, Lost
<1>11. WeakOK'
  BY <1>1, <1>4, <1>7, <1>9 DEF WeakOK
<1>12. BirthStep(w)
  BY <1>1, <1>2, <1>7, <1>8, <1>9, <1>10, <1>11 DEF BirthStep
<1> QED BY <1>12, BirthStepKeeps

\* An object is stored in or erased from another.
LEMMA StoreKeeps ==
  ASSUME HeapInv, PythonRuns, NEW o \in Accessible, NEW p \in Accessible, Store(o, p) \/ Erase(o, p)
  PROVE  HeapInv'
<1>1. /\ refs' = [refs EXCEPT ![o] = refs[o] \cup {p}] \/ refs' = [refs EXCEPT ![o] = refs[o] \ {p}]
      /\ UNCHANGED <<live, wr_object, held, garbage, listVars, gc, stack, histVars>>
  BY DEF Store, Erase
<1>2. /\ ~Moves /\ Accessible \subseteq live \ Buried
      /\ \A q \in live : refs[q] \subseteq live \ Buried
      /\ held \subseteq live \ Buried /\ garbage \subseteq live \ Buried
      /\ live \subseteq Obj /\ refs \in [Obj -> SUBSET live] /\ \A q \in Obj \ live : refs[q] = {}
  BY ProgramIs
<1>3. o \in live \ Buried /\ p \in live \ Buried /\ o \in Obj
  BY <1>2
<1>4. refs'[o] \subseteq live \ Buried /\ \A q \in Obj \ {o} : refs'[q] = refs[q]
  BY <1>1, <1>2, <1>3
<1>5. refs' \in [Obj -> SUBSET live]
  BY <1>1, <1>2, <1>3
<1>6. HeapStep
  BY <1>1, <1>2, <1>3, <1>4, <1>5 DEF HeapStep
<1> QED BY <1>6, HeapStepKeeps

\* A variable of the program takes or drops a reference.
LEMMA HoldKeeps ==
  ASSUME HeapInv, PythonRuns, NEW o,
         (o \in Accessible /\ Hold(o)) \/ Release(o) \/ Discard(o)
  PROVE  HeapInv'
<1>1. /\ UNCHANGED <<live, refs, wr_object, listVars, gc, stack, histVars>>
      /\ held' \subseteq held \cup Accessible /\ garbage' \subseteq garbage
  BY DEF Hold, Release, Discard
<1>2. /\ ~Moves /\ Accessible \subseteq live \ Buried
      /\ \A q \in live : refs[q] \subseteq live \ Buried
      /\ held \subseteq live \ Buried /\ garbage \subseteq live \ Buried
      /\ live \subseteq Obj /\ refs \in [Obj -> SUBSET live] /\ \A q \in Obj \ live : refs[q] = {}
  BY ProgramIs
<1>3. HeapStep
  BY <1>1, <1>2 DEF HeapStep
<1> QED BY <1>3, HeapStepKeeps
-----------------------------------------------------------------------------
(* Steps of the collection.                                                 *)

\* The phases of a collection and the frame that runs it.
LEMMA PhaseIs ==
  ASSUME TypeOK
  PROVE  /\ gc # NoCollection => gc.phase \in {"move", "weakrefs", "delete"} /\ gc.generation \in Generation
         /\ Moves => /\ gc.scanned \in Nat /\ gc.gc_refs \in [Obj -> Int]
                     /\ gc = [phase |-> "move", generation |-> gc.generation, scanned |-> gc.scanned,
                              gc_refs |-> gc.gc_refs]
         /\ gc # NoCollection /\ ~Moves => gc = [phase |-> gc.phase, generation |-> gc.generation]
<1>1. gc # NoCollection => gc \in Collections
  BY DEF TypeOK
<1>2. ASSUME gc # NoCollection
      PROVE gc.phase \in {"move", "weakrefs", "delete"} /\ gc.generation \in Generation
  BY <1>1, <1>2 DEF Collections
<1>3. ASSUME Moves
      PROVE  /\ gc.scanned \in Nat /\ gc.gc_refs \in [Obj -> Int]
             /\ gc = [phase |-> "move", generation |-> gc.generation, scanned |-> gc.scanned,
                      gc_refs |-> gc.gc_refs]
  BY <1>1, <1>3 DEF Collections, Moves
<1>4. ASSUME gc # NoCollection, ~Moves PROVE gc = [phase |-> gc.phase, generation |-> gc.generation]
  BY <1>1, <1>4 DEF Collections, Moves
<1> QED BY <1>2, <1>3, <1>4

\* gc_refs of what is being collected is a number.
LEMMA GcRefsAreInts ==
  ASSUME HeapInv, NEW Y \in SUBSET live
  PROVE  GcRefs(Y) \in [Obj -> Int]
<1>1. IsFiniteSet(live) /\ stack \in Seq(Frames)
  BY DEF HeapInv, HeapOK, TypeOK
<1>2. IsFiniteSet(Y)
  BY <1>1, FS_Subset
<1>3. ASSUME NEW o \in Obj PROVE ob_refcnt(o) - Cardinality(Referring(Y, o)) \in Int
  <2>1. ob_refcnt(o) \in Nat
    BY <1>1, RefcntZero
  <2>2. Referring(Y, o) \subseteq Y
    BY DEF Referring
  <2>3. Cardinality(Referring(Y, o)) \in Nat
    BY <1>2, <2>2, FS_Subset, FS_CardinalityType
  <2> QED BY <2>1, <2>3
<1> DEFINE G == [o \in Obj |-> IF o \in Y THEN ob_refcnt(o) - Cardinality(Referring(Y, o)) ELSE GC_REACHABLE]
<1>4. GC_REACHABLE \in Int
  BY DEF GC_REACHABLE
<1>5. G \in [Obj -> Int]
  BY <1>3, <1>4
<1>6. GcRefs(Y) = G
  BY DEF GcRefs
<1> QED BY <1>5, <1>6

\* One frame at most is the collection's.
LEMMA OneCollects ==
  ASSUME HeapInv, stack # <<>>, Top.op = "collect"
  PROVE  \A f \in Range(stack) : f.op = "collect" => f = Top
<1> SUFFICES ASSUME NEW f \in Range(stack), f.op = "collect" PROVE f = Top
  OBVIOUS
<1>1. stack \in Seq(Frames) /\ Separate(stack)
  BY DEF HeapInv, TypeOK
<1>2. PICK i \in DOMAIN stack : stack[i] = f
  BY RangeIs
<1>3. Len(stack) \in DOMAIN stack
  BY <1>1
<1>4. i # Len(stack) => ~Same(stack[i], stack[Len(stack)])
  BY <1>1, <1>3 DEF Separate
<1> QED BY <1>2, <1>4 DEF Same, Top

\* collect: merging, update_refs and subtract_refs.
LEMMA CollectKeeps ==
  ASSUME HeapInv, ObjAssumption, PythonRuns, NEW g \in Generation, Collect(g)
  PROVE  HeapInv'
<1> DEFINE f == Collection("next", None, {})
           n == Len(stack)
<1>1. /\ TypeOK /\ HeapOK /\ WeakOK /\ Separate(stack) /\ FramesOK /\ MoveOK
      /\ ListsApart /\ Listed = live \ Buried /\ Doomed = {} /\ NUM_GENERATIONS \in Nat
  BY DEF HeapInv, PythonRuns, ObjAssumption
<1>2. /\ gc = NoCollection /\ stack' = Append(stack, f)
      /\ UNCHANGED <<live, refs, wr_object, held, garbage, unreachable, finalizers, wrcb_to_call,
                     cleared, trash, called>>
      /\ gc' = [phase |-> "move", generation |-> g, scanned |-> 0,
                gc_refs |-> GcRefs(Range(Merged(g)))]
      /\ generations' = [i \in Generation |->
           IF i < g THEN <<>> ELSE IF i = g THEN Merged(g) ELSE generations[i]]
  BY DEF Collect, heapVars, histVars
<1>3. Tidy(generations') /\ Members(generations') = Gens
  <2>1. Tidy(generations)
    BY <1>1 DEF ListsApart
  <2>2. Tidy(generations') /\ Members(generations') = Members(generations)
    BY <1>1, <1>2, <2>1, TidyCollected
  <2> QED BY <2>2 DEF Gens
<1>4. generations' \in [Generation -> Seq(Obj)] /\ generations'[g] = Merged(g)
  <2>1. ~(g < g)
    BY DEF Generation
  <2> QED BY <1>2, <1>3, <2>1 DEF Tidy
<1>5. gc' # NoCollection /\ gc'.phase = "move" /\ gc'.generation = g /\ gc'.scanned = 0 /\ gc' \in Collections
  <2>1. Range(Merged(g)) \subseteq live
    <3>1. Range(generations'[g]) \subseteq Members(generations')
      BY DEF Members
    <3> QED BY <1>1, <1>3, <1>4, <3>1 DEF Listed
  <2>2. GcRefs(Range(Merged(g))) \in [Obj -> Int]
    BY <2>1, GcRefsAreInts
  <2> HIDE DEF f
  <2> QED BY <1>2, <2>2 DEF Collections, NoCollection
<1>6. f \in Frames /\ f.op = "collect" /\ f.obj = None /\ f.stage = "next" /\ f.holds = {}
  <2>1. "next" \in {"next", "called", "released"} /\ None \in Obj \cup {None} /\ {} \in SUBSET Obj
    OBVIOUS
  <2> QED BY <2>1, CollectionFrame
<1>7. \A h \in Range(stack) : h.op # "collect"
  BY <1>1, <1>2 DEF FramesOK, FrameOK, CollectOK
<1>8. f = Collection("next", None, {})
  OBVIOUS
<1> HIDE DEF f
<1>9. /\ stack' \in Seq(Frames) /\ Separate(stack') /\ Range(stack') = Range(stack) \cup {f}
      /\ stack' # <<>> /\ Top' = f
  <2>1. \A h \in Range(stack) : ~Same(f, h) /\ ~Same(h, f)
    BY <1>6, <1>7 DEF Same
  <2>2. stack \in Seq(Frames)
    BY <1>1 DEF TypeOK
  <2> QED BY <1>1, <1>2, <1>6, <2>1, <2>2, PushedOn
<1>10. Buried' = Buried
  BY <1>2, <1>6, <1>9 DEF Buried, Buries
<1>11. \A h \in Range(stack') : h.holds \subseteq live
  BY <1>1, <1>6, <1>9, StackIs
<1>12. TypeOK'
  <2>1. \A i \in DOMAIN stack' : stack'[i].holds \subseteq live
    BY <1>11, RangeIs
  <2> QED BY <1>1, <1>2, <1>4, <1>5, <1>9, <2>1 DEF TypeOK
<1>13. HeapOK'
  <2>1. ASSUME NEW o \in Buried PROVE Lost(o)'
    <3>1. \A h \in Range(stack') : o \notin h.holds
      BY <1>1, <1>6, <1>9, <2>1 DEF HeapOK, Lost, Unreferred
    <3> QED BY <1>1, <1>2, <2>1, <3>1 DEF HeapOK, Lost, Unreferred
  <2> QED BY <1>1, <1>2, <1>10, <2>1 DEF HeapOK
<1>14. WeakOK'
  BY <1>1, <1>2 DEF WeakOK
<1>15. FramesOK'
  <2>1. ASSUME NEW h \in Range(stack) PROVE FrameOK(h)'
    BY <1>1, <1>2, <1>7, <2>1 DEF FramesOK, FrameOK, DeallocOK
  <2>2. FrameOK(f)'
    BY <1>5, <1>6, <1>8 DEF FrameOK, CollectOK
  <2> QED BY <1>9, <2>1, <2>2 DEF FramesOK
<1>16. Doomed' = {}
  <2>1. /\ n \in Nat /\ DOMAIN stack = 1 .. n /\ DOMAIN stack' = 1 .. (n + 1) /\ stack'[n + 1] = f
        /\ \A i \in 1 .. n : stack'[i] = stack[i]
    <3>1. stack \in Seq(Frames)
      BY <1>1 DEF TypeOK
    <3> QED BY <1>2, <1>6, <3>1, AppendProperties
  <2> HIDE DEF n
  <2>2. \A i \in 1 .. (n + 1) : i \in 1 .. n \/ i = n + 1
    BY <2>1
  <2>3. \A i \in 1 .. n : i \in 1 .. (n + 1)
    BY <2>1
  <2>4. ASSUME NEW o PROVE {i \in DOMAIN stack' : o \in stack'[i].holds} = {i \in DOMAIN stack : o \in stack[i].holds}
    BY <1>6, <2>1, <2>2, <2>3
  <2>5. ASSUME NEW o PROVE InDealloc(o)' <=> InDealloc(o)
    BY <1>6, <2>1, <2>2, <2>3 DEF InDealloc
  <2>6. ASSUME NEW o PROVE ob_refcnt(o)' = ob_refcnt(o)
    BY <1>2, <2>4, Zenon DEF ob_refcnt, Referring
  <2>7. Doomed' = Doomed
    BY <1>2, <2>5, <2>6 DEF Doomed
  <2> QED BY <1>1, <2>7
<1>17. MoveOK'
  <2>1. Len(young') \in Nat
    BY <1>4, <1>5 DEF young
  <2>2. gc'.scanned <= Len(young')
    BY <1>5, <2>1
  <2> QED BY <1>1, <1>2, <1>5, <1>6, <1>9, <1>16, <2>2 DEF MoveOK
<1>18. ListsApart' /\ Gens' = Gens
  <2>1. Tidy(generations)' /\ Gens' = Gens
    BY <1>3 DEF Tidy, Members, Gens
  <2> QED BY <1>1, <1>2, <2>1 DEF ListsApart
<1>19. Listed' = live' \ Buried'
  BY <1>1, <1>2, <1>10, <1>18 DEF Listed
<1> QED BY <1>9, <1>12, <1>13, <1>14, <1>15, <1>17, <1>18, <1>19 DEF HeapInv

\* handle_weakrefs returns.
LEMMA CallsEndKeeps ==
  ASSUME HeapInv, ObjAssumption, CallsEnd
  PROVE  HeapInv'
<1>1. /\ TypeOK /\ HeapOK /\ WeakOK /\ Separate(stack) /\ FramesOK /\ MoveOK
      /\ ListsApart /\ Listed = live \ Buried
  BY DEF HeapInv
<1>2. /\ stack # <<>> /\ Top.op = "collect" /\ gc.phase = "weakrefs" /\ Top.stage = "next"
      /\ wrcb_to_call = <<>> /\ gc' = [gc EXCEPT !.phase = "delete"]
      /\ UNCHANGED <<live, refs, wr_object, held, garbage, generations, unreachable, finalizers,
                     wrcb_to_call, stack, cleared, trash, called>>
  BY DEF CallsEnd, InStage, In, heapVars, listVars, histVars
<1>3. Top \in Range(stack) /\ CollectOK(Top)
  BY <1>1, <1>2, StackIs DEF FramesOK, FrameOK
<1>4. gc # NoCollection /\ ~Moves /\ gc.generation \in Generation
  BY <1>1, <1>2, <1>3, PhaseIs DEF CollectOK, Moves
<1>5. gc' = [phase |-> "delete", generation |-> gc.generation]
  BY <1>1, <1>2, <1>4, PhaseIs
<1>6. gc' # NoCollection /\ gc'.phase = "delete" /\ gc' \in Collections
  BY <1>4, <1>5 DEF Collections, NoCollection
<1>7. TypeOK'
  BY <1>1, <1>2, <1>6 DEF TypeOK
<1>8. Buried' = Buried
  BY <1>2 DEF Buried
<1>9. HeapOK'
  BY <1>1, <1>2, <1>8 DEF HeapOK, Lost, Unreferred
<1>10. WeakOK' /\ Separate(stack')
  BY <1>1, <1>2 DEF WeakOK
<1>11. FramesOK'
  <2>1. ASSUME NEW f \in Range(stack), f.op = "collect" PROVE CollectOK(f)'
    <3>1. f = Top /\ f.obj = None
      BY <1>2, <1>3, <2>1, OneCollects DEF CollectOK
    <3>2. None \notin Range(unreachable)
      <4>1. None \notin live
        BY <1>1 DEF TypeOK, ObjAssumption
      <4> QED BY <1>1, <4>1 DEF Listed
    <3> QED BY <1>2, <1>6, <3>1, <3>2 DEF CollectOK, HeadOf
  <2>2. ASSUME NEW f \in Range(stack), f.op = "dealloc" PROVE DeallocOK(f)'
    BY <1>1, <1>2, <2>2 DEF FramesOK, FrameOK, DeallocOK
  <2> QED BY <1>2, <2>1, <2>2 DEF FramesOK, FrameOK
<1>12. MoveOK'
  BY <1>1, <1>2, <1>4, <1>6 DEF MoveOK, Moves
<1>13. ListsApart' /\ Listed' = Listed
  BY <1>1, <1>2 DEF ListsApart, Tidy, Gens, Members, Listed
<1> QED BY <1>1, <1>2, <1>7, <1>8, <1>9, <1>10, <1>11, <1>12, <1>13 DEF HeapInv

\* What a step of move_unreachable has to leave in order.
MoveStep ==
  /\ Moves /\ UNCHANGED <<heapVars, finalizers, wrcb_to_call, stack, histVars>>
  /\ gc' \in Collections /\ gc'.phase = "move" /\ gc'.generation = gc.generation
  /\ gc'.scanned <= Len(young')
  /\ Tidy(generations') /\ unreachable' \in Seq(Obj) /\ IsInjective(unreachable')
  /\ Members(generations') \cap Range(unreachable') = {}
  /\ Members(generations') \cup Range(unreachable') = Gens \cup Range(unreachable)

\* Such a step keeps HeapInv.
LEMMA MoveStepKeeps ==
  ASSUME HeapInv, MoveStep
  PROVE  HeapInv'
<1> USE DEF heapVars, histVars, MoveStep
<1>1. /\ TypeOK /\ HeapOK /\ WeakOK /\ Separate(stack) /\ FramesOK /\ MoveOK
      /\ ListsApart /\ Listed = live \ Buried
  BY DEF HeapInv
<1>2. gc' # NoCollection /\ Moves'
  BY DEF NoCollection, Collections, Moves
<1>3. gc # NoCollection /\ gc.phase = "move" /\ finalizers = <<>> /\ wrcb_to_call = <<>>
  BY <1>1 DEF Moves, MoveOK
<1>4. TypeOK'
  BY <1>1 DEF TypeOK, Tidy
<1>5. Buried' = Buried
  BY DEF Buried
<1>6. HeapOK'
  BY <1>1, <1>5 DEF HeapOK, Lost, Unreferred
<1>7. WeakOK' /\ Separate(stack')
  BY <1>1 DEF WeakOK
<1>8. FramesOK'
  BY <1>1, <1>2, <1>3 DEF FramesOK, FrameOK, DeallocOK, CollectOK
<1>9. Doomed' = Doomed
  BY DEF Doomed, ob_refcnt, Referring, InDealloc
<1>10. MoveOK'
  <2>1. stack # <<>> /\ Top.op = "collect" /\ Doomed = {}
    BY <1>1 DEF MoveOK
  <2> QED BY <1>2, <1>3, <1>9, <2>1 DEF MoveOK, Moves, Top
<1>11. ListsApart' /\ Listed' = Listed
  <2>1. Tidy(generations)' /\ Gens' = Members(generations')
    BY DEF Tidy, Members, Gens
  <2>2. Range(<<>>) = {}
    <3>1. DOMAIN <<>> = {}
      OBVIOUS
    <3> QED BY <3>1 DEF Range
  <2> QED BY <1>1, <1>3, <2>1, <2>2 DEF ListsApart, Listed
<1> QED BY <1>1, <1>4, <1>5, <1>6, <1>7, <1>8, <1>10, <1>11 DEF HeapInv

\* What the two kinds of steps of move_unreachable do to the lists and to gc_refs.
Found(o) == {p \in refs[o] \ {o} : gc.gc_refs[p] \in {0, GC_TENTATIVELY_UNREACHABLE}}
Visits(o) ==
  /\ gc' = [phase |-> "move", generation |-> gc.generation, scanned |-> gc.scanned + 1,
            gc_refs |-> [Cleared(gc.gc_refs, Found(o), 1) EXCEPT ![o] = GC_REACHABLE]]
  /\ \E t \in Seq(Obj) : Range(t) = Range(unreachable) \cap Found(o) /\ young' = young \o t
  /\ Range(unreachable') = Range(unreachable) \ Found(o)
Suspects(o) ==
  /\ gc' = [phase |-> "move", generation |-> gc.generation, scanned |-> gc.scanned,
            gc_refs |-> [gc.gc_refs EXCEPT ![o] = GC_TENTATIVELY_UNREACHABLE]]
  /\ young' = RemoveAt(young, gc.scanned + 1)
  /\ Range(unreachable') = Range(unreachable) \cup {o}

\* move_unreachable at an object with references from outside.
LEMMA VisitReachableKeeps ==
  ASSUME HeapInv, Moves, NEW o \in Obj, gc.scanned < Len(young), VisitReachable(o),
         UNCHANGED <<heapVars, finalizers, wrcb_to_call, stack, histVars>>
  PROVE  HeapInv' /\ Visits(o)
<1> DEFINE found == Found(o)
           g == gc.generation
           t == Only(unreachable, found)
           R == [Cleared(gc.gc_refs, found, 1) EXCEPT ![o] = GC_REACHABLE]
<1>1. /\ gc' = [gc EXCEPT !.scanned = gc.scanned + 1, !.gc_refs = R]
      /\ generations' = [generations EXCEPT ![g] = generations[g] \o t]
      /\ unreachable' = Only(unreachable, Obj \ found)
  BY Zenon DEF VisitReachable, Found
<1>2. TypeOK /\ ListsApart
  BY DEF HeapInv
<1>3. /\ g \in Generation /\ gc.scanned \in Nat /\ gc.gc_refs \in [Obj -> Int]
      /\ gc = [phase |-> "move", generation |-> g, scanned |-> gc.scanned, gc_refs |-> gc.gc_refs]
  BY <1>2, PhaseIs DEF Moves
<1>4. R \in [Obj -> Int]
  BY <1>3 DEF Cleared, GC_REACHABLE
<1> HIDE DEF R, found
<1>5. gc' = [phase |-> "move", generation |-> g, scanned |-> gc.scanned + 1, gc_refs |-> R]
  <2> DEFINE m == [gc EXCEPT !.scanned = gc.scanned + 1]
  <2>1. m = [phase |-> "move", generation |-> g, scanned |-> gc.scanned + 1, gc_refs |-> gc.gc_refs]
    BY <1>3
  <2>2. gc' = [m EXCEPT !.gc_refs = R]
    BY <1>1, Zenon
  <2> HIDE DEF m
  <2> QED BY <2>1, <2>2
<1>6. gc' \in Collections /\ gc'.phase = "move" /\ gc'.generation = g /\ gc'.scanned = gc.scanned + 1
  BY <1>3, <1>4, <1>5 DEF Collections
<1>7. /\ unreachable \in Seq(Obj) /\ IsInjective(unreachable) /\ Gens \cap Range(unreachable) = {}
      /\ Range(unreachable) \subseteq Obj
  BY <1>2 DEF TypeOK, ListsApart, Range
<1>8. t \in Seq(Obj) /\ IsInjective(t) /\ Range(t) = Range(unreachable) \cap found
  BY <1>7, OnlyElements
<1>9. /\ unreachable' \in Seq(Obj) /\ IsInjective(unreachable')
      /\ Range(unreachable') = Range(unreachable) \cap (Obj \ found)
  BY <1>1, <1>7, OnlyElements
<1> HIDE DEF t
<1>10. Tidy(generations') /\ Members(generations') = Gens \cup Range(t)
  <2>1. Range(t) \cap Members(generations) = {}
    BY <1>7, <1>8 DEF Gens
  <2>2. Tidy(generations)
    BY <1>2 DEF ListsApart
  <2>3. Tidy(generations') /\ Members(generations') = Members(generations) \cup Range(t)
    BY <1>1, <1>3, <1>8, <2>1, <2>2, TidyGrow
  <2> QED BY <2>3 DEF Gens
<1>11. gc'.scanned <= Len(young') /\ young' = young \o t
  <2>1. young \in Seq(Obj) /\ Len(young) \in Nat /\ Len(t) \in Nat
    BY <1>2, <1>3, <1>8 DEF TypeOK, young
  <2>2. young' = young \o t
    BY <1>1, <1>2, <1>3, <1>6 DEF young, TypeOK
  <2>3. Len(young') = Len(young) + Len(t)
    BY <1>8, <2>1, <2>2
  <2> QED BY <1>3, <1>6, <2>1, <2>2, <2>3
<1>12. MoveStep
  BY <1>6, <1>7, <1>8, <1>9, <1>10, <1>11 DEF MoveStep
<1>13. Visits(o)
  <2>1. \E u \in Seq(Obj) : Range(u) = Range(unreachable) \cap found /\ young' = young \o u
    BY <1>8, <1>11
  <2>2. Range(unreachable') = Range(unreachable) \ found
    BY <1>7, <1>9
  <2>3. gc' = [phase |-> "move", generation |-> gc.generation, scanned |-> gc.scanned + 1,
               gc_refs |-> [Cleared(gc.gc_refs, Found(o), 1) EXCEPT ![o] = GC_REACHABLE]]
    BY <1>5, Zenon DEF R, found
  <2> QED BY <2>1, <2>2, <2>3 DEF Visits, found
<1> QED BY <1>12, <1>13, MoveStepKeeps

\* move_unreachable at an object with none: it is moved to unreachable, tentatively.
LEMMA MoveUnreachableKeeps ==
  ASSUME HeapInv, Moves, gc.scanned < Len(young), MoveUnreachable(young[gc.scanned + 1]),
         UNCHANGED <<heapVars, finalizers, wrcb_to_call, stack, histVars>>
  PROVE  HeapInv' /\ Suspects(young[gc.scanned + 1])
<1> DEFINE g == gc.generation
           i == gc.scanned + 1
           o == young[i]
           R == [gc.gc_refs EXCEPT ![o] = GC_TENTATIVELY_UNREACHABLE]
<1>1. /\ gc' = [gc EXCEPT !.gc_refs = R]
      /\ generations' = [generations EXCEPT ![g] = RemoveAt(generations[g], i)]
      /\ unreachable' = Append(unreachable, o)
  BY DEF MoveUnreachable
<1>2. TypeOK /\ ListsApart
  BY DEF HeapInv
<1>3. /\ g \in Generation /\ gc.scanned \in Nat /\ gc.gc_refs \in [Obj -> Int]
      /\ gc = [phase |-> "move", generation |-> g, scanned |-> gc.scanned, gc_refs |-> gc.gc_refs]
  BY <1>2, PhaseIs DEF Moves
<1>4. young = generations[g] /\ young \in Seq(Obj) /\ i \in 1 .. Len(young)
  BY <1>2, <1>3 DEF young, TypeOK
<1>5. o \in Obj
  BY <1>4
<1>6. R \in [Obj -> Int]
  BY <1>3, <1>5 DEF GC_TENTATIVELY_UNREACHABLE
<1> HIDE DEF R
<1>7. gc' = [phase |-> "move", generation |-> g, scanned |-> gc.scanned, gc_refs |-> R]
  BY <1>1, <1>3, SMTT(30)
<1>8. gc' \in Collections /\ gc'.phase = "move" /\ gc'.generation = g /\ gc'.scanned = gc.scanned
  BY <1>3, <1>6, <1>7 DEF Collections
<1>9. Tidy(generations') /\ Members(generations') = Gens \ {o} /\ o \in Gens
  <2>1. Tidy(generations) /\ i \in 1 .. Len(generations[g])
    BY <1>2, <1>4 DEF ListsApart
  <2>2. /\ Tidy(generations') /\ Members(generations') = Members(generations) \ {generations[g][i]}
        /\ generations[g][i] \in Members(generations)
    <3> HIDE DEF i, g
    <3>1. generations' = [generations EXCEPT ![g] = RemoveAt(generations[g], i)]
      BY <1>1
    <3>2. g \in Generation
      BY <1>3
    <3> DEFINE G == generations
               H == generations'
    <3>3. Tidy(G) /\ i \in 1 .. Len(G[g]) /\ H = [G EXCEPT ![g] = RemoveAt(G[g], i)]
      BY <2>1, <3>1
    <3>4. GivesUp(G, H, g, G[g][i])
      <4> HIDE DEF G, H
      <4> QED BY <3>2, <3>3, TidyRemove
    <3> QED BY <3>4 DEF GivesUp
  <2> QED BY <1>4, <2>2 DEF Gens
<1>10. /\ unreachable \in Seq(Obj) /\ IsInjective(unreachable) /\ Gens \cap Range(unreachable) = {}
  BY <1>2 DEF TypeOK, ListsApart
<1>11. /\ unreachable' \in Seq(Obj) /\ IsInjective(unreachable')
       /\ Range(unreachable') = Range(unreachable) \cup {o}
  <2> HIDE DEF o
  <2>1. o \notin Range(unreachable)
    BY <1>9, <1>10
  <2> QED BY <1>1, <1>5, <1>10, <2>1, AppendedOnce
<1>12. gc'.scanned <= Len(young') /\ young' = RemoveAt(young, i)
  <2>1. young' = RemoveAt(young, i)
    BY <1>1, <1>2, <1>3, <1>4, <1>8 DEF young, TypeOK
  <2>2. Len(young') = Len(young) - 1
    <3> HIDE DEF i
    <3> QED BY <1>4, <2>1, RemoveAtIs
  <2>3. Len(young) \in Nat
    BY <1>4
  <2> QED BY <1>3, <1>8, <2>1, <2>2, <2>3
<1> HIDE DEF o
<1>13. MoveStep
  BY <1>8, <1>9, <1>10, <1>11, <1>12 DEF MoveStep
<1>14. Suspects(o)
  <2>1. gc' = [phase |-> "move", generation |-> gc.generation, scanned |-> gc.scanned,
               gc_refs |-> [gc.gc_refs EXCEPT ![o] = GC_TENTATIVELY_UNREACHABLE]]
    BY <1>7, Zenon DEF R
  <2> QED BY <1>11, <1>12, <2>1 DEF Suspects
<1> QED BY <1>13, <1>14, MoveStepKeeps DEF o

\* A step of move_unreachable, either way.
LEMMA MoveNextKeeps ==
  ASSUME HeapInv, MoveNext
  PROVE  HeapInv'
<1> DEFINE o == young[gc.scanned + 1]
<1>1. /\ In("collect") /\ gc.phase = "move" /\ gc.scanned < Len(young)
      /\ VisitReachable(o) \/ MoveUnreachable(o)
      /\ UNCHANGED <<heapVars, finalizers, wrcb_to_call, stack, histVars>>
  BY DEF MoveNext, Moving
<1>2. TypeOK /\ FramesOK
  BY DEF HeapInv
<1>3. Top \in Range(stack) /\ Top.op = "collect"
  BY <1>1, <1>2, StackIs DEF In
<1>4. Moves
  BY <1>1, <1>2, <1>3 DEF FramesOK, FrameOK, CollectOK, Moves
<1>5. o \in Obj
  <2>1. gc.generation \in Generation /\ gc.scanned \in Nat
    BY <1>2, <1>4, PhaseIs DEF Moves
  <2>2. young \in Seq(Obj)
    BY <1>2, <2>1 DEF young, TypeOK
  <2> QED BY <1>1, <2>1, <2>2
<1>6. CASE VisitReachable(o)
  <2> HIDE DEF o
  <2> QED BY <1>1, <1>4, <1>5, <1>6, VisitReachableKeeps
<1>7. CASE MoveUnreachable(o)
  BY <1>1, <1>4, <1>7, MoveUnreachableKeeps
<1> QED BY <1>1, <1>6, <1>7

\* The generation that survivors move to is one.
LEMMA OldIs ==
  ASSUME ObjAssumption, gc.generation \in Generation
  PROVE  old \in Generation
BY DEF ObjAssumption, old, Generation

\* What becomes of the frames below the top.
LEMMA BelowIs ==
  ASSUME HeapInv, NEW F, Replaced(F)
  PROVE  \A f \in Below(stack) :
           /\ f \in Range(stack) /\ f \in Range(stack') /\ f.holds \subseteq live \ Buried /\ FrameOK(f)
           /\ f.op = "collect" => Top.op # "collect"
           /\ f.op = "dealloc" /\ Top.op = "dealloc" => f.obj # Top.obj
<1> SUFFICES ASSUME NEW f \in Below(stack)
             PROVE  /\ f \in Range(stack) /\ f \in Range(stack')
                    /\ f.holds \subseteq live \ Buried /\ FrameOK(f)
                    /\ f.op = "collect" => Top.op # "collect"
                    /\ f.op = "dealloc" /\ Top.op = "dealloc" => f.obj # Top.obj
  OBVIOUS
<1>1. f \in Range(stack) /\ f \in Range(stack') /\ ~Same(f, Top)
  BY DEF Replaced
<1>2. TypeOK /\ HeapOK /\ FramesOK
  BY DEF HeapInv
<1>3. f.holds \subseteq live /\ FrameOK(f)
  BY <1>1, <1>2, StackIs DEF FramesOK
<1>4. \A o \in Buried : o \notin f.holds
  BY <1>1, <1>2 DEF HeapOK, Lost, Unreferred
<1> QED BY <1>1, <1>3, <1>4 DEF Same

\* What the collector calls: weak references that are not being deallocated.
LEMMA ToCallIs ==
  ASSUME HeapInv, ObjAssumption, NEW D \in SUBSET Obj
  PROVE  /\ ToCall(D) \subseteq live \ Buried /\ ToCall(D) \cap D = {} /\ IsFiniteSet(ToCall(D))
         /\ ToCall(D) \subseteq Weak
<1>1. TypeOK /\ HeapOK /\ WeakOK /\ FramesOK
  BY DEF HeapInv
<1>2. ASSUME NEW w \in ToCall(D) PROVE w \in live /\ w \notin Buried
  <2>1. w \in Weak /\ w \in Obj /\ wr_object[w] # None
    BY DEF ToCall, ToTrash, ObjAssumption
  <2>2. w \in live
    BY <1>1, <2>1 DEF WeakOK
  <2>3. \A f \in Range(stack) : ~Buries(f, w)
    BY <1>1, <2>1 DEF FramesOK, FrameOK, DeallocOK, Buries
  <2> QED BY <2>2, <2>3 DEF Buried
<1>3. ToCall(D) \subseteq live /\ IsFiniteSet(live)
  BY <1>1, <1>2 DEF HeapOK
<1>4. IsFiniteSet(ToCall(D))
  BY <1>3, FS_Subset
<1> QED BY <1>2, <1>4 DEF ToCall, ToTrash

\* move_unreachable ends: finalizers leave, and handle_weakrefs clears the weak references.
LEMMA MoveEndsKeeps ==
  ASSUME HeapInv, ObjAssumption, MoveEnds
  PROVE  HeapInv'
<1> DEFINE dead == Range(unreachable) \ Uncollectable
           calls == ToCall(dead)
           K == Obj \ calls
           kept == [g \in Generation |-> Only(generations[g], K)]
<1>0. PICK f : f = Collection("next", None, calls)
  OBVIOUS
<1>1. /\ In("collect") /\ gc.phase = "move"
      /\ generations' = IF old = gc.generation THEN kept
                    ELSE [kept EXCEPT ![gc.generation] = <<>>, ![old] = @ \o kept[gc.generation]]
      /\ unreachable' = Only(unreachable, dead)
      /\ finalizers' = Only(Only(unreachable, Uncollectable), K)
      /\ wr_object' = Cleared(wr_object, ToTrash(dead), None)
      /\ wrcb_to_call' \in SetToSeqs(calls)
      /\ stack' = Front(stack) \o <<f>>
      /\ trash' = dead
      /\ gc' = [phase |-> "weakrefs", generation |-> gc.generation]
      /\ UNCHANGED <<live, refs, held, garbage, cleared, called>>
  BY <1>0 DEF MoveEnds, Moving
<1>2. /\ TypeOK /\ HeapOK /\ WeakOK /\ Separate(stack) /\ FramesOK /\ MoveOK
      /\ ListsApart /\ Listed = live \ Buried
  BY DEF HeapInv
<1>3. stack # <<>> /\ Top.op = "collect" /\ Top \in Range(stack) /\ CollectOK(Top)
  BY <1>1, <1>2, StackIs DEF In, FramesOK, FrameOK
<1>4. gc # NoCollection /\ Moves /\ finalizers = <<>> /\ wrcb_to_call = <<>> /\ gc.generation \in Generation
  BY <1>1, <1>2, <1>3, PhaseIs DEF CollectOK, Moves, MoveOK
<1>5. /\ unreachable \in Seq(Obj) /\ IsInjective(unreachable) /\ Range(unreachable) \subseteq live \ Buried
      /\ live \subseteq Obj
  BY <1>2 DEF ListsApart, Listed, TypeOK
<1>6. dead \in SUBSET Obj /\ dead \subseteq live \ Buried
  BY <1>5
<1>7. /\ calls \subseteq live \ Buried /\ calls \cap dead = {} /\ IsFiniteSet(calls) /\ calls \subseteq Weak
  BY <1>6, ToCallIs
<1>8. Gens \cup Range(unreachable) = live \ Buried /\ Gens \cap Range(unreachable) = {}
  <2>1. Range(<<>>) = {}
    <3>1. DOMAIN <<>> = {}
      OBVIOUS
    <3> QED BY <3>1 DEF Range
  <2> QED BY <1>2, <1>4, <2>1 DEF Listed, ListsApart
<1>9. Tidy(generations') /\ Members(generations') = Gens \cap K
  <2>1. Tidy(generations) /\ Gens = Members(generations) /\ old \in Generation
    BY <1>2, <1>4, OldIs DEF ListsApart, Gens
  <2>2. Tidy(kept) /\ Members(kept) = Members(generations) \cap K
    <3> DEFINE G == generations
    <3>1. kept = [g \in Generation |-> Only(G[g], K)] /\ Tidy(G)
      BY <2>1
    <3>2. Tidy(kept) /\ Members(kept) = Members(G) \cap K
      <4> HIDE DEF G, K, kept
      <4> QED BY <3>1, TidyOnly
    <3> QED BY <3>2
  <2> HIDE DEF kept
  <2>3. CASE old = gc.generation
    BY <1>1, <2>1, <2>2, <2>3
  <2>4. CASE old # gc.generation
    <3>1. generations' = [kept EXCEPT ![gc.generation] = <<>>, ![old] = @ \o kept[gc.generation]]
      BY <1>1, <2>4
    <3>2. Tidy(generations') /\ Members(generations') = Members(kept)
      BY <1>4, <2>1, <2>2, <2>4, <3>1, TidyMoved
    <3> QED BY <2>1, <2>2, <3>2
  <2> QED BY <2>3, <2>4
<1>10. unreachable' \in Seq(Obj) /\ IsInjective(unreachable') /\ Range(unreachable') = dead
  <2>1. /\ unreachable' \in Seq(Obj) /\ IsInjective(unreachable')
        /\ Range(unreachable') = Range(unreachable) \cap dead
    BY <1>1, <1>5, OnlyElements
  <2> QED BY <2>1
<1>11. /\ finalizers' \in Seq(Obj) /\ IsInjective(finalizers')
       /\ Range(finalizers') = (Range(unreachable) \cap Uncollectable) \cap K
  <2> DEFINE q == Only(unreachable, Uncollectable)
  <2>1. q \in Seq(Obj) /\ IsInjective(q) /\ Range(q) = Range(unreachable) \cap Uncollectable
    BY <1>5, OnlyElements
  <2>2. finalizers' = Only(q, K)
    BY <1>1
  <2> HIDE DEF q, K
  <2>3. finalizers' \in Seq(Obj) /\ IsInjective(finalizers') /\ Range(finalizers') = Range(q) \cap K
    BY <2>1, <2>2, OnlyElements
  <2> QED BY <2>1, <2>3
<1>12. wrcb_to_call' \in Seq(Obj) /\ IsInjective(wrcb_to_call') /\ Range(wrcb_to_call') = calls
  <2>1. wrcb_to_call' \in Seq(calls) /\ IsInjective(wrcb_to_call') /\ Range(wrcb_to_call') = calls
    <3> HIDE DEF calls
    <3> QED BY <1>1, <1>7, SetToSeqsIs
  <2>2. calls \subseteq Obj
    BY <1>5, <1>7
  <2>3. \A X, Y : X \subseteq Y => Seq(X) \subseteq Seq(Y)
    OBVIOUS
  <2> HIDE DEF calls
  <2> QED BY <2>1, <2>2, <2>3, Zenon
<1>13. f \in Frames /\ f.op = "collect" /\ f.obj = None /\ f.stage = "next" /\ f.holds = calls
  <2>1. "next" \in {"next", "called", "released"} /\ None \in Obj \cup {None} /\ calls \in SUBSET Obj
    BY <1>5, <1>7
  <2> HIDE DEF calls
  <2> QED BY <1>0, <2>1, CollectionFrame
<1>14. Replaced({f})
  <2>1. stack \in Seq(Frames)
    BY <1>2 DEF TypeOK
  <2> QED BY <1>1, <1>2, <1>3, <1>13, <2>1, ReplacedBySome DEF Fits, Same
<1>15. /\ stack' \in Seq(Frames) /\ Separate(stack')
       /\ Range(stack) = Below(stack) \cup {Top} /\ Range(stack') = Below(stack) \cup {f}
  BY <1>14 DEF Replaced
<1>16. gc' # NoCollection /\ gc'.phase = "weakrefs" /\ gc' \in Collections
  BY <1>1, <1>4 DEF Collections, NoCollection
<1>17. /\ wr_object' \in [Obj -> Obj \cup {None}]
       /\ \A w \in Obj : wr_object'[w] = None \/ wr_object'[w] = wr_object[w]
  BY <1>1, <1>2 DEF Cleared, TypeOK
<1> HIDE DEF dead, calls
<1>18. TypeOK'
  <2>1. \A h \in Range(stack') : h.holds \subseteq live
    BY <1>7, <1>13, <1>14, <1>15, BelowIs
  <2>2. \A i \in DOMAIN stack' : stack'[i].holds \subseteq live
    BY <2>1, RangeIs
  <2> QED BY <1>1, <1>2, <1>6, <1>9, <1>10, <1>11, <1>12, <1>15, <1>16, <1>17, <2>2 DEF TypeOK, Tidy
<1>19. Buried' = Buried
  BY <1>1, <1>3, <1>13, <1>15 DEF Buried, Buries
<1>20. HeapOK'
  <2>1. ASSUME NEW o \in Buried PROVE Lost(o)'
    <3>1. \A h \in Range(stack') : o \notin h.holds
      BY <1>7, <1>13, <1>14, <1>15, <2>1, BelowIs
    <3>2. o # None
      BY <2>1, <1>5 DEF Buried, ObjAssumption
    <3> QED BY <1>1, <1>2, <1>17, <2>1, <3>1, <3>2 DEF HeapOK, Lost, Unreferred
  <2> QED BY <1>1, <1>2, <1>19, <2>1 DEF HeapOK
<1>21. WeakOK'
  BY <1>1, <1>2, <1>17 DEF WeakOK
<1>22. FramesOK'
  <2>1. ASSUME NEW h \in Below(stack) PROVE FrameOK(h)'
    <3>1. FrameOK(h) /\ h.op # "collect"
      BY <1>3, <1>14, BelowIs
    <3>2. ASSUME h.op = "dealloc" PROVE DeallocOK(h)'
      <4>1. h.obj \in Obj
        BY <1>5, <3>1, <3>2 DEF FrameOK, DeallocOK
      <4> QED BY <1>1, <1>17, <3>1, <3>2, <4>1 DEF FrameOK, DeallocOK
    <3> QED BY <3>1, <3>2 DEF FrameOK
  <2>2. None \notin calls
    BY <1>7 DEF ObjAssumption
  <2>3. FrameOK(f)'
    BY <1>12, <1>13, <1>16, <2>2 DEF FrameOK, CollectOK, HeadOf
  <2> QED BY <1>15, <2>1, <2>3 DEF FramesOK
<1>23. MoveOK'
  BY <1>16 DEF MoveOK, Moves
<1>24. ListsApart' /\ Listed' = live' \ Buried'
  <2>1. Tidy(generations)' /\ Gens' = Gens \cap K
    BY <1>9 DEF Tidy, Members, Gens
  <2>2. ListsApart'
    BY <1>7, <1>8, <1>10, <1>11, <1>12, <2>1 DEF ListsApart, dead
  <2>3. Listed' = live \ Buried
    <3>1. Gens \cap K = Gens \ calls /\ (Range(unreachable) \cap Uncollectable) \cap K
            = (Range(unreachable) \cap Uncollectable) \ calls
      BY <1>5, <1>8
    <3>2. Listed' = (Gens \ calls) \cup dead \cup ((Range(unreachable) \cap Uncollectable) \ calls) \cup calls
      BY <1>10, <1>11, <1>12, <2>1, <3>1, Zenon DEF Listed
    <3>3. dead = Range(unreachable) \ Uncollectable /\ calls \subseteq Gens \cup Range(unreachable)
      BY <1>7, <1>8 DEF dead
    <3> HIDE DEF K
    <3>4. Listed' = Gens \cup Range(unreachable)
      BY <3>2, <3>3
    <3> QED BY <1>8, <3>4
  <2> QED BY <1>1, <1>19, <2>2, <2>3
<1> QED BY <1>15, <1>18, <1>20, <1>21, <1>22, <1>23, <1>24 DEF HeapInv

\* The first of the list moved to old, when it still is the object that was treated.
MovedToOld(list, r) ==
  /\ Tidy(generations') /\ r \in Seq(Obj) /\ IsInjective(r) /\ Range(r) = Range(list) \ {Top.obj}
  /\ Range(r) \cap Members(generations') = {}
  /\ Members(generations') \cup Range(r) = Gens \cup Range(list)
  /\ Gens \subseteq Members(generations')

\* Objects that leave a list of the collection for the old generation.
LEMMA ToOldIs ==
  ASSUME Tidy(generations), old \in Generation, NEW list \in Seq(Obj), IsInjective(list),
         Range(list) \cap Gens = {}, HeadOf(list, Top.obj), ToOld(list),
         NEW r, r = TailIf(list)
  PROVE  MovedToOld(list, r)
<1> DEFINE o == Top.obj
<1>1. CASE StillAlive(list, o)
  <2>1. list # <<>> /\ Head(list) = o /\ r = Tail(list)
        /\ generations' = [generations EXCEPT ![old] = Append(generations[old], o)]
    BY <1>1 DEF StillAlive, ToOld, TailIf
  <2>2. /\ Tail(list) \in Seq(Obj) /\ Head(list) \in Obj /\ Range(list) = {Head(list)} \cup Range(Tail(list))
        /\ IsInjective(Tail(list)) /\ Head(list) \notin Range(Tail(list))
    BY <2>1, TailOnce
  <2> HIDE DEF o
  <2>3. o \in Obj /\ o \notin Members(generations)
    BY <2>1, <2>2 DEF Gens
  <2>4. Tidy(generations') /\ Members(generations') = Members(generations) \cup {o}
    BY <2>1, <2>3, TidyAppend
  <2>5. Range(r) = Range(list) \ {o}
    BY <2>1, <2>2
  <2> QED BY <2>1, <2>2, <2>4, <2>5 DEF MovedToOld, Gens, o
<1>2. CASE ~StillAlive(list, o)
  <2>1. r = list /\ generations' = generations
    BY <1>2 DEF ToOld, TailIf
  <2>2. o \notin Range(list)
    <3>1. CASE list = <<>>
      <4>1. DOMAIN <<>> = {}
        OBVIOUS
      <4> QED BY <3>1, <4>1 DEF Range
    <3>2. CASE list # <<>>
      <4>1. Head(list) = list[1]
        BY <3>2, TailOnce
      <4> QED BY <1>2, <3>2, <4>1 DEF StillAlive, HeadOf
    <3> QED BY <3>1, <3>2
  <2> QED BY <2>1, <2>2 DEF MovedToOld, Gens
<1> QED BY <1>1, <1>2

\* What a step of the collector that treats one object of a list has to leave in order.
ListStep(f) ==
  /\ stack # <<>> /\ Top.op = "collect" /\ ~Moves /\ Replaced({f})
  /\ UNCHANGED <<heapVars, gc, finalizers, histVars>>
  /\ f.op = "collect" /\ f.holds \subseteq live \ Buried /\ CollectOK(f)'
  /\ Tidy(generations') /\ Gens \subseteq Members(generations')
  /\ unreachable' \in Seq(Obj) /\ IsInjective(unreachable')
  /\ wrcb_to_call' \in Seq(Obj) /\ IsInjective(wrcb_to_call')
  /\ Range(unreachable') \subseteq Range(unreachable) /\ Range(wrcb_to_call') \subseteq Range(wrcb_to_call)
  /\ (wrcb_to_call = <<>> => wrcb_to_call' = <<>>)
  /\ Range(unreachable') \cap Members(generations') = {}
  /\ Range(wrcb_to_call') \cap Members(generations') = {}
  /\ Range(finalizers) \cap Members(generations') = {}
  /\ Members(generations') \cup Range(unreachable') \cup Range(wrcb_to_call')
       = Gens \cup Range(unreachable) \cup Range(wrcb_to_call)

\* Such a step keeps HeapInv.
LEMMA ListStepKeeps ==
  ASSUME HeapInv, NEW f, ListStep(f)
  PROVE  HeapInv'
<1> USE DEF ListStep, heapVars, histVars
<1>1. /\ TypeOK /\ HeapOK /\ WeakOK /\ Separate(stack) /\ FramesOK /\ MoveOK
      /\ ListsApart /\ Listed = live \ Buried
  BY DEF HeapInv
<1>2. Top \in Range(stack) /\ CollectOK(Top) /\ gc # NoCollection /\ gc.phase # "move"
  BY <1>1, StackIs DEF FramesOK, FrameOK, CollectOK, Moves
<1>3. /\ stack' \in Seq(Frames) /\ Separate(stack')
      /\ Range(stack) = Below(stack) \cup {Top} /\ Range(stack') = Below(stack) \cup {f}
  BY DEF Replaced
<1>4. TypeOK'
  <2>1. \A h \in Range(stack') : h.holds \subseteq live
    BY <1>3, BelowIs
  <2>2. \A i \in DOMAIN stack' : stack'[i].holds \subseteq live
    BY <2>1, RangeIs
  <2> QED BY <1>1, <1>3, <2>2 DEF TypeOK, Tidy
<1>5. Buried' = Buried
  BY <1>3 DEF Buried, Buries
<1>6. HeapOK'
  <2>1. ASSUME NEW o \in Buried PROVE Lost(o)'
    <3>1. \A h \in Range(stack') : o \notin h.holds
      BY <1>3, <2>1, BelowIs
    <3> QED BY <1>1, <2>1, <3>1 DEF HeapOK, Lost, Unreferred
  <2> QED BY <1>1, <1>5, <2>1 DEF HeapOK
<1>7. WeakOK'
  BY <1>1 DEF WeakOK
<1>8. FramesOK'
  <2>1. ASSUME NEW h \in Below(stack) PROVE FrameOK(h)'
    <3>1. FrameOK(h) /\ h.op # "collect"
      BY BelowIs
    <3> QED BY <3>1 DEF FrameOK, DeallocOK
  <2>2. FrameOK(f)'
    BY DEF FrameOK
  <2> QED BY <1>3, <2>1, <2>2 DEF FramesOK
<1>9. MoveOK'
  BY <1>1, <1>2 DEF MoveOK, Moves
<1>10. ListsApart' /\ Listed' = Listed
  <2>1. Tidy(generations)' /\ Gens' = Members(generations')
    BY DEF Tidy, Members, Gens
  <2> QED BY <1>1, <2>1 DEF ListsApart, Listed
<1> QED BY <1>1, <1>3, <1>4, <1>5, <1>6, <1>7, <1>8, <1>9, <1>10 DEF HeapInv

\* handle_weakrefs moves the weak reference to the old generation.
LEMMA CallMovesKeeps ==
  ASSUME HeapInv, ObjAssumption, CallMoves
  PROVE  HeapInv'
<1>0. PICK f : f = Collection("next", None, Top.holds)
  OBVIOUS
<1>1. /\ stack # <<>> /\ Top.op = "collect" /\ gc.phase = "weakrefs" /\ Top.stage = "released"
      /\ ToOld(wrcb_to_call) /\ wrcb_to_call' = TailIf(wrcb_to_call)
      /\ stack' = Append(Front(stack), f)
      /\ UNCHANGED <<heapVars, unreachable, finalizers, gc, histVars>>
  BY <1>0 DEF CallMoves, InStage, In, Replace
<1>2. /\ stack \in Seq(Frames) /\ Separate(stack)
      /\ Top \in Frames /\ Top.holds \subseteq live \ Buried /\ FrameOK(Top)
      /\ live \subseteq Obj /\ (Top.op # "collect" => ~Moves)
      /\ cleared \subseteq live /\ trash \subseteq live /\ called \subseteq live
  BY <1>1, TopIs
<1>3. CollectOK(Top)
  BY <1>1, <1>2 DEF FrameOK
<1>4. TypeOK /\ ListsApart
  BY DEF HeapInv
<1>5. ~Moves /\ gc # NoCollection /\ gc.generation \in Generation /\ old \in Generation
  BY <1>1, <1>3, <1>4, PhaseIs, OldIs DEF CollectOK, Moves
<1>6. /\ wrcb_to_call \in Seq(Obj) /\ IsInjective(wrcb_to_call) /\ Range(wrcb_to_call) \cap Gens = {}
      /\ Tidy(generations) /\ HeadOf(wrcb_to_call, Top.obj)
      /\ Range(wrcb_to_call) \subseteq Top.holds \cup {Top.obj}
  BY <1>1, <1>3, <1>4 DEF TypeOK, ListsApart, CollectOK
<1>7. MovedToOld(wrcb_to_call, wrcb_to_call')
  BY <1>1, <1>5, <1>6, ToOldIs
<1>8. f \in Frames /\ f.op = "collect" /\ f.obj = None /\ f.stage = "next" /\ f.holds = Top.holds
  <2>1. "next" \in {"next", "called", "released"} /\ None \in Obj \cup {None} /\ Top.holds \in SUBSET Obj
    BY <1>2
  <2> QED BY <1>0, <2>1, CollectionFrame
<1>9. Replaced({f})
  BY <1>1, <1>2, <1>8, ReplacedBySome DEF Fits, Same
<1>10. None \notin Range(wrcb_to_call')
  <2>1. Range(wrcb_to_call') \subseteq Range(wrcb_to_call)
    BY <1>7 DEF MovedToOld
  <2>2. Range(wrcb_to_call) \subseteq Listed
    BY DEF Listed
  <2>3. Listed \subseteq Obj
    BY <1>2 DEF HeapInv
  <2> QED BY <2>1, <2>2, <2>3 DEF ObjAssumption
<1>11. Range(wrcb_to_call') \subseteq Top.holds
  BY <1>6, <1>7 DEF MovedToOld
<1>12. CollectOK(f)'
  BY <1>1, <1>5, <1>8, <1>10, <1>11 DEF CollectOK, HeadOf
<1>13. ListStep(f)
  <2>1. wrcb_to_call = <<>> => wrcb_to_call' = <<>>
    BY <1>1 DEF TailIf, StillAlive
  <2>2. /\ Range(unreachable) \cap Gens = {} /\ Range(finalizers) \cap Gens = {}
        /\ Range(unreachable) \cap Range(wrcb_to_call) = {} /\ Range(finalizers) \cap Range(wrcb_to_call) = {}
        /\ unreachable \in Seq(Obj) /\ IsInjective(unreachable)
    BY <1>4 DEF ListsApart, TypeOK
  <2>3. Members(generations') \subseteq Gens \cup Range(wrcb_to_call)
    BY <1>7 DEF MovedToOld
  <2>4. UNCHANGED <<heapVars, gc, finalizers, histVars>> /\ unreachable' = unreachable
    BY <1>1
  <2>5. /\ Range(unreachable) \cap Members(generations') = {}
        /\ Range(finalizers) \cap Members(generations') = {}
    BY <2>2, <2>3
  <2>6. Members(generations') \cup Range(unreachable) \cup Range(wrcb_to_call')
          = Gens \cup Range(unreachable) \cup Range(wrcb_to_call)
    BY <1>7 DEF MovedToOld
  <2> QED BY <1>1, <1>2, <1>5, <1>7, <1>8, <1>9, <1>12, <2>1, <2>2, <2>4, <2>5, <2>6 DEF ListStep, MovedToOld
<1> QED BY <1>13, ListStepKeeps

\* delete_garbage moves what survived tp_clear to the old generation.
LEMMA DeleteMovesKeeps ==
  ASSUME HeapInv, ObjAssumption, DeleteMoves
  PROVE  HeapInv'
<1>0. PICK f : f = Collection("next", None, {})
  OBVIOUS
<1>1. /\ stack # <<>> /\ Top.op = "collect" /\ gc.phase = "delete" /\ Top.stage = "released"
      /\ ToOld(unreachable) /\ unreachable' = TailIf(unreachable)
      /\ stack' = Append(Front(stack), f)
      /\ UNCHANGED <<heapVars, finalizers, wrcb_to_call, gc, histVars>>
  BY <1>0 DEF DeleteMoves, InStage, In, Replace
<1>2. /\ stack \in Seq(Frames) /\ Separate(stack)
      /\ Top \in Frames /\ Top.holds \subseteq live \ Buried /\ FrameOK(Top)
      /\ live \subseteq Obj /\ (Top.op # "collect" => ~Moves)
      /\ cleared \subseteq live /\ trash \subseteq live /\ called \subseteq live
  BY <1>1, TopIs
<1>3. CollectOK(Top)
  BY <1>1, <1>2 DEF FrameOK
<1>4. TypeOK /\ ListsApart /\ MoveOK
  BY DEF HeapInv
<1>5. ~Moves /\ gc # NoCollection /\ gc.generation \in Generation /\ old \in Generation /\ wrcb_to_call = <<>>
  BY <1>1, <1>3, <1>4, PhaseIs, OldIs DEF CollectOK, Moves, MoveOK
<1>6. /\ unreachable \in Seq(Obj) /\ IsInjective(unreachable) /\ Range(unreachable) \cap Gens = {}
      /\ Tidy(generations) /\ HeadOf(unreachable, Top.obj)
  BY <1>1, <1>3, <1>4 DEF TypeOK, ListsApart, CollectOK
<1>7. MovedToOld(unreachable, unreachable')
  BY <1>1, <1>5, <1>6, ToOldIs
<1>8. f \in Frames /\ f.op = "collect" /\ f.obj = None /\ f.stage = "next" /\ f.holds = {}
  <2>1. "next" \in {"next", "called", "released"} /\ None \in Obj \cup {None} /\ {} \in SUBSET Obj
    OBVIOUS
  <2> QED BY <1>0, <2>1, CollectionFrame
<1>9. Replaced({f})
  BY <1>1, <1>2, <1>8, ReplacedBySome DEF Fits, Same
<1>10. None \notin Range(unreachable')
  <2>1. Range(unreachable') \subseteq Range(unreachable)
    BY <1>7 DEF MovedToOld
  <2>2. Range(unreachable) \subseteq Listed
    BY DEF Listed
  <2>3. Listed \subseteq Obj
    BY <1>2 DEF HeapInv
  <2> QED BY <2>1, <2>2, <2>3 DEF ObjAssumption
<1>12. CollectOK(f)'
  BY <1>1, <1>5, <1>8, <1>10 DEF CollectOK, HeadOf
<1>13. ListStep(f)
  <2>2. /\ Range(finalizers) \cap Gens = {}
        /\ Range(finalizers) \cap Range(unreachable) = {}
        /\ wrcb_to_call \in Seq(Obj) /\ IsInjective(wrcb_to_call) /\ Range(wrcb_to_call) \cap Gens = {}
        /\ Range(wrcb_to_call) \cap Range(unreachable) = {}
    BY <1>4 DEF ListsApart, TypeOK
  <2>3. Members(generations') \subseteq Gens \cup Range(unreachable)
    BY <1>7 DEF MovedToOld
  <2>4. UNCHANGED <<heapVars, gc, finalizers, histVars>> /\ wrcb_to_call' = wrcb_to_call
    BY <1>1
  <2>5. /\ Range(wrcb_to_call) \cap Members(generations') = {}
        /\ Range(finalizers) \cap Members(generations') = {}
    BY <2>2, <2>3
  <2>6. Members(generations') \cup Range(unreachable') \cup Range(wrcb_to_call)
          = Gens \cup Range(unreachable) \cup Range(wrcb_to_call)
    BY <1>7 DEF MovedToOld
  <2> QED BY <1>1, <1>2, <1>5, <1>7, <1>8, <1>9, <1>12, <2>2, <2>4, <2>5, <2>6 DEF ListStep, MovedToOld
<1> QED BY <1>13, ListStepKeeps

\* collect ends: handle_garbage saves the finalizers in gc.garbage and merges them.
LEMMA CollectEndsKeeps ==
  ASSUME HeapInv, ObjAssumption, CollectEnds
  PROVE  HeapInv'
<1>1. /\ stack # <<>> /\ Top.op = "collect" /\ gc.phase = "delete" /\ Top.stage = "next"
      /\ unreachable = <<>> /\ garbage' = garbage \cup (Range(finalizers) \cap Finalizer)
      /\ generations' = [generations EXCEPT ![old] = generations[old] \o finalizers]
      /\ finalizers' = <<>> /\ gc' = NoCollection /\ stack' = Front(stack) /\ trash' = {}
      /\ UNCHANGED <<live, refs, wr_object, held, unreachable, wrcb_to_call, cleared, called>>
  BY DEF CollectEnds, InStage, In
<1>2. /\ TypeOK /\ HeapOK /\ WeakOK /\ Separate(stack) /\ FramesOK /\ MoveOK
      /\ ListsApart /\ Listed = live \ Buried
  BY DEF HeapInv
<1>3. stack \in Seq(Frames) /\ Top \in Range(stack) /\ CollectOK(Top)
  BY <1>1, <1>2, StackIs DEF TypeOK, FramesOK, FrameOK
<1>4. gc # NoCollection /\ gc.generation \in Generation /\ old \in Generation /\ wrcb_to_call = <<>>
  BY <1>1, <1>2, <1>3, PhaseIs, OldIs DEF CollectOK, MoveOK
<1>5. Replaced({})
  BY <1>1, <1>2, <1>3, ReplacedBySome
<1>6. /\ stack' \in Seq(Frames) /\ Separate(stack')
      /\ Range(stack) = Below(stack) \cup {Top} /\ Range(stack') = Below(stack)
  BY <1>5 DEF Replaced
<1>7. /\ finalizers \in Seq(Obj) /\ IsInjective(finalizers) /\ Range(finalizers) \cap Gens = {}
      /\ Range(finalizers) \subseteq live \ Buried /\ Tidy(generations)
  BY <1>2 DEF TypeOK, ListsApart, Listed
<1>8. Tidy(generations') /\ Members(generations') = Gens \cup Range(finalizers)
  <2>1. Range(finalizers) \cap Members(generations) = {}
    BY <1>7 DEF Gens
  <2>2. Tidy(generations') /\ Members(generations') = Members(generations) \cup Range(finalizers)
    BY <1>1, <1>4, <1>7, <2>1, TidyGrow
  <2> QED BY <2>2 DEF Gens
<1>9. DOMAIN <<>> = {} /\ <<>> \in Seq(Obj)
  OBVIOUS
<1>10. Range(<<>>) = {} /\ IsInjective(<<>>)
  BY <1>9 DEF Range, IsInjective
<1>11. TypeOK'
  <2>1. \A h \in Range(stack') : h.holds \subseteq live
    BY <1>5, <1>6, BelowIs
  <2>2. \A i \in DOMAIN stack' : stack'[i].holds \subseteq live
    BY <2>1, RangeIs
  <2>3. garbage' \subseteq live
    BY <1>1, <1>2, <1>7 DEF TypeOK
  <2> QED BY <1>1, <1>2, <1>6, <1>8, <1>9, <2>2, <2>3 DEF TypeOK, Tidy
<1>12. Buried' = Buried
  BY <1>1, <1>6 DEF Buried, Buries
<1>13. HeapOK'
  <2>1. ASSUME NEW o \in Buried PROVE Lost(o)'
    <3>1. \A h \in Range(stack') : o \notin h.holds
      BY <1>5, <1>6, <2>1, BelowIs
    <3>2. Lost(o) /\ o \notin garbage'
      BY <1>1, <1>2, <1>7, <2>1 DEF HeapOK, Lost, Unreferred
    <3> QED BY <1>1, <3>1, <3>2 DEF Lost, Unreferred
  <2> QED BY <1>1, <1>2, <1>12, <2>1 DEF HeapOK
<1>14. WeakOK'
  BY <1>1, <1>2 DEF WeakOK
<1>15. FramesOK'
  <2>1. ASSUME NEW h \in Below(stack) PROVE FrameOK(h)'
    <3>1. FrameOK(h) /\ h.op # "collect"
      BY <1>1, <1>5, BelowIs
    <3> QED BY <1>1, <3>1 DEF FrameOK, DeallocOK
  <2> QED BY <1>6, <2>1 DEF FramesOK
<1>16. MoveOK'
  BY <1>1, <1>4 DEF MoveOK, Moves
<1>17. ListsApart' /\ Listed' = Listed
  <2>1. Tidy(generations)' /\ Gens' = Gens \cup Range(finalizers)
    BY <1>8 DEF Tidy, Members, Gens
  <2>2. ListsApart'
    BY <1>1, <1>4, <1>10, <2>1 DEF ListsApart
  <2>3. Listed' = Listed
    BY <1>1, <1>10, <2>1 DEF Listed
  <2> QED BY <2>2, <2>3
<1> QED BY <1>1, <1>2, <1>6, <1>11, <1>12, <1>13, <1>14, <1>15, <1>16, <1>17 DEF HeapInv

\* delete_garbage calls the tp_clear of the next object.
LEMMA ClearNextKeeps ==
  ASSUME HeapInv, ObjAssumption, ClearNext
  PROVE  HeapInv'
<1>0. PICK o : o = Head(unreachable)
  OBVIOUS
<1>1. /\ stack # <<>> /\ Top.op = "collect" /\ gc.phase = "delete" /\ Top.stage = "next"
      /\ unreachable # <<>>
      /\ refs' = IF o \in Clearable THEN [refs EXCEPT ![o] = {}] ELSE refs
      /\ wr_object' = IF o \in Clearable THEN [wr_object EXCEPT ![o] = None] ELSE wr_object
      /\ cleared' = IF o \in Clearable THEN cleared \cup {o} ELSE cleared
      /\ stack' = IF o \in Clearable
                  THEN Front(stack) \o <<Collection("called", o, {o})>> \o Rest(refs[o])
                  ELSE Front(stack) \o <<Collection("released", o, {})>>
      /\ UNCHANGED <<live, held, garbage, listVars, gc, trash, called>>
  BY <1>0 DEF ClearNext, InStage, In
<1>2. /\ TypeOK /\ HeapOK /\ WeakOK /\ Separate(stack) /\ FramesOK /\ MoveOK
      /\ ListsApart /\ Listed = live \ Buried
  BY DEF HeapInv
<1>3. stack \in Seq(Frames) /\ Top \in Range(stack) /\ CollectOK(Top)
  BY <1>1, <1>2, StackIs DEF TypeOK, FramesOK, FrameOK
<1>4. gc # NoCollection /\ ~Moves
  BY <1>1, <1>3 DEF CollectOK, Moves
<1>5. o \in Range(unreachable) /\ unreachable[1] = o
  <2>1. unreachable \in Seq(Obj)
    BY <1>2 DEF TypeOK
  <2>2. Head(unreachable) = unreachable[1] /\ Range(unreachable) = {Head(unreachable)} \cup Range(Tail(unreachable))
    BY <1>1, <2>1, TailOnce
  <2> QED BY <1>0, <2>2
<1>6. o \in live \ Buried /\ o \in Obj
  BY <1>2, <1>5 DEF Listed, TypeOK
<1>7. refs[o] \subseteq live \ Buried /\ refs[o] \in SUBSET Obj
  <2>1. refs[o] \subseteq live /\ live \subseteq Obj
    BY <1>2, <1>6 DEF TypeOK
  <2>2. \A b \in Buried : b \notin refs[o]
    BY <1>2, <1>6 DEF HeapOK, Lost, Unreferred
  <2> QED BY <2>1, <2>2
<1>8. PICK f : f = IF o \in Clearable THEN Collection("called", o, {o}) ELSE Collection("released", o, {})
  OBVIOUS
<1>9. f \in Frames /\ f.op = "collect" /\ f.obj = o /\ f.stage # "next" /\ f.holds \subseteq {o}
  <2>1. "called" \in {"next", "called", "released"} /\ "released" \in {"next", "called", "released"}
        /\ {o} \in SUBSET Obj /\ {} \in SUBSET Obj /\ o \in Obj \cup {None}
    BY <1>6
  <2>2. CASE o \in Clearable
    <3>1. f = Collection("called", o, {o})
      BY <1>8, <2>2
    <3>2. f \in Frames /\ f.op = "collect" /\ f.obj = o /\ f.stage = "called" /\ f.holds = {o}
      BY <2>1, <3>1, CollectionFrame
    <3> QED BY <3>2
  <2>3. CASE o \notin Clearable
    <3>1. f = Collection("released", o, {})
      BY <1>8, <2>3
    <3>2. f \in Frames /\ f.op = "collect" /\ f.obj = o /\ f.stage = "released" /\ f.holds = {}
      BY <2>1, <3>1, CollectionFrame
    <3> QED BY <3>2
  <2> QED BY <2>2, <2>3
<1>10. PICK F : F = IF o \in Clearable THEN {f} \cup RestSet(refs[o]) ELSE {f}
  OBVIOUS
<1>11. \A h \in RestSet(refs[o]) : h \in Frames /\ Plain(h) /\ h.holds = refs[o]
  BY <1>7, RestFrames
<1>12. \A h \in F : h.holds \subseteq live \ Buried /\ (h = f \/ Plain(h))
  BY <1>6, <1>7, <1>9, <1>10, <1>11
<1>13. Replaced(F)
  <2>1. Fits(f)
    BY <1>1, <1>9 DEF Fits, Same
  <2>2. CASE o \in Clearable
    <3>1. stack' = Front(stack) \o <<f>> \o Rest(refs[o])
      BY <1>1, <1>8, <2>2
    <3>2. Drop(refs[o]) \in Frames
      BY <1>7, FrameKinds
    <3>3. Replaced({f} \cup RestSet(refs[o]))
      BY <1>1, <1>2, <1>3, <2>1, <3>1, <3>2, ReplacedByRest
    <3> QED BY <1>10, <2>2, <3>3
  <2>3. CASE o \notin Clearable
    <3>1. stack' = Front(stack) \o <<f>>
      BY <1>1, <1>8, <2>3
    <3>2. Replaced({f})
      BY <1>1, <1>2, <1>3, <2>1, <3>1, ReplacedBySome
    <3> QED BY <1>10, <2>3, <3>2
  <2> QED BY <2>2, <2>3
<1>14. /\ stack' \in Seq(Frames) /\ Separate(stack')
       /\ Range(stack) = Below(stack) \cup {Top} /\ Range(stack') = Below(stack) \cup F
  BY <1>13 DEF Replaced
<1>15. /\ refs' \in [Obj -> SUBSET live] /\ \A p \in Obj : refs'[p] \subseteq refs[p]
       /\ wr_object' \in [Obj -> Obj \cup {None}]
       /\ \A p \in Obj : wr_object'[p] = None \/ wr_object'[p] = wr_object[p]
  BY <1>1, <1>2, <1>6 DEF TypeOK
<1>16. TypeOK'
  <2>1. \A h \in Range(stack') : h.holds \subseteq live
    BY <1>12, <1>13, <1>14, BelowIs
  <2>2. \A i \in DOMAIN stack' : stack'[i].holds \subseteq live
    BY <2>1, RangeIs
  <2>3. cleared' \subseteq live
    BY <1>1, <1>2, <1>6 DEF TypeOK
  <2> QED BY <1>1, <1>2, <1>14, <1>15, <2>2, <2>3 DEF TypeOK, listVars
<1>17. Buried' = Buried
  <2>1. \A h \in F : \A b : ~Buries(h, b)
    BY <1>9, <1>12 DEF Buries, Plain
  <2>2. \A b : ~Buries(Top, b)
    BY <1>1 DEF Buries
  <2> QED BY <1>1, <1>14, <2>1, <2>2 DEF Buried
<1>18. HeapOK'
  <2>1. ASSUME NEW b \in Buried PROVE Lost(b)'
    <3>1. \A h \in Range(stack') : b \notin h.holds
      BY <1>12, <1>13, <1>14, <2>1, BelowIs
    <3>2. Lost(b) /\ b # None /\ live \subseteq Obj
      BY <1>2, <2>1 DEF HeapOK, Buried, TypeOK, ObjAssumption
    <3> QED BY <1>1, <1>15, <3>1, <3>2 DEF Lost, Unreferred
  <2>2. \A p \in Obj \ live : refs'[p] = {}
    BY <1>2, <1>15 DEF HeapOK
  <2> QED BY <1>1, <1>2, <1>17, <2>1, <2>2 DEF HeapOK
<1>19. WeakOK'
  BY <1>1, <1>2, <1>15 DEF WeakOK
<1>20. FramesOK'
  <2>1. ASSUME NEW h \in Below(stack) PROVE FrameOK(h)'
    <3>1. FrameOK(h) /\ h.op # "collect"
      BY <1>1, <1>13, BelowIs
    <3>2. ASSUME h.op = "dealloc" PROVE DeallocOK(h)'
      <4>1. DeallocOK(h) /\ h.obj \in Obj
        BY <1>2, <3>1, <3>2 DEF FrameOK, DeallocOK, TypeOK
      <4> QED BY <1>1, <1>15, <4>1 DEF DeallocOK
    <3> QED BY <3>1, <3>2 DEF FrameOK
  <2>2. CollectOK(f)'
    BY <1>1, <1>4, <1>5, <1>9 DEF CollectOK, HeadOf, listVars
  <2>3. \A h \in F : FrameOK(h)'
    BY <1>9, <1>12, <2>2 DEF FrameOK, Plain
  <2> QED BY <1>14, <2>1, <2>3 DEF FramesOK
<1>21. MoveOK'
  BY <1>1, <1>2, <1>4 DEF MoveOK, Moves, listVars
<1>22. ListsApart' /\ Listed' = Listed
  BY <1>1, <1>2 DEF ListsApart, Tidy, Gens, Members, Listed, listVars
<1> QED BY <1>1, <1>2, <1>14, <1>16, <1>17, <1>18, <1>19, <1>20, <1>21, <1>22 DEF HeapInv
-----------------------------------------------------------------------------
(* Steps of a deallocation.                                                 *)

\* r is the list s without o.
Leaves(s, r, o) ==
  /\ r \in Seq(Obj) /\ IsInjective(r) /\ Range(r) = Range(s) \ {o} /\ (s = <<>> => r = <<>>)
  /\ \A x : HeadOf(s, x) => HeadOf(r, x)

\* The lists after an object is unlinked from whichever has it.
LEMMA LeavesIs ==
  ASSUME NEW s \in Seq(Obj), IsInjective(s), NEW o
  PROVE  Leaves(s, Without(s, o), o)
<1> DEFINE r == Only(s, Obj \ {o})
<1>1. /\ r \in Seq(Obj) /\ Range(r) = Range(s) \cap (Obj \ {o}) /\ IsInjective(r)
      /\ s # <<>> /\ s[1] \in Obj \ {o} => r # <<>> /\ r[1] = s[1]
  BY OnlyElements
<1>2. Range(s) \subseteq Obj
  BY DEF Range
<1>3. Without(s, o) = r
  BY DEF Without
<1> HIDE DEF r
<1>4. ASSUME s = <<>> PROVE r = <<>>
  <2>1. Range(s) = {}
    <3>1. DOMAIN <<>> = {}
      OBVIOUS
    <3> QED BY <1>4, <3>1 DEF Range
  <2>2. Range(r) = {}
    BY <1>1, <2>1
  <2>3. Len(r) \in Nat /\ DOMAIN r = 1 .. Len(r)
    BY <1>1
  <2>4. Len(r) = 0
    <3>1. \A i \in 1 .. Len(r) : FALSE
      BY <2>2, <2>3, RangeIs
    <3> QED BY <2>3, <3>1
  <2> QED BY <1>1, <2>4, EmptySeq
<1>5. ASSUME NEW x, HeadOf(s, x), x \in Range(r) PROVE r[1] = x
  <2>1. x \in Range(s) /\ x \in Obj \ {o} /\ s[1] = x
    BY <1>1, <1>5 DEF HeadOf
  <2>2. s # <<>>
    <3>1. DOMAIN <<>> = {}
      OBVIOUS
    <3> QED BY <2>1, <3>1 DEF Range
  <2> QED BY <1>1, <2>1, <2>2
<1>6. Range(r) = Range(s) \ {o}
  BY <1>1, <1>2
<1> QED BY <1>1, <1>3, <1>4, <1>5, <1>6 DEF Leaves, HeadOf

Untracked(o) ==
  /\ Tidy(generations') /\ Members(generations') = Gens \ {o}
  /\ Leaves(unreachable, unreachable', o) /\ Leaves(finalizers, finalizers', o)
  /\ Leaves(wrcb_to_call, wrcb_to_call', o)

\* PyObject_GC_UnTrack takes the object out of the one list that has it.
LEMMA UntrackIs ==
  ASSUME TypeOK, ListsApart, NEW o, Untrack(o)
  PROVE  Untracked(o)
<1>1. generations' = [g \in Generation |-> Only(generations[g], Obj \ {o})]
  BY DEF Untrack, Without
<1>2. Tidy(generations) /\ Gens \subseteq Obj
  <2>1. Tidy(generations)
    BY DEF ListsApart
  <2>2. \A g \in Generation : generations[g] \in Seq(Obj)
    BY <2>1 DEF Tidy
  <2>3. \A g \in Generation : Range(generations[g]) \subseteq Obj
    BY <2>2 DEF Range
  <2> QED BY <2>1, <2>3 DEF Gens, Members
<1>3. Tidy(generations') /\ Members(generations') = Gens \ {o}
  <2> DEFINE K == Obj \ {o}
             G == generations
             H == generations'
  <2>1. H = [g \in Generation |-> Only(G[g], K)] /\ Tidy(G)
    BY <1>1, <1>2
  <2>2. Tidy(H) /\ Members(H) = Members(G) \cap K
    <3> HIDE DEF G, H, K
    <3> QED BY <2>1, TidyOnly
  <2> QED BY <1>2, <2>2 DEF Gens
<1>4. /\ unreachable' = Without(unreachable, o) /\ finalizers' = Without(finalizers, o)
      /\ wrcb_to_call' = Without(wrcb_to_call, o)
  BY DEF Untrack
<1>5. /\ unreachable \in Seq(Obj) /\ IsInjective(unreachable)
      /\ finalizers \in Seq(Obj) /\ IsInjective(finalizers)
      /\ wrcb_to_call \in Seq(Obj) /\ IsInjective(wrcb_to_call)
  BY DEF TypeOK, ListsApart
<1>6. Leaves(unreachable, Without(unreachable, o), o) /\ Leaves(finalizers, Without(finalizers, o), o)
      /\ Leaves(wrcb_to_call, Without(wrcb_to_call, o), o)
  BY <1>5, LeavesIs
<1> QED BY <1>3, <1>4, <1>6 DEF Untracked

\* What the lists and the frame of a collection are after that.
LEMMA UntrackedKeeps ==
  ASSUME HeapInv, NEW o, Untracked(o), gc' = gc, ~Moves
  PROVE  /\ ListsApart' /\ Listed' = Listed \ {o}
         /\ generations' \in [Generation -> Seq(Obj)]
         /\ unreachable' \in Seq(Obj) /\ finalizers' \in Seq(Obj) /\ wrcb_to_call' \in Seq(Obj)
         /\ MoveOK'
         /\ \A f : CollectOK(f) => CollectOK(f)'
<1>1. ListsApart /\ MoveOK
  BY DEF HeapInv
<1>2. /\ Tidy(generations)' /\ Gens' = Gens \ {o}
      /\ unreachable' \in Seq(Obj) /\ IsInjective(unreachable') /\ Range(unreachable') = Range(unreachable) \ {o}
      /\ finalizers' \in Seq(Obj) /\ IsInjective(finalizers') /\ Range(finalizers') = Range(finalizers) \ {o}
      /\ wrcb_to_call' \in Seq(Obj) /\ IsInjective(wrcb_to_call')
      /\ Range(wrcb_to_call') = Range(wrcb_to_call) \ {o}
  BY DEF Untracked, Leaves, Tidy, Members, Gens
<1>3. ListsApart'
  BY <1>1, <1>2 DEF ListsApart
<1>4. Listed' = Listed \ {o}
  BY <1>2 DEF Listed
<1>5. MoveOK'
  BY <1>1 DEF MoveOK, Moves, Untracked, Leaves
<1>6. ASSUME NEW f, CollectOK(f) PROVE CollectOK(f)'
  <2>1. /\ HeadOf(unreachable, f.obj) => HeadOf(unreachable', f.obj)
        /\ HeadOf(wrcb_to_call, f.obj) => HeadOf(wrcb_to_call', f.obj)
    BY DEF Untracked, Leaves
  <2>2. Range(wrcb_to_call') \subseteq Range(wrcb_to_call)
    BY <1>2
  <2> QED BY <1>6, <2>1, <2>2 DEF CollectOK, HeadOf, Moves
<1> QED BY <1>2, <1>3, <1>4, <1>5, <1>6 DEF Tidy

\* A reference count reaches 0: subtype_dealloc or gc's tp_dealloc begins.
LEMMA DeallocBeginsKeeps ==
  ASSUME HeapInv, ObjAssumption, NEW o \in Doomed, DeallocBegins(o)
  PROVE  HeapInv'
<1>0. PICK W, calls, owners, holds, f :
        /\ W = {w \in Weak : wr_object[w] = o} /\ calls = {wc \in W \X Obj : wc[2] \in refs[wc[1]]}
        /\ owners = {wc[1] : wc \in calls} /\ holds = owners \cup {wc[2] : wc \in calls}
        /\ f = Dealloc(o, "call", holds, calls)
  OBVIOUS
<1>1. /\ Untrack(o) /\ wr_object' = Cleared(wr_object, W \cup {o}, None)
      /\ refs' = Cleared(refs, owners, {}) /\ stack' = Append(stack, f)
      /\ UNCHANGED <<live, held, garbage, gc, histVars>>
  BY <1>0 DEF DeallocBegins
<1>2. /\ TypeOK /\ HeapOK /\ WeakOK /\ Separate(stack) /\ FramesOK /\ MoveOK
      /\ ListsApart /\ Listed = live \ Buried
  BY DEF HeapInv
<1>3. /\ o \in live /\ o \in Obj /\ live \subseteq Obj /\ Unreferred(o)
      /\ \A g \in Range(stack) : ~(g.op = "dealloc" /\ g.obj = o)
  <2>1. IsFiniteSet(live) /\ stack \in Seq(Frames) /\ live \subseteq Obj
    BY <1>2 DEF HeapOK, TypeOK
  <2>2. o \in {x \in live : Unreferred(x) /\ \A g \in Range(stack) : ~(g.op = "dealloc" /\ g.obj = x)}
    BY <2>1, DoomedIs
  <2> QED BY <2>1, <2>2
<1>4. ~Moves
  BY <1>2 DEF MoveOK
<1>5. \A w \in W : w \in Weak /\ w \in live /\ w \notin Buried /\ w # o /\ w \in Obj
  <2>1. ASSUME NEW w \in W PROVE w \in live /\ w \notin Buried /\ w # o
    <3>1. w \in Weak /\ w \in Obj /\ wr_object[w] = o /\ o # None
      BY <1>0, <1>3 DEF ObjAssumption
    <3>2. w \in live /\ <<w, o>> \in MayWatch
      BY <1>2, <3>1 DEF WeakOK
    <3>3. \A g \in Range(stack) : ~Buries(g, w)
      BY <1>2, <3>1 DEF FramesOK, FrameOK, DeallocOK, Buries
    <3>4. w # o
      BY <3>1, <3>2 DEF ObjAssumption
    <3> QED BY <3>2, <3>3, <3>4 DEF Buried
  <2> QED BY <1>0, <2>1 DEF ObjAssumption
<1>6. \A wc \in calls : wc[1] \in W /\ wc[2] \in live /\ wc[2] \notin Buried /\ wc[2] # o
  <2>1. ASSUME NEW wc \in calls PROVE wc[1] \in W /\ wc[2] \in live /\ wc[2] \notin Buried /\ wc[2] # o
    <3>1. wc[1] \in W /\ wc[2] \in refs[wc[1]]
      BY <1>0
    <3>2. wc[1] \in live /\ wc[1] \in Obj
      BY <1>5, <3>1
    <3> QED BY <1>2, <1>3, <3>1, <3>2 DEF HeapOK, Lost, Unreferred, TypeOK
  <2> QED BY <2>1
<1>7. holds \subseteq live \ Buried /\ o \notin holds /\ owners \subseteq W
  BY <1>0, <1>5, <1>6
<1>8. f \in Frames /\ f.op = "dealloc" /\ f.obj = o /\ f.stage = "call" /\ f.holds = holds /\ f.calls = calls
  <2>1. calls \subseteq W \X Obj /\ W \subseteq Weak
    BY <1>0
  <2>2. calls \in SUBSET (Weak \X Obj) /\ holds \in SUBSET Obj /\ "call" \in {"call", "del", "deleted"}
    BY <1>3, <1>7, <2>1
  <2> QED BY <1>0, <1>3, <2>2, DeallocFrame
<1>9. stack' \in Seq(Frames) /\ Separate(stack') /\ Range(stack') = Range(stack) \cup {f}
  <2>1. \A g \in Range(stack) : ~Same(f, g) /\ ~Same(g, f)
    BY <1>3, <1>8 DEF Same
  <2>2. stack \in Seq(Frames)
    BY <1>2 DEF TypeOK
  <2> QED BY <1>1, <1>2, <1>8, <2>1, <2>2, PushedOn
<1>10. /\ refs' \in [Obj -> SUBSET live] /\ \A p \in Obj : refs'[p] \subseteq refs[p]
       /\ wr_object' \in [Obj -> Obj \cup {None}] /\ wr_object'[o] = None
       /\ \A p \in Obj : wr_object'[p] = None \/ wr_object'[p] = wr_object[p]
       /\ \A w \in Obj : wr_object'[w] # o
  <2>1. /\ refs' \in [Obj -> SUBSET live] /\ \A p \in Obj : refs'[p] \subseteq refs[p]
        /\ wr_object' \in [Obj -> Obj \cup {None}] /\ wr_object'[o] = None
        /\ \A p \in Obj : wr_object'[p] = None \/ wr_object'[p] = wr_object[p]
    BY <1>1, <1>2, <1>3 DEF Cleared, TypeOK
  <2>2. ASSUME NEW w \in Obj PROVE wr_object'[w] # o
    <3>1. o # None
      BY <1>3 DEF ObjAssumption
    <3>2. wr_object[w] = o => w \in W
      BY <1>0, <1>2, <3>1 DEF WeakOK, ObjAssumption
    <3>3. wr_object'[w] = IF w \in W \cup {o} THEN None ELSE wr_object[w]
      BY <1>1, <1>2 DEF Cleared, TypeOK
    <3> QED BY <3>1, <3>2, <3>3
  <2> QED BY <2>1, <2>2
<1>11. Untracked(o)
  BY <1>1, <1>2, UntrackIs
<1>12. /\ ListsApart' /\ Listed' = Listed \ {o}
       /\ generations' \in [Generation -> Seq(Obj)]
       /\ unreachable' \in Seq(Obj) /\ finalizers' \in Seq(Obj) /\ wrcb_to_call' \in Seq(Obj)
       /\ MoveOK'
       /\ \A g : CollectOK(g) => CollectOK(g)'
  BY <1>1, <1>4, <1>11, UntrackedKeeps
<1>13. TypeOK'
  <2>1. \A g \in Range(stack') : g.holds \subseteq live
    BY <1>2, <1>7, <1>8, <1>9, StackIs
  <2>2. \A i \in DOMAIN stack' : stack'[i].holds \subseteq live
    BY <2>1, RangeIs
  <2> QED BY <1>1, <1>2, <1>9, <1>10, <1>12, <2>2 DEF TypeOK, histVars
<1>14. Buried' = Buried \cup {o}
  <2>1. \A b : Buries(f, b) <=> b = o
    BY <1>8 DEF Buries
  <2> QED BY <1>1, <1>3, <1>9, <2>1 DEF Buried
<1>15. HeapOK'
  <2>1. ASSUME NEW b \in Buried \cup {o} PROVE Lost(b)'
    <3>1. Unreferred(b) /\ b \notin f.holds
      BY <1>2, <1>3, <1>7, <1>8 DEF HeapOK, Lost
    <3>2. Unreferred(b)'
      BY <1>1, <1>3, <1>9, <1>10, <3>1 DEF Unreferred
    <3>3. \A w \in Obj : wr_object'[w] # b
      <4>1. b = o \/ (Lost(b) /\ b # None)
        BY <1>2, <1>3 DEF HeapOK, Buried, ObjAssumption
      <4> QED BY <1>10, <4>1 DEF Lost
    <3> QED BY <3>2, <3>3 DEF Lost
  <2>2. \A p \in Obj \ live : refs'[p] = {}
    BY <1>2, <1>10 DEF HeapOK
  <2> QED BY <1>1, <1>2, <1>14, <2>1, <2>2 DEF HeapOK
<1>16. WeakOK'
  <2>1. live' = live /\ WeakOK
    BY <1>1, <1>2
  <2>2. \A w \in Obj : wr_object'[w] = None \/ wr_object'[w] = wr_object[w]
    BY <1>10
  <2> QED BY <2>1, <2>2 DEF WeakOK
<1>17. FramesOK'
  <2>1. ASSUME NEW h \in Range(stack) PROVE FrameOK(h)'
    <3>1. FrameOK(h)
      BY <1>2 DEF FramesOK
    <3>2. ASSUME h.op = "dealloc" PROVE DeallocOK(h)'
      <4>1. DeallocOK(h) /\ h.obj \in Obj
        BY <1>3, <3>1, <3>2 DEF FrameOK, DeallocOK
      <4> QED BY <1>1, <1>10, <4>1 DEF DeallocOK
    <3> QED BY <1>12, <3>1, <3>2 DEF FrameOK
  <2>2. \A wc \in calls : {wc[1], wc[2]} \subseteq holds
    BY <1>0
  <2>3. FrameOK(f)'
    BY <1>1, <1>3, <1>8, <1>10, <2>2 DEF FrameOK, DeallocOK
  <2> QED BY <1>9, <2>1, <2>3 DEF FramesOK
<1>18. Listed' = live' \ Buried'
  BY <1>1, <1>2, <1>12, <1>14
<1> QED BY <1>9, <1>12, <1>13, <1>15, <1>16, <1>17, <1>18 DEF HeapInv

\* A deallocation calls __del__.
LEMMA DeallocFinalizesKeeps ==
  ASSUME HeapInv, ObjAssumption, DeallocFinalizes
  PROVE  HeapInv'
<1>0. PICK o, f, g : o = Top.obj /\ f = Dealloc(o, "deleted", {}, {}) /\ g = Call({o})
  OBVIOUS
<1>1. /\ stack # <<>> /\ Top.op = "dealloc" /\ Top.stage = "del" /\ o \in Finalizer /\ Track(o)
      /\ stack' = Front(stack) \o <<f, g>>
      /\ UNCHANGED <<heapVars, unreachable, finalizers, wrcb_to_call, gc, histVars>>
  BY <1>0 DEF DeallocFinalizes, In
<1>2. /\ TypeOK /\ HeapOK /\ WeakOK /\ Separate(stack) /\ FramesOK /\ MoveOK
      /\ ListsApart /\ Listed = live \ Buried
  BY DEF HeapInv
<1>3. /\ stack \in Seq(Frames) /\ Top \in Range(stack) /\ Top \in Frames /\ DeallocOK(Top)
      /\ ~Moves /\ live \subseteq Obj
  BY <1>1, <1>2, StackIs DEF TypeOK, FramesOK, FrameOK, MoveOK
<1>4. o \in live /\ o \in Obj /\ o \in Buried /\ o \notin Weak
  BY <1>0, <1>1, <1>3 DEF DeallocOK, Buried, Buries, ObjAssumption
<1>5. f \in Frames /\ f.op = "dealloc" /\ f.obj = o /\ f.stage = "deleted" /\ f.holds = {} /\ f.calls = {}
  <2>1. "deleted" \in {"call", "del", "deleted"} /\ {} \in SUBSET Obj /\ {} \in SUBSET (Weak \X Obj)
    OBVIOUS
  <2> QED BY <1>0, <1>4, <2>1, DeallocFrame
<1>6. g \in Frames /\ Plain(g) /\ g.holds = {o}
  <2>1. {o} \in SUBSET Obj
    BY <1>4
  <2> QED BY <1>0, <2>1, PlainFrames
<1>7. Replaced({f, g})
  BY <1>0, <1>1, <1>2, <1>3, <1>5, <1>6, ReplacedBySome DEF Fits, Same
<1>8. /\ stack' \in Seq(Frames) /\ Separate(stack')
      /\ Range(stack) = Below(stack) \cup {Top} /\ Range(stack') = Below(stack) \cup {f, g}
  BY <1>7 DEF Replaced
<1>9. Tidy(generations') /\ Members(generations') = Gens \cup {o} /\ o \notin Listed
  <2>1. Tidy(generations) /\ o \notin Members(generations) /\ o \notin Listed
    BY <1>2, <1>4 DEF ListsApart, Listed, Gens
  <2>2. 0 \in Generation /\ generations' = [generations EXCEPT ![0] = Append(generations[0], o)]
    BY <1>1 DEF Track, Generation, ObjAssumption
  <2>3. Tidy(generations') /\ Members(generations') = Members(generations) \cup {o}
    BY <1>4, <2>1, <2>2, TidyAppend
  <2> QED BY <2>1, <2>3 DEF Gens
<1>10. UNCHANGED <<live, refs, wr_object, held, garbage, unreachable, finalizers, wrcb_to_call, gc,
                   cleared, trash, called>>
  BY <1>1 DEF heapVars, histVars
<1>11. TypeOK'
  <2>1. \A h \in Range(stack') : h.holds \subseteq live
    BY <1>4, <1>5, <1>6, <1>7, <1>8, BelowIs
  <2>2. \A i \in DOMAIN stack' : stack'[i].holds \subseteq live
    BY <2>1, RangeIs
  <2> QED BY <1>2, <1>8, <1>9, <1>10, <2>2 DEF TypeOK, Tidy
<1>12. Buried' = Buried \ {o}
  <2>1. \A b : ~Buries(f, b) /\ ~Buries(g, b)
    BY <1>5, <1>6 DEF Buries, Plain
  <2>2. \A b : Buries(Top, b) <=> b = o
    BY <1>0, <1>1 DEF Buries
  <2>3. \A h \in Below(stack) : ~Buries(h, o)
    BY <1>0, <1>1, <1>7, BelowIs DEF Buries
  <2>4. \A b : (\E h \in Range(stack') : Buries(h, b)) <=> (\E h \in Range(stack) : Buries(h, b)) /\ b # o
    BY <1>8, <2>1, <2>2, <2>3
  <2> QED BY <1>10, <2>4 DEF Buried
<1>13. HeapOK'
  <2>1. ASSUME NEW b \in Buried, b # o PROVE Lost(b)'
    <3>1. \A h \in Range(stack') : b \notin h.holds
      BY <1>5, <1>6, <1>7, <1>8, <2>1, BelowIs
    <3> QED BY <1>2, <1>10, <2>1, <3>1 DEF HeapOK, Lost, Unreferred
  <2> QED BY <1>2, <1>10, <1>12, <2>1 DEF HeapOK
<1>14. WeakOK'
  BY <1>2, <1>10 DEF WeakOK
<1>15. FramesOK'
  <2>1. ASSUME NEW h \in Below(stack) PROVE FrameOK(h)'
    <3>1. FrameOK(h)
      BY <1>7, BelowIs
    <3> QED BY <1>10, <3>1 DEF FrameOK, DeallocOK, CollectOK, HeadOf
  <2>2. FrameOK(f)'
    BY <1>1, <1>4, <1>5, <1>10 DEF FrameOK, DeallocOK
  <2>3. FrameOK(g)'
    BY <1>6 DEF FrameOK, Plain
  <2> QED BY <1>8, <2>1, <2>2, <2>3 DEF FramesOK
<1>16. MoveOK'
  BY <1>2, <1>3, <1>10 DEF MoveOK, Moves
<1>17. ListsApart' /\ Listed' = Listed \cup {o}
  <2>1. Tidy(generations)' /\ Gens' = Gens \cup {o}
    BY <1>9 DEF Tidy, Members, Gens
  <2> QED BY <1>2, <1>9, <1>10, <2>1 DEF ListsApart, Listed
<1>18. Listed' = live' \ Buried'
  BY <1>2, <1>4, <1>10, <1>12, <1>17
<1> QED BY <1>8, <1>11, <1>13, <1>14, <1>15, <1>16, <1>17, <1>18 DEF HeapInv

\* A deallocation frees the object.
LEMMA DeallocEndsKeeps ==
  ASSUME HeapInv, ObjAssumption, DeallocEnds
  PROVE  HeapInv'
<1>0. PICK o : o = Top.obj
  OBVIOUS
<1>1. /\ stack # <<>> /\ Top.op = "dealloc" /\ ob_refcnt(o) = 0
      /\ Untrack(o) /\ wr_object' = Cleared(wr_object, NewWeakrefs(o), None)
      /\ live' = live \ {o} /\ refs' = [refs EXCEPT ![o] = {}]
      /\ stack' = Front(stack) \o Rest(refs[o])
      /\ cleared' = cleared \ {o} /\ trash' = trash \ {o} /\ called' = called \ {o}
      /\ UNCHANGED <<held, garbage, gc>>
  BY <1>0 DEF DeallocEnds, In
<1>2. /\ TypeOK /\ HeapOK /\ WeakOK /\ Separate(stack) /\ FramesOK /\ MoveOK
      /\ ListsApart /\ Listed = live \ Buried
  BY DEF HeapInv
<1>3. /\ stack \in Seq(Frames) /\ Top \in Range(stack) /\ Top \in Frames /\ DeallocOK(Top)
      /\ ~Moves /\ live \subseteq Obj /\ IsFiniteSet(live)
  BY <1>1, <1>2, StackIs DEF TypeOK, FramesOK, FrameOK, MoveOK, HeapOK
<1>4. o \in live /\ o \in Obj /\ o # None /\ Unreferred(o) /\ (o \in Weak => wr_object[o] = None)
  BY <1>0, <1>1, <1>3, RefcntZero DEF DeallocOK, ObjAssumption
<1>5. /\ refs[o] \subseteq live \ Buried /\ o \notin refs[o] /\ refs[o] \in SUBSET Obj
  <2>1. refs[o] \subseteq live /\ o \notin refs[o]
    BY <1>2, <1>4 DEF TypeOK, Unreferred
  <2>2. \A b \in Buried : b \notin refs[o]
    BY <1>2, <1>4 DEF HeapOK, Lost, Unreferred
  <2> QED BY <1>3, <2>1, <2>2
<1>6. PICK F : F = RestSet(refs[o])
  OBVIOUS
<1>7. \A h \in F : h \in Frames /\ Plain(h) /\ h.holds = refs[o]
  BY <1>5, <1>6, RestFrames
<1>8. Replaced(F)
  <2>1. Drop(refs[o]) \in Frames
    BY <1>5, FrameKinds
  <2> QED BY <1>1, <1>2, <1>3, <1>6, <2>1, ReplacedByRest
<1>9. /\ stack' \in Seq(Frames) /\ Separate(stack')
      /\ Range(stack) = Below(stack) \cup {Top} /\ Range(stack') = Below(stack) \cup F
  BY <1>8 DEF Replaced
<1>10. Untracked(o)
  BY <1>1, <1>2, UntrackIs
<1>11. /\ ListsApart' /\ Listed' = Listed \ {o}
       /\ generations' \in [Generation -> Seq(Obj)]
       /\ unreachable' \in Seq(Obj) /\ finalizers' \in Seq(Obj) /\ wrcb_to_call' \in Seq(Obj)
       /\ MoveOK'
       /\ \A g : CollectOK(g) => CollectOK(g)'
  BY <1>1, <1>3, <1>10, UntrackedKeeps
<1>12. /\ wr_object' \in [Obj -> Obj \cup {None}]
       /\ \A p \in Obj : wr_object'[p] = None \/ wr_object'[p] = wr_object[p]
       /\ \A w \in Obj : wr_object'[w] # o
  <2>1. /\ wr_object' \in [Obj -> Obj \cup {None}]
        /\ \A p \in Obj : wr_object'[p] = IF p \in NewWeakrefs(o) THEN None ELSE wr_object[p]
    BY <1>1, <1>2 DEF Cleared, TypeOK
  <2>2. \A w \in Obj : wr_object[w] = o => w \in NewWeakrefs(o)
    BY <1>2, <1>4 DEF WeakOK, ObjAssumption, NewWeakrefs
  <2> QED BY <1>4, <2>1, <2>2
<1>13. /\ refs' \in [Obj -> SUBSET live'] /\ refs'[o] = {} /\ \A p \in Obj \ {o} : refs'[p] = refs[p]
       /\ held' \subseteq live' /\ garbage' \subseteq live'
  <2>1. \A p \in Obj : o \notin refs[p]
    BY <1>2, <1>4 DEF HeapOK, Unreferred
  <2>2. \A p \in Obj : refs[p] \subseteq live'
    BY <1>1, <1>2, <2>1 DEF TypeOK
  <2>3. held' \subseteq live' /\ garbage' \subseteq live'
    BY <1>1, <1>2, <1>4 DEF TypeOK, Unreferred
  <2>4. refs \in [Obj -> SUBSET live']
    BY <1>2, <2>2 DEF TypeOK
  <2> QED BY <1>1, <1>4, <2>3, <2>4
<1>14. \A h \in Range(stack') : h.holds \subseteq live' \ Buried
  <2>1. \A h \in Below(stack) : h.holds \subseteq live \ Buried /\ o \notin h.holds
    BY <1>4, <1>8, BelowIs DEF Unreferred
  <2>2. \A h \in F : h.holds \subseteq live \ Buried /\ o \notin h.holds
    BY <1>5, <1>7
  <2> QED BY <1>1, <1>9, <2>1, <2>2
<1>15. TypeOK'
  <2>1. \A i \in DOMAIN stack' : stack'[i].holds \subseteq live'
    BY <1>14, RangeIs
  <2>2. live' \subseteq Obj /\ cleared' \subseteq live' /\ trash' \subseteq live' /\ called' \subseteq live'
    BY <1>1, <1>2 DEF TypeOK
  <2> QED BY <1>1, <1>2, <1>9, <1>11, <1>12, <1>13, <2>1, <2>2 DEF TypeOK
<1>16. Buried' = Buried \ {o}
  <2>1. \A h \in F : \A b : ~Buries(h, b)
    BY <1>7 DEF Buries, Plain
  <2>2. \A b : Buries(Top, b) => b = o
    BY <1>0, <1>1 DEF Buries
  <2>3. \A b : b # o => ((\E h \in Range(stack') : Buries(h, b)) <=> (\E h \in Range(stack) : Buries(h, b)))
    BY <1>9, <2>1, <2>2
  <2> QED BY <1>1, <2>3 DEF Buried
<1>17. HeapOK'
  <2>1. ASSUME NEW b \in Buried, b # o PROVE Lost(b)'
    <3>1. Lost(b) /\ b # None
      BY <1>2, <1>3, <2>1 DEF HeapOK, Buried, ObjAssumption
    <3>2. \A h \in Range(stack') : b \notin h.holds
      BY <1>14, <2>1
    <3>3. \A p \in live' : b \notin refs'[p]
      BY <1>1, <1>3, <1>13, <3>1 DEF Lost, Unreferred
    <3>4. \A w \in Obj : wr_object'[w] # b
      BY <1>12, <3>1 DEF Lost
    <3> QED BY <1>1, <3>1, <3>2, <3>3, <3>4 DEF Lost, Unreferred
  <2>2. \A p \in Obj \ live' : refs'[p] = {}
    BY <1>1, <1>2, <1>13 DEF HeapOK
  <2>3. IsFiniteSet(live')
    BY <1>1, <1>3, FS_Subset
  <2> QED BY <1>16, <2>1, <2>2, <2>3 DEF HeapOK
<1>18. WeakOK'
  <2>1. ASSUME NEW w \in Obj, wr_object'[w] # None
        PROVE  {w, wr_object'[w]} \subseteq live' /\ <<w, wr_object'[w]>> \in MayWatch
    <3>1. wr_object'[w] = wr_object[w] /\ wr_object'[w] # o
      BY <1>12, <2>1
    <3>2. {w, wr_object[w]} \subseteq live /\ <<w, wr_object[w]>> \in MayWatch
      BY <1>2, <2>1, <3>1 DEF WeakOK
    <3>3. w # o
      BY <1>4, <2>1, <3>1, <3>2 DEF ObjAssumption
    <3> QED BY <1>1, <3>1, <3>2, <3>3
  <2> QED BY <2>1 DEF WeakOK
<1>19. FramesOK'
  <2>1. ASSUME NEW h \in Below(stack) PROVE FrameOK(h)'
    <3>1. FrameOK(h) /\ (h.op = "dealloc" => h.obj # o)
      BY <1>0, <1>1, <1>8, BelowIs
    <3>2. ASSUME h.op = "dealloc" PROVE DeallocOK(h)'
      <4>1. DeallocOK(h) /\ h.obj \in live' /\ h.obj \in Obj
        BY <1>1, <1>3, <3>1, <3>2 DEF FrameOK, DeallocOK
      <4> QED BY <1>12, <4>1 DEF DeallocOK
    <3> QED BY <1>11, <3>1, <3>2 DEF FrameOK
  <2>2. \A h \in F : FrameOK(h)'
    BY <1>7 DEF FrameOK, Plain
  <2> QED BY <1>9, <2>1, <2>2 DEF FramesOK
<1>20. Listed' = live' \ Buried'
  BY <1>1, <1>2, <1>11, <1>16
<1> QED BY <1>9, <1>11, <1>15, <1>17, <1>18, <1>19, <1>20 DEF HeapInv
-----------------------------------------------------------------------------
(* The theorems.                                                            *)

\* HeapInv holds initially ...
LEMMA InitHeapInv ==
  ASSUME ObjAssumption, Init
  PROVE  HeapInv
<1>1. /\ live = {} /\ held = {} /\ garbage = {}
      /\ refs = [o \in Obj |-> {}] /\ wr_object = [o \in Obj |-> None]
      /\ generations = [g \in Generation |-> <<>>]
      /\ unreachable = <<>> /\ finalizers = <<>> /\ wrcb_to_call = <<>>
      /\ gc = NoCollection /\ stack = <<>>
      /\ cleared = {} /\ trash = {} /\ called = {}
  BY DEF Init
<1>2. DOMAIN <<>> = {} /\ <<>> \in Seq(Obj) /\ <<>> \in Seq(Frames)
  OBVIOUS
<1>3. Range(<<>>) = {} /\ IsInjective(<<>>)
  BY <1>2 DEF Range, IsInjective
<1>4. DOMAIN stack = {} /\ Range(stack) = {}
  BY <1>1, <1>2, <1>3
<1>5. TypeOK
  BY <1>1, <1>2 DEF TypeOK
<1>6. Buried = {}
  BY <1>1 DEF Buried
<1>7. HeapOK
  BY <1>1, <1>6, FS_EmptySet DEF HeapOK
<1>8. WeakOK
  BY <1>1 DEF WeakOK
<1>9. Separate(stack) /\ FramesOK
  BY <1>4 DEF Separate, FramesOK
<1>10. MoveOK
  BY <1>1 DEF MoveOK, Moves
<1>11. \A g \in Generation : generations[g] = <<>>
  BY <1>1
<1>12. Gens = {}
  BY <1>3, <1>11 DEF Gens, Members
<1>13. Tidy(generations)
  BY <1>1, <1>2, <1>3, <1>11 DEF Tidy
<1>14. ListsApart /\ Listed = live \ Buried
  BY <1>1, <1>3, <1>6, <1>12, <1>13 DEF ListsApart, Listed
<1> QED BY <1>5, <1>7, <1>8, <1>9, <1>10, <1>14 DEF HeapInv

\* ... and every step keeps it, action by action.
LEMMA NextHeapInv ==
  ASSUME ObjAssumption, HeapInv, [Next]_vars
  PROVE  HeapInv'
<1>1. CASE \E o \in Doomed : DeallocBegins(o)
  BY <1>1, DeallocBeginsKeeps
<1>2. CASE Return
  BY <1>2, ReturnKeeps
<1>3. CASE Deallocation
  <2>1. ASSUME NEW o \in Obj, Py_DECREF(o) PROVE HeapInv'
    BY <2>1, Py_DECREFKeeps
  <2>2. ASSUME NEW wc \in Weak \X Obj, DeallocCalls(wc) PROVE HeapInv'
    BY <2>2, DeallocCallsKeeps
  <2>3. CASE DeallocCalled
    BY <2>3, DeallocCalledKeeps
  <2>4. CASE DeallocFinalizes
    BY <2>4, DeallocFinalizesKeeps
  <2>5. CASE DeallocResurrected
    BY <2>5, DeallocResurrectedKeeps
  <2>6. CASE DeallocEnds
    BY <2>6, DeallocEndsKeeps
  <2> QED BY <1>3, <2>1, <2>2, <2>3, <2>4, <2>5, <2>6 DEF Deallocation
<1>4. CASE Collecting
  <2>1. CASE MoveNext
    BY <2>1, MoveNextKeeps
  <2>2. CASE MoveEnds
    BY <2>2, MoveEndsKeeps
  <2>3. CASE CallNext
    BY <2>3, CallNextKeeps
  <2>4. CASE CallsEnd
    BY <2>4, CallsEndKeeps
  <2>5. CASE CollectDecref
    BY <2>5, CollectDecrefKeeps
  <2>6. CASE CallMoves
    BY <2>6, CallMovesKeeps
  <2>7. CASE ClearNext
    BY <2>7, ClearNextKeeps
  <2>8. CASE DeleteMoves
    BY <2>8, DeleteMovesKeeps
  <2>9. CASE CollectEnds
    BY <2>9, CollectEndsKeeps
  <2> QED BY <1>4, <2>1, <2>2, <2>3, <2>4, <2>5, <2>6, <2>7, <2>8, <2>9 DEF Collecting
<1>5. CASE PythonRuns /\ Program
  <2>1. ASSUME NEW o \in Obj, New(o) PROVE HeapInv'
    BY <1>5, <2>1, NewKeeps
  <2>2. ASSUME NEW o \in Obj, Release(o) \/ Discard(o) PROVE HeapInv'
    BY <1>5, <2>2, HoldKeeps
  <2>3. ASSUME NEW o \in Accessible, Hold(o) PROVE HeapInv'
    BY <1>5, <2>3, HoldKeeps
  <2>4. ASSUME NEW o \in Accessible, NEW p \in Accessible, Store(o, p) \/ Erase(o, p) PROVE HeapInv'
    BY <1>5, <2>4, StoreKeeps
  <2>5. ASSUME NEW w \in Weak, NEW o \in Accessible, PyWeakref_NewRef(w, o) PROVE HeapInv'
    BY <1>5, <2>5, PyWeakref_NewRefKeeps
  <2>6. ASSUME NEW g \in Generation, Collect(g) PROVE HeapInv'
    BY <1>5, <2>6, CollectKeeps
  <2> QED BY <1>5, <2>1, <2>2, <2>3, <2>4, <2>5, <2>6 DEF Program
<1>6. CASE UNCHANGED vars
  <2>1. UNCHANGED <<live, refs, wr_object, held, garbage, generations, unreachable, finalizers,
                    wrcb_to_call, gc, stack, cleared, trash, called>>
    BY <1>6 DEF vars, heapVars, listVars, histVars
  <2>2. TypeOK' /\ WeakOK' /\ Separate(stack') /\ ListsApart' /\ Listed' = Listed /\ Buried' = Buried
    BY <2>1 DEF HeapInv, TypeOK, WeakOK, ListsApart, Tidy, Listed, Gens, Members, Buried
  <2>3. HeapOK' /\ FramesOK'
    BY <2>1, <2>2 DEF HeapInv, HeapOK, Lost, Unreferred, FramesOK, FrameOK, DeallocOK, CollectOK, HeadOf
  <2>4. Doomed' = Doomed
    BY <2>1 DEF Doomed, ob_refcnt, Referring, InDealloc
  <2>5. MoveOK'
    BY <2>1, <2>4 DEF HeapInv, MoveOK, Moves, Top, young
  <2> QED BY <2>1, <2>2, <2>3, <2>5 DEF HeapInv
<1> QED BY <1>1, <1>2, <1>3, <1>4, <1>5, <1>6 DEF Next

\* HeapInv is an invariant of the collector, weak references and deallocation.
THEOREM HeapInvHolds == Spec => []HeapInv
<1>1. Init => HeapInv
  BY InitHeapInv, ObjAssumption
<1>2. HeapInv /\ [Next]_vars => HeapInv'
  BY NextHeapInv, ObjAssumption
<1> QED BY <1>1, <1>2, PTL DEF Spec

\* The heap, the lists and the functions under way have the shape that the code relies on.
THEOREM TypeCorrect == Spec => []TypeOK
<1>1. HeapInv => TypeOK
  BY DEF HeapInv
<1> QED BY <1>1, HeapInvHolds, PTL

\* However callbacks, __del__ and deallocations change the lists while the collector walks them,
\* every object that is not being deallocated is in one of them, once.
THEOREM ListsAlwaysExact == Spec => []ListsExact
<1>1. ASSUME HeapInv PROVE ListsExact
  <2> DEFINE N == NUM_GENERATIONS
  <2>1. /\ TypeOK /\ ListsApart /\ Listed = live \ Buried /\ N \in Nat \ {0}
    BY <1>1, ObjAssumption DEF HeapInv, ObjAssumption
  <2>2. /\ \A i \in Generation : List(i) = generations[i] /\ i \in Lists
        /\ List(N) = unreachable /\ List(N + 1) = finalizers /\ List(N + 2) = wrcb_to_call
        /\ {N, N + 1, N + 2} \subseteq Lists
        /\ \A i \in Lists : i \in Generation \/ i \in {N, N + 1, N + 2}
    BY <2>1 DEF List, Lists, Generation
  <2> HIDE DEF N
  <2>3. UNION {Range(List(i)) : i \in Lists} = Listed
    <3>1. ASSUME NEW x, x \in UNION {Range(List(i)) : i \in Lists} PROVE x \in Listed
      BY <2>2, <3>1 DEF Listed, Gens, Members
    <3>2. ASSUME NEW x, x \in Listed PROVE x \in UNION {Range(List(i)) : i \in Lists}
      BY <2>2, <3>2 DEF Listed, Gens, Members
    <3> QED BY <3>1, <3>2
  <2>4. \A i \in Lists : IsInjective(List(i))
    BY <2>1, <2>2 DEF ListsApart, Tidy
  <2>5. \A i, j \in Lists : i # j => Range(List(i)) \cap Range(List(j)) = {}
    <3> SUFFICES ASSUME NEW i \in Lists, NEW j \in Lists, i # j
                 PROVE  Range(List(i)) \cap Range(List(j)) = {}
      OBVIOUS
    <3>1. \A g \in Generation : Range(generations[g]) \subseteq Gens
      BY DEF Gens, Members
    <3>2. CASE i \in Generation /\ j \in Generation
      BY <2>1, <2>2, <3>2 DEF ListsApart, Tidy
    <3>3. CASE i \notin Generation \/ j \notin Generation
      BY <2>1, <2>2, <3>1, <3>3 DEF ListsApart
    <3> QED BY <3>2, <3>3
  <2>6. ASSUME NEW i \in Lists, NEW j \in Lists, NEW m \in DOMAIN List(i), NEW n \in DOMAIN List(j),
               List(i)[m] = List(j)[n]
        PROVE  i = j /\ m = n
    <3>1. List(i)[m] \in Range(List(i)) /\ List(j)[n] \in Range(List(j))
      BY RangeIs
    <3>2. i = j
      BY <2>5, <2>6, <3>1
    <3> QED BY <2>4, <2>6, <3>2 DEF IsInjective
  <2>7. {o \in live : ~InDealloc(o)} \subseteq Listed
    <3>1. \A o : (\E f \in Range(stack) : f.op = "dealloc" /\ f.obj = o) => InDealloc(o)
      BY RangeIs DEF InDealloc
    <3> QED BY <2>1, <3>1 DEF Buried, Buries
  <2> QED BY <2>1, <2>3, <2>6, <2>7 DEF ListsExact
<1> QED BY <1>1, HeapInvHolds, PTL
-----------------------------------------------------------------------------
(* What move_unreachable computes.                                          *)

Collected == Range(young) \cup Range(unreachable)
Outside == {o \in Collected : ob_refcnt(o) > Cardinality(Referring(Collected, o))}
Within == Reaching(Outside, Collected, refs)
Scanned == {young[i] : i \in 1 .. gc.scanned}
\* Nothing found so far leads to o.
Unseen(o) == o \notin Outside /\ \A p \in Scanned : o \notin refs[p]

\* What the comments of move_unreachable claim of gc_refs: what was scanned is reachable from
\* outside, what is still to be scanned has a positive gc_refs only if it is, and nothing that
\* was found leads to the rest.
ScanInv ==
  Moves => LET r == gc.gc_refs IN
    /\ \A o \in Obj \ Collected : r[o] = GC_REACHABLE
    /\ \A o \in Scanned : r[o] = GC_REACHABLE /\ o \in Within
    /\ \A o \in Range(young) \ Scanned : r[o] >= 0 /\ IF r[o] = 0 THEN Unseen(o) ELSE o \in Within
    /\ \A o \in Range(unreachable) : r[o] = GC_TENTATIVELY_UNREACHABLE /\ Unseen(o)

\* The young list while it is scanned.
LEMMA YoungIs ==
  ASSUME HeapInv, Moves
  PROVE  /\ young \in Seq(Obj) /\ Len(young) \in Nat /\ DOMAIN young = 1 .. Len(young)
         /\ IsInjective(young) /\ gc.scanned \in Nat /\ gc.scanned <= Len(young)
         /\ Scanned \subseteq Range(young) /\ Range(young) \cap Range(unreachable) = {}
         /\ Range(young) \subseteq live /\ Range(unreachable) \subseteq live
         /\ gc.gc_refs \in [Obj -> Int] /\ gc.phase = "move" /\ gc # NoCollection
         /\ live \subseteq Obj /\ IsFiniteSet(live) /\ refs \in [Obj -> SUBSET live]
<1>1. /\ TypeOK /\ HeapOK /\ MoveOK /\ ListsApart /\ Listed = live \ Buried
  BY DEF HeapInv
<1>2. gc.scanned \in Nat /\ gc.gc_refs \in [Obj -> Int] /\ gc.generation \in Generation
  BY <1>1, PhaseIs DEF Moves
<1>3. young \in Seq(Obj) /\ IsInjective(young) /\ Range(young) \subseteq Gens
  BY <1>1, <1>2 DEF young, TypeOK, ListsApart, Tidy, Gens, Members
<1>4. Len(young) \in Nat /\ DOMAIN young = 1 .. Len(young)
  BY <1>3
<1>5. gc.scanned <= Len(young)
  BY <1>1 DEF MoveOK
<1>6. Scanned \subseteq Range(young)
  <2>1. \A i \in 1 .. gc.scanned : i \in DOMAIN young
    BY <1>2, <1>4, <1>5
  <2> QED BY <2>1, RangeIs DEF Scanned
<1>7. /\ Range(young) \cap Range(unreachable) = {}
      /\ Range(young) \subseteq live /\ Range(unreachable) \subseteq live
  BY <1>1, <1>3 DEF ListsApart, Listed
<1> QED BY <1>1, <1>2, <1>3, <1>4, <1>5, <1>6, <1>7 DEF TypeOK, HeapOK, Moves

\* While the lists are scanned, no reference changes.
LEMMA ScanStep ==
  ASSUME UNCHANGED <<heapVars, stack>>, Collected' = Collected
  PROVE  Outside' = Outside /\ Within' = Within /\ refs' = refs
<1>1. UNCHANGED <<live, refs, held, garbage, stack>>
  BY DEF heapVars
<1>2. \A o, S : Referring(S, o)' = Referring(S, o)
  BY <1>1 DEF Referring
<1>3. \A o : ob_refcnt(o)' = ob_refcnt(o)
  BY <1>1 DEF ob_refcnt, Referring
<1>4. Outside' = Outside
  BY <1>1, <1>3 DEF Outside, Referring
<1> QED BY <1>1, <1>4 DEF Within, Reaching

\* move_unreachable visits an object that something from outside leads to.
LEMMA VisitScans ==
  ASSUME HeapInv, ScanInv, Moves, gc.scanned < Len(young), NEW o, o = young[gc.scanned + 1],
         gc.gc_refs[o] # 0, Visits(o), UNCHANGED <<heapVars, stack>>
  PROVE  ScanInv'
<1>1. /\ young \in Seq(Obj) /\ Len(young) \in Nat /\ DOMAIN young = 1 .. Len(young)
      /\ IsInjective(young) /\ gc.scanned \in Nat
      /\ Scanned \subseteq Range(young) /\ Range(young) \cap Range(unreachable) = {}
      /\ Range(young) \subseteq live /\ Range(unreachable) \subseteq live
      /\ gc.gc_refs \in [Obj -> Int] /\ live \subseteq Obj /\ IsFiniteSet(live) /\ refs \in [Obj -> SUBSET live]
  BY YoungIs
<1> DEFINE n == gc.scanned
           r == gc.gc_refs
           found == Found(o)
           R == [Cleared(r, found, 1) EXCEPT ![o] = GC_REACHABLE]
<1>2. n + 1 \in DOMAIN young /\ o \in Range(young) /\ o \notin Scanned
  <2>1. n + 1 \in DOMAIN young /\ \A i \in 1 .. n : i \in DOMAIN young /\ i # n + 1
    BY <1>1
  <2>2. o \in Range(young)
    BY <2>1, RangeIs
  <2>3. o \notin Scanned
    BY <1>1, <2>1 DEF Scanned, IsInjective
  <2> QED BY <2>1, <2>2, <2>3
<1>3. /\ gc' = [phase |-> "move", generation |-> gc.generation, scanned |-> n + 1, gc_refs |-> R]
      /\ Range(unreachable') = Range(unreachable) \ found
  BY Zenon DEF Visits
<1>4. PICK t \in Seq(Obj) : Range(t) = Range(unreachable) \cap found /\ young' = young \o t
  BY DEF Visits
<1>5. Range(young') = Range(young) \cup (Range(unreachable) \cap found)
  BY <1>1, <1>4, JoinedOnce
<1>6. Collected' = Collected
  BY <1>3, <1>5 DEF Collected
<1>7. Outside' = Outside /\ Within' = Within /\ refs' = refs
  BY <1>6, ScanStep
<1>8. Scanned' = Scanned \cup {o}
  <2>1. \A i \in 1 .. (n + 1) : i \in DOMAIN young /\ young'[i] = young[i]
    <3>1. \A i \in 1 .. Len(young) : (young \o t)[i] = young[i]
      BY <1>1, <1>4, ConcatProperties
    <3> QED BY <1>1, <1>4, <3>1
  <2>2. gc'.scanned = n + 1
    BY <1>3
  <2>3. \A i \in 1 .. (n + 1) : i \in 1 .. n \/ i = n + 1
    BY <1>1
  <2>4. \A i \in 1 .. n : i \in 1 .. (n + 1)
    BY <1>1
  <2>5. n + 1 \in 1 .. (n + 1)
    BY <1>1
  <2>6. Scanned' = {young'[i] : i \in 1 .. (n + 1)}
    BY <2>2 DEF Scanned
  <2>7. young[n + 1] = o /\ Scanned = {young[i] : i \in 1 .. n}
    BY DEF Scanned
  <2> HIDE DEF R, n
  <2>8. ASSUME NEW x \in Scanned' PROVE x \in Scanned \cup {o}
    <3>1. PICK i \in 1 .. (n + 1) : x = young'[i]
      BY <2>6, <2>8
    <3> QED BY <2>1, <2>3, <2>7, <3>1
  <2>9. ASSUME NEW x \in Scanned \cup {o} PROVE x \in Scanned'
    <3>1. CASE x = o
      BY <2>1, <2>5, <2>6, <2>7, <3>1
    <3>2. CASE x \in Scanned
      <4>1. PICK i \in 1 .. n : x = young[i]
        BY <2>7, <3>2
      <4> QED BY <2>1, <2>4, <2>6, <4>1
    <3> QED BY <2>9, <3>1, <3>2
  <2> QED BY <2>8, <2>9
<1>9. /\ \A p \in Obj \ Collected : r[p] = GC_REACHABLE
      /\ \A p \in Scanned : r[p] = GC_REACHABLE /\ p \in Within
      /\ \A p \in Range(young) \ Scanned : r[p] >= 0 /\ IF r[p] = 0 THEN Unseen(p) ELSE p \in Within
      /\ \A p \in Range(unreachable) : r[p] = GC_TENTATIVELY_UNREACHABLE /\ Unseen(p)
  BY DEF ScanInv
<1>10. o \in Within /\ \A p \in refs[o] \cap Collected : p \in Within
  <2>1. o \in Within
    BY <1>2, <1>9
  <2>2. Collected \subseteq live
    BY <1>1 DEF Collected
  <2>3. IsFiniteSet(Collected)
    BY <1>1, <2>2, FS_Subset
  <2>4. \A p \in Within : refs[p] \cap Collected \subseteq Within
    BY <2>3, ReachingIs DEF Within
  <2> QED BY <2>1, <2>4
<1>11. /\ found \subseteq refs[o] \ {o} /\ found \subseteq Obj
       /\ \A p \in refs[o] \ {o} : r[p] = 0 \/ r[p] = GC_TENTATIVELY_UNREACHABLE => p \in found
       /\ \A p \in found : r[p] = 0 \/ r[p] = GC_TENTATIVELY_UNREACHABLE
  BY <1>1, <1>2 DEF Found
<1>12. found \cap Scanned = {} /\ found \subseteq Collected
  <2> HIDE DEF r, found
  <2>1. GC_REACHABLE # 0 /\ GC_REACHABLE # GC_TENTATIVELY_UNREACHABLE
    BY DEF GC_REACHABLE, GC_TENTATIVELY_UNREACHABLE
  <2>2. \A p \in found : r[p] # GC_REACHABLE
    BY <1>11, <2>1
  <2> QED BY <1>9, <1>11, <2>2
<1>13. /\ o \in Obj /\ R[o] = GC_REACHABLE /\ \A p \in found : R[p] = 1
       /\ \A p \in Obj \ found : p # o => R[p] = r[p]
  BY <1>1, <1>2, <1>11 DEF Cleared
<1>14. \A p : Unseen(p) /\ p \notin refs[o] => Unseen(p)'
  BY <1>7, <1>8 DEF Unseen
<1>15. gc'.gc_refs = R
  BY <1>3
<1> HIDE DEF R, found, r, n
<1>16. \A p \in Obj \ Collected : R[p] = GC_REACHABLE
  BY <1>2, <1>9, <1>12, <1>13 DEF Collected
<1>17. \A p \in Scanned \cup {o} : R[p] = GC_REACHABLE /\ p \in Within
  BY <1>1, <1>9, <1>10, <1>12, <1>13
<1>18. ASSUME NEW p \in Range(young') \ (Scanned \cup {o})
       PROVE  R[p] >= 0 /\ IF R[p] = 0 THEN Unseen(p)' ELSE p \in Within
  <2>1. CASE p \in found
    BY <1>10, <1>11, <1>12, <1>13, <2>1
  <2>2. CASE p \notin found
    <3>1. p \in Range(young) \ Scanned /\ R[p] = r[p] /\ p # o
      BY <1>1, <1>5, <1>13, <1>18, <2>2
    <3>2. CASE r[p] = 0
      BY <1>9, <1>11, <1>14, <2>2, <3>1, <3>2
    <3>3. CASE r[p] # 0
      BY <1>9, <3>1, <3>3
    <3> QED BY <3>2, <3>3
  <2> QED BY <2>1, <2>2
<1>19. ASSUME NEW p \in Range(unreachable') PROVE R[p] = GC_TENTATIVELY_UNREACHABLE /\ Unseen(p)'
  <2>1. p \in Range(unreachable) /\ p \notin found /\ p # o /\ p \in Obj
    BY <1>1, <1>2, <1>3, <1>19
  <2> QED BY <1>9, <1>11, <1>13, <1>14, <2>1
<1> QED BY <1>6, <1>7, <1>8, <1>15, <1>16, <1>17, <1>18, <1>19 DEF ScanInv

\* move_unreachable sets an object aside that nothing so far leads to.
LEMMA SuspectScans ==
  ASSUME HeapInv, ScanInv, Moves, gc.scanned < Len(young), NEW o, o = young[gc.scanned + 1],
         gc.gc_refs[o] = 0, Suspects(o), UNCHANGED <<heapVars, stack>>
  PROVE  ScanInv'
<1>1. /\ young \in Seq(Obj) /\ Len(young) \in Nat /\ DOMAIN young = 1 .. Len(young)
      /\ IsInjective(young) /\ gc.scanned \in Nat
      /\ Scanned \subseteq Range(young) /\ Range(young) \cap Range(unreachable) = {}
      /\ Range(young) \subseteq live /\ Range(unreachable) \subseteq live
      /\ gc.gc_refs \in [Obj -> Int] /\ live \subseteq Obj
  BY YoungIs
<1> DEFINE n == gc.scanned
           r == gc.gc_refs
           R == [r EXCEPT ![o] = GC_TENTATIVELY_UNREACHABLE]
<1>2. /\ n + 1 \in 1 .. Len(young) /\ o \in Range(young) /\ o \notin Scanned
      /\ \A i \in 1 .. n : i \in 1 .. ((n + 1) - 1)
  <2>1. n + 1 \in DOMAIN young /\ \A i \in 1 .. n : i \in DOMAIN young /\ i # n + 1
    BY <1>1
  <2>2. o \in Range(young)
    BY <2>1, RangeIs
  <2>3. o \notin Scanned
    BY <1>1, <2>1 DEF Scanned, IsInjective
  <2> QED BY <1>1, <2>1, <2>2, <2>3
<1>3. /\ gc' = [phase |-> "move", generation |-> gc.generation, scanned |-> n, gc_refs |-> R]
      /\ young' = RemoveAt(young, n + 1)
      /\ Range(unreachable') = Range(unreachable) \cup {o}
  BY DEF Suspects
<1>4. gc'.scanned = n /\ gc'.gc_refs = R
  BY <1>3
<1>5. R[o] = GC_TENTATIVELY_UNREACHABLE /\ \A p \in Obj : p # o => R[p] = r[p]
  BY <1>1, <1>2
<1> HIDE DEF R
<1>6. Range(young') = Range(young) \ {o}
  BY <1>1, <1>2, <1>3, RemovedOnce
<1>7. Collected' = Collected
  BY <1>2, <1>3, <1>6 DEF Collected
<1>8. Outside' = Outside /\ Within' = Within /\ refs' = refs
  BY <1>7, ScanStep
<1>9. Scanned' = Scanned
  <2>1. \A i \in 1 .. ((n + 1) - 1) : young'[i] = young[i]
    <3> DEFINE k == n + 1
    <3>1. k \in 1 .. Len(young) /\ young' = RemoveAt(young, k)
      BY <1>2, <1>3
    <3>2. \A i \in 1 .. (k - 1) : young'[i] = young[i]
      <4> HIDE DEF k
      <4> QED BY <1>1, <3>1, RemoveAtIs
    <3> QED BY <3>2
  <2>2. \A i \in 1 .. n : young'[i] = young[i]
    BY <1>2, <2>1
  <2> QED BY <1>4, <2>2 DEF Scanned
<1>10. /\ \A p \in Obj \ Collected : r[p] = GC_REACHABLE
       /\ \A p \in Scanned : r[p] = GC_REACHABLE /\ p \in Within
       /\ \A p \in Range(young) \ Scanned : r[p] >= 0 /\ IF r[p] = 0 THEN Unseen(p) ELSE p \in Within
       /\ \A p \in Range(unreachable) : r[p] = GC_TENTATIVELY_UNREACHABLE /\ Unseen(p)
  BY DEF ScanInv
<1>11. \A p : Unseen(p)' = Unseen(p)
  BY <1>8, <1>9 DEF Unseen
<1>12. \A p \in Obj \ Collected : R[p] = GC_REACHABLE
  BY <1>2, <1>5, <1>10 DEF Collected
<1>13. \A p \in Scanned : R[p] = GC_REACHABLE /\ p \in Within
  BY <1>1, <1>2, <1>5, <1>10
<1>14. \A p \in Range(young') \ Scanned : R[p] >= 0 /\ IF R[p] = 0 THEN Unseen(p)' ELSE p \in Within
  BY <1>1, <1>5, <1>6, <1>10, <1>11
<1>15. \A p \in Range(unreachable') : R[p] = GC_TENTATIVELY_UNREACHABLE /\ Unseen(p)'
  <2>1. Unseen(o)
    BY <1>2, <1>10
  <2> QED BY <1>1, <1>3, <1>5, <1>10, <1>11, <2>1
<1> QED BY <1>4, <1>7, <1>8, <1>9, <1>12, <1>13, <1>14, <1>15 DEF ScanInv

\* A frame that owns nothing changes no reference count.
LEMMA HeldByPushed ==
  ASSUME stack \in Seq(Frames), NEW f, f.holds = {}, stack' = Append(stack, f), NEW o
  PROVE  {i \in DOMAIN stack' : o \in stack'[i].holds} = {i \in DOMAIN stack : o \in stack[i].holds}
<1> DEFINE n == Len(stack)
<1>1. /\ n \in Nat /\ DOMAIN stack = 1 .. n /\ DOMAIN stack' = 1 .. (n + 1) /\ stack'[n + 1] = f
      /\ \A i \in 1 .. n : stack'[i] = stack[i]
  OBVIOUS
<1> HIDE DEF n
<1>2. \A i \in 1 .. (n + 1) : i \in 1 .. n \/ i = n + 1
  BY <1>1
<1>3. \A i \in 1 .. n : i \in 1 .. (n + 1)
  BY <1>1
<1> QED BY <1>1, <1>2, <1>3

\* The references of part of the heap are among those that are counted.
LEMMA RefcntAbove ==
  ASSUME IsFiniteSet(live), stack \in Seq(Frames), NEW Y \in SUBSET live, NEW o
  PROVE  Cardinality(Referring(Y, o)) <= ob_refcnt(o)
<1> DEFINE A == Referring(live, o)
           H == {i \in DOMAIN stack : o \in stack[i].holds}
<1>1. IsFiniteSet(A) /\ Referring(Y, o) \subseteq A
  <2>1. A \subseteq live /\ Referring(Y, o) \subseteq A
    BY DEF Referring
  <2> QED BY <2>1, FS_Subset
<1>2. Cardinality(Referring(Y, o)) <= Cardinality(A) /\ IsFiniteSet(Referring(Y, o))
  BY <1>1, FS_Subset
<1>3. IsFiniteSet(H) /\ IsFiniteSet({o} \cap held) /\ IsFiniteSet({o} \cap garbage)
  <2>1. IsFiniteSet(H)
    <3>1. Len(stack) \in Nat /\ DOMAIN stack = 1 .. Len(stack)
      OBVIOUS
    <3>2. IsFiniteSet(1 .. Len(stack))
      BY <3>1, FS_Interval
    <3>3. H \subseteq 1 .. Len(stack)
      BY <3>1
    <3> QED BY <3>2, <3>3, FS_Subset
  <2>2. IsFiniteSet({o})
    BY FS_Singleton
  <2>3. {o} \cap held \subseteq {o} /\ {o} \cap garbage \subseteq {o}
    OBVIOUS
  <2> QED BY <2>1, <2>2, <2>3, FS_Subset
<1> DEFINE a == Cardinality(A)
           b == Cardinality({o} \cap held)
           c == Cardinality({o} \cap garbage)
           d == Cardinality(H)
           y == Cardinality(Referring(Y, o))
<1>4. a \in Nat /\ b \in Nat /\ c \in Nat /\ d \in Nat /\ y \in Nat
  BY <1>1, <1>2, <1>3, FS_CardinalityType
<1>5. ob_refcnt(o) = a + b + c + d /\ y <= a
  BY <1>2 DEF ob_refcnt
<1> HIDE DEF a, b, c, d, y, A, H
<1>6. y <= ob_refcnt(o)
  BY <1>4, <1>5
<1> QED BY <1>6 DEF y

\* update_refs and subtract_refs: gc_refs counts the references from outside.
LEMMA CollectScans ==
  ASSUME HeapInv, HeapInv', ObjAssumption, PythonRuns, NEW g \in Generation, Collect(g)
  PROVE  ScanInv'
<1> DEFINE Y == Range(Merged(g))
           f == Collection("next", None, {})
<1>1. /\ gc = NoCollection /\ stack' = Append(stack, f) /\ f.holds = {}
      /\ UNCHANGED <<live, refs, held, garbage, unreachable>>
      /\ gc' = [phase |-> "move", generation |-> g, scanned |-> 0, gc_refs |-> GcRefs(Y)]
      /\ generations' = [i \in Generation |->
           IF i < g THEN <<>> ELSE IF i = g THEN Merged(g) ELSE generations[i]]
  BY DEF Collect, heapVars, Collection
<1>2. ~(g < g)
  BY DEF Generation
<1>3. young' = Merged(g) /\ gc'.scanned = 0 /\ gc'.gc_refs = GcRefs(Y)
  BY <1>1, <1>2 DEF young
<1>4. unreachable' = <<>> /\ Range(<<>>) = {}
  <2>1. unreachable = <<>>
    BY <1>1 DEF HeapInv, MoveOK
  <2>2. DOMAIN <<>> = {}
    OBVIOUS
  <2> QED BY <1>1, <2>1, <2>2 DEF Range
<1>5. Collected' = Y
  BY <1>3, <1>4 DEF Collected
<1>6. Scanned' = {}
  <2>1. 1 .. 0 = {}
    OBVIOUS
  <2> QED BY <1>3, <2>1 DEF Scanned
<1>7. Moves'
  BY <1>1 DEF Moves, NoCollection
<1>8. Y \subseteq live /\ IsFiniteSet(Y) /\ IsFiniteSet(live) /\ live \subseteq Obj /\ stack \in Seq(Frames)
  <2>1. Range(young') \subseteq live' /\ IsFiniteSet(live')
    <3>1. TypeOK' /\ MoveOK' /\ ListsApart' /\ Listed' = (live \ Buried)' /\ HeapOK'
      BY DEF HeapInv
    <3>2. Range(young') \subseteq Gens'
      BY <1>1 DEF young, Gens, Members
    <3> QED BY <3>1, <3>2 DEF Listed, HeapOK
  <2>2. live \subseteq Obj /\ stack \in Seq(Frames)
    BY DEF HeapInv, TypeOK
  <2> QED BY <1>1, <1>3, <2>1, <2>2, FS_Subset
<1>9. ASSUME NEW o PROVE ob_refcnt(o)' = ob_refcnt(o)
  <2>1. {i \in DOMAIN stack' : o \in stack'[i].holds} = {i \in DOMAIN stack : o \in stack[i].holds}
    BY <1>1, <1>8, HeldByPushed
  <2> QED BY <1>1, <2>1, Zenon DEF ob_refcnt, Referring
<1> DEFINE c(o) == Cardinality(Referring(Y, o))
<1>10. ASSUME NEW o PROVE ob_refcnt(o) \in Nat /\ c(o) \in Nat
  <2>1. Referring(Y, o) \subseteq Y
    BY DEF Referring
  <2> QED BY <1>8, <2>1, RefcntZero, FS_Subset, FS_CardinalityType
<1>11. ASSUME NEW o PROVE c(o) <= ob_refcnt(o)
  BY <1>8, <1>10, RefcntAbove
<1>12. \A o : o \in Outside' <=> o \in Y /\ ob_refcnt(o) > c(o)
  BY <1>1, <1>5, <1>9 DEF Outside, Referring
<1>13. Y \cap Outside' \subseteq Within'
  <2>1. Outside' \cap Collected' \subseteq Reaching(Outside', Collected', refs')
    <3>1. IsFiniteSet(Collected')
      BY <1>5, <1>8
    <3> QED BY <3>1, ReachingIs
  <2> QED BY <1>5, <2>1 DEF Within, Reaching
<1>14. \A o \in Obj : GcRefs(Y)[o] = IF o \in Y THEN ob_refcnt(o) - c(o) ELSE GC_REACHABLE
  BY DEF GcRefs
<1>15. ASSUME NEW o \in Y
       PROVE  GcRefs(Y)[o] >= 0 /\ IF GcRefs(Y)[o] = 0 THEN Unseen(o)' ELSE o \in Within'
  <2>1. GcRefs(Y)[o] = ob_refcnt(o) - c(o) /\ ob_refcnt(o) \in Nat /\ c(o) \in Nat /\ c(o) <= ob_refcnt(o)
    BY <1>8, <1>10, <1>11, <1>14
  <2>2. CASE GcRefs(Y)[o] = 0
    <3>1. o \notin Outside'
      <4> HIDE DEF c
      <4> QED BY <1>12, <2>1, <2>2
    <3> QED BY <1>6, <2>2, <3>1 DEF Unseen
  <2>3. CASE GcRefs(Y)[o] # 0
    <3>1. o \in Outside' /\ GcRefs(Y)[o] >= 0
      <4> HIDE DEF c
      <4> QED BY <1>12, <2>1, <2>3
    <3> QED BY <1>13, <2>3, <3>1
  <2> QED BY <2>2, <2>3
<1> QED BY <1>3, <1>4, <1>5, <1>6, <1>14, <1>15 DEF ScanInv

\* A step of move_unreachable, either way.
LEMMA MoveNextScans ==
  ASSUME HeapInv, ScanInv, MoveNext
  PROVE  ScanInv'
<1> DEFINE o == young[gc.scanned + 1]
<1>1. /\ In("collect") /\ gc.phase = "move" /\ gc.scanned < Len(young)
      /\ \/ gc.gc_refs[o] # 0 /\ VisitReachable(o)
         \/ gc.gc_refs[o] = 0 /\ MoveUnreachable(o)
      /\ UNCHANGED <<heapVars, finalizers, wrcb_to_call, stack, histVars>>
  BY DEF MoveNext, Moving
<1>2. Moves
  <2>1. TypeOK /\ FramesOK
    BY DEF HeapInv
  <2>2. Top \in Range(stack) /\ Top.op = "collect"
    BY <1>1, <2>1, StackIs DEF In
  <2> QED BY <1>1, <2>1, <2>2 DEF FramesOK, FrameOK, CollectOK, Moves
<1>3. o \in Obj
  BY <1>1, <1>2, YoungIs
<1>4. CASE gc.gc_refs[o] # 0 /\ VisitReachable(o)
  <2>1. Visits(o)
    <3> HIDE DEF o
    <3> QED BY <1>1, <1>2, <1>3, <1>4, VisitReachableKeeps
  <2> QED BY <1>1, <1>2, <1>4, <2>1, VisitScans
<1>5. CASE gc.gc_refs[o] = 0 /\ MoveUnreachable(o)
  <2>1. Suspects(o)
    BY <1>1, <1>2, <1>5, MoveUnreachableKeeps
  <2> QED BY <1>1, <1>2, <1>5, <2>1, SuspectScans
<1> QED BY <1>1, <1>4, <1>5

\* While move_unreachable runs nothing else does, and nothing but collect starts it.
LEMMA OnlyMoves ==
  ASSUME HeapInv, Next, Moves', ~MoveNext, \A g \in Generation : ~(PythonRuns /\ Collect(g))
  PROVE  FALSE
<1>1. /\ Moves => stack # <<>> /\ Top.op = "collect" /\ Doomed = {} /\ gc.phase = "move" /\ ~PythonRuns
      /\ Moves <=> gc # NoCollection /\ gc.phase = "move"
  BY DEF HeapInv, MoveOK, PythonRuns, Moves
<1>0. MoveEnds => gc'.phase = "weakrefs"
  <2>1. MoveEnds => gc' = [phase |-> "weakrefs", generation |-> gc.generation]
    BY Zenon DEF MoveEnds
  <2> QED BY <2>1
<1>2. gc' # gc
  <2>1. ASSUME gc' = gc PROVE Moves
    BY <2>1 DEF Moves
  <2>2. ASSUME Moves PROVE FALSE
    <3>1. Doomed = {} /\ (Return \/ Deallocation \/ Collecting)
      BY <1>1, <2>2 DEF Next
    <3>2. ~Return /\ ~Deallocation
      BY <1>1, <2>2 DEF Return, Deallocation, Py_DECREF, DeallocCalls, DeallocCalled, DeallocFinalizes,
                        DeallocResurrected, DeallocEnds, In
    <3>3. ~CallNext /\ ~CallsEnd /\ ~CallMoves /\ ~ClearNext /\ ~DeleteMoves /\ ~CollectEnds
      BY <1>1, <2>2 DEF CallNext, CallsEnd, CallMoves, ClearNext, DeleteMoves, CollectEnds, InStage
    <3>4. CollectDecref \/ MoveEnds
      BY <3>1, <3>2, <3>3 DEF Collecting
    <3>5. ~CollectDecref
      <4>1. TypeOK /\ FramesOK
        BY DEF HeapInv
      <4>2. Top \in Range(stack)
        BY <1>1, <2>2, <4>1, StackIs
      <4>3. Top = Collection("next", None, {})
        BY <1>1, <2>2, <4>1, <4>2 DEF FramesOK, FrameOK, CollectOK
      <4> QED BY <4>3 DEF CollectDecref, Collection
    <3>6. gc'.phase = "weakrefs"
      BY <1>0, <3>4, <3>5
    <3> QED BY <3>6 DEF Moves
  <2> QED BY <2>1, <2>2
<1>3. CASE \E o \in Doomed : DeallocBegins(o)
  BY <1>2, <1>3 DEF DeallocBegins
<1>4. CASE Return \/ Deallocation
  BY <1>2, <1>4 DEF Return, Deallocation, Py_DECREF, DeallocCalls, DeallocCalled, DeallocFinalizes,
                    DeallocResurrected, DeallocEnds
<1>5. CASE Collecting
  <2>1. gc' = gc \/ gc' = NoCollection \/ gc'.phase = "weakrefs" \/ CallsEnd
    <3>1. ~MoveEnds => gc' = gc \/ gc' = NoCollection \/ CallsEnd
      BY <1>5, Zenon
      DEF Collecting, CallNext, CollectDecref, CallMoves, ClearNext, DeleteMoves, CollectEnds
    <3> QED BY <1>0, <3>1
  <2>2. CASE CallsEnd
    <3>1. gc \in Collections \/ gc = NoCollection
      BY DEF HeapInv, TypeOK
    <3>2. CASE gc = NoCollection
      BY <2>2, <3>2 DEF CallsEnd, InStage, NoCollection, Moves
    <3>3. CASE gc \in Collections
      <4>1. gc' = [gc EXCEPT !.phase = "delete"]
        BY <2>2 DEF CallsEnd
      <4>2. gc'.phase = "delete"
        BY <3>3, <4>1 DEF Collections
      <4> QED BY <4>2 DEF Moves
    <3> QED BY <3>1, <3>2, <3>3
  <2> QED BY <1>2, <2>1, <2>2 DEF Moves
<1>6. CASE PythonRuns /\ Program
  BY <1>2, <1>6 DEF Program, New, Release, Discard, Hold, Store, Erase, PyWeakref_NewRef
<1> QED BY <1>3, <1>4, <1>5, <1>6 DEF Next

\* Every step keeps ScanInv.
LEMMA NextScanInv ==
  ASSUME ObjAssumption, HeapInv, HeapInv', ScanInv, [Next]_vars
  PROVE  ScanInv'
<1>1. CASE UNCHANGED vars
  <2>1. UNCHANGED <<heapVars, stack, gc, generations, unreachable, live, refs, held, garbage>>
    BY <1>1 DEF vars, heapVars, listVars
  <2>2. young' = young
    BY <2>1 DEF young
  <2>3. Collected' = Collected /\ Scanned' = Scanned /\ Moves' = Moves
    BY <2>1, <2>2 DEF Collected, Scanned, Moves
  <2>4. Outside' = Outside /\ Within' = Within
    BY <2>1, <2>3, ScanStep
  <2>5. \A o : Unseen(o)' = Unseen(o)
    BY <2>1, <2>3, <2>4 DEF Unseen
  <2> QED BY <2>1, <2>2, <2>3, <2>4, <2>5 DEF ScanInv
<1>2. CASE MoveNext
  BY <1>2, MoveNextScans
<1>3. ASSUME NEW g \in Generation, PythonRuns, Collect(g) PROVE ScanInv'
  BY <1>3, CollectScans
<1>4. CASE Next /\ ~MoveNext /\ \A g \in Generation : ~(PythonRuns /\ Collect(g))
  <2>1. ~Moves'
    BY <1>4, OnlyMoves
  <2> QED BY <2>1 DEF ScanInv
<1> QED BY <1>1, <1>2, <1>3, <1>4

\* When move_unreachable is done, unreachable is what no reference from outside leads to:
\* everything else was scanned, so that it is reached, and nothing scanned leads into
\* unreachable.
LEMMA ScanEnds ==
  ASSUME HeapInv, ScanInv
  PROVE  UnreachableExact
<1> SUFFICES ASSUME Moves, gc.scanned = Len(young)
             PROVE  Range(unreachable) = Collected \ Within
  BY DEF UnreachableExact, Moves, Collected, Within, Outside
<1>1. /\ young \in Seq(Obj) /\ Len(young) \in Nat /\ DOMAIN young = 1 .. Len(young)
      /\ Scanned \subseteq Range(young) /\ Range(young) \cap Range(unreachable) = {}
      /\ Range(young) \subseteq live /\ Range(unreachable) \subseteq live /\ IsFiniteSet(live)
  BY YoungIs
<1>2. Scanned = Range(young)
  BY <1>1 DEF Scanned, Range
<1>3. \A o \in Scanned : o \in Within
  BY DEF ScanInv
<1>4. \A o \in Range(unreachable) : Unseen(o)
  BY DEF ScanInv
<1>5. Within \cap Range(unreachable) = {}
  <2> DEFINE B == Range(unreachable)
  <2>1. IsFiniteSet(Collected)
    <3>1. Collected \subseteq live
      BY <1>1 DEF Collected
    <3> QED BY <1>1, <3>1, FS_Subset
  <2>2. Outside \cap Collected \cap B = {}
    BY <1>4 DEF Unseen
  <2>3. \A p \in Collected \ B : refs[p] \cap Collected \cap B = {}
    BY <1>2, <1>4 DEF Unseen, Collected
  <2> HIDE DEF B
  <2>4. Reaching(Outside, Collected, refs) \cap B = {}
    BY <2>1, <2>2, <2>3, ReachingAvoids
  <2> QED BY <2>4 DEF Within, B
<1> QED BY <1>2, <1>3, <1>5 DEF Collected

\* move_unreachable leaves in unreachable exactly the objects that nothing outside the collected
\* generations leads to, however they refer to one another and in whatever order they are.
THEOREM UnreachableAlwaysExact == Spec => []UnreachableExact
<1>1. Init => ScanInv
  BY DEF Init, ScanInv, Moves
<1>2. HeapInv /\ HeapInv' /\ ScanInv /\ [Next]_vars => ScanInv'
  BY NextScanInv, ObjAssumption
<1>3. HeapInv /\ ScanInv => UnreachableExact
  BY ScanEnds
<1> QED BY <1>1, <1>2, <1>3, HeapInvHolds, PTL DEF Spec
-----------------------------------------------------------------------------
(* What Python code cannot get at.                                          *)

\* What move_unreachable and move_finalizers leave in unreachable.
Dead == Range(unreachable) \ Uncollectable
\* The condition under which the first pass of handle_weakrefs hides all of the trash: a weak
\* reference in it with a callback refers to an object of the trash, if to any.
OwnReferents ==
  Moves /\ gc.scanned = Len(young) =>
    \A w \in Weak \cap Dead : refs[w] # {} => wr_object[w] \in Dead \cup {None}

\* Python code cannot get at the objects in D, now or by anything that is under way: nothing
\* outside D refers to them, no weak reference gives them out, no callback or __del__ that is
\* still to run gets them, and weak references in D will not be called.
FrameHides(f, D) ==
  /\ f.op = "python" => f.holds \cap D = {}
  /\ f.op = "dealloc" => \A wc \in f.calls : wc[1] \notin D /\ wc[2] \notin D
Clears == gc # NoCollection /\ gc.phase # "move"
Hides(D) ==
  /\ trash \cup cleared \subseteq D /\ D \cap Finalizer = {}
  /\ held \cap D = {} /\ garbage \cap D = {}
  /\ \A p \in live \ D : refs[p] \cap D = {}
  /\ \A w \in Obj : wr_object[w] \notin D
  /\ \A w \in D \cap Weak : refs[w] # {} => wr_object[w] = None
  /\ \A f \in Range(stack) : FrameHides(f, D)
  /\ Range(wrcb_to_call) \cap D = {}
  /\ Clears => Range(unreachable) \subseteq D
HideInv == \E D \in SUBSET live : Hides(D)

\* The frames of the stack after its top is replaced, and after one is pushed.
LEMMA FramesAfter ==
  ASSUME stack \in Seq(Frames), NEW f, NEW g, NEW S
  PROVE  /\ Range(Append(stack, f)) \subseteq Range(stack) \cup {f}
         /\ stack # <<>> =>
              /\ Range(Front(stack)) \subseteq Range(stack)
              /\ Range(Append(Front(stack), f)) \subseteq Range(stack) \cup {f}
              /\ Range(Front(stack) \o <<f>>) \subseteq Range(stack) \cup {f}
              /\ Range(Front(stack) \o <<f, g>>) \subseteq Range(stack) \cup {f, g}
              /\ Range(Front(stack) \o Rest(S)) \subseteq Range(stack) \cup {Drop(S)}
              /\ Range(Front(stack) \o <<f>> \o Rest(S)) \subseteq Range(stack) \cup {f, Drop(S)}
<1> DEFINE X == Frames \cup {f, g, Drop(S)}
<1>1. Seq(Frames) \subseteq Seq(X) /\ f \in X /\ g \in X /\ Drop(S) \in X
  <2>1. \A A, B : A \subseteq B => Seq(A) \subseteq Seq(B)
    OBVIOUS
  <2> QED BY <2>1, Zenon
<1> HIDE DEF X
<1>2. stack \in Seq(X)
  BY <1>1
<1>3. Range(Append(stack, f)) \subseteq Range(stack) \cup {f}
  BY <1>1, <1>2, AppendedOnce
<1>4. /\ <<f>> \in Seq(X) /\ <<f, g>> \in Seq(X) /\ Rest(S) \in Seq(X)
      /\ Range(<<f>>) \subseteq {f} /\ Range(<<f, g>>) \subseteq {f, g} /\ Range(Rest(S)) \subseteq {Drop(S)}
  <2>1. \A h \in X : <<h>> \in Seq(X) /\ DOMAIN <<h>> = {1} /\ <<h>>[1] = h
    OBVIOUS
  <2>2. <<f, g>> \in Seq(X) /\ DOMAIN <<f, g>> = {1, 2} /\ <<f, g>>[1] = f /\ <<f, g>>[2] = g
    BY <1>1
  <2>3. \A h \in X : Range(<<h>>) \subseteq {h}
    BY <2>1 DEF Range
  <2>4. Range(<<f, g>>) \subseteq {f, g}
    BY <2>2 DEF Range
  <2>5. Rest(S) \in Seq(X) /\ Range(Rest(S)) \subseteq {Drop(S)}
    <3>1. <<>> \in Seq(X) /\ DOMAIN <<>> = {}
      OBVIOUS
    <3>2. Range(<<>>) = {}
      BY <3>1 DEF Range
    <3>3. CASE S = {}
      BY <3>1, <3>2, <3>3 DEF Rest
    <3>4. CASE S # {}
      BY <1>1, <2>1, <2>3, <3>4 DEF Rest
    <3> QED BY <3>3, <3>4
  <2> QED BY <1>1, <2>1, <2>2, <2>3, <2>4, <2>5
<1>5. ASSUME stack # <<>>
      PROVE  /\ Front(stack) \in Seq(X) /\ Range(Front(stack)) \subseteq Range(stack)
             /\ \A t \in Seq(X) : /\ Front(stack) \o t \in Seq(X)
                                 /\ Range(Front(stack) \o t) \subseteq Range(stack) \cup Range(t)
             /\ Append(Front(stack), f) = Front(stack) \o <<f>>
  <2>1. /\ Len(stack) \in Nat \ {0} /\ Front(stack) \in Seq(X) /\ Len(Front(stack)) = Len(stack) - 1
        /\ \A i \in 1 .. (Len(stack) - 1) : Front(stack)[i] = stack[i]
    BY <1>2, <1>5, FrontIs
  <2>2. Range(Front(stack)) \subseteq Range(stack)
    <3>1. DOMAIN Front(stack) = 1 .. (Len(stack) - 1) /\ DOMAIN stack = 1 .. Len(stack)
      BY <1>2, <2>1
    <3>2. \A i \in DOMAIN Front(stack) : i \in DOMAIN stack /\ Front(stack)[i] = stack[i]
      BY <2>1, <3>1
    <3> QED BY <3>2 DEF Range
  <2>3. \A t \in Seq(X) : /\ Front(stack) \o t \in Seq(X)
                         /\ Range(Front(stack) \o t) = Range(Front(stack)) \cup Range(t)
    BY <2>1, JoinedOnce
  <2>4. Append(Front(stack), f) = Front(stack) \o <<f>>
    BY <1>1, <2>1, AppendIsConcat
  <2> QED BY <2>1, <2>2, <2>3, <2>4
<1>6. ASSUME stack # <<>>
      PROVE  Range(Front(stack) \o <<f>> \o Rest(S)) \subseteq Range(stack) \cup {f, Drop(S)}
  <2> DEFINE q == Front(stack) \o <<f>>
  <2>1. q \in Seq(X) /\ Range(q) \subseteq Range(stack) \cup {f}
    BY <1>4, <1>5, <1>6
  <2> HIDE DEF q
  <2>2. Range(q \o Rest(S)) = Range(q) \cup Range(Rest(S))
    BY <1>4, <2>1, JoinedOnce
  <2> QED BY <1>4, <2>1, <2>2 DEF q
<1> QED BY <1>3, <1>4, <1>5, <1>6

\* What Python code gets at is outside.
LEMMA AccessibleHides ==
  ASSUME HeapInv, NEW D \in SUBSET live, Hides(D)
  PROVE  Accessible \cap D = {} /\ Accessible \subseteq live
<1>1. TypeOK /\ HeapOK
  BY DEF HeapInv
<1> DEFINE N == [p \in Obj |-> refs[p] \cup {wr_object[p]}]
<1>2. Roots \cap live \cap D = {}
  <2>1. \A i \in DOMAIN stack : stack[i].op = "python" => stack[i].holds \cap D = {}
    BY RangeIs DEF Hides, FrameHides
  <2>2. held \cap D = {} /\ garbage \cap D = {}
    BY DEF Hides
  <2> QED BY <2>1, <2>2 DEF Roots
<1>3. \A p \in live \ D : N[p] \cap live \cap D = {}
  <2>1. live \subseteq Obj
    BY <1>1 DEF TypeOK
  <2>2. \A p \in live \ D : refs[p] \cap D = {} /\ wr_object[p] \notin D
    BY <2>1 DEF Hides
  <2> QED BY <2>1, <2>2
<1>4. IsFiniteSet(live)
  BY <1>1 DEF HeapOK
<1>5. Accessible = Reaching(Roots, live, N)
  BY DEF Accessible
<1> HIDE DEF N
<1>6. Reaching(Roots, live, N) \cap D = {}
  BY <1>2, <1>3, <1>4, ReachingAvoids
<1> QED BY <1>1, <1>5, <1>6, AccessibleIs

\* A step that changes the stack alone.
LEMMA StackHides ==
  ASSUME NEW D \in SUBSET live, Hides(D), UNCHANGED <<heapVars, listVars, gc, cleared, trash>>,
         \A f \in Range(stack') : f \in Range(stack) \/ FrameHides(f, D)
  PROVE  HideInv'
<1>1. UNCHANGED <<live, refs, wr_object, held, garbage, unreachable, wrcb_to_call, gc, cleared, trash>>
  BY DEF heapVars, listVars
<1>2. Hides(D)'
  BY <1>1 DEF Hides, Clears, FrameHides
<1> QED BY <1>1, <1>2 DEF HideInv

\* Frames that give nothing to Python code.
LEMMA SilentFrames ==
  ASSUME NEW D
  PROVE  /\ \A S : FrameHides(Drop(S), D)
         /\ \A s, o, S : FrameHides(Collection(s, o, S), D)
         /\ \A o, s, S : FrameHides(Dealloc(o, s, S, {}), D)
         /\ \A S : S \cap D = {} => FrameHides(Call(S), D)
  BY DEF FrameHides, Drop, Collection, Dealloc, Call

LEMMA ReturnHides ==
  ASSUME HeapInv, NEW D \in SUBSET live, Hides(D), Return
  PROVE  HideInv'
<1>1. stack # <<>> /\ stack \in Seq(Frames) /\ stack' = Append(Front(stack), Drop(Top.holds))
      /\ UNCHANGED <<heapVars, listVars, gc, cleared, trash>>
  BY DEF Return, In, Replace, HeapInv, TypeOK, histVars
<1>2. Range(stack') \subseteq Range(stack) \cup {Drop(Top.holds)}
  BY <1>1, FramesAfter
<1> QED BY <1>1, <1>2, SilentFrames, StackHides

LEMMA Py_DECREFHides ==
  ASSUME HeapInv, NEW D \in SUBSET live, Hides(D), NEW o, Py_DECREF(o)
  PROVE  HideInv'
<1>1. stack # <<>> /\ stack \in Seq(Frames) /\ stack' = Front(stack) \o Rest(Top.holds \ {o})
      /\ UNCHANGED <<heapVars, listVars, gc, cleared, trash>>
  BY DEF Py_DECREF, In, HeapInv, TypeOK, histVars
<1>2. Range(stack') \subseteq Range(stack) \cup {Drop(Top.holds \ {o})}
  BY <1>1, FramesAfter
<1> QED BY <1>1, <1>2, SilentFrames, StackHides

\* A callback gets a weak reference and what it refers to, both outside D.
LEMMA DeallocCallsHides ==
  ASSUME HeapInv, NEW D \in SUBSET live, Hides(D), NEW wc \in Weak \X Obj, DeallocCalls(wc)
  PROVE  HideInv'
<1> DEFINE f == [Top EXCEPT !.calls = @ \ {wc}]
           g == Call({wc[1], wc[2]})
<1>1. /\ stack # <<>> /\ stack' = Front(stack) \o <<f, g>> /\ wc \in Top.calls /\ Top.op = "dealloc"
      /\ UNCHANGED <<heapVars, listVars, gc, cleared, trash>>
  BY DEF DeallocCalls, In
<1>2. stack \in Seq(Frames) /\ Top \in Range(stack) /\ Top \in Frames
  BY <1>1, StackIs DEF HeapInv, TypeOK
<1>3. \A v \in Top.calls : v[1] \notin D /\ v[2] \notin D
  BY <1>1, <1>2 DEF Hides, FrameHides
<1>4. f.op = "dealloc" /\ f.calls \subseteq Top.calls
  <2>1. Top = Dealloc(Top.obj, Top.stage, Top.holds, Top.calls)
    BY <1>1, <1>2, FrameKinds
  <2> DEFINE T == Top.calls \ {wc}
  <2>2. f = [Top EXCEPT !.calls = T]
    BY Zenon
  <2> HIDE DEF T, f
  <2>3. f.op = "dealloc" /\ f.calls = T
    BY <2>1, <2>2 DEF Dealloc
  <2> QED BY <2>3 DEF T
<1>5. FrameHides(f, D) /\ FrameHides(g, D)
  <2>1. {wc[1], wc[2]} \cap D = {}
    BY <1>1, <1>3
  <2>2. FrameHides(g, D)
    BY <2>1, SilentFrames
  <2> HIDE DEF f
  <2> QED BY <1>3, <1>4, <2>2 DEF FrameHides
<1>6. Range(stack') \subseteq Range(stack) \cup {f, g}
  <2> HIDE DEF f, g
  <2> QED BY <1>1, <1>2, FramesAfter
<1> HIDE DEF f, g
<1> QED BY <1>1, <1>5, <1>6, StackHides

LEMMA DeallocCalledHides ==
  ASSUME HeapInv, NEW D \in SUBSET live, Hides(D), DeallocCalled
  PROVE  HideInv'
<1> DEFINE f == Dealloc(Top.obj, "del", {}, {})
<1>1. stack # <<>> /\ stack \in Seq(Frames) /\ stack' = Front(stack) \o <<f>> \o Rest(Top.holds)
      /\ UNCHANGED <<heapVars, listVars, gc, cleared, trash>>
  BY DEF DeallocCalled, In, HeapInv, TypeOK, histVars
<1>2. Range(stack') \subseteq Range(stack) \cup {f, Drop(Top.holds)}
  <2> HIDE DEF f
  <2> QED BY <1>1, FramesAfter
<1> QED BY <1>1, <1>2, SilentFrames, StackHides

LEMMA DeallocResurrectedHides ==
  ASSUME HeapInv, NEW D \in SUBSET live, Hides(D), DeallocResurrected
  PROVE  HideInv'
<1>1. stack # <<>> /\ stack \in Seq(Frames) /\ stack' = Front(stack)
      /\ UNCHANGED <<heapVars, listVars, gc, cleared, trash>>
  BY DEF DeallocResurrected, In, HeapInv, TypeOK, histVars
<1>2. Range(stack') \subseteq Range(stack)
  BY <1>1, FramesAfter
<1> QED BY <1>1, <1>2, StackHides

LEMMA CollectDecrefHides ==
  ASSUME HeapInv, NEW D \in SUBSET live, Hides(D), CollectDecref
  PROVE  HideInv'
<1> DEFINE f == Collection("released", Top.obj, Top.holds \ {Top.obj})
<1>1. stack # <<>> /\ stack \in Seq(Frames) /\ stack' = Append(Front(stack), f)
      /\ UNCHANGED <<heapVars, listVars, gc, cleared, trash>>
  BY DEF CollectDecref, In, Replace, HeapInv, TypeOK, histVars
<1>2. Range(stack') \subseteq Range(stack) \cup {f}
  <2> HIDE DEF f
  <2> QED BY <1>1, FramesAfter
<1>3. FrameHides(f, D)
  BY SilentFrames
<1> HIDE DEF f
<1> QED BY <1>1, <1>2, <1>3, StackHides

\* The weak references to be called are outside D, and so is what they refer to.
LEMMA CallNextHides ==
  ASSUME HeapInv, NEW D \in SUBSET live, Hides(D), CallNext
  PROVE  HideInv'
<1> DEFINE next == Head(wrcb_to_call)
           f == Collection("called", next, Top.holds)
           g == Call({next} \cup refs[next])
<1>1. /\ stack # <<>> /\ wrcb_to_call # <<>> /\ stack' = Front(stack) \o <<f, g>>
      /\ UNCHANGED <<heapVars, listVars, gc, cleared, trash>>
  BY DEF CallNext, InStage, In
<1>2. stack \in Seq(Frames) /\ wrcb_to_call \in Seq(Obj) /\ Range(wrcb_to_call) \subseteq live
  BY DEF HeapInv, TypeOK, Listed
<1>3. next \in Range(wrcb_to_call)
  BY <1>1, <1>2, TailOnce
<1> HIDE DEF next
<1>4. next \in live \ D
  BY <1>2, <1>3 DEF Hides
<1>5. ({next} \cup refs[next]) \cap D = {}
  BY <1>4 DEF Hides
<1>6. FrameHides(f, D) /\ FrameHides(g, D)
  BY <1>5, SilentFrames
<1>7. Range(stack') \subseteq Range(stack) \cup {f, g}
  <2> HIDE DEF f, g
  <2> QED BY <1>1, <1>2, FramesAfter
<1> HIDE DEF f, g
<1> QED BY <1>1, <1>6, <1>7, StackHides

\* Steps of the collection that move the lists.
LEMMA ListsHide ==
  ASSUME HeapInv, NEW D \in SUBSET live, Hides(D), stack # <<>>, NEW f, FrameHides(f, D),
         stack' = Append(Front(stack), f),
         UNCHANGED <<heapVars, gc, cleared, trash>>,
         Range(unreachable') \subseteq Range(unreachable),
         Range(wrcb_to_call') \subseteq Range(wrcb_to_call)
  PROVE  HideInv'
<1>1. UNCHANGED <<live, refs, wr_object, held, garbage, gc, cleared, trash>>
  BY DEF heapVars
<1>2. Range(stack') \subseteq Range(stack) \cup {f}
  <2>1. stack \in Seq(Frames)
    BY DEF HeapInv, TypeOK
  <2> QED BY <2>1, FramesAfter
<1>3. Hides(D)'
  BY <1>1, <1>2 DEF Hides, Clears, FrameHides
<1> QED BY <1>1, <1>3 DEF HideInv

LEMMA TailIfIs ==
  ASSUME NEW list \in Seq(Obj)
  PROVE  Range(TailIf(list)) \subseteq Range(list) /\ Range(list) \subseteq Range(TailIf(list)) \cup {Top.obj}
<1>1. CASE StillAlive(list, Top.obj)
  <2>1. list # <<>> /\ Head(list) = Top.obj /\ TailIf(list) = Tail(list)
    BY <1>1 DEF StillAlive, TailIf
  <2> QED BY <2>1, TailOnce
<1>2. CASE ~StillAlive(list, Top.obj)
  BY <1>2 DEF TailIf
<1> QED BY <1>1, <1>2

LEMMA CallMovesHides ==
  ASSUME HeapInv, NEW D \in SUBSET live, Hides(D), CallMoves
  PROVE  HideInv'
<1> DEFINE f == Collection("next", None, Top.holds)
<1>1. /\ stack # <<>> /\ stack' = Append(Front(stack), f) /\ wrcb_to_call' = TailIf(wrcb_to_call)
      /\ UNCHANGED <<heapVars, unreachable, gc, cleared, trash>>
  BY DEF CallMoves, InStage, In, Replace, histVars
<1>2. FrameHides(f, D)
  BY SilentFrames
<1>3. Range(wrcb_to_call') \subseteq Range(wrcb_to_call)
  <2>1. wrcb_to_call \in Seq(Obj)
    BY DEF HeapInv, TypeOK
  <2> QED BY <1>1, <2>1, TailIfIs
<1> HIDE DEF f
<1> QED BY <1>1, <1>2, <1>3, ListsHide

LEMMA DeleteMovesHides ==
  ASSUME HeapInv, NEW D \in SUBSET live, Hides(D), DeleteMoves
  PROVE  HideInv'
<1> DEFINE f == Collection("next", None, {})
<1>1. /\ stack # <<>> /\ stack' = Append(Front(stack), f) /\ unreachable' = TailIf(unreachable)
      /\ UNCHANGED <<heapVars, wrcb_to_call, gc, cleared, trash>>
  BY DEF DeleteMoves, InStage, In, Replace, histVars
<1>2. FrameHides(f, D)
  BY SilentFrames
<1>3. Range(unreachable') \subseteq Range(unreachable)
  <2>1. unreachable \in Seq(Obj)
    BY DEF HeapInv, TypeOK
  <2> QED BY <1>1, <2>1, TailIfIs
<1> HIDE DEF f
<1> QED BY <1>1, <1>2, <1>3, ListsHide

LEMMA CallsEndHides ==
  ASSUME HeapInv, NEW D \in SUBSET live, Hides(D), CallsEnd
  PROVE  HideInv'
<1>1. UNCHANGED <<live, refs, wr_object, held, garbage, unreachable, wrcb_to_call, stack, cleared, trash>>
  BY DEF CallsEnd, heapVars, listVars, histVars
<1>2. gc # NoCollection /\ gc.phase = "weakrefs"
  BY DEF CallsEnd, InStage, NoCollection
<1>3. Hides(D)'
  BY <1>1, <1>2 DEF Hides, Clears, FrameHides
<1> QED BY <1>1, <1>3 DEF HideInv

\* handle_finalizers keeps objects with __del__, none of which is in D.
LEMMA CollectEndsHides ==
  ASSUME HeapInv, NEW D \in SUBSET live, Hides(D), CollectEnds
  PROVE  HideInv'
<1>1. /\ stack # <<>> /\ stack' = Front(stack) /\ gc' = NoCollection /\ trash' = {}
      /\ garbage' = garbage \cup (Range(finalizers) \cap Finalizer)
      /\ UNCHANGED <<live, refs, wr_object, held, unreachable, wrcb_to_call, cleared>>
  BY DEF CollectEnds, InStage, In
<1>2. Range(stack') \subseteq Range(stack)
  <2>1. stack \in Seq(Frames)
    BY DEF HeapInv, TypeOK
  <2> QED BY <1>1, <2>1, FramesAfter
<1>3. Hides(D)'
  BY <1>1, <1>2 DEF Hides, Clears, FrameHides
<1> QED BY <1>1, <1>3 DEF HideInv

\* tp_clear detaches what an object of D refers to.
LEMMA ClearNextHides ==
  ASSUME HeapInv, NEW D \in SUBSET live, Hides(D), ClearNext
  PROVE  HideInv'
<1> DEFINE o == Head(unreachable)
           clears == o \in Clearable
           f == Collection("called", o, {o})
           g == Collection("released", o, {})
<1>1. /\ stack # <<>> /\ unreachable # <<>> /\ gc.phase = "delete"
      /\ refs' = IF clears THEN [refs EXCEPT ![o] = {}] ELSE refs
      /\ wr_object' = IF clears THEN [wr_object EXCEPT ![o] = None] ELSE wr_object
      /\ cleared' = IF clears THEN cleared \cup {o} ELSE cleared
      /\ stack' = IF clears THEN Front(stack) \o <<f>> \o Rest(refs[o]) ELSE Front(stack) \o <<g>>
      /\ UNCHANGED <<live, held, garbage, unreachable, wrcb_to_call, gc, trash>>
  BY DEF ClearNext, InStage, In, listVars
<1>2. stack \in Seq(Frames) /\ unreachable \in Seq(Obj) /\ refs \in [Obj -> SUBSET live]
      /\ wr_object \in [Obj -> Obj \cup {None}] /\ live \subseteq Obj
  BY DEF HeapInv, TypeOK
<1>3. o \in D
  <2>1. o \in Range(unreachable)
    BY <1>1, <1>2, TailOnce
  <2>2. Clears
    BY <1>1 DEF Clears, NoCollection
  <2> QED BY <2>1, <2>2 DEF Hides
<1>4. Range(stack') \subseteq Range(stack) \cup {f, g, Drop(refs[o])}
  <2> HIDE DEF f, g, o, clears
  <2>1. CASE clears
    <3>1. stack' = Front(stack) \o <<f>> \o Rest(refs[o])
      BY <1>1, <2>1
    <3>2. Range(stack') \subseteq Range(stack) \cup {f, Drop(refs[o])}
      BY <1>1, <1>2, <3>1, FramesAfter
    <3> QED BY <3>2
  <2>2. CASE ~clears
    <3>1. stack' = Front(stack) \o <<g>>
      BY <1>1, <2>2
    <3>2. Range(stack') \subseteq Range(stack) \cup {g}
      BY <1>1, <1>2, <3>1, FramesAfter
    <3> QED BY <3>2
  <2> QED BY <2>1, <2>2
<1>5. FrameHides(f, D) /\ FrameHides(g, D) /\ FrameHides(Drop(refs[o]), D)
  BY SilentFrames
<1>6. \A p \in Obj : \/ refs'[p] = refs[p] /\ wr_object'[p] = wr_object[p]
                     \/ refs'[p] = {} /\ wr_object'[p] = None
  <2> HIDE DEF f, g, o
  <2>1. o \in Obj
    BY <1>2, <1>3
  <2>2. CASE clears
    <3>1. refs' = [refs EXCEPT ![o] = {}] /\ wr_object' = [wr_object EXCEPT ![o] = None]
      BY <1>1, <2>2
    <3>2. \A p \in Obj : refs'[p] = (IF p = o THEN {} ELSE refs[p])
      BY <1>2, <2>1, <3>1
    <3>3. \A p \in Obj : wr_object'[p] = (IF p = o THEN None ELSE wr_object[p])
      BY <1>2, <2>1, <3>1
    <3> QED BY <3>2, <3>3
  <2>3. CASE ~clears
    <3>1. refs' = refs /\ wr_object' = wr_object
      BY <1>1, <2>3
    <3> QED BY <3>1
  <2> QED BY <2>2, <2>3
<1>7. trash' \cup cleared' \subseteq D
  BY <1>1, <1>3 DEF Hides
<1> HIDE DEF f, g, o, clears
<1>8. \A h \in Range(stack') : FrameHides(h, D)
  BY <1>4, <1>5 DEF Hides
<1>9. Hides(D)'
  <2>1. held' \cap D = {} /\ garbage' \cap D = {} /\ D \cap Finalizer = {} /\ Range(wrcb_to_call') \cap D = {}
    BY <1>1 DEF Hides
  <2>2. \A p \in live' \ D : refs'[p] \cap D = {}
    BY <1>1, <1>2, <1>6 DEF Hides
  <2>3. \A w \in Obj : wr_object'[w] \notin D
    <3>1. None \notin D /\ \A w \in Obj : wr_object[w] \notin D
      BY <1>2, ObjAssumption DEF Hides
    <3> QED BY <1>6, <3>1
  <2>4. \A w \in D \cap Weak : refs'[w] # {} => wr_object'[w] = None
    BY <1>2, <1>6 DEF Hides
  <2>5. Clears' => Range(unreachable') \subseteq D
    BY <1>1 DEF Hides, Clears
  <2>6. \A h \in Range(stack') : FrameHides(h, D)'
    BY <1>8 DEF FrameHides
  <2> QED BY <1>7, <2>1, <2>2, <2>3, <2>4, <2>5, <2>6 DEF Hides
<1> QED BY <1>1, <1>9 DEF HideInv

\* A step that adds no reference to an object of D and gives none of them to Python code.
LEMMA KeepsHidden ==
  ASSUME HeapInv, NEW D \in SUBSET live, Hides(D), D \subseteq live',
         trash' \cup cleared' \subseteq D,
         held' \cap D = {}, garbage' \cap D = {},
         \A p \in live' \ D : refs'[p] \cap D = {},
         \A w \in Obj : wr_object'[w] \notin D,
         \A w \in D \cap Weak : refs'[w] \subseteq refs[w]
                                /\ (wr_object'[w] = wr_object[w] \/ wr_object'[w] = None),
         \A f \in Range(stack') : f \in Range(stack) \/ FrameHides(f, D),
         Range(unreachable') \subseteq Range(unreachable),
         Range(wrcb_to_call') \subseteq Range(wrcb_to_call),
         Clears' => Clears
  PROVE  HideInv'
<1>1. D \cap Finalizer = {} /\ Range(wrcb_to_call') \cap D = {}
  BY DEF Hides
<1>2. \A w \in D \cap Weak : refs'[w] # {} => wr_object'[w] = None
  BY DEF Hides
<1>3. \A f \in Range(stack') : FrameHides(f, D)
  BY DEF Hides
<1>4. \A f \in Range(stack') : FrameHides(f, D)'
  BY <1>3 DEF FrameHides
<1>5. Clears' => Range(unreachable') \subseteq D
  BY DEF Hides
<1>6. Hides(D)'
  BY <1>1, <1>2, <1>4, <1>5 DEF Hides
<1> QED BY <1>6 DEF HideInv

\* The callbacks that a deallocation is to call are those of weak references that refer to the
\* object: none of these is in D.
LEMMA DeallocBeginsHides ==
  ASSUME HeapInv, NEW D \in SUBSET live, Hides(D), NEW o \in Doomed, DeallocBegins(o)
  PROVE  HideInv'
<1>0. PICK W, calls, owners, holds, f :
        /\ W = {w \in Weak : wr_object[w] = o} /\ calls = {wc \in W \X Obj : wc[2] \in refs[wc[1]]}
        /\ owners = {wc[1] : wc \in calls} /\ holds = owners \cup {wc[2] : wc \in calls}
        /\ f = Dealloc(o, "call", holds, calls)
  OBVIOUS
<1>1. /\ Untrack(o) /\ wr_object' = Cleared(wr_object, W \cup {o}, None)
      /\ refs' = Cleared(refs, owners, {}) /\ stack' = Append(stack, f)
      /\ UNCHANGED <<live, held, garbage, gc, cleared, trash>>
  BY <1>0 DEF DeallocBegins, histVars
<1>2. /\ TypeOK /\ WeakOK /\ ListsApart /\ stack \in Seq(Frames)
      /\ live \subseteq Obj /\ refs \in [Obj -> SUBSET live] /\ wr_object \in [Obj -> Obj \cup {None}]
  BY DEF HeapInv, TypeOK
<1>3. o \in Obj /\ o # None
  BY <1>2, ObjAssumption DEF Doomed, ObjAssumption
<1>4. \A wc \in calls : wc[1] \notin D /\ wc[2] \notin D
  <2> SUFFICES ASSUME NEW wc \in calls PROVE wc[1] \notin D /\ wc[2] \notin D
    OBVIOUS
  <2>1. wc[1] \in Weak /\ wr_object[wc[1]] = o /\ wc[2] \in refs[wc[1]]
    BY <1>0
  <2>2. wc[1] \in live
    BY <1>2, <1>3, <2>1, ObjAssumption DEF WeakOK, ObjAssumption
  <2>3. wc[1] \notin D
    BY <1>3, <2>1 DEF Hides
  <2> QED BY <2>1, <2>2, <2>3 DEF Hides
<1>5. FrameHides(f, D)
  BY <1>0, <1>4 DEF FrameHides, Dealloc
<1>6. Range(stack') \subseteq Range(stack) \cup {f}
  BY <1>1, <1>2, FramesAfter
<1>7. \A p \in Obj : refs'[p] \subseteq refs[p]
  BY <1>1, <1>2 DEF Cleared
<1>8. \A w \in Obj : wr_object'[w] = wr_object[w] \/ wr_object'[w] = None
  BY <1>1, <1>2 DEF Cleared
<1>9. /\ Range(unreachable') \subseteq Range(unreachable)
      /\ Range(wrcb_to_call') \subseteq Range(wrcb_to_call)
  <2>1. Untracked(o)
    BY <1>1, <1>2, UntrackIs
  <2> QED BY <2>1 DEF Untracked, Leaves
<1>10. None \notin D /\ \A p \in live \ D : refs[p] \cap D = {}
  BY <1>2, ObjAssumption DEF Hides, ObjAssumption
<1>11. \A p \in live' \ D : refs'[p] \cap D = {}
  BY <1>1, <1>2, <1>7, <1>10
<1>12. \A w \in Obj : wr_object'[w] \notin D
  BY <1>8, <1>10 DEF Hides
<1>13. \A w \in D \cap Weak : refs'[w] \subseteq refs[w]
                              /\ (wr_object'[w] = wr_object[w] \/ wr_object'[w] = None)
  BY <1>2, <1>7, <1>8
<1>14. /\ trash' \cup cleared' \subseteq D /\ held' \cap D = {} /\ garbage' \cap D = {}
       /\ D \subseteq live' /\ (Clears' => Clears)
  BY <1>1 DEF Hides, Clears
<1>15. \A g \in Range(stack') : g \in Range(stack) \/ FrameHides(g, D)
  BY <1>5, <1>6
<1> QED BY <1>9, <1>11, <1>12, <1>13, <1>14, <1>15, KeepsHidden

\* No object with __del__ is in D.
LEMMA DeallocFinalizesHides ==
  ASSUME HeapInv, NEW D \in SUBSET live, Hides(D), DeallocFinalizes
  PROVE  HideInv'
<1> DEFINE f == Dealloc(Top.obj, "deleted", {}, {})
           g == Call({Top.obj})
<1>1. /\ stack # <<>> /\ stack \in Seq(Frames) /\ stack' = Front(stack) \o <<f, g>>
      /\ Top.obj \in Finalizer /\ UNCHANGED heapVars
      /\ UNCHANGED <<unreachable, wrcb_to_call, gc, cleared, trash>>
  BY DEF DeallocFinalizes, In, HeapInv, TypeOK, histVars
<1>2. {Top.obj} \cap D = {}
  BY <1>1 DEF Hides
<1>3. FrameHides(f, D) /\ FrameHides(g, D)
  BY <1>2, SilentFrames
<1>4. Range(stack') \subseteq Range(stack) \cup {f, g}
  <2> HIDE DEF f, g
  <2> QED BY <1>1, FramesAfter
<1> HIDE DEF f, g
<1>5. UNCHANGED <<live, refs, wr_object, held, garbage>>
  BY <1>1 DEF heapVars
<1>6. /\ trash' \cup cleared' \subseteq D /\ held' \cap D = {} /\ garbage' \cap D = {}
      /\ D \subseteq live' /\ (Clears' => Clears)
      /\ \A p \in live' \ D : refs'[p] \cap D = {}
      /\ \A w \in Obj : wr_object'[w] \notin D
  BY <1>1, <1>5 DEF Hides, Clears
<1>7. \A h \in Range(stack') : h \in Range(stack) \/ FrameHides(h, D)
  BY <1>3, <1>4
<1>8. \A w \in D \cap Weak : refs'[w] \subseteq refs[w]
                             /\ (wr_object'[w] = wr_object[w] \/ wr_object'[w] = None)
  BY <1>5
<1> QED BY <1>1, <1>6, <1>7, <1>8, KeepsHidden

\* An object that is freed leaves D.
LEMMA DeallocEndsHides ==
  ASSUME HeapInv, NEW D \in SUBSET live, Hides(D), DeallocEnds
  PROVE  HideInv'
<1>0. PICK o, E : o = Top.obj /\ E = D \ {o}
  OBVIOUS
<1>1. /\ stack # <<>> /\ Untrack(o) /\ wr_object' = Cleared(wr_object, NewWeakrefs(o), None)
      /\ live' = live \ {o} /\ refs' = [refs EXCEPT ![o] = {}]
      /\ stack' = Front(stack) \o Rest(refs[o])
      /\ cleared' = cleared \ {o} /\ trash' = trash \ {o}
      /\ UNCHANGED <<held, garbage, gc>>
  BY <1>0 DEF DeallocEnds, In
<1>2. /\ TypeOK /\ ListsApart /\ stack \in Seq(Frames)
      /\ live \subseteq Obj /\ refs \in [Obj -> SUBSET live] /\ wr_object \in [Obj -> Obj \cup {None}]
  BY DEF HeapInv, TypeOK
<1>3. Range(stack') \subseteq Range(stack) \cup {Drop(refs[o])}
  BY <1>1, <1>2, FramesAfter
<1>4. \A f \in Range(stack') : FrameHides(f, D)
  BY <1>3, SilentFrames DEF Hides
<1>5. \A f \in Range(stack') : FrameHides(f, E)
  BY <1>0, <1>4 DEF FrameHides
<1>6. /\ Range(unreachable') = Range(unreachable) \ {o}
      /\ Range(wrcb_to_call') \subseteq Range(wrcb_to_call)
  <2>1. Untracked(o)
    BY <1>1, <1>2, UntrackIs
  <2> QED BY <2>1 DEF Untracked, Leaves
<1>7. \A p \in Obj : refs'[p] = (IF p = o THEN {} ELSE refs[p])
  BY <1>1, <1>2
<1>8. \A w \in Obj : wr_object'[w] = wr_object[w] \/ wr_object'[w] = None
  BY <1>1, <1>2 DEF Cleared
<1>9. None \notin D /\ E \in SUBSET live'
  BY <1>0, <1>1, <1>2, ObjAssumption DEF ObjAssumption
<1>10. /\ trash' \cup cleared' \subseteq E /\ E \cap Finalizer = {}
       /\ held' \cap E = {} /\ garbage' \cap E = {} /\ Range(wrcb_to_call') \cap E = {}
  BY <1>0, <1>1, <1>6 DEF Hides
<1>11. \A p \in live' \ E : refs'[p] \cap E = {}
  <2> TAKE p \in live' \ E
  <2>1. p \in live \ D /\ p \in Obj /\ p # o
    BY <1>0, <1>1, <1>2
  <2>2. refs[p] \cap D = {} /\ refs'[p] = refs[p]
    BY <1>7, <2>1 DEF Hides
  <2> QED BY <1>0, <2>2
<1>12. \A w \in Obj : wr_object'[w] \notin E
  <2>1. \A w \in Obj : wr_object[w] \notin D
    BY DEF Hides
  <2> QED BY <1>0, <1>8, <1>9, <2>1
<1>13. \A w \in E \cap Weak : refs'[w] # {} => wr_object'[w] = None
  <2> TAKE w \in E \cap Weak
  <2>1. w \in Obj /\ w \in D \cap Weak
    BY <1>0, <1>2
  <2>2. refs[w] # {} => wr_object[w] = None
    BY <2>1 DEF Hides
  <2>3. refs'[w] # {} => refs[w] # {}
    BY <1>7, <2>1
  <2> QED BY <1>8, <2>1, <2>2, <2>3
<1>14. Clears' => Range(unreachable') \subseteq E
  <2>1. Clears => Range(unreachable) \subseteq D
    BY DEF Hides
  <2> QED BY <1>0, <1>1, <1>6, <2>1 DEF Clears
<1>15. \A f \in Range(stack') : FrameHides(f, E)'
  BY <1>5 DEF FrameHides
<1>16. Hides(E)'
  BY <1>10, <1>11, <1>12, <1>13, <1>14, <1>15 DEF Hides
<1> QED BY <1>9, <1>16 DEF HideInv

\* What the program makes, stores, keeps and watches is outside D.
LEMMA NewHides ==
  ASSUME HeapInv, PythonRuns, NEW D \in SUBSET live, Hides(D), NEW o \in Obj, New(o)
  PROVE  HideInv'
<1>1. /\ o \notin live /\ live' = live \cup {o} /\ held' = held \cup {o}
      /\ UNCHANGED <<refs, wr_object, garbage, unreachable, wrcb_to_call, gc, stack, cleared, trash>>
  BY DEF New, histVars
<1>2. live \subseteq Obj /\ \A p \in Obj \ live : refs[p] = {}
  BY ProgramIs
<1>3. \A p \in live' \ D : refs'[p] \cap D = {}
  BY <1>1, <1>2 DEF Hides
<1>4. /\ trash' \cup cleared' \subseteq D /\ held' \cap D = {} /\ garbage' \cap D = {}
      /\ D \subseteq live' /\ (Clears' => Clears)
      /\ \A w \in Obj : wr_object'[w] \notin D
      /\ \A f \in Range(stack') : f \in Range(stack)
  BY <1>1 DEF Hides, Clears
<1>5. \A w \in D \cap Weak : refs'[w] \subseteq refs[w]
                             /\ (wr_object'[w] = wr_object[w] \/ wr_object'[w] = None)
  BY <1>1
<1> QED BY <1>1, <1>3, <1>4, <1>5, KeepsHidden

LEMMA PyWeakref_NewRefHides ==
  ASSUME HeapInv, PythonRuns, NEW D \in SUBSET live, Hides(D), NEW w \in Weak, NEW o \in Accessible,
         PyWeakref_NewRef(w, o)
  PROVE  HideInv'
<1>1. /\ w \in Weak \ live
      /\ refs' = refs \/ \E c \in Accessible : refs' = [refs EXCEPT ![w] = {c}]
      /\ wr_object' = [wr_object EXCEPT ![w] = o]
      /\ live' = live \cup {w} /\ held' = held \cup {w}
      /\ UNCHANGED <<garbage, unreachable, wrcb_to_call, gc, stack, cleared, trash>>
  BY DEF PyWeakref_NewRef, histVars
<1>2. /\ live \subseteq Obj /\ refs \in [Obj -> SUBSET live] /\ \A p \in Obj \ live : refs[p] = {}
  BY ProgramIs
<1>3. Accessible \cap D = {}
  BY AccessibleHides
<1>4. w \in Obj /\ w \notin D /\ wr_object \in [Obj -> Obj \cup {None}]
  BY <1>1, ObjAssumption DEF ObjAssumption, HeapInv, TypeOK
<1>5. /\ \A p \in Obj \ {w} : refs'[p] = refs[p]
      /\ refs'[w] \cap D = {}
  <2>1. CASE refs' = refs
    BY <1>1, <1>2, <1>4, <2>1
  <2>2. ASSUME NEW c \in Accessible, refs' = [refs EXCEPT ![w] = {c}]
        PROVE  /\ \A p \in Obj \ {w} : refs'[p] = refs[p]
               /\ refs'[w] \cap D = {}
    BY <1>2, <1>3, <1>4, <2>2
  <2> QED BY <1>1, <2>1, <2>2
<1>6. \A v \in Obj : wr_object'[v] = (IF v = w THEN o ELSE wr_object[v])
  BY <1>1, <1>4
<1>7. \A p \in live' \ D : refs'[p] \cap D = {}
  <2> TAKE p \in live' \ D
  <2>1. CASE p = w
    BY <1>5, <2>1
  <2>2. CASE p # w
    <3>1. p \in live \ D /\ p \in Obj \ {w}
      BY <1>1, <1>2, <2>2
    <3> QED BY <1>5, <3>1 DEF Hides
  <2> QED BY <2>1, <2>2
<1>8. \A v \in Obj : wr_object'[v] \notin D
  BY <1>3, <1>6 DEF Hides
<1>9. \A v \in D \cap Weak : refs'[v] \subseteq refs[v]
                             /\ (wr_object'[v] = wr_object[v] \/ wr_object'[v] = None)
  <2>1. \A v \in D \cap Weak : v \in Obj \ {w}
    BY <1>2, <1>4
  <2> QED BY <1>5, <1>6, <2>1
<1>10. /\ trash' \cup cleared' \subseteq D /\ held' \cap D = {} /\ garbage' \cap D = {}
       /\ D \subseteq live' /\ (Clears' => Clears)
       /\ \A f \in Range(stack') : f \in Range(stack)
  BY <1>1, <1>4 DEF Hides, Clears
<1> QED BY <1>1, <1>7, <1>8, <1>9, <1>10, KeepsHidden

LEMMA StoreHides ==
  ASSUME HeapInv, PythonRuns, NEW D \in SUBSET live, Hides(D), NEW o \in Accessible,
         NEW p \in Accessible, Store(o, p) \/ Erase(o, p)
  PROVE  HideInv'
<1>1. /\ refs' = [refs EXCEPT ![o] = refs[o] \cup {p}] \/ refs' = [refs EXCEPT ![o] = refs[o] \ {p}]
      /\ UNCHANGED <<live, wr_object, held, garbage, unreachable, wrcb_to_call, gc, stack, cleared, trash>>
  BY DEF Store, Erase, listVars, histVars
<1>2. Accessible \cap D = {} /\ live \subseteq Obj /\ refs \in [Obj -> SUBSET live]
  BY AccessibleHides, ProgramIs
<1>3. \A q \in Obj : refs'[q] \cap D \subseteq refs[q] /\ (q # o => refs'[q] = refs[q])
  BY <1>1, <1>2
<1>4. \A q \in live' \ D : refs'[q] \cap D = {}
  BY <1>1, <1>2, <1>3 DEF Hides
<1>5. \A w \in D \cap Weak : refs'[w] \subseteq refs[w]
                             /\ (wr_object'[w] = wr_object[w] \/ wr_object'[w] = None)
  BY <1>1, <1>2, <1>3
<1>6. /\ trash' \cup cleared' \subseteq D /\ held' \cap D = {} /\ garbage' \cap D = {}
      /\ D \subseteq live' /\ (Clears' => Clears)
      /\ \A w \in Obj : wr_object'[w] \notin D
      /\ \A f \in Range(stack') : f \in Range(stack)
  BY <1>1 DEF Hides, Clears
<1> QED BY <1>1, <1>4, <1>5, <1>6, KeepsHidden

LEMMA HoldHides ==
  ASSUME HeapInv, PythonRuns, NEW D \in SUBSET live, Hides(D), NEW o,
         (o \in Accessible /\ Hold(o)) \/ Release(o) \/ Discard(o)
  PROVE  HideInv'
<1>1. /\ UNCHANGED <<live, refs, wr_object, unreachable, wrcb_to_call, gc, stack, cleared, trash>>
      /\ held' \subseteq held \cup Accessible /\ garbage' \subseteq garbage
  BY DEF Hold, Release, Discard, listVars, histVars
<1>2. Accessible \cap D = {}
  BY AccessibleHides
<1>3. /\ trash' \cup cleared' \subseteq D /\ held' \cap D = {} /\ garbage' \cap D = {}
      /\ D \subseteq live' /\ (Clears' => Clears)
      /\ \A w \in Obj : wr_object'[w] \notin D
      /\ \A f \in Range(stack') : f \in Range(stack)
  BY <1>1, <1>2 DEF Hides, Clears
<1>4. \A q \in live' \ D : refs'[q] \cap D = {}
  BY <1>1 DEF Hides
<1>5. \A w \in D \cap Weak : refs'[w] \subseteq refs[w]
                             /\ (wr_object'[w] = wr_object[w] \/ wr_object'[w] = None)
  BY <1>1
<1> QED BY <1>1, <1>3, <1>4, <1>5, KeepsHidden

\* A collection begins, or looks at one more object.
LEMMA CollectHides ==
  ASSUME HeapInv, NEW D \in SUBSET live, Hides(D), NEW g \in Generation, Collect(g)
  PROVE  HideInv'
<1> DEFINE f == Collection("next", None, {})
<1>1. /\ stack \in Seq(Frames) /\ stack' = Append(stack, f)
      /\ UNCHANGED <<live, refs, wr_object, held, garbage, unreachable, wrcb_to_call, cleared, trash>>
  BY DEF Collect, heapVars, histVars, HeapInv, TypeOK
<1>2. gc'.phase = "move"
  <2>1. gc' = [phase |-> "move", generation |-> g, scanned |-> 0, gc_refs |-> GcRefs(Range(Merged(g)))]
    BY DEF Collect
  <2> QED BY <2>1
<1>3. FrameHides(f, D)
  BY SilentFrames
<1> HIDE DEF f
<1>4. Range(stack') \subseteq Range(stack) \cup {f}
  BY <1>1, FramesAfter
<1>5. /\ trash' \cup cleared' \subseteq D /\ held' \cap D = {} /\ garbage' \cap D = {}
      /\ D \subseteq live' /\ (Clears' => Clears)
      /\ \A w \in Obj : wr_object'[w] \notin D
      /\ \A h \in Range(stack') : h \in Range(stack) \/ FrameHides(h, D)
  BY <1>1, <1>2, <1>3, <1>4 DEF Hides, Clears
<1>6. \A q \in live' \ D : refs'[q] \cap D = {}
  BY <1>1 DEF Hides
<1>7. \A w \in D \cap Weak : refs'[w] \subseteq refs[w]
                             /\ (wr_object'[w] = wr_object[w] \/ wr_object'[w] = None)
  BY <1>1
<1> QED BY <1>1, <1>5, <1>6, <1>7, KeepsHidden

LEMMA MoveNextHides ==
  ASSUME HeapInv, NEW D \in SUBSET live, Hides(D), MoveNext
  PROVE  HideInv'
<1> DEFINE o == young[gc.scanned + 1]
<1>1. /\ In("collect") /\ gc.phase = "move" /\ gc.scanned < Len(young)
      /\ VisitReachable(o) \/ MoveUnreachable(o)
      /\ UNCHANGED <<heapVars, finalizers, wrcb_to_call, stack, histVars>>
  BY DEF MoveNext, Moving
<1>2. Moves
  <2>1. TypeOK /\ FramesOK
    BY DEF HeapInv
  <2>2. Top \in Range(stack) /\ Top.op = "collect"
    BY <1>1, <2>1, StackIs DEF In
  <2> QED BY <1>1, <2>1, <2>2 DEF FramesOK, FrameOK, CollectOK, Moves
<1>3. o \in Obj
  BY <1>1, <1>2, YoungIs
<1>4. gc'.phase = "move"
  <2>1. CASE VisitReachable(o)
    <3>1. Visits(o)
      <4> HIDE DEF o
      <4> QED BY <1>1, <1>2, <1>3, <2>1, VisitReachableKeeps
    <3> QED BY <3>1 DEF Visits
  <2>2. CASE MoveUnreachable(o)
    <3>1. Suspects(o)
      BY <1>1, <1>2, <2>2, MoveUnreachableKeeps
    <3> QED BY <3>1 DEF Suspects
  <2> QED BY <1>1, <2>1, <2>2
<1>5. UNCHANGED <<live, refs, wr_object, held, garbage, wrcb_to_call, stack, cleared, trash>>
  BY <1>1 DEF heapVars, histVars
<1>6. Hides(D)'
  BY <1>4, <1>5 DEF Hides, Clears, FrameHides
<1> QED BY <1>5, <1>6 DEF HideInv

\* When the reference count of o is no more than the references from Y, nothing else refers to o.
LEMMA RefcntInside ==
  ASSUME IsFiniteSet(live), stack \in Seq(Frames), NEW Y \in SUBSET live, NEW o,
         ~(ob_refcnt(o) > Cardinality(Referring(Y, o)))
  PROVE  /\ \A p \in live : o \in refs[p] => p \in Y
         /\ o \notin held /\ o \notin garbage /\ \A f \in Range(stack) : o \notin f.holds
<1> DEFINE A == Referring(live, o)
           H == {i \in DOMAIN stack : o \in stack[i].holds}
<1>1. IsFiniteSet(A) /\ Referring(Y, o) \subseteq A
  <2>1. A \subseteq live /\ Referring(Y, o) \subseteq A
    BY DEF Referring
  <2> QED BY <2>1, FS_Subset
<1>2. /\ Cardinality(Referring(Y, o)) <= Cardinality(A) /\ IsFiniteSet(Referring(Y, o))
      /\ Cardinality(Referring(Y, o)) = Cardinality(A) => A = Referring(Y, o)
  BY <1>1, FS_Subset
<1>3. IsFiniteSet(H) /\ IsFiniteSet({o} \cap held) /\ IsFiniteSet({o} \cap garbage)
  <2>1. IsFiniteSet(H)
    <3>1. Len(stack) \in Nat /\ DOMAIN stack = 1 .. Len(stack)
      OBVIOUS
    <3>2. IsFiniteSet(1 .. Len(stack))
      BY <3>1, FS_Interval
    <3>3. H \subseteq 1 .. Len(stack)
      BY <3>1
    <3> QED BY <3>2, <3>3, FS_Subset
  <2>2. IsFiniteSet({o})
    BY FS_Singleton
  <2>3. {o} \cap held \subseteq {o} /\ {o} \cap garbage \subseteq {o}
    OBVIOUS
  <2> QED BY <2>1, <2>2, <2>3, FS_Subset
<1> DEFINE a == Cardinality(A)
           b == Cardinality({o} \cap held)
           c == Cardinality({o} \cap garbage)
           d == Cardinality(H)
           y == Cardinality(Referring(Y, o))
<1>4. a \in Nat /\ b \in Nat /\ c \in Nat /\ d \in Nat /\ y \in Nat
  BY <1>1, <1>2, <1>3, FS_CardinalityType
<1>5. ob_refcnt(o) = a + b + c + d /\ y <= a /\ ~(ob_refcnt(o) > y)
  BY <1>2 DEF ob_refcnt
<1>6. (b = 0 <=> {o} \cap held = {}) /\ (c = 0 <=> {o} \cap garbage = {}) /\ (d = 0 <=> H = {})
  BY <1>3, FS_EmptySet
<1>7. y = a => A = Referring(Y, o)
  BY <1>2
<1> HIDE DEF a, b, c, d, y
<1>8. y = a /\ b = 0 /\ c = 0 /\ d = 0
  BY <1>4, <1>5
<1>9. A = Referring(Y, o) /\ {o} \cap held = {} /\ {o} \cap garbage = {} /\ H = {}
  BY <1>6, <1>7, <1>8
<1>10. \A f \in Range(stack) : o \notin f.holds
  BY <1>9 DEF Range
<1> QED BY <1>9, <1>10 DEF Referring

\* What nothing refers to but D: the trash that the collector found, all the references to
\* which are within it.
Isolated(D) ==
  /\ \A p \in live : \A o \in D : o \in refs[p] => p \in D
  /\ held \cap D = {} /\ garbage \cap D = {} /\ \A f \in Range(stack) : f.holds \cap D = {}

LEMMA DeadIsolated ==
  ASSUME HeapInv, ScanInv, Moves, gc.scanned = Len(young)
  PROVE  Isolated(Dead) /\ Dead \cap Finalizer = {} /\ Dead \subseteq Range(unreachable)
<1>1. /\ stack \in Seq(Frames) /\ Range(young) \subseteq live /\ Range(unreachable) \subseteq live
      /\ IsFiniteSet(live)
  BY YoungIs DEF HeapInv, TypeOK
<1>2. Range(unreachable) = Collected \ Within
  BY ScanEnds DEF UnreachableExact, Moves, Collected, Within, Outside
<1>3. /\ Outside \cap Collected \subseteq Within
      /\ \A p \in Within : refs[p] \cap Collected \subseteq Within
  <2>1. IsFiniteSet(Collected)
    <3>1. Collected \subseteq live
      BY <1>1 DEF Collected
    <3> QED BY <1>1, <3>1, FS_Subset
  <2> QED BY <2>1, ReachingIs DEF Within
<1>4. /\ Range(unreachable) \cap Finalizer \subseteq Uncollectable
      /\ \A p \in Uncollectable : refs[p] \cap Range(unreachable) \subseteq Uncollectable
  <2>1. IsFiniteSet(Range(unreachable))
    BY <1>1, FS_Subset
  <2> DEFINE R == Range(unreachable) \cap Finalizer
             S == Range(unreachable)
  <2>2. /\ R \cap S \subseteq Reaching(R, S, refs)
        /\ \A p \in Reaching(R, S, refs) : refs[p] \cap S \subseteq Reaching(R, S, refs)
    <3> HIDE DEF R
    <3> QED BY <2>1, ReachingIs
  <2> QED BY <2>2 DEF Uncollectable
<1>5. ASSUME NEW o \in Dead
      PROVE  /\ o \notin held /\ o \notin garbage /\ \A f \in Range(stack) : o \notin f.holds
             /\ \A p \in live : o \in refs[p] => p \in Dead
  <2>1. o \in Range(unreachable) /\ o \notin Uncollectable /\ o \in Collected /\ o \notin Within
    BY <1>2 DEF Dead
  <2>2. ~(ob_refcnt(o) > Cardinality(Referring(Collected, o)))
    BY <1>3, <2>1 DEF Outside
  <2>3. Collected \in SUBSET live
    BY <1>1 DEF Collected
  <2>4. /\ \A p \in live : o \in refs[p] => p \in Collected
        /\ o \notin held /\ o \notin garbage /\ \A f \in Range(stack) : o \notin f.holds
    BY <1>1, <2>2, <2>3, RefcntInside
  <2>5. ASSUME NEW p \in live, o \in refs[p] PROVE p \in Dead
    <3>1. p \in Collected /\ p \notin Within
      BY <1>3, <2>1, <2>4, <2>5
    <3>2. p \in Range(unreachable) /\ p \notin Uncollectable
      BY <1>2, <1>4, <2>1, <2>5, <3>1
    <3> QED BY <3>2 DEF Dead
  <2> QED BY <2>4, <2>5
<1>6. Isolated(Dead)
  BY <1>5 DEF Isolated
<1>7. Dead \cap Finalizer = {} /\ Dead \subseteq Range(unreachable)
  BY <1>4 DEF Dead
<1> QED BY <1>6, <1>7

\* handle_weakrefs, first pass: the trash that was found joins D.  Nothing else refers to it, the
\* weak references to it are cleared, and those that will be called are not part of it.
LEMMA MoveEndsHides ==
  ASSUME HeapInv, ScanInv, OwnReferents, NEW D \in SUBSET live, Hides(D), MoveEnds
  PROVE  HideInv'
<1>0. PICK dead, calls, f, E : /\ dead = Dead /\ calls = ToCall(dead)
                               /\ f = Collection("next", None, calls) /\ E = D \cup dead
  OBVIOUS
<1>1. /\ In("collect") /\ gc.phase = "move" /\ gc.scanned = Len(young)
      /\ unreachable' = Only(unreachable, dead)
      /\ wr_object' = Cleared(wr_object, ToTrash(dead), None)
      /\ wrcb_to_call' \in SetToSeqs(calls)
      /\ stack' = Front(stack) \o <<f>>
      /\ trash' = dead
      /\ UNCHANGED <<live, refs, held, garbage, cleared, called>>
  BY <1>0 DEF MoveEnds, Moving, Dead
<1>2. /\ TypeOK /\ WeakOK /\ FramesOK /\ stack \in Seq(Frames)
      /\ live \subseteq Obj /\ refs \in [Obj -> SUBSET live] /\ wr_object \in [Obj -> Obj \cup {None}]
      /\ unreachable \in Seq(Obj) /\ Range(unreachable) \subseteq live
  BY DEF HeapInv, TypeOK, Listed
<1>3. stack # <<>> /\ Top \in Range(stack) /\ Moves
  <2>1. stack # <<>> /\ Top \in Range(stack) /\ Top.op = "collect"
    BY <1>1, <1>2, StackIs DEF In
  <2> QED BY <1>1, <1>2, <2>1 DEF FramesOK, FrameOK, CollectOK, Moves
<1>4. Isolated(dead) /\ dead \cap Finalizer = {} /\ dead \subseteq Range(unreachable)
  BY <1>0, <1>1, <1>3, DeadIsolated
<1>5. dead \in SUBSET Obj /\ E \in SUBSET live' /\ None \notin E
  BY <1>0, <1>1, <1>2, <1>4, ObjAssumption DEF ObjAssumption
<1>6. /\ calls \cap dead = {} /\ IsFiniteSet(calls) /\ calls \subseteq Weak
      /\ \A w \in calls : refs[w] # {} /\ wr_object[w] \in dead
  <2>1. /\ calls \cap dead = {} /\ IsFiniteSet(calls) /\ calls \subseteq Weak
    BY <1>0, <1>5, ToCallIs, ObjAssumption
  <2> QED BY <1>0, <2>1 DEF ToCall, ToTrash
<1>7. Range(wrcb_to_call') \cap E = {}
  <2>1. Range(wrcb_to_call') = calls
    BY <1>1, <1>6, SetToSeqsIs
  <2>2. calls \cap D = {}
    <3> SUFFICES ASSUME NEW w \in calls \cap D PROVE FALSE
      OBVIOUS
    <3>1. w \in D \cap Weak /\ refs[w] # {} /\ wr_object[w] \in dead
      BY <1>6
    <3>2. wr_object[w] = None
      BY <3>1 DEF Hides
    <3> QED BY <1>0, <1>5, <3>1, <3>2
  <2> QED BY <1>0, <1>6, <2>1, <2>2
<1>8. Range(unreachable') \subseteq E
  <2>1. Range(unreachable') = Range(unreachable) \cap dead
    BY <1>1, <1>2, OnlyElements
  <2> QED BY <1>0, <2>1
<1>9. /\ \A w \in Obj : wr_object'[w] = wr_object[w] \/ wr_object'[w] = None
      /\ \A w \in Weak : wr_object[w] \in dead => wr_object'[w] = None
      /\ \A w \in Obj : wr_object[w] \in dead => w \in Weak
  <2>1. \A w \in Obj : wr_object'[w] = (IF w \in ToTrash(dead) THEN None ELSE wr_object[w])
    BY <1>1, <1>2 DEF Cleared
  <2>2. \A w \in Weak : w \in Obj /\ (wr_object[w] \in dead => w \in ToTrash(dead))
    BY ObjAssumption DEF ToTrash, ObjAssumption
  <2>3. \A w \in Obj : wr_object[w] \in dead => w \in Weak
    BY <1>0, <1>2, <1>5, ObjAssumption, ZenonT(60) DEF WeakOK, ObjAssumption
  <2> QED BY <2>1, <2>2, <2>3
<1>10. \A w \in Obj : wr_object'[w] \notin E
  <2> TAKE w \in Obj
  <2>1. wr_object[w] \notin D
    BY DEF Hides
  <2> QED BY <1>0, <1>5, <1>9, <2>1
<1>11. \A w \in E \cap Weak : refs'[w] # {} => wr_object'[w] = None
  <2> SUFFICES ASSUME NEW w \in E \cap Weak, refs'[w] # {} PROVE wr_object'[w] = None
    OBVIOUS
  <2>1. w \in Obj /\ refs[w] # {}
    BY <1>1, <1>2, <1>5
  <2>2. CASE w \in D
    <3>1. wr_object[w] = None
      BY <2>1, <2>2 DEF Hides
    <3> QED BY <1>9, <2>1, <3>1
  <2>3. CASE w \in dead
    <3>1. wr_object[w] \in dead \cup {None}
      BY <1>0, <1>1, <1>3, <2>1, <2>3 DEF OwnReferents
    <3> QED BY <1>9, <2>1, <3>1
  <2> QED BY <1>0, <2>2, <2>3
<1>12. \A p \in live' \ E : refs'[p] \cap E = {}
  <2> TAKE p \in live' \ E
  <2>1. p \in live /\ p \notin D /\ p \notin dead /\ refs'[p] = refs[p]
    BY <1>0, <1>1
  <2>2. refs[p] \cap D = {}
    BY <2>1 DEF Hides
  <2>3. refs[p] \cap dead = {}
    BY <1>4, <2>1 DEF Isolated
  <2> QED BY <1>0, <2>1, <2>2, <2>3
<1>13. \A h \in Range(stack') : FrameHides(h, E)
  <2>1. FrameHides(f, E)
    BY <1>0, SilentFrames
  <2>2. ASSUME NEW h \in Range(stack) PROVE FrameHides(h, E)
    <3>1. FrameHides(h, D) /\ h.holds \cap dead = {} /\ FrameOK(h)
      BY <1>2, <1>4 DEF Hides, Isolated, FramesOK
    <3>2. h.op = "python" => h.holds \cap E = {}
      BY <1>0, <3>1 DEF FrameHides
    <3>3. h.op = "dealloc" => \A wc \in h.calls : wc[1] \notin E /\ wc[2] \notin E
      BY <1>0, <3>1 DEF FrameHides, FrameOK, DeallocOK
    <3> QED BY <3>2, <3>3 DEF FrameHides
  <2>3. Range(stack') \subseteq Range(stack) \cup {f}
    BY <1>1, <1>2, <1>3, FramesAfter
  <2> QED BY <2>1, <2>2, <2>3
<1>14. /\ trash' \cup cleared' \subseteq E /\ E \cap Finalizer = {}
       /\ held' \cap E = {} /\ garbage' \cap E = {}
  BY <1>0, <1>1, <1>4 DEF Hides, Isolated
<1>15. \A h \in Range(stack') : FrameHides(h, E)'
  BY <1>13 DEF FrameHides
<1>16. Hides(E)'
  BY <1>7, <1>8, <1>10, <1>11, <1>12, <1>14, <1>15 DEF Hides
<1> QED BY <1>5, <1>16 DEF HideInv

\* D is {} at first, and every step has a D.
LEMMA NextHideInv ==
  ASSUME HeapInv, ScanInv, OwnReferents, HideInv, [Next]_vars
  PROVE  HideInv'
<1>0. PICK D \in SUBSET live : Hides(D)
  BY DEF HideInv
<1>1. CASE \E o \in Doomed : DeallocBegins(o)
  BY <1>0, <1>1, DeallocBeginsHides
<1>2. CASE Return
  BY <1>0, <1>2, ReturnHides
<1>3. CASE Deallocation
  <2>1. ASSUME NEW o \in Obj, Py_DECREF(o) PROVE HideInv'
    BY <1>0, <2>1, Py_DECREFHides
  <2>2. ASSUME NEW wc \in Weak \X Obj, DeallocCalls(wc) PROVE HideInv'
    BY <1>0, <2>2, DeallocCallsHides
  <2>3. CASE DeallocCalled
    BY <1>0, <2>3, DeallocCalledHides
  <2>4. CASE DeallocFinalizes
    BY <1>0, <2>4, DeallocFinalizesHides
  <2>5. CASE DeallocResurrected
    BY <1>0, <2>5, DeallocResurrectedHides
  <2>6. CASE DeallocEnds
    BY <1>0, <2>6, DeallocEndsHides
  <2> QED BY <1>3, <2>1, <2>2, <2>3, <2>4, <2>5, <2>6 DEF Deallocation
<1>4. CASE Collecting
  <2>1. CASE MoveNext
    BY <1>0, <2>1, MoveNextHides
  <2>2. CASE MoveEnds
    BY <1>0, <2>2, MoveEndsHides
  <2>3. CASE CallNext
    BY <1>0, <2>3, CallNextHides
  <2>4. CASE CallsEnd
    BY <1>0, <2>4, CallsEndHides
  <2>5. CASE CollectDecref
    BY <1>0, <2>5, CollectDecrefHides
  <2>6. CASE CallMoves
    BY <1>0, <2>6, CallMovesHides
  <2>7. CASE ClearNext
    BY <1>0, <2>7, ClearNextHides
  <2>8. CASE DeleteMoves
    BY <1>0, <2>8, DeleteMovesHides
  <2>9. CASE CollectEnds
    BY <1>0, <2>9, CollectEndsHides
  <2> QED BY <1>4, <2>1, <2>2, <2>3, <2>4, <2>5, <2>6, <2>7, <2>8, <2>9 DEF Collecting
<1>5. CASE PythonRuns /\ Program
  <2>1. ASSUME NEW o \in Obj, New(o) PROVE HideInv'
    BY <1>0, <1>5, <2>1, NewHides
  <2>2. ASSUME NEW o \in Obj, Release(o) \/ Discard(o) PROVE HideInv'
    BY <1>0, <1>5, <2>2, HoldHides
  <2>3. ASSUME NEW o \in Accessible, Hold(o) PROVE HideInv'
    BY <1>0, <1>5, <2>3, HoldHides
  <2>4. ASSUME NEW o \in Accessible, NEW p \in Accessible, Store(o, p) \/ Erase(o, p) PROVE HideInv'
    BY <1>0, <1>5, <2>4, StoreHides
  <2>5. ASSUME NEW w \in Weak, NEW o \in Accessible, PyWeakref_NewRef(w, o) PROVE HideInv'
    BY <1>0, <1>5, <2>5, PyWeakref_NewRefHides
  <2>6. ASSUME NEW g \in Generation, Collect(g) PROVE HideInv'
    BY <1>0, <2>6, CollectHides
  <2> QED BY <1>5, <2>1, <2>2, <2>3, <2>4, <2>5, <2>6 DEF Program
<1>6. CASE UNCHANGED vars
  <2>1. UNCHANGED <<live, refs, wr_object, held, garbage, unreachable, wrcb_to_call, gc, stack,
                    cleared, trash>>
    BY <1>6 DEF vars, heapVars, listVars, histVars
  <2>2. Hides(D)'
    BY <1>0, <2>1 DEF Hides, Clears, FrameHides
  <2> QED BY <1>0, <2>1, <2>2 DEF HideInv
<1> QED BY <1>1, <1>2, <1>3, <1>4, <1>5, <1>6 DEF Next

\* ScanInv is an invariant, with HeapInv.
THEOREM ScanInvHolds == Spec => []ScanInv
<1>1. Init => ScanInv
  BY DEF Init, ScanInv, Moves
<1>2. HeapInv /\ HeapInv' /\ ScanInv /\ [Next]_vars => ScanInv'
  BY NextScanInv, ObjAssumption
<1> QED BY <1>1, <1>2, HeapInvHolds, PTL DEF Spec

\* While weak references with callbacks are trash only together with what they refer to, some
\* set of objects has all of the trash and is out of the reach of Python code.
THEOREM HideInvHolds == Spec /\ []OwnReferents => []HideInv
<1>1. Init => HideInv
  <2> SUFFICES ASSUME Init PROVE Hides({})
    BY DEF HideInv
  <2>1. Range(unreachable) = {} /\ gc = NoCollection
    <3>1. DOMAIN <<>> = {}
      OBVIOUS
    <3> QED BY <3>1 DEF Init, Range
  <2> QED BY <2>1 DEF Init, Hides, FrameHides, Clears
<1>2. HeapInv /\ ScanInv /\ OwnReferents /\ HideInv /\ [Next]_vars => HideInv'
  BY NextHideInv
<1> QED BY <1>1, <1>2, HeapInvHolds, ScanInvHolds, PTL DEF Spec

\* The rule of Modules/gc_weakref.txt, whatever callbacks and __del__ do: while weak references
\* with callbacks are trash only together with what they refer to, no Python code gets at an
\* object of the trash, nor at one on which the collector called tp_clear.
THEOREM TrashAlwaysHidden == Spec /\ []OwnReferents => []TrashHidden
<1>1. HeapInv /\ HideInv => TrashHidden
  <2> SUFFICES ASSUME HeapInv, NEW D \in SUBSET live, Hides(D) PROVE TrashHidden
    BY DEF HideInv
  <2>1. Accessible \cap D = {} /\ trash \cup cleared \subseteq D
    BY AccessibleHides DEF Hides
  <2> QED BY <2>1 DEF TrashHidden
<1> QED BY <1>1, HeapInvHolds, HideInvHolds, PTL

\* Objects refer only to what programs make them refer to.
Refers == \A p \in Obj : \A q \in refs[p] : <<p, q>> \in MayRefer

LEMMA NextRefers ==
  ASSUME HeapInv, Refers, [Next]_vars
  PROVE  Refers'
<1>1. /\ refs \in [Obj -> SUBSET live] /\ live \subseteq Obj /\ unreachable \in Seq(Obj)
      /\ stack \in Seq(Frames)
  BY DEF HeapInv, TypeOK
<1>2. ASSUME \A p \in Obj : refs'[p] \subseteq refs[p] PROVE Refers'
  BY <1>2 DEF Refers
<1>3. ASSUME refs' = refs PROVE Refers'
  BY <1>3 DEF Refers
<1>4. CASE \E o \in Doomed : DeallocBegins(o)
  <2>1. PICK S : refs' = Cleared(refs, S, {})
    BY <1>4 DEF DeallocBegins
  <2> QED BY <1>1, <1>2, <2>1 DEF Cleared
<1>5. CASE Return
  BY <1>3, <1>5 DEF Return, heapVars
<1>6. CASE Deallocation
  <2>1. CASE DeallocEnds
    <3>1. PICK o : refs' = [refs EXCEPT ![o] = {}]
      BY <2>1 DEF DeallocEnds
    <3> QED BY <1>1, <1>2, <3>1
  <2>2. CASE ~DeallocEnds
    BY <1>3, <1>6, <2>2
    DEF Deallocation, Py_DECREF, DeallocCalls, DeallocCalled, DeallocFinalizes, DeallocResurrected, heapVars
  <2> QED BY <2>1, <2>2
<1>7. CASE Collecting
  <2>1. CASE ClearNext
    <3>1. PICK o : refs' = refs \/ refs' = [refs EXCEPT ![o] = {}]
      BY <2>1 DEF ClearNext
    <3> QED BY <1>1, <1>2, <3>1
  <2>2. CASE ~ClearNext
    BY <1>3, <1>7, <2>2, Zenon
    DEF Collecting, MoveNext, MoveEnds, CallNext, CallsEnd, CollectDecref, CallMoves, DeleteMoves,
        CollectEnds, heapVars
  <2> QED BY <2>1, <2>2
<1>8. CASE PythonRuns /\ Program
  <2>1. ASSUME NEW o \in Accessible, NEW p \in Accessible, Store(o, p) \/ Erase(o, p) PROVE Refers'
    <3>1. \/ refs' = [refs EXCEPT ![o] = refs[o] \cup {p}] /\ <<o, p>> \in MayRefer
          \/ refs' = [refs EXCEPT ![o] = refs[o] \ {p}]
      BY <2>1 DEF Store, Erase
    <3> QED BY <1>1, <3>1 DEF Refers
  <2>2. ASSUME NEW w \in Weak, NEW o \in Accessible, PyWeakref_NewRef(w, o) PROVE Refers'
    <3>1. refs' = refs \/ \E c \in Callbacks(w) : refs' = [refs EXCEPT ![w] = {c}]
      BY <2>2 DEF PyWeakref_NewRef
    <3> QED BY <1>1, <3>1, ZenonT(60) DEF Refers, Callbacks
  <2>3. CASE \/ \E o \in Obj : New(o) \/ Release(o) \/ Discard(o)
             \/ \E o \in Accessible : Hold(o)
             \/ \E g \in Generation : Collect(g)
    BY <1>3, <2>3 DEF New, Release, Discard, Hold, Collect, heapVars
  <2> QED BY <1>8, <2>1, <2>2, <2>3 DEF Program
<1>9. CASE UNCHANGED vars
  BY <1>3, <1>9 DEF vars, heapVars
<1> QED BY <1>4, <1>5, <1>6, <1>7, <1>8, <1>9 DEF Next

\* Programs in which nothing refers to a weak reference with a callback but what it refers to.
OwnWeakrefs ==
  \A w \in Weak, p, o \in Obj :
    Callbacks(w) # {} /\ <<p, w>> \in MayRefer /\ <<w, o>> \in MayWatch => p = o

\* There, a weak reference is trash together with its referent: the one thing that refers to it.
LEMMA OwnersOwn ==
  ASSUME HeapInv, ScanInv, Refers, OwnWeakrefs
  PROVE  OwnReferents
<1> SUFFICES ASSUME Moves, gc.scanned = Len(young), NEW w \in Weak \cap Dead, refs[w] # {},
                    wr_object[w] # None
             PROVE  wr_object[w] \in Dead
  BY DEF OwnReferents
<1>1. Isolated(Dead) /\ Dead \subseteq Range(unreachable)
  BY DeadIsolated
<1>2. /\ MoveOK /\ WeakOK /\ FramesOK /\ Listed = live \ Buried /\ Range(unreachable) \subseteq Listed
      /\ live \subseteq Obj /\ IsFiniteSet(live) /\ stack \in Seq(Frames)
  BY DEF HeapInv, TypeOK, HeapOK, Listed
<1>3. w \in live /\ w \notin Buried /\ w \notin Doomed /\ w \in Obj
  BY <1>1, <1>2 DEF MoveOK
<1>4. \A f \in Range(stack) : ~(f.op = "dealloc" /\ f.obj = w)
  <2>1. w \notin Finalizer
    BY ObjAssumption DEF ObjAssumption
  <2> QED BY <1>2, <1>3, <2>1 DEF FramesOK, FrameOK, DeallocOK, Buried, Buries
<1>5. ~Unreferred(w)
  <2>1. Doomed = {x \in live : Unreferred(x) /\ \A f \in Range(stack) : ~(f.op = "dealloc" /\ f.obj = x)}
    BY <1>2, DoomedIs
  <2> QED BY <1>3, <1>4, <2>1
<1>6. PICK p \in live : w \in refs[p]
  <2>1. w \notin held /\ w \notin garbage /\ \A f \in Range(stack) : w \notin f.holds
    BY <1>1 DEF Isolated
  <2> QED BY <1>5, <2>1 DEF Unreferred
<1>7. p \in Dead /\ p \in Obj /\ <<p, w>> \in MayRefer
  BY <1>1, <1>2, <1>6 DEF Isolated, Refers
<1>8. wr_object[w] \in Obj /\ <<w, wr_object[w]>> \in MayWatch
  BY <1>2, <1>3 DEF WeakOK
<1>9. Callbacks(w) # {}
  <2>1. refs[w] \subseteq Obj
    BY <1>2, <1>3 DEF HeapInv, TypeOK
  <2> QED BY <1>3, <2>1 DEF Refers, Callbacks
<1>10. p = wr_object[w]
  BY <1>7, <1>8, <1>9 DEF OwnWeakrefs
<1> QED BY <1>7, <1>10

\* Objects refer only as programs make them refer, in every behaviour.
THEOREM RefersHolds == Spec => []Refers
<1>1. Init => Refers
  BY DEF Init, Refers
<1>2. HeapInv /\ Refers /\ [Next]_vars => Refers'
  BY NextRefers
<1> QED BY <1>1, <1>2, HeapInvHolds, PTL DEF Spec

\* In those programs, then, OwnReferents holds in every behaviour.
THEOREM OwnReferentsHold == OwnWeakrefs => (Spec => []OwnReferents)
<1> SUFFICES ASSUME OwnWeakrefs PROVE Spec => []OwnReferents
  OBVIOUS
<1>1. HeapInv /\ ScanInv /\ Refers => OwnReferents
  BY OwnersOwn
<1> QED BY <1>1, HeapInvHolds, ScanInvHolds, RefersHolds, PTL

\* The trash is always hidden there: the program's shape alone keeps Python code from it.
THEOREM OwnTrashHidden == OwnWeakrefs => (Spec => []TrashHidden)
<1> SUFFICES ASSUME OwnWeakrefs PROVE Spec => []TrashHidden
  OBVIOUS
<1>1. Spec => []OwnReferents
  BY OwnReferentsHold
<1> QED BY <1>1, TrashAlwaysHidden, PTL
-----------------------------------------------------------------------------
(* The trash that is not cleared yet.                                       *)

\* Objects that are being deallocated.
Deallocated == {o \in live : \E f \in Range(stack) : f.op = "dealloc" /\ f.obj = o}

\* While the trash is treated: all references to it are within it, those of cleared objects are
\* gone, no function that waits for the collection has an object of it, and what can be cleared
\* is still in unreachable, or was cleared, or is being deallocated.
ClearFrame(f) ==
  /\ f.stage = "next" \/ gc.phase # "delete" => f.holds \cap trash = {}
  /\ gc.phase = "delete" /\ f.obj \in Range(unreachable) \cap Clearable => f.obj \in cleared
ClearInv ==
  /\ ~Clears => trash = {}
  /\ \A p \in cleared : refs[p] = {}
  /\ \A p \in live, o \in trash : o \in refs[p] => p \in trash
  /\ trash \cap Clearable \subseteq Range(unreachable) \cup cleared \cup Deallocated
  /\ \A f \in Under : f.holds \cap trash = {} /\ (f.op = "dealloc" => f.obj \notin trash)
  /\ \A f \in Range(stack) : f.op = "collect" => ClearFrame(f)

\* The frames of the stack after a step that replaces its top.
LEMMA PlainTop ==
  ASSUME HeapInv, stack # <<>>, NEW S \in SUBSET Obj
  PROVE  /\ stack' = Front(stack) => Replaced({})
         /\ stack' = Append(Front(stack), Drop(S)) => Replaced({Drop(S)})
         /\ stack' = Front(stack) \o Rest(S) => Replaced(RestSet(S))
<1>1. stack \in Seq(Frames) /\ Separate(stack)
  BY TopIs
<1>2. Drop(S) \in Frames /\ Plain(Drop(S))
  BY PlainFrames
<1>3. stack' = Front(stack) => Replaced({})
  BY <1>1, ReplacedBySome
<1>4. stack' = Append(Front(stack), Drop(S)) => Replaced({Drop(S)})
  BY <1>1, <1>2, ReplacedBySome DEF Fits
<1>5. stack' = Front(stack) \o Rest(S) => Replaced(RestSet(S))
  BY <1>1, <1>2, ReplacedByRest
<1> QED BY <1>3, <1>4, <1>5

LEMMA FittingTop ==
  ASSUME HeapInv, stack # <<>>, NEW f, Fits(f), NEW S \in SUBSET Obj
  PROVE  /\ stack' = Append(Front(stack), f) => Replaced({f})
         /\ stack' = Front(stack) \o <<f>> => Replaced({f})
         /\ stack' = Front(stack) \o <<f, Call(S)>> => Replaced({f, Call(S)})
         /\ stack' = Front(stack) \o <<f>> \o Rest(S) => Replaced({f} \cup RestSet(S))
<1>1. stack \in Seq(Frames) /\ Separate(stack)
  BY TopIs
<1>2. Call(S) \in Frames /\ Plain(Call(S)) /\ Drop(S) \in Frames
  BY PlainFrames
<1>3. stack' = Append(Front(stack), f) => Replaced({f})
  BY <1>1, ReplacedBySome
<1>4. stack' = Front(stack) \o <<f>> => Replaced({f})
  BY <1>1, ReplacedBySome
<1>5. stack' = Front(stack) \o <<f, Call(S)>> => Replaced({f, Call(S)})
  BY <1>1, <1>2, ReplacedBySome
<1>6. stack' = Front(stack) \o <<f>> \o Rest(S) => Replaced({f} \cup RestSet(S))
  BY <1>1, <1>2, ReplacedByRest
<1> QED BY <1>3, <1>4, <1>5, <1>6

LEMMA CollectionFits ==
  ASSUME HeapInv, stack # <<>>, Top.op = "collect",
         NEW st \in {"next", "called", "released"}, NEW o \in Obj \cup {None}, NEW S \in SUBSET Obj
  PROVE  LET f == Collection(st, o, S) IN
           Fits(f) /\ f.op = "collect" /\ f.obj = o /\ f.stage = st /\ f.holds = S
<1> DEFINE f == Collection(st, o, S)
<1>1. f \in Frames /\ f.op = "collect" /\ f.obj = o /\ f.stage = st /\ f.holds = S
  BY CollectionFrame
<1> HIDE DEF f
<1>2. Fits(f) /\ f.op = "collect" /\ f.obj = o /\ f.stage = st /\ f.holds = S
  BY <1>1 DEF Fits, Same
<1> QED BY <1>2 DEF f

LEMMA DeallocFits ==
  ASSUME HeapInv, stack # <<>>, Top.op = "dealloc", NEW st \in {"call", "del", "deleted"},
         NEW S \in SUBSET Obj, NEW c \in SUBSET (Weak \X Obj)
  PROVE  LET f == Dealloc(Top.obj, st, S, c) IN
           /\ Fits(f) /\ f.op = "dealloc" /\ f.obj = Top.obj /\ f.stage = st /\ f.holds = S
           /\ f.calls = c /\ Top.obj \in Obj
<1> DEFINE o == Top.obj
           f == Dealloc(o, st, S, c)
<1>1. o \in Obj
  BY TopIs, FrameKinds
<1>2. f \in Frames /\ f.op = "dealloc" /\ f.obj = o /\ f.stage = st /\ f.holds = S /\ f.calls = c
  <2> HIDE DEF o
  <2> QED BY <1>1, DeallocFrame
<1> HIDE DEF f
<1>3. Fits(f)
  BY <1>2 DEF Fits, Same
<1> QED BY <1>1, <1>2, <1>3 DEF f

\* A step that adds no reference to the trash and treats none of it.
LEMMA ClearKeeps ==
  ASSUME ClearInv, trash' \subseteq trash, ~Clears' => trash' = {},
         \A p \in cleared' : refs'[p] = {},
         \A p \in live', o \in trash' : o \in refs'[p] => p \in live /\ o \in refs[p],
         \A p \in live' \cap trash : p \in trash' \/ trash' = {},
         trash' \cap Clearable \subseteq Range(unreachable') \cup cleared' \cup Deallocated',
         Under' \subseteq Under,
         \A f \in Range(stack') : f.op = "collect" => ClearFrame(f)'
  PROVE  ClearInv'
<1>1. \A p \in live', o \in trash' : o \in refs'[p] => p \in trash'
  BY DEF ClearInv
<1>2. \A f \in Under' : f.holds \cap trash' = {} /\ (f.op = "dealloc" => f.obj \notin trash')
  BY DEF ClearInv
<1> QED BY <1>1, <1>2 DEF ClearInv

\* Such a step that leaves the heap as it is.
LEMMA StackClears ==
  ASSUME HeapInv, ClearInv, NEW F, Replaced(F),
         UNCHANGED <<heapVars, unreachable, gc, cleared, trash>>,
         \A f \in F : f.op = "collect" => ClearFrame(f),
         \A o \in trash : Top.op = "dealloc" /\ Top.obj = o =>
                            \E f \in F : f.op = "dealloc" /\ f.obj = o
  PROVE  ClearInv'
<1>1. UNCHANGED <<live, refs, wr_object, held, garbage, unreachable, gc, cleared, trash>>
  BY DEF heapVars
<1>2. /\ Range(stack) = Below(stack) \cup {Top} /\ Range(stack') = Below(stack) \cup F
      /\ Under' \subseteq Under
  BY DEF Replaced
<1>3. ASSUME NEW o \in trash \cap Deallocated PROVE o \in Deallocated'
  BY <1>1, <1>2, <1>3 DEF Deallocated
<1>4. trash' \cap Clearable \subseteq Range(unreachable') \cup cleared' \cup Deallocated'
  BY <1>1, <1>3 DEF ClearInv
<1>5. \A f \in Range(stack') : f.op = "collect" => ClearFrame(f)'
  <2>1. \A f \in Range(stack') : f.op = "collect" => ClearFrame(f)
    BY <1>2 DEF ClearInv
  <2> QED BY <1>1, <2>1 DEF ClearFrame
<1>6. (~Clears' => trash' = {}) /\ \A p \in cleared' : refs'[p] = {}
  BY <1>1 DEF ClearInv, Clears
<1> QED BY <1>1, <1>2, <1>4, <1>5, <1>6, ClearKeeps

LEMMA ReturnClears ==
  ASSUME HeapInv, ClearInv, Return
  PROVE  ClearInv'
<1>1. /\ stack # <<>> /\ Top.op = "python" /\ stack' = Append(Front(stack), Drop(Top.holds))
      /\ UNCHANGED <<heapVars, unreachable, gc, cleared, trash>>
  BY DEF Return, In, Replace, listVars, histVars
<1>2. Top.holds \in SUBSET Obj
  BY <1>1, TopIs
<1>3. Replaced({Drop(Top.holds)}) /\ Drop(Top.holds).op # "collect"
  BY <1>1, <1>2, PlainTop DEF Drop
<1> QED BY <1>1, <1>3, StackClears

LEMMA Py_DECREFClears ==
  ASSUME HeapInv, ClearInv, NEW o, Py_DECREF(o)
  PROVE  ClearInv'
<1> DEFINE S == Top.holds \ {o}
<1>1. /\ stack # <<>> /\ Top.op = "drop" /\ stack' = Front(stack) \o Rest(S)
      /\ UNCHANGED <<heapVars, unreachable, gc, cleared, trash>>
  BY DEF Py_DECREF, In, listVars, histVars
<1>2. S \in SUBSET Obj
  BY <1>1, TopIs
<1> HIDE DEF S
<1>3. Replaced(RestSet(S)) /\ \A f \in RestSet(S) : f.op # "collect"
  BY <1>1, <1>2, PlainTop, RestFrames DEF Plain
<1> QED BY <1>1, <1>3, StackClears

LEMMA DeallocCallsClears ==
  ASSUME HeapInv, ClearInv, NEW wc \in Weak \X Obj, DeallocCalls(wc)
  PROVE  ClearInv'
<1>0. PICK c, f, S : /\ c = Top.calls \ {wc} /\ f = Dealloc(Top.obj, "call", Top.holds, c)
                     /\ S = {wc[1], wc[2]}
  OBVIOUS
<1>1. /\ stack # <<>> /\ Top.op = "dealloc" /\ Top.stage = "call" /\ wc \in Top.calls
      /\ stack' = Front(stack) \o <<[Top EXCEPT !.calls = c], Call(S)>>
      /\ UNCHANGED <<heapVars, unreachable, gc, cleared, trash>>
  BY <1>0 DEF DeallocCalls, In, listVars
<1>2. Top \in Frames /\ Top.holds \in SUBSET Obj
  BY <1>1, TopIs
<1>3. Top.calls \subseteq Weak \X Obj /\ Top = Dealloc(Top.obj, "call", Top.holds, Top.calls)
  BY <1>1, <1>2, FrameKinds
<1>4. [Top EXCEPT !.calls = c] = f
  BY <1>0, <1>3 DEF Dealloc
<1>5. c \in SUBSET (Weak \X Obj) /\ S \in SUBSET Obj
  BY <1>0, <1>1, <1>3, ObjAssumption DEF ObjAssumption
<1>6. Fits(f) /\ f.op = "dealloc" /\ f.obj = Top.obj
  <2>1. "call" \in {"call", "del", "deleted"}
    OBVIOUS
  <2> QED BY <1>0, <1>1, <1>2, <1>5, <2>1, DeallocFits
<1>7. Replaced({f, Call(S)}) /\ Call(S).op # "collect"
  BY <1>1, <1>4, <1>5, <1>6, FittingTop DEF Call
<1> QED BY <1>1, <1>6, <1>7, StackClears

LEMMA DeallocCalledClears ==
  ASSUME HeapInv, ClearInv, DeallocCalled
  PROVE  ClearInv'
<1>0. PICK f, S : f = Dealloc(Top.obj, "del", {}, {}) /\ S = Top.holds
  OBVIOUS
<1>1. /\ stack # <<>> /\ Top.op = "dealloc" /\ stack' = Front(stack) \o <<f>> \o Rest(S)
      /\ UNCHANGED <<heapVars, unreachable, gc, cleared, trash>>
  BY <1>0 DEF DeallocCalled, In, listVars, histVars
<1>2. S \in SUBSET Obj
  BY <1>0, <1>1, TopIs
<1>3. Fits(f) /\ f.op = "dealloc" /\ f.obj = Top.obj
  <2>1. "del" \in {"call", "del", "deleted"} /\ {} \in SUBSET Obj /\ {} \in SUBSET (Weak \X Obj)
    OBVIOUS
  <2> QED BY <1>0, <1>1, <2>1, DeallocFits
<1>4. Replaced({f} \cup RestSet(S)) /\ \A h \in RestSet(S) : h.op # "collect"
  BY <1>1, <1>2, <1>3, FittingTop, RestFrames DEF Plain
<1> QED BY <1>1, <1>3, <1>4, StackClears

LEMMA DeallocFinalizesClears ==
  ASSUME HeapInv, ClearInv, DeallocFinalizes
  PROVE  ClearInv'
<1>0. PICK f, S : f = Dealloc(Top.obj, "deleted", {}, {}) /\ S = {Top.obj}
  OBVIOUS
<1>1. /\ stack # <<>> /\ Top.op = "dealloc" /\ stack' = Front(stack) \o <<f, Call(S)>>
      /\ UNCHANGED <<heapVars, unreachable, gc, cleared, trash>>
  BY <1>0 DEF DeallocFinalizes, In, histVars
<1>2. Fits(f) /\ f.op = "dealloc" /\ f.obj = Top.obj /\ Top.obj \in Obj
  <2>1. "deleted" \in {"call", "del", "deleted"} /\ {} \in SUBSET Obj /\ {} \in SUBSET (Weak \X Obj)
    OBVIOUS
  <2> QED BY <1>0, <1>1, <2>1, DeallocFits
<1>3. S \in SUBSET Obj
  BY <1>0, <1>2
<1>4. Replaced({f, Call(S)}) /\ Call(S).op # "collect"
  BY <1>1, <1>2, <1>3, FittingTop DEF Call
<1> QED BY <1>1, <1>2, <1>4, StackClears

\* No object of the trash has a __del__ to save it.
LEMMA DeallocResurrectedClears ==
  ASSUME HeapInv, HideInv, ClearInv, DeallocResurrected
  PROVE  ClearInv'
<1>1. /\ stack # <<>> /\ Top.op = "dealloc" /\ Top.stage = "deleted" /\ stack' = Front(stack)
      /\ UNCHANGED <<heapVars, unreachable, gc, cleared, trash>>
  BY DEF DeallocResurrected, In, listVars, histVars
<1>2. Top.obj \in Finalizer
  BY <1>1, TopIs DEF FrameOK, DeallocOK
<1>3. Top.obj \notin trash
  BY <1>2 DEF HideInv, Hides
<1>4. Replaced({})
  <2>1. {} \in SUBSET Obj
    OBVIOUS
  <2> QED BY <1>1, <2>1, PlainTop
<1> QED BY <1>1, <1>3, <1>4, StackClears

\* Steps of the collector that replace its frame.
LEMMA CallNextClears ==
  ASSUME HeapInv, ClearInv, CallNext
  PROVE  ClearInv'
<1>0. PICK o, f, S : /\ o = Head(wrcb_to_call) /\ f = Collection("called", o, Top.holds)
                     /\ S = {o} \cup refs[o]
  OBVIOUS
<1>1. /\ stack # <<>> /\ Top.op = "collect" /\ gc.phase = "weakrefs" /\ wrcb_to_call # <<>>
      /\ stack' = Front(stack) \o <<f, Call(S)>>
      /\ UNCHANGED <<heapVars, unreachable, gc, cleared, trash>>
  BY <1>0 DEF CallNext, InStage, In, listVars
<1>2. TypeOK /\ Top \in Range(stack) /\ Top.holds \in SUBSET Obj
  BY <1>1, TopIs, StackIs DEF HeapInv
<1>3. o \in Obj /\ S \in SUBSET Obj
  BY <1>0, <1>1, <1>2, TailOnce DEF TypeOK
<1>4. Fits(f) /\ f.op = "collect" /\ f.obj = o /\ f.stage = "called" /\ f.holds = Top.holds
  <2>1. "called" \in {"next", "called", "released"} /\ o \in Obj \cup {None}
    BY <1>3
  <2>2. LET h == Collection("called", o, Top.holds) IN
          Fits(h) /\ h.op = "collect" /\ h.obj = o /\ h.stage = "called" /\ h.holds = Top.holds
    BY <1>1, <1>2, <2>1, CollectionFits
  <2> QED BY <1>0, <2>2, Zenon
<1>5. Replaced({f, Call(S)}) /\ Call(S).op # "collect"
  BY <1>1, <1>3, <1>4, FittingTop DEF Call
<1>6. ClearFrame(f)
  BY <1>1, <1>2, <1>4 DEF ClearInv, ClearFrame
<1> QED BY <1>1, <1>5, <1>6, StackClears

LEMMA CollectDecrefClears ==
  ASSUME HeapInv, ClearInv, CollectDecref
  PROVE  ClearInv'
<1>0. PICK f, S : S = Top.holds \ {Top.obj} /\ f = Collection("released", Top.obj, S)
  OBVIOUS
<1>1. /\ stack # <<>> /\ Top.op = "collect" /\ stack' = Append(Front(stack), f)
      /\ UNCHANGED <<heapVars, unreachable, gc, cleared, trash>>
  BY <1>0 DEF CollectDecref, In, Replace, listVars, histVars
<1>2. TypeOK /\ Top \in Range(stack) /\ Top.holds \in SUBSET Obj /\ Top \in Frames
  BY <1>1, TopIs, StackIs DEF HeapInv
<1>3. Fits(f) /\ f.op = "collect" /\ f.obj = Top.obj /\ f.stage = "released" /\ f.holds = S
  <2>1. "released" \in {"next", "called", "released"} /\ Top.obj \in Obj \cup {None} /\ S \in SUBSET Obj
    BY <1>0, <1>1, <1>2, FrameKinds
  <2>2. LET h == Collection("released", Top.obj, S) IN
          Fits(h) /\ h.op = "collect" /\ h.obj = Top.obj /\ h.stage = "released" /\ h.holds = S
    BY <1>1, <2>1, CollectionFits, SMTT(30)
  <2> QED BY <1>0, <2>2, Zenon
<1>4. Replaced({f})
  <2>1. {} \in SUBSET Obj
    OBVIOUS
  <2> QED BY <1>1, <1>3, <2>1, FittingTop
<1>5. ClearFrame(f)
  BY <1>0, <1>1, <1>2, <1>3 DEF ClearInv, ClearFrame
<1> QED BY <1>1, <1>4, <1>5, StackClears

LEMMA CallMovesClears ==
  ASSUME HeapInv, ClearInv, CallMoves
  PROVE  ClearInv'
<1>0. PICK f : f = Collection("next", None, Top.holds)
  OBVIOUS
<1>1. /\ stack # <<>> /\ Top.op = "collect" /\ gc.phase = "weakrefs" /\ stack' = Append(Front(stack), f)
      /\ UNCHANGED <<heapVars, unreachable, gc, cleared, trash>>
  BY <1>0 DEF CallMoves, InStage, In, Replace, histVars
<1>2. TypeOK /\ Top \in Range(stack) /\ Top.holds \in SUBSET Obj
  BY <1>1, TopIs, StackIs DEF HeapInv
<1>3. Fits(f) /\ f.op = "collect" /\ f.obj = None /\ f.stage = "next" /\ f.holds = Top.holds
  <2>1. "next" \in {"next", "called", "released"} /\ None \in Obj \cup {None}
    OBVIOUS
  <2> QED BY <1>0, <1>1, <1>2, <2>1, CollectionFits, SMTT(30)
<1>4. Replaced({f})
  <2>1. {} \in SUBSET Obj
    OBVIOUS
  <2> QED BY <1>1, <1>3, <2>1, FittingTop
<1>5. ClearFrame(f)
  BY <1>1, <1>2, <1>3 DEF ClearInv, ClearFrame
<1> QED BY <1>1, <1>4, <1>5, StackClears

\* The program neither refers to the trash nor stores in it.
LEMMA ProgramClears ==
  ASSUME ClearInv, UNCHANGED <<unreachable, gc, stack, cleared, trash>>, live \subseteq live',
         \A p \in cleared : refs'[p] = {},
         \A p \in live', o \in trash : o \in refs'[p] => p \in live /\ o \in refs[p]
  PROVE  ClearInv'
<1>1. Deallocated \subseteq Deallocated' /\ Under' = Under
  BY DEF Deallocated, Under
<1>2. trash' \cap Clearable \subseteq Range(unreachable') \cup cleared' \cup Deallocated'
  BY <1>1 DEF ClearInv
<1>3. \A f \in Range(stack') : f.op = "collect" => ClearFrame(f)'
  BY DEF ClearInv, ClearFrame
<1>4. ~Clears' => trash' = {}
  BY DEF ClearInv, Clears
<1> QED BY <1>1, <1>2, <1>3, <1>4, ClearKeeps

LEMMA NewClears ==
  ASSUME HeapInv, ClearInv, NEW o \in Obj, New(o)
  PROVE  ClearInv'
<1>1. /\ o \notin live /\ live' = live \cup {o} /\ refs' = refs
      /\ UNCHANGED <<unreachable, gc, stack, cleared, trash>>
  BY DEF New, histVars
<1>2. refs[o] = {}
  BY <1>1 DEF HeapInv, HeapOK
<1>3. \A p \in cleared : refs'[p] = {}
  BY <1>1 DEF ClearInv
<1> QED BY <1>1, <1>2, <1>3, ProgramClears

LEMMA HoldClears ==
  ASSUME ClearInv, NEW o, Hold(o) \/ Release(o) \/ Discard(o)
  PROVE  ClearInv'
<1>1. UNCHANGED <<live, refs, unreachable, gc, stack, cleared, trash>>
  BY DEF Hold, Release, Discard, listVars, histVars
<1>2. \A p \in cleared : refs'[p] = {}
  BY <1>1 DEF ClearInv
<1> QED BY <1>1, <1>2, ProgramClears

LEMMA StoreClears ==
  ASSUME HeapInv, ClearInv, Accessible \cap (trash \cup cleared) = {}, Accessible \subseteq live,
         NEW o \in Accessible, NEW p \in Accessible, Store(o, p) \/ Erase(o, p)
  PROVE  ClearInv'
<1>1. /\ refs' = [refs EXCEPT ![o] = refs[o] \cup {p}] \/ refs' = [refs EXCEPT ![o] = refs[o] \ {p}]
      /\ UNCHANGED <<live, unreachable, gc, stack, cleared, trash>>
  BY DEF Store, Erase, listVars, histVars
<1>2. refs \in [Obj -> SUBSET live] /\ live \subseteq Obj /\ cleared \subseteq live
  BY DEF HeapInv, TypeOK
<1>3. \A q \in Obj : (q # o => refs'[q] = refs[q]) /\ refs'[q] \subseteq refs[q] \cup {p}
  BY <1>1, <1>2
<1>4. \A q \in cleared : refs'[q] = {}
  BY <1>2, <1>3 DEF ClearInv
<1>5. \A q \in live', t \in trash : t \in refs'[q] => q \in live /\ t \in refs[q]
  BY <1>1, <1>2, <1>3
<1> QED BY <1>1, <1>4, <1>5, ProgramClears

LEMMA PyWeakref_NewRefClears ==
  ASSUME HeapInv, ClearInv, Accessible \cap (trash \cup cleared) = {}, Accessible \subseteq live,
         NEW w \in Weak, NEW o, PyWeakref_NewRef(w, o)
  PROVE  ClearInv'
<1>1. /\ w \notin live /\ live' = live \cup {w}
      /\ refs' = refs \/ \E c \in Accessible : refs' = [refs EXCEPT ![w] = {c}]
      /\ UNCHANGED <<unreachable, gc, stack, cleared, trash>>
  BY DEF PyWeakref_NewRef, histVars
<1>2. /\ refs \in [Obj -> SUBSET live] /\ live \subseteq Obj /\ cleared \subseteq live
      /\ w \in Obj /\ \A q \in Obj \ live : refs[q] = {}
  BY ObjAssumption DEF HeapInv, TypeOK, HeapOK, ObjAssumption
<1>3. \A q \in Obj : \/ refs'[q] = refs[q]
                     \/ q = w /\ \E c \in Accessible : refs'[q] = {c}
  BY <1>1, <1>2
<1>4. \A q \in cleared : refs'[q] = {}
  BY <1>1, <1>2, <1>3 DEF ClearInv
<1>5. \A q \in live', t \in trash : t \in refs'[q] => q \in live /\ t \in refs[q]
  BY <1>1, <1>2, <1>3
<1> QED BY <1>1, <1>4, <1>5, ProgramClears

\* Steps after which there is no trash.
LEMMA EmptyClears ==
  ASSUME trash' = {}, \A p \in cleared' : refs'[p] = {},
         \A f \in Range(stack') : f.op = "collect" => gc'.phase # "delete"
  PROVE  ClearInv'
BY DEF ClearInv, ClearFrame

LEMMA CollectClears ==
  ASSUME HeapInv, ClearInv, NEW g \in Generation, Collect(g)
  PROVE  ClearInv'
<1>1. /\ gc = NoCollection /\ UNCHANGED <<refs, cleared, trash>>
      /\ gc' = [phase |-> "move", generation |-> g, scanned |-> 0, gc_refs |-> GcRefs(Range(Merged(g)))]
  BY DEF Collect, heapVars, histVars
<1>2. gc'.phase # "delete" /\ trash' = {}
  BY <1>1 DEF ClearInv, Clears
<1>3. \A p \in cleared' : refs'[p] = {}
  BY <1>1 DEF ClearInv
<1> QED BY <1>2, <1>3, EmptyClears

LEMMA MoveNextClears ==
  ASSUME HeapInv, ClearInv, MoveNext
  PROVE  ClearInv'
<1> DEFINE o == young[gc.scanned + 1]
<1>1. /\ In("collect") /\ gc.phase = "move" /\ gc.scanned < Len(young)
      /\ VisitReachable(o) \/ MoveUnreachable(o)
      /\ UNCHANGED <<heapVars, finalizers, wrcb_to_call, stack, histVars>>
  BY DEF MoveNext, Moving
<1>2. Moves
  <2>1. TypeOK /\ FramesOK
    BY DEF HeapInv
  <2>2. Top \in Range(stack) /\ Top.op = "collect"
    BY <1>1, <2>1, StackIs DEF In
  <2> QED BY <1>1, <2>1, <2>2 DEF FramesOK, FrameOK, CollectOK, Moves
<1>3. o \in Obj
  BY <1>1, <1>2, YoungIs
<1>4. gc'.phase = "move"
  <2>1. CASE VisitReachable(o)
    <3>1. Visits(o)
      <4> HIDE DEF o
      <4> QED BY <1>1, <1>2, <1>3, <2>1, VisitReachableKeeps
    <3> QED BY <3>1 DEF Visits
  <2>2. CASE MoveUnreachable(o)
    <3>1. Suspects(o)
      BY <1>1, <1>2, <2>2, MoveUnreachableKeeps
    <3> QED BY <3>1 DEF Suspects
  <2> QED BY <1>1, <2>1, <2>2
<1>5. trash' = {} /\ \A p \in cleared' : refs'[p] = {}
  BY <1>1, <1>2 DEF ClearInv, Clears, Moves, heapVars, histVars
<1> QED BY <1>4, <1>5, EmptyClears

LEMMA CollectEndsClears ==
  ASSUME HeapInv, ClearInv, CollectEnds
  PROVE  ClearInv'
<1>1. /\ stack # <<>> /\ Top.op = "collect" /\ stack' = Front(stack) /\ trash' = {}
      /\ UNCHANGED <<refs, cleared>>
  BY DEF CollectEnds, InStage, In
<1>2. Replaced({})
  <2>1. {} \in SUBSET Obj
    OBVIOUS
  <2> QED BY <1>1, <2>1, PlainTop
<1>3. \A f \in Range(stack') : f.op # "collect"
  <2>1. Range(stack') = Below(stack)
    BY <1>2 DEF Replaced
  <2>2. \A f \in Below(stack) : f.op = "collect" => Top.op # "collect"
    BY <1>2, BelowIs
  <2> QED BY <1>1, <2>1, <2>2
<1>4. \A p \in cleared' : refs'[p] = {}
  BY <1>1 DEF ClearInv
<1> QED BY <1>1, <1>3, <1>4, EmptyClears

\* delete_garbage begins: the one collection is between two objects.
LEMMA CallsEndClears ==
  ASSUME HeapInv, ClearInv, CallsEnd
  PROVE  ClearInv'
<1>1. /\ stack # <<>> /\ Top.op = "collect" /\ gc.phase = "weakrefs" /\ Top.stage = "next"
      /\ gc' = [gc EXCEPT !.phase = "delete"]
      /\ UNCHANGED <<live, refs, unreachable, stack, cleared, trash>>
  BY DEF CallsEnd, InStage, In, heapVars, listVars, histVars
<1>2. TypeOK /\ FramesOK /\ Top \in Range(stack)
  BY <1>1, StackIs DEF HeapInv
<1>3. gc # NoCollection /\ Top.obj = None /\ None \notin Range(unreachable)
  <2>1. CollectOK(Top)
    BY <1>1, <1>2 DEF FramesOK, FrameOK
  <2>2. Range(unreachable) \subseteq Obj
    BY <1>2 DEF TypeOK, Range
  <2> QED BY <1>1, <2>1, <2>2, ObjAssumption DEF CollectOK, ObjAssumption
<1>4. gc' = [phase |-> "delete", generation |-> gc.generation]
  BY <1>1, <1>2, <1>3, PhaseIs DEF Moves
<1>5. Clears'
  BY <1>4 DEF Clears, NoCollection
<1>6. \A f \in Range(stack') : f.op = "collect" => ClearFrame(f)'
  <2>1. Top.holds \cap trash = {}
    BY <1>1, <1>2 DEF ClearInv, ClearFrame
  <2>2. ClearFrame(Top)
    BY <1>1, <1>2 DEF ClearInv
  <2>3. ASSUME NEW f \in Range(stack), f.op = "collect" PROVE f = Top
    BY <1>1, <2>3, OneCollects
  <2>4. \A f \in Range(stack') : f.op = "collect" => f.holds \cap trash' = {} /\ f.obj \notin Range(unreachable')
    BY <1>1, <1>3, <2>1, <2>3
  <2> QED BY <2>4 DEF ClearFrame
<1>7. Deallocated' = Deallocated /\ Under' = Under
  BY <1>1 DEF Deallocated, Under
<1>8. trash' \cap Clearable \subseteq Range(unreachable') \cup cleared' \cup Deallocated'
  BY <1>1, <1>7 DEF ClearInv
<1>9. \A p \in cleared' : refs'[p] = {}
  BY <1>1 DEF ClearInv
<1> QED BY <1>1, <1>5, <1>6, <1>7, <1>8, <1>9, ClearKeeps

\* What a step of the collector leaves of the other functions.
LEMMA CollectorClears ==
  ASSUME HeapInv, ClearInv, stack # <<>>, Top.op = "collect", NEW F, Replaced(F),
         UNCHANGED <<live, gc, trash>>,
         \A f \in F : f.op = "collect" => ClearFrame(f)',
         \A p \in cleared' : refs'[p] = {}, \A p \in live : refs'[p] \subseteq refs[p],
         trash \cap Clearable \cap (Range(unreachable) \cup cleared)
           \subseteq Range(unreachable') \cup cleared'
  PROVE  ClearInv'
<1>1. /\ Range(stack) = Below(stack) \cup {Top} /\ Range(stack') = Below(stack) \cup F
      /\ Under' \subseteq Under
  BY DEF Replaced
<1>2. Deallocated \subseteq Deallocated'
  BY <1>1 DEF Deallocated
<1>3. trash' \cap Clearable \subseteq Range(unreachable') \cup cleared' \cup Deallocated'
  BY <1>2 DEF ClearInv
<1>4. \A f \in Range(stack') : f.op = "collect" => ClearFrame(f)'
  <2>1. \A f \in Below(stack) : f.op = "collect" => Top.op # "collect"
    BY BelowIs
  <2> QED BY <1>1, <2>1
<1>5. ~Clears' => trash' = {}
  BY DEF ClearInv, Clears
<1>6. \A p \in live', o \in trash' : o \in refs'[p] => p \in live /\ o \in refs[p]
  OBVIOUS
<1> QED BY <1>1, <1>3, <1>4, <1>5, <1>6, ClearKeeps

\* tp_clear takes the references of an object, which is cleared from then on.
LEMMA ClearNextClears ==
  ASSUME HeapInv, ClearInv, ClearNext
  PROVE  ClearInv'
<1>0. PICK o, f, g, S : /\ o = Head(unreachable) /\ f = Collection("called", o, {o})
                        /\ g = Collection("released", o, {}) /\ S = refs[o]
  OBVIOUS
<1>1. /\ stack # <<>> /\ Top.op = "collect" /\ gc.phase = "delete" /\ unreachable # <<>>
      /\ refs' = IF o \in Clearable THEN [refs EXCEPT ![o] = {}] ELSE refs
      /\ cleared' = IF o \in Clearable THEN cleared \cup {o} ELSE cleared
      /\ stack' = IF o \in Clearable THEN Front(stack) \o <<f>> \o Rest(S) ELSE Front(stack) \o <<g>>
      /\ UNCHANGED <<live, unreachable, gc, trash>>
  BY <1>0 DEF ClearNext, InStage, In, listVars
<1>2. /\ refs \in [Obj -> SUBSET live] /\ live \subseteq Obj /\ cleared \subseteq live
      /\ unreachable \in Seq(Obj)
  BY DEF HeapInv, TypeOK
<1>3. o \in Obj /\ S \in SUBSET Obj /\ {o} \in SUBSET Obj
  BY <1>0, <1>1, <1>2, TailOnce
<1>4. /\ Fits(f) /\ f.op = "collect" /\ f.obj = o /\ f.stage = "called"
      /\ Fits(g) /\ g.op = "collect" /\ g.obj = o /\ g.stage = "released" /\ g.holds = {}
  <2>1. /\ "called" \in {"next", "called", "released"} /\ "released" \in {"next", "called", "released"}
        /\ o \in Obj \cup {None} /\ {} \in SUBSET Obj
    BY <1>3
  <2>2. LET h == Collection("called", o, {o}) IN Fits(h) /\ h.op = "collect" /\ h.obj = o /\ h.stage = "called"
    BY <1>1, <1>3, <2>1, CollectionFits
  <2>3. LET h == Collection("released", o, {}) IN
          Fits(h) /\ h.op = "collect" /\ h.obj = o /\ h.stage = "released" /\ h.holds = {}
    BY <1>1, <2>1, CollectionFits
  <2> QED BY <1>0, <2>2, <2>3, Zenon
<1>5. \A p \in live : refs'[p] \subseteq refs[p]
  BY <1>1, <1>2
<1>6. \A p \in cleared' : refs'[p] = {}
  <2>1. \A p \in cleared : refs[p] = {}
    BY DEF ClearInv
  <2>2. o \in Clearable => refs'[o] = {}
    BY <1>1, <1>2, <1>3
  <2>3. \A p \in cleared : refs'[p] = {}
    BY <1>2, <1>5, <2>1
  <2> QED BY <1>1, <2>2, <2>3
<1>7. CASE o \in Clearable
  <2>1. Replaced({f} \cup RestSet(S)) /\ \A h \in RestSet(S) : h.op # "collect"
    BY <1>1, <1>3, <1>4, <1>7, FittingTop, RestFrames DEF Plain
  <2>2. ClearFrame(f)'
    BY <1>1, <1>4, <1>7 DEF ClearFrame
  <2> QED BY <1>1, <1>5, <1>6, <2>1, <2>2, CollectorClears
<1>8. CASE o \notin Clearable
  <2>1. Replaced({g})
    BY <1>1, <1>3, <1>4, <1>8, FittingTop
  <2>2. ClearFrame(g)'
    BY <1>1, <1>4, <1>8 DEF ClearFrame
  <2> QED BY <1>1, <1>5, <1>6, <1>8, <2>1, <2>2, CollectorClears
<1> QED BY <1>7, <1>8

\* The object treated leaves unreachable; it was cleared, if it can be.
LEMMA DeleteMovesClears ==
  ASSUME HeapInv, ClearInv, DeleteMoves
  PROVE  ClearInv'
<1>0. PICK f : f = Collection("next", None, {})
  OBVIOUS
<1>1. /\ stack # <<>> /\ Top.op = "collect" /\ gc.phase = "delete" /\ unreachable' = TailIf(unreachable)
      /\ stack' = Append(Front(stack), f)
      /\ UNCHANGED <<live, refs, gc, cleared, trash>>
  BY <1>0 DEF DeleteMoves, InStage, In, Replace, heapVars, histVars
<1>2. TypeOK /\ Top \in Range(stack) /\ unreachable \in Seq(Obj)
  BY <1>1, StackIs DEF HeapInv, TypeOK
<1>3. Fits(f) /\ f.op = "collect" /\ f.obj = None /\ f.stage = "next" /\ f.holds = {}
  <2>1. "next" \in {"next", "called", "released"} /\ None \in Obj \cup {None} /\ {} \in SUBSET Obj
    OBVIOUS
  <2> QED BY <1>0, <1>1, <2>1, CollectionFits, SMTT(30)
<1>4. Replaced({f})
  <2>1. {} \in SUBSET Obj
    OBVIOUS
  <2> QED BY <1>1, <1>3, <2>1, FittingTop
<1>5. Range(unreachable') \subseteq Range(unreachable) /\ Range(unreachable) \subseteq Range(unreachable') \cup {Top.obj}
  BY <1>1, <1>2, TailIfIs
<1>6. Top.obj \in Range(unreachable) \cap Clearable => Top.obj \in cleared
  BY <1>1, <1>2 DEF ClearInv, ClearFrame
<1>7. trash \cap Clearable \cap (Range(unreachable) \cup cleared) \subseteq Range(unreachable') \cup cleared'
  BY <1>1, <1>5, <1>6
<1>8. ClearFrame(f)'
  <2>1. Range(unreachable) \subseteq Obj
    BY <1>2 DEF Range
  <2>2. None \notin Range(unreachable')
    BY <1>5, <2>1, ObjAssumption DEF ObjAssumption
  <2> QED BY <1>3, <2>2 DEF ClearFrame
<1>9. \A p \in cleared' : refs'[p] = {}
  BY <1>1 DEF ClearInv
<1> QED BY <1>1, <1>4, <1>7, <1>8, <1>9, CollectorClears

\* The trash that move_unreachable found: nothing outside it refers to it, and no object of it
\* is being deallocated.
LEMMA MoveEndsClears ==
  ASSUME HeapInv, ScanInv, ClearInv, MoveEnds
  PROVE  ClearInv'
<1>0. PICK dead, calls, f : dead = Dead /\ calls = ToCall(dead) /\ f = Collection("next", None, calls)
  OBVIOUS
<1>1. /\ stack # <<>> /\ Top.op = "collect" /\ gc.phase = "move" /\ gc.scanned = Len(young)
      /\ unreachable' = Only(unreachable, dead)
      /\ stack' = Front(stack) \o <<f>> /\ trash' = dead
      /\ gc' = [phase |-> "weakrefs", generation |-> gc.generation]
      /\ UNCHANGED <<live, refs, cleared>>
  BY <1>0 DEF MoveEnds, Moving, Dead, In
<1>2. /\ TypeOK /\ FramesOK /\ Listed = live \ Buried /\ unreachable \in Seq(Obj)
      /\ Range(unreachable) \subseteq Listed /\ live \subseteq Obj
  BY DEF HeapInv, TypeOK, Listed
<1>3. Moves
  <2>1. Top \in Range(stack)
    BY <1>1, <1>2, StackIs
  <2> QED BY <1>1, <1>2, <2>1 DEF FramesOK, FrameOK, CollectOK, Moves
<1>4. Isolated(dead) /\ dead \cap Finalizer = {} /\ dead \subseteq Range(unreachable)
  BY <1>0, <1>1, <1>3, DeadIsolated
<1>5. dead \in SUBSET Obj /\ dead \cap Buried = {}
  BY <1>2, <1>4
<1>6. calls \cap dead = {} /\ calls \in SUBSET Obj
  BY <1>0, <1>2, <1>5, ToCallIs, ObjAssumption
<1>7. Fits(f) /\ f.op = "collect" /\ f.stage = "next" /\ f.holds = calls
  <2>1. "next" \in {"next", "called", "released"} /\ None \in Obj \cup {None}
    OBVIOUS
  <2>2. LET h == Collection("next", None, calls) IN
          Fits(h) /\ h.op = "collect" /\ h.obj = None /\ h.stage = "next" /\ h.holds = calls
    BY <1>1, <1>6, <2>1, CollectionFits
  <2> QED BY <1>0, <2>2, Zenon
<1>8. Replaced({f})
  BY <1>1, <1>6, <1>7, FittingTop
<1>9. ASSUME NEW h \in Range(stack) PROVE h.holds \cap dead = {} /\ (h.op = "dealloc" => h.obj \notin dead)
  <2>1. h.holds \cap dead = {} /\ FrameOK(h)
    BY <1>2, <1>4 DEF Isolated, FramesOK
  <2>2. ASSUME h.op = "dealloc", h.obj \in dead PROVE FALSE
    <3>1. h.obj \in live /\ (h.stage = "deleted" => h.obj \in Finalizer)
      BY <2>1, <2>2 DEF FrameOK, DeallocOK
    <3>2. h.obj \in Buried
      BY <1>4, <2>2, <3>1 DEF Buried, Buries
    <3> QED BY <1>5, <2>2, <3>2
  <2> QED BY <2>1, <2>2
<1>10. \A h \in Under' : h.holds \cap trash' = {} /\ (h.op = "dealloc" => h.obj \notin trash')
  <2>1. Under' \subseteq Under /\ Under \subseteq Range(stack)
    BY <1>8 DEF Replaced, Under
  <2> QED BY <1>1, <1>9, <2>1
<1>11. \A h \in Range(stack') : h.op = "collect" => ClearFrame(h)'
  <2>1. Range(stack') = Below(stack) \cup {f}
    BY <1>8 DEF Replaced
  <2>2. \A h \in Below(stack) : h.op = "collect" => Top.op # "collect"
    BY <1>8, BelowIs
  <2>3. ClearFrame(f)'
    BY <1>1, <1>6, <1>7 DEF ClearFrame
  <2> QED BY <1>1, <2>1, <2>2, <2>3
<1>12. trash' \subseteq Range(unreachable')
  <2>1. Range(unreachable') = Range(unreachable) \cap dead
    BY <1>1, <1>2, OnlyElements
  <2> QED BY <1>1, <1>4, <2>1
<1>13. (~Clears' => trash' = {}) /\ \A p \in cleared' : refs'[p] = {}
  BY <1>1 DEF ClearInv, Clears, NoCollection
<1>14. \A p \in live', o \in trash' : o \in refs'[p] => p \in trash'
  BY <1>1, <1>4 DEF Isolated
<1> QED BY <1>10, <1>11, <1>12, <1>13, <1>14 DEF ClearInv

\* A deallocation or a call that begins waits for no collection.
LEMMA PushedUnder ==
  ASSUME stack \in Seq(Frames), NEW f \in Frames, f.op # "collect", stack' = Append(stack, f)
  PROVE  Under' \subseteq Under
<1> SUFFICES ASSUME NEW j \in DOMAIN stack', NEW i \in 1 .. (j - 1), stack'[j].op = "collect"
             PROVE  stack'[i] \in Under
  BY DEF Under
<1> DEFINE n == Len(stack)
<1>1. /\ n \in Nat /\ DOMAIN stack = 1 .. n /\ DOMAIN stack' = 1 .. (n + 1)
      /\ \A k \in 1 .. n : stack'[k] = stack[k]
      /\ stack'[n + 1] = f
  BY AppendProperties
<1> HIDE DEF n
<1>2. j \in 1 .. n
  BY <1>1
<1>3. i \in 1 .. n /\ i \in 1 .. (j - 1)
  BY <1>1, <1>2
<1>4. stack'[i] = stack[i] /\ stack[i] \in Range(stack) /\ stack[j].op = "collect"
  BY <1>1, <1>2, <1>3, RangeIs
<1> QED BY <1>1, <1>2, <1>4 DEF Under

\* An object of the trash that is deallocated leaves unreachable.
LEMMA DeallocBeginsClears ==
  ASSUME HeapInv, ClearInv, NEW o \in Doomed, DeallocBegins(o)
  PROVE  ClearInv'
<1>0. PICK W, calls, owners, holds, f :
        /\ W = {w \in Weak : wr_object[w] = o} /\ calls = {wc \in W \X Obj : wc[2] \in refs[wc[1]]}
        /\ owners = {wc[1] : wc \in calls} /\ holds = owners \cup {wc[2] : wc \in calls}
        /\ f = Dealloc(o, "call", holds, calls)
  OBVIOUS
<1>1. /\ Untrack(o) /\ refs' = Cleared(refs, owners, {}) /\ stack' = Append(stack, f)
      /\ UNCHANGED <<live, gc, cleared, trash>>
  BY <1>0 DEF DeallocBegins, histVars
<1>2. /\ TypeOK /\ ListsApart /\ stack \in Seq(Frames) /\ refs \in [Obj -> SUBSET live]
      /\ o \in live /\ live \subseteq Obj /\ cleared \subseteq live
  BY DEF HeapInv, TypeOK, Doomed
<1>3. f \in Frames /\ f.op = "dealloc" /\ f.obj = o
  <2>1. calls \in SUBSET (Weak \X Obj) /\ holds \in SUBSET Obj
    BY <1>0, ObjAssumption DEF ObjAssumption
  <2>2. o \in Obj /\ "call" \in {"call", "del", "deleted"}
    BY <1>2
  <2>3. LET h == Dealloc(o, "call", holds, calls) IN h \in Frames /\ h.op = "dealloc" /\ h.obj = o
    BY <2>1, <2>2, DeallocFrame
  <2> QED BY <1>0, <2>3, Zenon
<1>4. \A p \in Obj : refs'[p] \subseteq refs[p]
  BY <1>1, <1>2 DEF Cleared
<1>5. Range(unreachable') = Range(unreachable) \ {o}
  <2>1. Untracked(o)
    BY <1>1, <1>2, UntrackIs
  <2> QED BY <2>1 DEF Untracked, Leaves
<1>6. Range(stack') = Range(stack) \cup {f}
  BY <1>1, <1>2, <1>3, AppendedOnce
<1>7. Deallocated \cup {o} \subseteq Deallocated'
  BY <1>1, <1>2, <1>3, <1>6 DEF Deallocated
<1>8. trash' \cap Clearable \subseteq Range(unreachable') \cup cleared' \cup Deallocated'
  BY <1>1, <1>5, <1>7 DEF ClearInv
<1>9. \A h \in Range(stack') : h.op = "collect" => ClearFrame(h)'
  BY <1>1, <1>3, <1>5, <1>6 DEF ClearInv, ClearFrame
<1>10. Under' \subseteq Under
  BY <1>1, <1>2, <1>3, PushedUnder
<1>11. \A p \in cleared' : refs'[p] = {}
  BY <1>1, <1>2, <1>4 DEF ClearInv
<1>12. ~Clears' => trash' = {}
  BY <1>1 DEF ClearInv, Clears
<1>13. \A p \in live', q \in trash' : q \in refs'[p] => p \in live /\ q \in refs[p]
  BY <1>1, <1>2, <1>4
<1> QED BY <1>1, <1>8, <1>9, <1>10, <1>11, <1>12, <1>13, ClearKeeps

\* An object that is freed is trash no longer.
LEMMA DeallocEndsClears ==
  ASSUME HeapInv, ClearInv, DeallocEnds
  PROVE  ClearInv'
<1>0. PICK o, S : o = Top.obj /\ S = refs[o]
  OBVIOUS
<1>1. /\ stack # <<>> /\ Top.op = "dealloc" /\ Untrack(o)
      /\ live' = live \ {o} /\ refs' = [refs EXCEPT ![o] = {}]
      /\ stack' = Front(stack) \o Rest(S)
      /\ cleared' = cleared \ {o} /\ trash' = trash \ {o} /\ gc' = gc
  BY <1>0 DEF DeallocEnds, In
<1>2. /\ TypeOK /\ ListsApart /\ refs \in [Obj -> SUBSET live]
      /\ live \subseteq Obj /\ cleared \subseteq live
  BY DEF HeapInv, TypeOK
<1>3. o \in Obj /\ S \in SUBSET Obj
  BY <1>0, <1>1, <1>2, TopIs, FrameKinds
<1>4. Replaced(RestSet(S)) /\ \A h \in RestSet(S) : h.op # "collect"
  BY <1>1, <1>3, PlainTop, RestFrames DEF Plain
<1>5. /\ Range(stack) = Below(stack) \cup {Top} /\ Range(stack') = Below(stack) \cup RestSet(S)
      /\ Under' \subseteq Under
  BY <1>4 DEF Replaced
<1>6. Range(unreachable') = Range(unreachable) \ {o}
  <2>1. Untracked(o)
    BY <1>1, <1>2, UntrackIs
  <2> QED BY <2>1 DEF Untracked, Leaves
<1>7. \A p \in Obj : refs'[p] = IF p = o THEN {} ELSE refs[p]
  BY <1>1, <1>2
<1>8. Deallocated \ {o} \subseteq Deallocated'
  BY <1>0, <1>1, <1>5 DEF Deallocated
<1>9. trash' \cap Clearable \subseteq Range(unreachable') \cup cleared' \cup Deallocated'
  BY <1>1, <1>6, <1>8 DEF ClearInv
<1>10. \A h \in Range(stack') : h.op = "collect" => ClearFrame(h)'
  <2>1. ASSUME NEW h \in Range(stack'), h.op = "collect" PROVE ClearFrame(h)'
    <3>1. h \in Range(stack)
      BY <1>4, <1>5, <2>1
    <3>2. ClearFrame(h)
      BY <2>1, <3>1 DEF ClearInv
    <3> QED BY <1>1, <1>6, <3>2 DEF ClearFrame
  <2> QED BY <2>1
<1>11. \A p \in cleared' : refs'[p] = {}
  BY <1>1, <1>2, <1>7 DEF ClearInv
<1>12. ~Clears' => trash' = {}
  BY <1>1 DEF ClearInv, Clears
<1>13. \A p \in live', q \in trash' : q \in refs'[p] => p \in live /\ q \in refs[p]
  BY <1>1, <1>2, <1>7
<1>14. \A p \in live' \cap trash : p \in trash'
  BY <1>1
<1> QED BY <1>1, <1>5, <1>9, <1>10, <1>11, <1>12, <1>13, <1>14, ClearKeeps

LEMMA NextClearInv ==
  ASSUME HeapInv, ScanInv, HideInv, ClearInv, [Next]_vars
  PROVE  ClearInv'
<1>0. Accessible \cap (trash \cup cleared) = {} /\ Accessible \subseteq live
  <2>1. PICK D \in SUBSET live : Hides(D)
    BY DEF HideInv
  <2>2. Accessible \cap D = {} /\ Accessible \subseteq live
    BY <2>1, AccessibleHides
  <2> QED BY <2>1, <2>2 DEF Hides
<1>1. CASE \E o \in Doomed : DeallocBegins(o)
  BY <1>1, DeallocBeginsClears
<1>2. CASE Return
  BY <1>2, ReturnClears
<1>3. CASE Deallocation
  <2>1. ASSUME NEW o \in Obj, Py_DECREF(o) PROVE ClearInv'
    BY <2>1, Py_DECREFClears
  <2>2. ASSUME NEW wc \in Weak \X Obj, DeallocCalls(wc) PROVE ClearInv'
    BY <2>2, DeallocCallsClears
  <2>3. CASE DeallocCalled
    BY <2>3, DeallocCalledClears
  <2>4. CASE DeallocFinalizes
    BY <2>4, DeallocFinalizesClears
  <2>5. CASE DeallocResurrected
    BY <2>5, DeallocResurrectedClears
  <2>6. CASE DeallocEnds
    BY <2>6, DeallocEndsClears
  <2> QED BY <1>3, <2>1, <2>2, <2>3, <2>4, <2>5, <2>6 DEF Deallocation
<1>4. CASE Collecting
  <2>1. CASE MoveNext
    BY <2>1, MoveNextClears
  <2>2. CASE MoveEnds
    BY <2>2, MoveEndsClears
  <2>3. CASE CallNext
    BY <2>3, CallNextClears
  <2>4. CASE CallsEnd
    BY <2>4, CallsEndClears
  <2>5. CASE CollectDecref
    BY <2>5, CollectDecrefClears
  <2>6. CASE CallMoves
    BY <2>6, CallMovesClears
  <2>7. CASE ClearNext
    BY <2>7, ClearNextClears
  <2>8. CASE DeleteMoves
    BY <2>8, DeleteMovesClears
  <2>9. CASE CollectEnds
    BY <2>9, CollectEndsClears
  <2> QED BY <1>4, <2>1, <2>2, <2>3, <2>4, <2>5, <2>6, <2>7, <2>8, <2>9 DEF Collecting
<1>5. CASE PythonRuns /\ Program
  <2>1. ASSUME NEW o \in Obj, New(o) PROVE ClearInv'
    BY <2>1, NewClears
  <2>2. ASSUME NEW o, Hold(o) \/ Release(o) \/ Discard(o) PROVE ClearInv'
    BY <2>2, HoldClears
  <2>3. ASSUME NEW o \in Accessible, NEW p \in Accessible, Store(o, p) \/ Erase(o, p) PROVE ClearInv'
    BY <1>0, <2>3, StoreClears
  <2>4. ASSUME NEW w \in Weak, NEW o \in Accessible, PyWeakref_NewRef(w, o) PROVE ClearInv'
    BY <1>0, <2>4, PyWeakref_NewRefClears
  <2>5. ASSUME NEW g \in Generation, Collect(g) PROVE ClearInv'
    BY <2>5, CollectClears
  <2> QED BY <1>5, <2>1, <2>2, <2>3, <2>4, <2>5 DEF Program
<1>6. CASE UNCHANGED vars
  <2>1. UNCHANGED <<live, refs, unreachable, gc, stack, cleared, trash>>
    BY <1>6 DEF vars, heapVars, listVars, histVars
  <2>2. \A p \in cleared : refs'[p] = {}
    BY <2>1 DEF ClearInv
  <2> QED BY <2>1, <2>2, ProgramClears
<1> QED BY <1>1, <1>2, <1>3, <1>4, <1>5, <1>6 DEF Next

\* What Doc/c-api/typeobj.rst asks of the tp_clear functions taken together: every cycle of references
\* goes through an object that has one, so that of any objects without one some are not referred to
\* by the others.
ClearableBreaks ==
  \A T \in SUBSET (Obj \ Clearable) : T # {} => \E o \in T : \A p \in T : <<p, o>> \notin MayRefer

\* When all of unreachable was treated and nothing is to be deallocated, an object of the trash
\* is referred to by another, which is not cleared: it has no tp_clear.
LEMMA TrashReferred ==
  ASSUME HeapInv, HideInv, ClearInv, Doomed = {}, InStage("delete", "next"), unreachable = <<>>,
         NEW o \in trash
  PROVE  \E p \in trash \ Clearable : o \in refs[p]
<1>1. /\ stack # <<>> /\ Top.op = "collect" /\ gc.phase = "delete" /\ Top.stage = "next"
      /\ TypeOK /\ stack \in Seq(Frames) /\ IsFiniteSet(live) /\ trash \subseteq live
  BY DEF InStage, In, HeapInv, TypeOK, HeapOK
<1>2. Top \in Range(stack) /\ Range(unreachable) = {}
  <2>1. DOMAIN <<>> = {}
    OBVIOUS
  <2> QED BY <1>1, <2>1, StackIs DEF Range
<1>3. \A f \in Range(stack) : f = Top \/ f \in Under
  <2>1. Len(stack) \in Nat \ {0} /\ DOMAIN stack = 1 .. Len(stack)
    BY <1>1, EmptySeq
  <2>2. ASSUME NEW i \in DOMAIN stack PROVE stack[i] = Top \/ stack[i] \in Under
    <3>1. CASE i = Len(stack)
      BY <3>1 DEF Top
    <3>2. CASE i # Len(stack)
      <4>1. i \in 1 .. (Len(stack) - 1) /\ Len(stack) \in DOMAIN stack
        BY <2>1, <3>2
      <4>2. stack[Len(stack)].op = "collect" /\ stack[i] \in Range(stack)
        BY <1>1, RangeIs DEF Top
      <4> QED BY <4>1, <4>2 DEF Under
    <3> QED BY <3>1, <3>2
  <2> QED BY <2>2, RangeIs
<1>4. \A f \in Range(stack) : o \notin f.holds /\ ~(f.op = "dealloc" /\ f.obj = o)
  <2>1. Top.holds \cap trash = {}
    BY <1>1, <1>2 DEF ClearInv, ClearFrame
  <2> QED BY <1>1, <1>3, <2>1 DEF ClearInv
<1>5. o \notin held /\ o \notin garbage
  BY DEF HideInv, Hides
<1>6. ~Unreferred(o)
  <2>1. Doomed = {x \in live : Unreferred(x) /\ \A f \in Range(stack) : ~(f.op = "dealloc" /\ f.obj = x)}
    BY <1>1, DoomedIs
  <2> QED BY <1>1, <1>4, <2>1
<1>7. PICK p \in live : o \in refs[p]
  BY <1>4, <1>5, <1>6 DEF Unreferred
<1>8. p \in trash /\ p \notin cleared
  BY <1>7 DEF ClearInv
<1>9. p \notin Deallocated
  <2>1. \A f \in Under : f.op = "dealloc" => f.obj # p
    BY <1>8 DEF ClearInv
  <2> QED BY <1>1, <1>3, <2>1 DEF Deallocated
<1>10. p \notin Clearable
  BY <1>2, <1>8, <1>9 DEF ClearInv
<1> QED BY <1>7, <1>8, <1>10

LEMMA TrashGone ==
  ASSUME HeapInv, HideInv, ClearInv, Refers, ClearableBreaks
  PROVE  TrashFreed
<1> SUFFICES ASSUME Doomed = {}, InStage("delete", "next"), unreachable = <<>>, trash # {}
             PROVE  FALSE
  BY DEF TrashFreed
<1> DEFINE T == trash \ Clearable
<1>1. trash \subseteq Obj
  BY DEF HeapInv, TypeOK
<1>2. \A o \in trash : \E p \in T : o \in refs[p]
  BY TrashReferred
<1>3. T # {} /\ T \in SUBSET (Obj \ Clearable)
  BY <1>1, <1>2
<1>4. PICK o \in T : \A p \in T : <<p, o>> \notin MayRefer
  BY <1>3 DEF ClearableBreaks
<1>5. PICK p \in T : o \in refs[p]
  BY <1>2, <1>4
<1> QED BY <1>1, <1>4, <1>5 DEF Refers

\* ClearInv is an invariant where HideInv is.
THEOREM ClearInvHolds == Spec /\ []OwnReferents => []ClearInv
<1>1. Init => ClearInv
  <2> SUFFICES ASSUME Init PROVE ClearInv
    OBVIOUS
  <2>1. stack = <<>> /\ trash = {} /\ cleared = {} /\ live = {}
    BY DEF Init
  <2>2. Range(stack) = {}
    <3>1. DOMAIN <<>> = {}
      OBVIOUS
    <3> QED BY <2>1, <3>1 DEF Range
  <2> QED BY <2>1, <2>2 DEF ClearInv, Under
<1>2. HeapInv /\ ScanInv /\ HideInv /\ ClearInv /\ [Next]_vars => ClearInv'
  BY NextClearInv
<1> QED BY <1>1, <1>2, HeapInvHolds, ScanInvHolds, HideInvHolds, PTL DEF Spec

\* delete_garbage frees all of the trash in one collection, in any number of cycles and whatever
\* the callbacks do meanwhile, while every cycle goes through an object that has a tp_clear.
THEOREM TrashAlwaysFreed == ClearableBreaks => (Spec /\ []OwnReferents => []TrashFreed)
<1> SUFFICES ASSUME ClearableBreaks PROVE Spec /\ []OwnReferents => []TrashFreed
  OBVIOUS
<1>1. HeapInv /\ HideInv /\ ClearInv /\ Refers => TrashFreed
  BY TrashGone
<1> QED BY <1>1, HeapInvHolds, HideInvHolds, ClearInvHolds, RefersHolds, PTL
-----------------------------------------------------------------------------
(* The callbacks.                                                           *)

\* Weak references whose callback a deallocation is still to call.
Pending == {w \in Weak : \E f \in Range(stack) : f.op = "dealloc" /\ \E wc \in f.calls : wc[1] = w}
\* A deallocation goes on when its callbacks were called, and so does the collector.
CallFrame(f) ==
  /\ f.op = "dealloc" /\ f.stage # "call" => f.calls = {}
  /\ f.op = "collect" /\ gc.phase = "weakrefs" /\ f.obj \in Range(wrcb_to_call) => f.obj \in called
\* Weak references with a callback, to objects without __del__.
Calls(w) == Callbacks(w) # {} /\ ~\E o \in Finalizer : <<w, o>> \in MayWatch
\* The callback was called or is about to be, or it is there because the referent is.
Answers(w) == IF wr_object[w] = None THEN w \in called \cup Range(wrcb_to_call) \cup Pending
              ELSE refs[w] # {}
CallInv ==
  /\ gc # NoCollection => \E f \in Range(stack) : f.op = "collect"
  /\ \A f \in Range(stack) : CallFrame(f)
  /\ \A w \in Weak \cap live : w \notin trash \cup cleared \cup Buried /\ Calls(w) => Answers(w)

\* A step that leaves w as it was, or closer to its call.
Stays(w) ==
  /\ w \in live /\ (w \in trash \cup cleared \cup Buried => w \in trash' \cup cleared' \cup Buried')
  /\ wr_object'[w] = wr_object[w] /\ refs'[w] = refs[w]
  /\ w \in called \cup Range(wrcb_to_call) \cup Pending =>
       w \in called' \cup Range(wrcb_to_call') \cup Pending'

LEMMA CallKeeps ==
  ASSUME CallInv,
         gc' # NoCollection => \E f \in Range(stack') : f.op = "collect",
         \A f \in Range(stack') : CallFrame(f)',
         \A w \in Weak \cap live' : Calls(w) =>
           Stays(w) \/ w \in trash' \cup cleared' \cup Buried' \/ Answers(w)'
  PROVE  CallInv'
<1>1. ASSUME NEW w \in Weak \cap live', w \notin trash' \cup cleared' \cup Buried', Calls(w), Stays(w)
      PROVE  Answers(w)'
  <2>1. w \in live /\ w \notin trash \cup cleared \cup Buried
    BY <1>1 DEF Stays
  <2>2. Answers(w)
    BY <1>1, <2>1 DEF CallInv
  <2> QED BY <1>1, <2>2 DEF Answers, Stays
<1>2. \A w \in Weak \cap live' : w \notin trash' \cup cleared' \cup Buried' /\ Calls(w) => Answers(w)'
  BY <1>1
<1>3. \A w : Calls(w)' <=> Calls(w)
  BY DEF Calls, Callbacks
<1> QED BY <1>2, <1>3 DEF CallInv

\* Such a step that replaces the top of the stack.
LEMMA StackCalls ==
  ASSUME HeapInv, CallInv, NEW F, Replaced(F),
         UNCHANGED <<live, refs, wr_object, gc, cleared, trash>>,
         called \subseteq called', Range(wrcb_to_call') \subseteq Range(wrcb_to_call),
         Range(wrcb_to_call) \subseteq Range(wrcb_to_call') \cup called',
         \A f \in F : CallFrame(f)',
         Top.op = "collect" => \E f \in F : f.op = "collect",
         \A w \in Weak : Buries(Top, w) => \E f \in F : Buries(f, w),
         Top.op = "dealloc" =>
           \A wc \in Top.calls : wc[1] \in called' \/ \E f \in F : f.op = "dealloc" /\ wc \in f.calls
  PROVE  CallInv'
<1>1. Range(stack) = Below(stack) \cup {Top} /\ Range(stack') = Below(stack) \cup F
  BY DEF Replaced
<1>2. gc' # NoCollection => \E f \in Range(stack') : f.op = "collect"
  BY <1>1 DEF CallInv
<1>3. \A f \in Range(stack') : CallFrame(f)'
  <2>1. ASSUME NEW f \in Below(stack) PROVE CallFrame(f)'
    <3>1. CallFrame(f)
      BY <1>1 DEF CallInv
    <3> QED BY <3>1 DEF CallFrame
  <2> QED BY <1>1, <2>1
<1>4. ASSUME NEW w \in Weak \cap live' PROVE Stays(w)
  <2>1. w \in Buried => w \in Buried'
    BY <1>1, <1>4 DEF Buried
  <2>2. w \in Pending => w \in Pending' \cup called'
    <3> SUFFICES ASSUME w \in Pending, w \notin called' PROVE w \in Pending'
      OBVIOUS
    <3>1. PICK f \in Range(stack) : f.op = "dealloc" /\ \E wc \in f.calls : wc[1] = w
      BY DEF Pending
    <3>2. PICK wc \in f.calls : wc[1] = w
      BY <3>1
    <3>3. \E g \in Range(stack') : g.op = "dealloc" /\ wc \in g.calls
      BY <1>1, <3>1, <3>2
    <3> QED BY <3>2, <3>3 DEF Pending
  <2> QED BY <2>1, <2>2 DEF Stays
<1> QED BY <1>2, <1>3, <1>4, CallKeeps

\* A frame of the collector in which nothing is to be called.
LEMMA CollectionCalls ==
  ASSUME NEW f, f.op = "collect", gc'.phase # "weakrefs" \/ f.obj \notin Range(wrcb_to_call')
                                   \/ f.obj \in called'
  PROVE  CallFrame(f)'
BY DEF CallFrame

LEMMA ReturnCalls ==
  ASSUME HeapInv, CallInv, Return
  PROVE  CallInv'
<1>0. PICK S, f : S = Top.holds /\ f = Drop(S)
  OBVIOUS
<1>1. /\ stack # <<>> /\ Top.op = "python" /\ stack' = Append(Front(stack), f)
      /\ UNCHANGED <<live, refs, wr_object, wrcb_to_call, gc, cleared, trash, called>>
  BY <1>0 DEF Return, In, Replace, heapVars, listVars, histVars
<1>2. S \in SUBSET Obj
  BY <1>0, <1>1, TopIs
<1>3. Replaced({f}) /\ f.op = "drop"
  BY <1>0, <1>1, <1>2, PlainTop DEF Drop
<1>4. CallFrame(f)'
  BY <1>3 DEF CallFrame
<1> QED BY <1>1, <1>3, <1>4, StackCalls DEF Buries

LEMMA Py_DECREFCalls ==
  ASSUME HeapInv, CallInv, NEW o, Py_DECREF(o)
  PROVE  CallInv'
<1> DEFINE S == Top.holds \ {o}
<1>1. /\ stack # <<>> /\ Top.op = "drop" /\ stack' = Front(stack) \o Rest(S)
      /\ UNCHANGED <<live, refs, wr_object, wrcb_to_call, gc, cleared, trash, called>>
  BY DEF Py_DECREF, In, heapVars, listVars, histVars
<1>2. S \in SUBSET Obj
  BY <1>1, TopIs
<1> HIDE DEF S
<1>3. Replaced(RestSet(S)) /\ \A f \in RestSet(S) : CallFrame(f)'
  BY <1>1, <1>2, PlainTop, RestFrames DEF Plain, CallFrame
<1> QED BY <1>1, <1>3, StackCalls DEF Buries

\* The callback that is called is no longer pending.
LEMMA DeallocCallsCalls ==
  ASSUME HeapInv, CallInv, NEW wc \in Weak \X Obj, DeallocCalls(wc)
  PROVE  CallInv'
<1>0. PICK c, f, S : /\ c = Top.calls \ {wc} /\ f = Dealloc(Top.obj, "call", Top.holds, c)
                     /\ S = {wc[1], wc[2]}
  OBVIOUS
<1>1. /\ stack # <<>> /\ Top.op = "dealloc" /\ Top.stage = "call" /\ wc \in Top.calls
      /\ stack' = Front(stack) \o <<[Top EXCEPT !.calls = c], Call(S)>>
      /\ UNCHANGED <<live, refs, wr_object, wrcb_to_call, gc, cleared, trash>>
      /\ called' = called \cup {wc[1]}
  BY <1>0 DEF DeallocCalls, In, heapVars, listVars
<1>2. Top \in Frames /\ Top.holds \in SUBSET Obj
  BY <1>1, TopIs
<1>3. Top.calls \subseteq Weak \X Obj /\ Top = Dealloc(Top.obj, "call", Top.holds, Top.calls)
  BY <1>1, <1>2, FrameKinds
<1>4. [Top EXCEPT !.calls = c] = f
  BY <1>0, <1>3 DEF Dealloc
<1>5. c \in SUBSET (Weak \X Obj) /\ S \in SUBSET Obj
  BY <1>0, <1>1, <1>3, ObjAssumption DEF ObjAssumption
<1>6. Fits(f) /\ f.op = "dealloc" /\ f.obj = Top.obj /\ f.stage = "call" /\ f.calls = c
  <2>1. "call" \in {"call", "del", "deleted"}
    OBVIOUS
  <2>2. LET h == Dealloc(Top.obj, "call", Top.holds, c) IN
          /\ Fits(h) /\ h.op = "dealloc" /\ h.obj = Top.obj /\ h.stage = "call" /\ h.holds = Top.holds
          /\ h.calls = c /\ Top.obj \in Obj
    BY <1>1, <1>2, <1>5, <2>1, DeallocFits
  <2> QED BY <1>0, <2>2, Zenon
<1>7. Replaced({f, Call(S)}) /\ Call(S).op = "python"
  BY <1>0, <1>1, <1>4, <1>5, <1>6, FittingTop DEF Call
<1>8. CallFrame(f)' /\ CallFrame(Call(S))'
  BY <1>6, <1>7 DEF CallFrame
<1>9. \A v \in Top.calls : v = wc \/ v \in f.calls
  BY <1>0, <1>6
<1>10. \A w \in Weak : Buries(Top, w) => Buries(f, w)
  BY <1>1, <1>6 DEF Buries
<1> QED BY <1>1, <1>6, <1>7, <1>8, <1>9, <1>10, StackCalls

LEMMA DeallocCalledCalls ==
  ASSUME HeapInv, CallInv, DeallocCalled
  PROVE  CallInv'
<1>0. PICK f, S : f = Dealloc(Top.obj, "del", {}, {}) /\ S = Top.holds
  OBVIOUS
<1>1. /\ stack # <<>> /\ Top.op = "dealloc" /\ Top.stage = "call" /\ Top.calls = {}
      /\ stack' = Front(stack) \o <<f>> \o Rest(S)
      /\ UNCHANGED <<live, refs, wr_object, wrcb_to_call, gc, cleared, trash, called>>
  BY <1>0 DEF DeallocCalled, In, heapVars, listVars, histVars
<1>2. S \in SUBSET Obj
  BY <1>0, <1>1, TopIs
<1>3. Fits(f) /\ f.op = "dealloc" /\ f.obj = Top.obj /\ f.stage = "del" /\ f.calls = {}
  <2>1. "del" \in {"call", "del", "deleted"} /\ {} \in SUBSET Obj /\ {} \in SUBSET (Weak \X Obj)
    OBVIOUS
  <2> QED BY <1>0, <1>1, <2>1, DeallocFits
<1>4. Replaced({f} \cup RestSet(S))
  BY <1>1, <1>2, <1>3, FittingTop
<1>5. \A h \in {f} \cup RestSet(S) : CallFrame(h)'
  BY <1>2, <1>3, RestFrames DEF Plain, CallFrame
<1>6. \A w \in Weak : Buries(Top, w) => Buries(f, w)
  BY <1>1, <1>3 DEF Buries
<1> QED BY <1>1, <1>4, <1>5, <1>6, StackCalls

\* No weak reference has a __del__.
LEMMA DeallocFinalizesCalls ==
  ASSUME HeapInv, CallInv, DeallocFinalizes
  PROVE  CallInv'
<1>0. PICK f, S : f = Dealloc(Top.obj, "deleted", {}, {}) /\ S = {Top.obj}
  OBVIOUS
<1>1. /\ stack # <<>> /\ Top.op = "dealloc" /\ Top.stage = "del" /\ Top.obj \in Finalizer
      /\ stack' = Front(stack) \o <<f, Call(S)>>
      /\ UNCHANGED <<live, refs, wr_object, wrcb_to_call, gc, cleared, trash, called>>
  BY <1>0 DEF DeallocFinalizes, In, heapVars, histVars
<1>2. Top.calls = {}
  <2>1. Top \in Range(stack)
    BY <1>1, StackIs DEF HeapInv
  <2> QED BY <1>1, <2>1 DEF CallInv, CallFrame
<1>3. Fits(f) /\ f.op = "dealloc" /\ f.calls = {} /\ Top.obj \in Obj
  <2>1. "deleted" \in {"call", "del", "deleted"} /\ {} \in SUBSET Obj /\ {} \in SUBSET (Weak \X Obj)
    OBVIOUS
  <2> QED BY <1>0, <1>1, <2>1, DeallocFits
<1>4. S \in SUBSET Obj
  BY <1>0, <1>3
<1>5. Replaced({f, Call(S)}) /\ Call(S).op = "python"
  BY <1>0, <1>1, <1>3, <1>4, FittingTop DEF Call
<1>6. CallFrame(f)' /\ CallFrame(Call(S))'
  BY <1>3, <1>5 DEF CallFrame
<1>7. \A w \in Weak : ~Buries(Top, w)
  BY <1>1, ObjAssumption DEF Buries, ObjAssumption
<1> QED BY <1>1, <1>2, <1>5, <1>6, <1>7, StackCalls

LEMMA DeallocResurrectedCalls ==
  ASSUME HeapInv, CallInv, DeallocResurrected
  PROVE  CallInv'
<1>1. /\ stack # <<>> /\ Top.op = "dealloc" /\ Top.stage = "deleted" /\ stack' = Front(stack)
      /\ UNCHANGED <<live, refs, wr_object, wrcb_to_call, gc, cleared, trash, called>>
  BY DEF DeallocResurrected, In, heapVars, listVars, histVars
<1>2. Top.calls = {}
  <2>1. Top \in Range(stack)
    BY <1>1, StackIs DEF HeapInv
  <2> QED BY <1>1, <2>1 DEF CallInv, CallFrame
<1>3. Replaced({})
  <2>1. {} \in SUBSET Obj
    OBVIOUS
  <2> QED BY <1>1, <2>1, PlainTop
<1>4. \A w \in Weak : ~Buries(Top, w)
  BY <1>1 DEF Buries
<1> QED BY <1>1, <1>2, <1>3, <1>4, StackCalls

\* The collector's frame names the weak reference that was called until it leaves wrcb_to_call.
LEMMA CallNextCalls ==
  ASSUME HeapInv, CallInv, CallNext
  PROVE  CallInv'
<1>0. PICK o, f, S : /\ o = Head(wrcb_to_call) /\ f = Collection("called", o, Top.holds)
                     /\ S = {o} \cup refs[o]
  OBVIOUS
<1>1. /\ stack # <<>> /\ Top.op = "collect" /\ wrcb_to_call # <<>>
      /\ stack' = Front(stack) \o <<f, Call(S)>> /\ called' = called \cup {o}
      /\ UNCHANGED <<live, refs, wr_object, wrcb_to_call, gc, cleared, trash>>
  BY <1>0 DEF CallNext, InStage, In, heapVars, listVars
<1>2. TypeOK /\ Top.holds \in SUBSET Obj
  BY <1>1, TopIs DEF HeapInv
<1>3. o \in Obj /\ S \in SUBSET Obj
  BY <1>0, <1>1, <1>2, TailOnce DEF TypeOK
<1>4. Fits(f) /\ f.op = "collect" /\ f.obj = o
  <2>1. "called" \in {"next", "called", "released"} /\ o \in Obj \cup {None}
    BY <1>3
  <2>2. LET h == Collection("called", o, Top.holds) IN
          Fits(h) /\ h.op = "collect" /\ h.obj = o /\ h.stage = "called" /\ h.holds = Top.holds
    BY <1>1, <1>2, <2>1, CollectionFits
  <2> QED BY <1>0, <2>2, Zenon
<1>5. Replaced({f, Call(S)}) /\ Call(S).op = "python"
  BY <1>0, <1>1, <1>3, <1>4, FittingTop DEF Call
<1>6. CallFrame(f)' /\ CallFrame(Call(S))'
  BY <1>1, <1>4, <1>5 DEF CallFrame
<1> QED BY <1>1, <1>4, <1>5, <1>6, StackCalls DEF Buries

LEMMA CollectDecrefCalls ==
  ASSUME HeapInv, CallInv, CollectDecref
  PROVE  CallInv'
<1>0. PICK f, S : S = Top.holds \ {Top.obj} /\ f = Collection("released", Top.obj, S)
  OBVIOUS
<1>1. /\ stack # <<>> /\ Top.op = "collect" /\ stack' = Append(Front(stack), f)
      /\ UNCHANGED <<live, refs, wr_object, wrcb_to_call, gc, cleared, trash, called>>
  BY <1>0 DEF CollectDecref, In, Replace, heapVars, listVars, histVars
<1>2. Top \in Range(stack) /\ Top.holds \in SUBSET Obj /\ Top \in Frames
  BY <1>1, TopIs, StackIs DEF HeapInv
<1>3. Fits(f) /\ f.op = "collect" /\ f.obj = Top.obj
  <2>1. "released" \in {"next", "called", "released"} /\ Top.obj \in Obj \cup {None} /\ S \in SUBSET Obj
    BY <1>0, <1>1, <1>2, FrameKinds
  <2>2. LET h == Collection("released", Top.obj, S) IN Fits(h) /\ h.op = "collect" /\ h.obj = Top.obj
    BY <1>1, <2>1, CollectionFits, SMTT(30)
  <2> QED BY <1>0, <2>2, Zenon
<1>4. Replaced({f})
  <2>1. {} \in SUBSET Obj
    OBVIOUS
  <2> QED BY <1>1, <1>3, <2>1, FittingTop
<1>5. CallFrame(f)'
  <2>1. CallFrame(Top)
    BY <1>2 DEF CallInv
  <2> QED BY <1>1, <1>3, <2>1 DEF CallFrame
<1> QED BY <1>1, <1>3, <1>4, <1>5, StackCalls DEF Buries

\* A weak reference that leaves wrcb_to_call was called.
LEMMA CallMovesCalls ==
  ASSUME HeapInv, CallInv, CallMoves
  PROVE  CallInv'
<1>0. PICK f : f = Collection("next", None, Top.holds)
  OBVIOUS
<1>1. /\ stack # <<>> /\ Top.op = "collect" /\ gc.phase = "weakrefs" /\ stack' = Append(Front(stack), f)
      /\ wrcb_to_call' = TailIf(wrcb_to_call)
      /\ UNCHANGED <<live, refs, wr_object, gc, cleared, trash, called>>
  BY <1>0 DEF CallMoves, InStage, In, Replace, heapVars, histVars
<1>2. Top \in Range(stack) /\ Top.holds \in SUBSET Obj /\ wrcb_to_call \in Seq(Obj)
  BY <1>1, TopIs, StackIs DEF HeapInv, TypeOK
<1>3. Fits(f) /\ f.op = "collect" /\ f.obj = None
  <2>1. "next" \in {"next", "called", "released"} /\ None \in Obj \cup {None} /\ Top.holds \in SUBSET Obj
    BY <1>2
  <2>2. LET h == Collection("next", None, Top.holds) IN
          Fits(h) /\ h.op = "collect" /\ h.obj = None /\ h.stage = "next" /\ h.holds = Top.holds
    BY <1>1, <2>1, CollectionFits
  <2> QED BY <1>0, <2>2, Zenon
<1>4. Replaced({f})
  <2>1. {} \in SUBSET Obj
    OBVIOUS
  <2> QED BY <1>1, <1>3, <2>1, FittingTop
<1>5. /\ Range(wrcb_to_call') \subseteq Range(wrcb_to_call)
      /\ Range(wrcb_to_call) \subseteq Range(wrcb_to_call') \cup {Top.obj}
  BY <1>1, <1>2, TailIfIs
<1>6. Range(wrcb_to_call) \subseteq Range(wrcb_to_call') \cup called'
  <2>1. CallFrame(Top)
    BY <1>2 DEF CallInv
  <2> QED BY <1>1, <1>5, <2>1 DEF CallFrame
<1>7. CallFrame(f)'
  <2>1. Range(wrcb_to_call) \subseteq Obj
    BY <1>2 DEF Range
  <2>2. f.obj \notin Range(wrcb_to_call')
    BY <1>3, <1>5, <2>1, ObjAssumption DEF ObjAssumption
  <2> QED BY <1>3, <2>2, CollectionCalls
<1> QED BY <1>1, <1>3, <1>4, <1>5, <1>6, <1>7, StackCalls DEF Buries

LEMMA DeleteMovesCalls ==
  ASSUME HeapInv, CallInv, DeleteMoves
  PROVE  CallInv'
<1>0. PICK f : f = Collection("next", None, {})
  OBVIOUS
<1>1. /\ stack # <<>> /\ Top.op = "collect" /\ gc.phase = "delete" /\ stack' = Append(Front(stack), f)
      /\ UNCHANGED <<live, refs, wr_object, wrcb_to_call, gc, cleared, trash, called>>
  BY <1>0 DEF DeleteMoves, InStage, In, Replace, heapVars, histVars
<1>2. Fits(f) /\ f.op = "collect"
  <2>1. "next" \in {"next", "called", "released"} /\ None \in Obj \cup {None} /\ {} \in SUBSET Obj
    OBVIOUS
  <2> QED BY <1>0, <1>1, <2>1, CollectionFits, SMTT(30)
<1>3. Replaced({f})
  <2>1. {} \in SUBSET Obj
    OBVIOUS
  <2> QED BY <1>1, <1>2, <2>1, FittingTop
<1>4. CallFrame(f)'
  BY <1>1, <1>2, CollectionCalls
<1> QED BY <1>1, <1>2, <1>3, <1>4, StackCalls DEF Buries

\* Steps of the collection that leave the heap and wrcb_to_call.
LEMMA PhaseCalls ==
  ASSUME CallInv, UNCHANGED <<live, refs, wr_object, wrcb_to_call, stack, cleared, trash, called>>,
         gc # NoCollection, gc'.phase # "weakrefs"
  PROVE  CallInv'
<1>1. \A f \in Range(stack') : CallFrame(f)'
  BY DEF CallInv, CallFrame
<1>2. \E f \in Range(stack') : f.op = "collect"
  BY DEF CallInv
<1>3. Buried' = Buried /\ Pending' = Pending
  BY DEF Buried, Pending
<1>4. \A w \in Weak \cap live' : Stays(w)
  BY <1>3 DEF Stays
<1> QED BY <1>1, <1>2, <1>4, CallKeeps

LEMMA CallsEndCalls ==
  ASSUME HeapInv, CallInv, CallsEnd
  PROVE  CallInv'
<1>1. /\ stack # <<>> /\ Top.op = "collect" /\ gc.phase = "weakrefs" /\ gc' = [gc EXCEPT !.phase = "delete"]
      /\ UNCHANGED <<live, refs, wr_object, wrcb_to_call, stack, cleared, trash, called>>
  BY DEF CallsEnd, InStage, In, heapVars, listVars, histVars
<1>2. gc # NoCollection
  BY <1>1, TopIs DEF FrameOK, CollectOK
<1>3. gc'.phase = "delete"
  <2>1. gc' = [phase |-> "delete", generation |-> gc.generation]
    BY <1>1, <1>2, PhaseIs DEF HeapInv, Moves
  <2> QED BY <2>1
<1> QED BY <1>1, <1>2, <1>3, PhaseCalls

LEMMA MoveNextCalls ==
  ASSUME HeapInv, CallInv, MoveNext
  PROVE  CallInv'
<1> DEFINE o == young[gc.scanned + 1]
<1>1. /\ In("collect") /\ gc.phase = "move" /\ gc.scanned < Len(young)
      /\ VisitReachable(o) \/ MoveUnreachable(o)
      /\ UNCHANGED <<heapVars, finalizers, wrcb_to_call, stack, histVars>>
  BY DEF MoveNext, Moving
<1>2. Moves
  <2>1. TypeOK /\ FramesOK
    BY DEF HeapInv
  <2>2. Top \in Range(stack) /\ Top.op = "collect"
    BY <1>1, <2>1, StackIs DEF In
  <2> QED BY <1>1, <2>1, <2>2 DEF FramesOK, FrameOK, CollectOK, Moves
<1>3. o \in Obj
  BY <1>1, <1>2, YoungIs
<1>4. gc'.phase = "move"
  <2>1. CASE VisitReachable(o)
    <3>1. Visits(o)
      <4> HIDE DEF o
      <4> QED BY <1>1, <1>2, <1>3, <2>1, VisitReachableKeeps
    <3> QED BY <3>1 DEF Visits
  <2>2. CASE MoveUnreachable(o)
    <3>1. Suspects(o)
      BY <1>1, <1>2, <2>2, MoveUnreachableKeeps
    <3> QED BY <3>1 DEF Suspects
  <2> QED BY <1>1, <2>1, <2>2
<1>5. UNCHANGED <<live, refs, wr_object, wrcb_to_call, stack, cleared, trash, called>>
  BY <1>1 DEF heapVars, histVars
<1>6. gc # NoCollection
  BY <1>2 DEF Moves
<1> QED BY <1>4, <1>5, <1>6, PhaseCalls

\* What a step of the collector leaves of the deallocations.
LEMMA CollectorStack ==
  ASSUME Top.op = "collect", NEW F, Replaced(F), live' = live
  PROVE  Buried \subseteq Buried' /\ Pending \subseteq Pending'
<1>1. Range(stack) = Below(stack) \cup {Top} /\ Range(stack') = Below(stack) \cup F
  BY DEF Replaced
<1>2. \A f \in Range(stack) : f.op = "dealloc" => f \in Range(stack')
  BY <1>1
<1>3. Buried \subseteq Buried'
  BY <1>2 DEF Buried, Buries
<1>4. Pending \subseteq Pending'
  BY <1>2 DEF Pending
<1> QED BY <1>3, <1>4

\* A weak reference on which tp_clear is called will not be called.
LEMMA ClearNextCalls ==
  ASSUME HeapInv, CallInv, ClearNext
  PROVE  CallInv'
<1>0. PICK o, f, g, S : /\ o = Head(unreachable) /\ f = Collection("called", o, {o})
                        /\ g = Collection("released", o, {}) /\ S = refs[o]
  OBVIOUS
<1>1. /\ stack # <<>> /\ Top.op = "collect" /\ gc.phase = "delete" /\ unreachable # <<>>
      /\ refs' = IF o \in Clearable THEN [refs EXCEPT ![o] = {}] ELSE refs
      /\ wr_object' = IF o \in Clearable THEN [wr_object EXCEPT ![o] = None] ELSE wr_object
      /\ cleared' = IF o \in Clearable THEN cleared \cup {o} ELSE cleared
      /\ stack' = IF o \in Clearable THEN Front(stack) \o <<f>> \o Rest(S) ELSE Front(stack) \o <<g>>
      /\ UNCHANGED <<live, wrcb_to_call, gc, trash, called>>
  BY <1>0 DEF ClearNext, InStage, In, listVars
<1>2. /\ refs \in [Obj -> SUBSET live] /\ live \subseteq Obj /\ unreachable \in Seq(Obj)
      /\ wr_object \in [Obj -> Obj \cup {None}]
  BY DEF HeapInv, TypeOK
<1>3. o \in Obj /\ S \in SUBSET Obj /\ {o} \in SUBSET Obj
  BY <1>0, <1>1, <1>2, TailOnce
<1>4. Fits(f) /\ f.op = "collect" /\ Fits(g) /\ g.op = "collect"
  <2>1. /\ "called" \in {"next", "called", "released"} /\ "released" \in {"next", "called", "released"}
        /\ o \in Obj \cup {None} /\ {} \in SUBSET Obj /\ stack # <<>> /\ Top.op = "collect"
    BY <1>1, <1>3
  <2>2. LET h == Collection("called", o, {o}) IN Fits(h) /\ h.op = "collect"
    BY <1>3, <2>1, CollectionFits
  <2>3. LET h == Collection("released", o, {}) IN
          Fits(h) /\ h.op = "collect" /\ h.obj = o /\ h.stage = "released" /\ h.holds = {}
    BY <2>1, CollectionFits
  <2> QED BY <1>0, <2>2, <2>3, Zenon
<1>5. PICK F : /\ Replaced(F) /\ \E h \in F : h.op = "collect"
               /\ \A h \in F : h.op \in {"collect", "drop"}
  <2>1. CASE o \in Clearable
    <3>1. Replaced({f} \cup RestSet(S))
      BY <1>1, <1>3, <1>4, <2>1, FittingTop
    <3>2. \A h \in {f} \cup RestSet(S) : h.op \in {"collect", "drop"}
      BY <1>4 DEF RestSet, Drop
    <3> QED BY <1>4, <3>1, <3>2
  <2>2. CASE o \notin Clearable
    <3>1. Replaced({g})
      BY <1>1, <1>3, <1>4, <2>2, FittingTop
    <3> QED BY <1>4, <3>1
  <2> QED BY <2>1, <2>2
<1>6. Range(stack) = Below(stack) \cup {Top} /\ Range(stack') = Below(stack) \cup F
  BY <1>5 DEF Replaced
<1>7. \A h \in Range(stack') : CallFrame(h)'
  <2>1. \A h \in F : CallFrame(h)'
    BY <1>1, <1>5 DEF CallFrame
  <2>2. \A h \in Below(stack) : CallFrame(h)'
    BY <1>1, <1>6 DEF CallInv, CallFrame
  <2> QED BY <1>6, <2>1, <2>2
<1>8. ASSUME NEW w \in Weak \cap live' PROVE Stays(w) \/ w \in cleared'
  <2>1. CASE w = o
    BY <1>1, <2>1, ObjAssumption DEF ObjAssumption
  <2>2. CASE w # o
    <3>1. refs'[w] = refs[w] /\ wr_object'[w] = wr_object[w]
      BY <1>1, <1>2, <2>2
    <3>2. Buried \subseteq Buried' /\ Pending \subseteq Pending'
      BY <1>1, <1>5, CollectorStack
    <3>3. cleared \subseteq cleared'
      BY <1>1
    <3> QED BY <1>1, <3>1, <3>2, <3>3 DEF Stays
  <2> QED BY <2>1, <2>2
<1> QED BY <1>5, <1>6, <1>7, <1>8, CallKeeps

\* Weak references of the trash were cleared, or are being deallocated.
LEMMA CollectEndsCalls ==
  ASSUME HeapInv, ClearInv, CallInv, CollectEnds
  PROVE  CallInv'
<1>1. /\ stack # <<>> /\ Top.op = "collect" /\ unreachable = <<>>
      /\ gc' = NoCollection /\ stack' = Front(stack) /\ trash' = {}
      /\ UNCHANGED <<live, refs, wr_object, wrcb_to_call, cleared, called>>
  BY DEF CollectEnds, InStage, In
<1>2. Replaced({})
  <2>1. {} \in SUBSET Obj
    OBVIOUS
  <2> QED BY <1>1, <2>1, PlainTop
<1>3. Range(stack) = Below(stack) \cup {Top} /\ Range(stack') = Below(stack)
  BY <1>2 DEF Replaced
<1>4. \A h \in Range(stack') : CallFrame(h)'
  <2>1. \A h \in Below(stack) : h.op = "collect" => Top.op # "collect"
    BY <1>2, BelowIs
  <2>2. \A h \in Below(stack) : h.op # "collect" /\ CallFrame(h)
    BY <1>1, <1>3, <2>1 DEF CallInv
  <2> QED BY <1>3, <2>2 DEF CallFrame
<1>5. Buried \subseteq Buried' /\ Pending \subseteq Pending'
  BY <1>1, <1>2, CollectorStack
<1>6. ASSUME NEW w \in Weak, w \in trash PROVE w \in cleared \cup Buried
  <2>1. w \in Clearable /\ w \notin Finalizer
    BY ObjAssumption DEF ObjAssumption
  <2>2. Range(unreachable) = {}
    <3>1. DOMAIN <<>> = {}
      OBVIOUS
    <3> QED BY <1>1, <3>1 DEF Range
  <2>3. w \in cleared \cup Deallocated
    BY <1>6, <2>1, <2>2 DEF ClearInv
  <2>4. ASSUME w \in Deallocated PROVE w \in Buried
    <3>1. w \in live
      BY <2>4 DEF Deallocated
    <3>2. PICK f \in Range(stack) : f.op = "dealloc" /\ f.obj = w
      BY <2>4 DEF Deallocated
    <3>3. f.stage # "deleted"
      BY <2>1, <3>2 DEF HeapInv, FramesOK, FrameOK, DeallocOK
    <3> QED BY <3>1, <3>2, <3>3 DEF Buried, Buries
  <2> QED BY <2>3, <2>4
<1>7. \A w \in Weak \cap live' : Stays(w) \/ w \in cleared' \cup Buried'
  BY <1>1, <1>5, <1>6 DEF Stays
<1> QED BY <1>1, <1>4, <1>7, CallKeeps

\* The weak references to the trash that are cleared are those to be called, or trash themselves.
LEMMA MoveEndsCalls ==
  ASSUME HeapInv, ScanInv, ClearInv, CallInv, MoveEnds
  PROVE  CallInv'
<1>0. PICK dead, calls, f : dead = Dead /\ calls = ToCall(dead) /\ f = Collection("next", None, calls)
  OBVIOUS
<1>1. /\ stack # <<>> /\ Top.op = "collect" /\ gc.phase = "move" /\ gc.scanned = Len(young)
      /\ wr_object' = Cleared(wr_object, ToTrash(dead), None)
      /\ wrcb_to_call' \in SetToSeqs(calls)
      /\ stack' = Front(stack) \o <<f>> /\ trash' = dead
      /\ gc' = [phase |-> "weakrefs", generation |-> gc.generation]
      /\ UNCHANGED <<live, refs, cleared, called>>
  BY <1>0 DEF MoveEnds, Moving, Dead, In
<1>2. /\ TypeOK /\ FramesOK /\ MoveOK /\ unreachable \in Seq(Obj) /\ live \subseteq Obj
      /\ wr_object \in [Obj -> Obj \cup {None}]
  BY DEF HeapInv, TypeOK
<1>3. Moves /\ gc # NoCollection
  <2>1. Top \in Range(stack)
    BY <1>1, <1>2, StackIs
  <2> QED BY <1>1, <1>2, <2>1 DEF FramesOK, FrameOK, CollectOK, Moves
<1>4. dead \in SUBSET Obj
  <2>1. dead \subseteq Range(unreachable)
    BY <1>0 DEF Dead
  <2> QED BY <1>2, <2>1 DEF Range
<1>5. calls \in SUBSET Obj /\ Range(wrcb_to_call') = calls
  <2>1. IsFiniteSet(calls) /\ calls \subseteq live
    BY <1>0, <1>4, ToCallIs, ObjAssumption
  <2>2. Range(wrcb_to_call') = calls
    BY <1>1, <2>1, SetToSeqsIs
  <2> QED BY <1>2, <2>1, <2>2
<1>6. Range(wrcb_to_call) = {} /\ trash = {}
  <2>1. wrcb_to_call = <<>>
    BY <1>1, <1>2 DEF MoveOK
  <2>2. DOMAIN <<>> = {}
    OBVIOUS
  <2>3. Range(wrcb_to_call) = {}
    BY <2>1, <2>2 DEF Range
  <2> QED BY <1>1, <2>3 DEF ClearInv, Clears
<1>7. Fits(f) /\ f.op = "collect" /\ f.obj = None
  <2>1. /\ "next" \in {"next", "called", "released"} /\ None \in Obj \cup {None} /\ calls \in SUBSET Obj
        /\ stack # <<>> /\ Top.op = "collect"
    BY <1>1, <1>5
  <2>2. LET h == Collection("next", None, calls) IN
          Fits(h) /\ h.op = "collect" /\ h.obj = None /\ h.stage = "next" /\ h.holds = calls
    BY <2>1, CollectionFits
  <2> QED BY <1>0, <2>2, Zenon
<1>8. Replaced({f})
  BY <1>1, <1>5, <1>7, FittingTop
<1>9. Range(stack) = Below(stack) \cup {Top} /\ Range(stack') = Below(stack) \cup {f}
  BY <1>8 DEF Replaced
<1>10. \A h \in Range(stack') : CallFrame(h)'
  <2>1. \A h \in Below(stack) : h.op = "collect" => Top.op # "collect"
    BY <1>8, BelowIs
  <2>2. \A h \in Below(stack) : h.op # "collect" /\ CallFrame(h)
    BY <1>1, <1>9, <2>1 DEF CallInv
  <2>3. f.obj \notin Range(wrcb_to_call')
    BY <1>5, <1>7, ObjAssumption DEF ObjAssumption
  <2>4. CallFrame(f)'
    BY <1>7, <2>3, CollectionCalls
  <2> QED BY <1>9, <2>2, <2>4 DEF CallFrame
<1>11. Buried \subseteq Buried' /\ Pending \subseteq Pending'
  BY <1>1, <1>8, CollectorStack
<1>12. ASSUME NEW w \in Weak \cap live', Calls(w)
       PROVE  Stays(w) \/ w \in trash' \cup cleared' \cup Buried' \/ Answers(w)'
  <2>1. w \in Obj /\ None \notin dead
    BY <1>4, ObjAssumption DEF ObjAssumption
  <2>2. wr_object'[w] = IF wr_object[w] \in dead THEN None ELSE wr_object[w]
    BY <1>1, <1>2, <1>12, <2>1 DEF Cleared, ToTrash
  <2>3. CASE wr_object[w] \notin dead
    BY <1>1, <1>6, <1>11, <1>12, <2>2, <2>3 DEF Stays
  <2>4. CASE wr_object[w] \in dead /\ w \notin dead \cup cleared \cup Buried
    <3>1. Answers(w) /\ wr_object[w] # None
      BY <1>1, <1>6, <1>12, <2>1, <2>4 DEF CallInv
    <3>2. w \in ToCall(dead)
      BY <1>12, <2>4, <3>1 DEF Answers, ToCall, ToTrash
    <3>3. w \in Range(wrcb_to_call') /\ wr_object'[w] = None
      BY <1>0, <1>5, <2>2, <2>4, <3>2
    <3> QED BY <3>3 DEF Answers
  <2>5. CASE w \in dead \cup cleared \cup Buried
    BY <1>1, <1>11, <2>5
  <2> QED BY <2>3, <2>4, <2>5
<1> QED BY <1>7, <1>9, <1>10, <1>12, CallKeeps

LEMMA CollectCalls ==
  ASSUME HeapInv, CallInv, NEW g \in Generation, Collect(g)
  PROVE  CallInv'
<1>0. PICK f : f = Collection("next", None, {})
  OBVIOUS
<1>1. /\ gc = NoCollection /\ stack' = Append(stack, f)
      /\ gc' = [phase |-> "move", generation |-> g, scanned |-> 0, gc_refs |-> GcRefs(Range(Merged(g)))]
      /\ UNCHANGED <<live, refs, wr_object, wrcb_to_call, cleared, trash, called>>
  BY <1>0 DEF Collect, heapVars, histVars
<1>2. gc'.phase = "move"
  BY <1>1
<1>3. f \in Frames /\ f.op = "collect"
  BY <1>0 DEF Collection, Frames
<1>4. Range(stack') = Range(stack) \cup {f}
  <2>1. stack \in Seq(Frames)
    BY DEF HeapInv, TypeOK
  <2> QED BY <1>1, <1>3, <2>1, AppendedOnce
<1>5. \A h \in Range(stack') : CallFrame(h)'
  <2>1. CallFrame(f)'
    BY <1>2, <1>3, CollectionCalls
  <2>2. \A h \in Range(stack) : CallFrame(h)'
    BY <1>2 DEF CallInv, CallFrame
  <2> QED BY <1>4, <2>1, <2>2
<1>6. Buried \subseteq Buried' /\ Pending \subseteq Pending'
  BY <1>1, <1>4 DEF Buried, Pending
<1>7. \A w \in Weak \cap live' : Stays(w)
  BY <1>1, <1>6 DEF Stays
<1> QED BY <1>3, <1>4, <1>5, <1>7, CallKeeps

\* The callbacks of the weak references to an object that begins to be deallocated are pending.
LEMMA DeallocBeginsCalls ==
  ASSUME HeapInv, CallInv, NEW o \in Doomed, DeallocBegins(o)
  PROVE  CallInv'
<1>0. PICK W, calls, owners, holds, f :
        /\ W = {w \in Weak : wr_object[w] = o} /\ calls = {wc \in W \X Obj : wc[2] \in refs[wc[1]]}
        /\ owners = {wc[1] : wc \in calls} /\ holds = owners \cup {wc[2] : wc \in calls}
        /\ f = Dealloc(o, "call", holds, calls)
  OBVIOUS
<1>1. /\ Untrack(o) /\ refs' = Cleared(refs, owners, {}) /\ stack' = Append(stack, f)
      /\ wr_object' = Cleared(wr_object, W \cup {o}, None)
      /\ UNCHANGED <<live, gc, cleared, trash, called>>
  BY <1>0 DEF DeallocBegins, histVars
<1>2. /\ TypeOK /\ ListsApart /\ stack \in Seq(Frames) /\ refs \in [Obj -> SUBSET live]
      /\ wr_object \in [Obj -> Obj \cup {None}] /\ o \in live /\ live \subseteq Obj
  BY DEF HeapInv, TypeOK, Doomed
<1>3. f \in Frames /\ f.op = "dealloc" /\ f.obj = o /\ f.stage = "call" /\ f.calls = calls
  <2>1. /\ calls \in SUBSET (Weak \X Obj) /\ holds \in SUBSET Obj
        /\ o \in Obj /\ "call" \in {"call", "del", "deleted"}
    BY <1>0, <1>2, ObjAssumption DEF ObjAssumption
  <2>2. LET h == Dealloc(o, "call", holds, calls) IN
          /\ h \in Frames /\ h.op = "dealloc" /\ h.obj = o /\ h.stage = "call" /\ h.holds = holds
          /\ h.calls = calls
    BY <2>1, DeallocFrame
  <2> QED BY <1>0, <2>2, Zenon
<1>4. Range(stack') = Range(stack) \cup {f}
  BY <1>1, <1>2, <1>3, AppendedOnce
<1>5. Range(wrcb_to_call') = Range(wrcb_to_call) \ {o}
  <2>1. Untracked(o)
    BY <1>1, <1>2, UntrackIs
  <2> QED BY <2>1 DEF Untracked, Leaves
<1>6. \A h \in Range(stack') : CallFrame(h)'
  <2>1. CallFrame(f)'
    BY <1>3 DEF CallFrame
  <2>2. \A h \in Range(stack) : CallFrame(h)'
    BY <1>1, <1>5 DEF CallInv, CallFrame
  <2> QED BY <1>4, <2>1, <2>2
<1>7. gc' # NoCollection => \E h \in Range(stack') : h.op = "collect"
  BY <1>1, <1>4 DEF CallInv
<1>8. Buried \cup {o} \subseteq Buried' /\ Pending \subseteq Pending'
  <2>1. Buried \subseteq Buried' /\ Pending \subseteq Pending'
    BY <1>1, <1>4 DEF Buried, Pending
  <2>2. o \in Buried'
    BY <1>1, <1>2, <1>3, <1>4 DEF Buried, Buries
  <2> QED BY <2>1, <2>2
<1>9. ASSUME NEW w \in Weak \cap live', Calls(w)
      PROVE  Stays(w) \/ w \in trash' \cup cleared' \cup Buried' \/ Answers(w)'
  <2>1. w \in Obj /\ w \in live /\ o # None
    BY <1>1, <1>2, ObjAssumption DEF ObjAssumption
  <2>2. CASE w \in trash \cup cleared \cup Buried \cup {o}
    BY <1>1, <1>8, <2>2
  <2>3. CASE w \in W /\ w \notin trash \cup cleared \cup Buried \cup {o}
    <3>1. refs[w] # {}
      BY <1>0, <1>9, <2>1, <2>3 DEF CallInv, Answers
    <3>2. PICK c \in refs[w] : c \in Obj
      BY <1>2, <2>1, <3>1
    <3>3. <<w, c>> \in f.calls
      BY <1>0, <1>3, <2>3, <3>2
    <3>4. w \in Pending'
      <4>1. \E wc \in f.calls : wc[1] = w
        BY <3>3
      <4> QED BY <1>3, <1>4, <1>9, <4>1 DEF Pending
    <3>5. wr_object'[w] = None
      BY <1>1, <1>2, <2>1, <2>3 DEF Cleared
    <3> QED BY <3>4, <3>5 DEF Answers
  <2>4. CASE w \notin W /\ w # o
    <3>1. w \notin owners
      BY <1>0, <2>4
    <3>2. refs'[w] = refs[w] /\ wr_object'[w] = wr_object[w]
      BY <1>1, <1>2, <2>1, <2>4, <3>1 DEF Cleared
    <3> QED BY <1>1, <1>5, <1>8, <2>1, <2>4, <3>2 DEF Stays
  <2> QED BY <2>2, <2>3, <2>4
<1> QED BY <1>6, <1>7, <1>9, CallKeeps

\* An object that is freed had no weak references, or those that its __del__ made.
LEMMA DeallocEndsCalls ==
  ASSUME HeapInv, CallInv, DeallocEnds
  PROVE  CallInv'
<1>0. PICK o, S : o = Top.obj /\ S = refs[o]
  OBVIOUS
<1>1. /\ stack # <<>> /\ Top.op = "dealloc" /\ Untrack(o)
      /\ Top.stage = (IF o \in Finalizer THEN "deleted" ELSE "del")
      /\ wr_object' = Cleared(wr_object, NewWeakrefs(o), None)
      /\ live' = live \ {o} /\ refs' = [refs EXCEPT ![o] = {}]
      /\ stack' = Front(stack) \o Rest(S)
      /\ cleared' = cleared \ {o} /\ trash' = trash \ {o} /\ called' = called \ {o} /\ gc' = gc
  BY <1>0 DEF DeallocEnds, In
<1>2. /\ TypeOK /\ ListsApart /\ refs \in [Obj -> SUBSET live] /\ wr_object \in [Obj -> Obj \cup {None}]
      /\ live \subseteq Obj /\ HeapOK /\ WeakOK /\ Top \in Range(stack)
  BY <1>1, StackIs DEF HeapInv, TypeOK
<1>3. o \in live /\ S \in SUBSET Obj
  <2>1. FrameOK(Top)
    BY <1>2 DEF HeapInv, FramesOK
  <2> QED BY <1>0, <1>1, <1>2, <2>1 DEF FrameOK, DeallocOK
<1>4. Replaced(RestSet(S)) /\ \A h \in RestSet(S) : h.op = "drop"
  <2>1. Replaced(RestSet(S))
    BY <1>1, <1>3, PlainTop
  <2>2. \A h \in RestSet(S) : h.op = "drop"
    BY DEF RestSet, Drop
  <2> QED BY <2>1, <2>2
<1>5. Range(stack) = Below(stack) \cup {Top} /\ Range(stack') = Below(stack) \cup RestSet(S)
  BY <1>4 DEF Replaced
<1>6. Range(wrcb_to_call') = Range(wrcb_to_call) \ {o}
  <2>1. Untracked(o)
    BY <1>1, <1>2, UntrackIs
  <2> QED BY <2>1 DEF Untracked, Leaves
<1>7. \A h \in Below(stack) : h \in Range(stack) /\ CallFrame(h)
  BY <1>5 DEF CallInv
<1>8. \A h \in Range(stack') : CallFrame(h)'
  <2>1. ASSUME NEW h \in Below(stack), h.op = "collect", gc'.phase = "weakrefs", h.obj \in Range(wrcb_to_call')
        PROVE  h.obj \in called'
    <3>1. h.obj \in called
      BY <1>1, <1>6, <1>7, <2>1 DEF CallFrame
    <3> QED BY <1>1, <1>6, <2>1, <3>1
  <2>2. \A h \in Below(stack) : h.op = "dealloc" /\ h.stage # "call" => h.calls = {}
    BY <1>7 DEF CallFrame
  <2>3. \A h \in Below(stack) : CallFrame(h)'
    BY <2>1, <2>2 DEF CallFrame
  <2>4. \A h \in RestSet(S) : CallFrame(h)'
    BY <1>4 DEF CallFrame
  <2> QED BY <1>5, <2>3, <2>4
<1>9. gc' # NoCollection => \E h \in Range(stack') : h.op = "collect"
  BY <1>1, <1>5 DEF CallInv
<1>10. Top.calls = {}
  <2>1. Top.stage # "call"
    BY <1>1
  <2> QED BY <1>1, <1>2, <2>1 DEF CallInv, CallFrame
<1>11. Buried \ {o} \subseteq Buried' /\ Pending \subseteq Pending'
  <2>1. \A h \in Range(stack) : h \in Range(stack') \/ (h = Top /\ h.calls = {} /\ h.obj = o)
    BY <1>0, <1>5, <1>10
  <2>2. Buried \ {o} \subseteq Buried'
    BY <1>1, <2>1 DEF Buried, Buries
  <2>3. Pending \subseteq Pending'
    BY <2>1 DEF Pending
  <2> QED BY <2>2, <2>3
<1>12. ASSUME NEW w \in Weak \cap live', Calls(w) PROVE Stays(w)
  <2>1. w \in Obj /\ w \in live /\ w # o
    BY <1>1, <1>2
  <2>2. wr_object[w] # o
    <3> SUFFICES ASSUME wr_object[w] = o PROVE FALSE
      OBVIOUS
    <3>1. o \notin Buried
      BY <1>2, <2>1 DEF HeapOK, Lost
    <3>2. o \in Finalizer
      BY <1>0, <1>1, <1>2, <1>3, <3>1 DEF Buried, Buries
    <3>3. <<w, o>> \in MayWatch
      BY <1>2, <1>3, <2>1, ObjAssumption DEF WeakOK, ObjAssumption
    <3> QED BY <1>12, <3>2, <3>3 DEF Calls
  <2>3. wr_object'[w] = wr_object[w]
    BY <1>1, <1>2, <2>1, <2>2 DEF Cleared, NewWeakrefs
  <2>4. refs'[w] = refs[w]
    BY <1>1, <1>2, <2>1
  <2> QED BY <1>1, <1>6, <1>11, <2>1, <2>3, <2>4 DEF Stays
<1> QED BY <1>8, <1>9, <1>12, CallKeeps

\* The program makes weak references with their callback, and changes none.
LEMMA ProgramCalls ==
  ASSUME CallInv, UNCHANGED <<wrcb_to_call, gc, stack, cleared, trash, called>>, live \subseteq live',
         \A w \in Weak \cap live : refs'[w] = refs[w] /\ wr_object'[w] = wr_object[w],
         \A w \in Weak \cap live' : w \notin live =>
           wr_object'[w] # None /\ (Callbacks(w) # {} => refs'[w] # {})
  PROVE  CallInv'
<1>1. Buried \subseteq Buried' /\ Pending' = Pending
  BY DEF Buried, Pending
<1>2. \A f \in Range(stack') : CallFrame(f)'
  BY DEF CallInv, CallFrame
<1>3. gc' # NoCollection => \E f \in Range(stack') : f.op = "collect"
  BY DEF CallInv
<1>4. ASSUME NEW w \in Weak \cap live', Calls(w) PROVE Stays(w) \/ Answers(w)'
  <2>1. CASE w \in live
    BY <1>1, <1>4, <2>1 DEF Stays
  <2>2. CASE w \notin live
    BY <1>4, <2>2 DEF Answers, Calls
  <2> QED BY <2>1, <2>2
<1> QED BY <1>2, <1>3, <1>4, CallKeeps

LEMMA NewCalls ==
  ASSUME CallInv, NEW o \in Obj, New(o)
  PROVE  CallInv'
<1>1. /\ o \notin Weak /\ live' = live \cup {o}
      /\ UNCHANGED <<refs, wr_object, wrcb_to_call, gc, stack, cleared, trash, called>>
  BY DEF New, histVars
<1> QED BY <1>1, ProgramCalls

LEMMA HoldCalls ==
  ASSUME CallInv, NEW o, Hold(o) \/ Release(o) \/ Discard(o)
  PROVE  CallInv'
<1>1. UNCHANGED <<live, refs, wr_object, wrcb_to_call, gc, stack, cleared, trash, called>>
  BY DEF Hold, Release, Discard, listVars, histVars
<1> QED BY <1>1, ProgramCalls

LEMMA StoreCalls ==
  ASSUME HeapInv, CallInv, NEW o, NEW p, Store(o, p) \/ Erase(o, p)
  PROVE  CallInv'
<1>1. /\ refs' = [refs EXCEPT ![o] = refs[o] \cup {p}] \/ refs' = [refs EXCEPT ![o] = refs[o] \ {p}]
      /\ o \notin Weak
      /\ UNCHANGED <<live, wr_object, wrcb_to_call, gc, stack, cleared, trash, called>>
  BY DEF Store, Erase, listVars, histVars
<1>2. refs \in [Obj -> SUBSET live] /\ live \subseteq Obj
  BY DEF HeapInv, TypeOK
<1>3. \A w \in Weak \cap live : refs'[w] = refs[w]
  BY <1>1, <1>2
<1> QED BY <1>1, <1>3, ProgramCalls

LEMMA PyWeakref_NewRefCalls ==
  ASSUME HeapInv, CallInv, NEW w \in Weak, NEW o \in Obj, PyWeakref_NewRef(w, o)
  PROVE  CallInv'
<1>1. /\ w \notin live /\ live' = live \cup {w} /\ wr_object' = [wr_object EXCEPT ![w] = o]
      /\ UNCHANGED <<wrcb_to_call, gc, stack, cleared, trash, called>>
  BY DEF PyWeakref_NewRef, histVars
<1>2. /\ refs \in [Obj -> SUBSET live] /\ wr_object \in [Obj -> Obj \cup {None}]
      /\ live \subseteq Obj /\ w \in Obj /\ o # None
  BY ObjAssumption DEF HeapInv, TypeOK, ObjAssumption
<1>3. \/ refs' = refs /\ Callbacks(w) = {}
      \/ \E c \in Callbacks(w) : refs' = [refs EXCEPT ![w] = {c}]
  BY DEF PyWeakref_NewRef
<1>4. /\ \A v \in Obj : v # w => refs'[v] = refs[v] /\ wr_object'[v] = wr_object[v]
      /\ wr_object'[w] = o
  BY <1>1, <1>2, <1>3
<1>5. Callbacks(w) # {} => refs'[w] # {}
  BY <1>2, <1>3
<1>6. \A v \in Weak \cap live : refs'[v] = refs[v] /\ wr_object'[v] = wr_object[v]
  BY <1>1, <1>2, <1>4
<1>7. \A v \in Weak \cap live' : v \notin live => v = w
  BY <1>1
<1> QED BY <1>1, <1>2, <1>4, <1>5, <1>6, <1>7, ProgramCalls

LEMMA NextCallInv ==
  ASSUME HeapInv, ScanInv, ClearInv, CallInv, [Next]_vars
  PROVE  CallInv'
<1>1. CASE \E o \in Doomed : DeallocBegins(o)
  BY <1>1, DeallocBeginsCalls
<1>2. CASE Return
  BY <1>2, ReturnCalls
<1>3. CASE Deallocation
  <2>1. ASSUME NEW o \in Obj, Py_DECREF(o) PROVE CallInv'
    BY <2>1, Py_DECREFCalls
  <2>2. ASSUME NEW wc \in Weak \X Obj, DeallocCalls(wc) PROVE CallInv'
    BY <2>2, DeallocCallsCalls
  <2>3. CASE DeallocCalled
    BY <2>3, DeallocCalledCalls
  <2>4. CASE DeallocFinalizes
    BY <2>4, DeallocFinalizesCalls
  <2>5. CASE DeallocResurrected
    BY <2>5, DeallocResurrectedCalls
  <2>6. CASE DeallocEnds
    BY <2>6, DeallocEndsCalls
  <2> QED BY <1>3, <2>1, <2>2, <2>3, <2>4, <2>5, <2>6 DEF Deallocation
<1>4. CASE Collecting
  <2>1. CASE MoveNext
    BY <2>1, MoveNextCalls
  <2>2. CASE MoveEnds
    BY <2>2, MoveEndsCalls
  <2>3. CASE CallNext
    BY <2>3, CallNextCalls
  <2>4. CASE CallsEnd
    BY <2>4, CallsEndCalls
  <2>5. CASE CollectDecref
    BY <2>5, CollectDecrefCalls
  <2>6. CASE CallMoves
    BY <2>6, CallMovesCalls
  <2>7. CASE ClearNext
    BY <2>7, ClearNextCalls
  <2>8. CASE DeleteMoves
    BY <2>8, DeleteMovesCalls
  <2>9. CASE CollectEnds
    BY <2>9, CollectEndsCalls
  <2> QED BY <1>4, <2>1, <2>2, <2>3, <2>4, <2>5, <2>6, <2>7, <2>8, <2>9 DEF Collecting
<1>5. CASE PythonRuns /\ Program
  <2>1. ASSUME NEW o \in Obj, New(o) PROVE CallInv'
    BY <2>1, NewCalls
  <2>2. ASSUME NEW o, Hold(o) \/ Release(o) \/ Discard(o) PROVE CallInv'
    BY <2>2, HoldCalls
  <2>3. ASSUME NEW o, NEW p, Store(o, p) \/ Erase(o, p) PROVE CallInv'
    BY <2>3, StoreCalls
  <2>4. ASSUME NEW w \in Weak, NEW o \in Accessible, PyWeakref_NewRef(w, o) PROVE CallInv'
    <3>1. o \in Obj
      BY <1>5, <2>4, ProgramIs
    <3> QED BY <2>4, <3>1, PyWeakref_NewRefCalls
  <2>5. ASSUME NEW g \in Generation, Collect(g) PROVE CallInv'
    BY <2>5, CollectCalls
  <2> QED BY <1>5, <2>1, <2>2, <2>3, <2>4, <2>5 DEF Program
<1>6. CASE UNCHANGED vars
  <2>1. UNCHANGED <<live, refs, wr_object, wrcb_to_call, gc, stack, cleared, trash, called>>
    BY <1>6 DEF vars, heapVars, listVars, histVars
  <2> QED BY <2>1, ProgramCalls
<1> QED BY <1>1, <1>2, <1>3, <1>4, <1>5, <1>6 DEF Next

\* CallInv is an invariant where ClearInv is.
THEOREM CallInvHolds == Spec /\ []OwnReferents => []CallInv
<1>1. Init => CallInv
  <2> SUFFICES ASSUME Init PROVE CallInv
    OBVIOUS
  <2>1. stack = <<>> /\ gc = NoCollection /\ live = {}
    BY DEF Init
  <2>2. Range(stack) = {}
    <3>1. DOMAIN <<>> = {}
      OBVIOUS
    <3> QED BY <2>1, <3>1 DEF Range
  <2> QED BY <2>1, <2>2 DEF CallInv
<1>2. HeapInv /\ ScanInv /\ ClearInv /\ CallInv /\ [Next]_vars => CallInv'
  BY NextCallInv
<1> QED BY <1>1, <1>2, HeapInvHolds, ScanInvHolds, ClearInvHolds, PTL DEF Spec

\* What Python code gets at was not found to be trash and is not being deallocated.
LEMMA AllCalled ==
  ASSUME HeapInv, HideInv, CallInv
  PROVE  CallbacksMade
<1> SUFFICES ASSUME stack = <<>>, NEW w \in Accessible \cap Weak, wr_object[w] = None,
                    Callbacks(w) # {}, ~\E o \in Finalizer : <<w, o>> \in MayWatch
             PROVE  w \in called
  BY DEF CallbacksMade
<1>1. Range(stack) = {}
  <2>1. DOMAIN <<>> = {}
    OBVIOUS
  <2> QED BY <2>1 DEF Range
<1>2. w \in live /\ w \notin trash \cup cleared
  <2>1. PICK D \in SUBSET live : Hides(D)
    BY DEF HideInv
  <2>2. Accessible \cap D = {} /\ Accessible \subseteq live
    BY <2>1, AccessibleHides
  <2> QED BY <2>1, <2>2 DEF Hides
<1>3. w \notin Buried
  BY <1>1 DEF Buried
<1>4. w \in called \cup Range(wrcb_to_call) \cup Pending
  BY <1>2, <1>3 DEF CallInv, Calls, Answers
<1>5. w \notin Pending
  BY <1>1 DEF Pending
<1>6. Range(wrcb_to_call) = {}
  <2>1. wrcb_to_call = <<>>
    BY <1>1 DEF CallInv, HeapInv, MoveOK
  <2>2. DOMAIN <<>> = {}
    OBVIOUS
  <2> QED BY <2>1, <2>2 DEF Range
<1> QED BY <1>4, <1>5, <1>6

\* No callback is lost: when no C function is under way, every weak reference that the program can
\* still get at, that had a callback and whose referent is gone, was called, in whatever order the
\* deallocations and the collections were nested and whatever the callbacks did.
THEOREM CallbacksAlwaysMade == Spec /\ []OwnReferents => []CallbacksMade
<1>1. HeapInv /\ HideInv /\ CallInv => CallbacksMade
  BY AllCalled
<1> QED BY <1>1, HeapInvHolds, HideInvHolds, CallInvHolds, PTL

\* In programs whose weak references with a callback are kept by their referent alone, no callback
\* is lost.
THEOREM OwnCallbacksMade == OwnWeakrefs => (Spec => []CallbacksMade)
<1> SUFFICES ASSUME OwnWeakrefs PROVE Spec => []CallbacksMade
  OBVIOUS
<1>1. Spec => []OwnReferents
  BY OwnReferentsHold
<1> QED BY <1>1, CallbacksAlwaysMade, PTL

\* If their cycles can be broken by tp_clear too, each collection frees all of its trash.
THEOREM OwnTrashFreed == OwnWeakrefs /\ ClearableBreaks => (Spec => []TrashFreed)
<1> SUFFICES ASSUME OwnWeakrefs, ClearableBreaks PROVE Spec => []TrashFreed
  OBVIOUS
<1>1. Spec => []OwnReferents
  BY OwnReferentsHold
<1>2. Spec /\ []OwnReferents => []TrashFreed
  BY TrashAlwaysFreed
<1> QED BY <1>1, <1>2, PTL
=============================================================================
