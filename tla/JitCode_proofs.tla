---------------------------- MODULE JitCode_proofs ----------------------------
(***************************************************************************)
(* Proofs about JitCode, for every value of its constants.                 *)
(***************************************************************************)
EXTENDS JitCode, FiniteSetTheorems, SequenceTheorems, NaturalsInduction, TLAPS

-----------------------------------------------------------------------------
(* Arrays of watchers.                                                       *)

\* A set of numbers that is not empty has a least one.
LEMMA LeastIndex == ASSUME NEW T \in SUBSET Nat, T # {}
                    PROVE  \E i \in T : \A j \in T : i <= j
  <1> DEFINE R == OpToRel(<, Nat)
  <1>1. IsWellFoundedOn(R, Nat)
    BY NatLessThanWellFounded
  <1>2. PICK i \in T : \A j \in T : <<j, i>> \notin R
    BY <1>1, WFMin, Zenon
  <1>3. \A j \in Nat, k \in Nat : j < k => <<j, k>> \in R
    BY DEF OpToRel
  <1> HIDE DEF R
  <1>4. \A j \in T : ~(j < i)
    BY <1>2, <1>3
  <1>. QED BY <1>4

\* What _PyDict_DropWatcher() leaves of an array whose first entry of the watcher is at k.
DroppedAt(s, c, k) ==
  /\ s[k] = c
  /\ \A j \in 1..(k - 1) : s[j] # c
  /\ \A j \in 1..(Len(s) - 1) : DropWatcher(s, c)[j] = IF j < k THEN s[j] ELSE s[j + 1]

LEMMA DropIs ==
  ASSUME NEW S, NEW s \in Seq(S), NEW c, Holds(s, c)
  PROVE  /\ DropWatcher(s, c) \in Seq(S)
         /\ Len(DropWatcher(s, c)) = Len(s) - 1
         /\ \E k \in 1..Len(s) : DroppedAt(s, c, k)
  <1> DEFINE T == {i \in 1..Len(s) : s[i] = c}
             k == FirstAt(s, c)
             D == [i \in 1..(Len(s) - 1) |-> s[IF i < k THEN i ELSE i + 1]]
  <1>0. Len(s) \in Nat
    OBVIOUS
  <1>1. \E i \in 1..Len(s) : s[i] = c /\ \A j \in 1..(i - 1) : s[j] # c
    <2>1. T \in SUBSET Nat /\ T # {}
      BY DEF Holds
    <2>2. PICK i \in T : \A j \in T : i <= j
      BY <2>1, LeastIndex
    <2>3. \A j \in 1..(i - 1) : j \in 1..Len(s) /\ j < i
      BY <1>0
    <2>. QED BY <2>2, <2>3
  <1>2. k \in 1..Len(s) /\ s[k] = c /\ \A j \in 1..(k - 1) : s[j] # c
    BY <1>1 DEF FirstAt
  <1> HIDE DEF k
  <1>3. DropWatcher(s, c) = D
    BY DEF DropWatcher, k
  <1>4. \A i \in 1..(Len(s) - 1) : s[IF i < k THEN i ELSE i + 1] \in S
    BY <1>2
  <1>5. Len(s) - 1 \in Nat
    BY <1>0, <1>2
  <1>6. D \in Seq(S) /\ Len(D) = Len(s) - 1
    <2>1. D \in [1..(Len(s) - 1) -> S]
      BY <1>4
    <2> HIDE DEF D
    <2>. QED BY <2>1, <1>5
  <1>7. \A j \in 1..(Len(s) - 1) : D[j] = IF j < k THEN s[j] ELSE s[j + 1]
    OBVIOUS
  <1>. QED BY <1>2, <1>3, <1>6, <1>7 DEF DroppedAt

LEMMA DropType == ASSUME NEW S, NEW s \in Seq(S), NEW c PROVE DropWatcher(s, c) \in Seq(S)
  <1>1. CASE Holds(s, c)
    BY <1>1, DropIs
  <1>2. CASE ~Holds(s, c)
    BY <1>2 DEF DropWatcher
  <1>. QED BY <1>1, <1>2

\* The entries of c in the array are n neighbours.
Placed(s, c, n) ==
  \E i \in 1..(Len(s) + 1) :
    /\ i + n <= Len(s) + 1
    /\ \A j \in 1..Len(s) : s[j] = c <=> i <= j /\ j < i + n

LEMMA PlacedHolds ==
  ASSUME NEW S, NEW s \in Seq(S), NEW c, NEW n \in Nat, Placed(s, c, n)
  PROVE  Holds(s, c) <=> n > 0
  <1>1. PICK i \in 1..(Len(s) + 1) :
          i + n <= Len(s) + 1 /\ \A j \in 1..Len(s) : s[j] = c <=> i <= j /\ j < i + n
    BY DEF Placed
  <1>2. n > 0 => i \in 1..Len(s) /\ i <= i /\ i < i + n
    BY <1>1
  <1>. QED BY <1>1, <1>2 DEF Holds

LEMMA PlacedNot ==
  ASSUME NEW S, NEW s \in Seq(S), NEW c PROVE Placed(s, c, 0) <=> ~Holds(s, c)
  <1>1. ~Holds(s, c) => Placed(s, c, 0)
    <2>1. ~Holds(s, c) => \A j \in 1..Len(s) : s[j] = c <=> 1 <= j /\ j < 1 + 0
      BY DEF Holds
    <2>2. 1 \in 1..(Len(s) + 1) /\ 1 + 0 <= Len(s) + 1
      OBVIOUS
    <2>. QED BY <2>1, <2>2 DEF Placed
  <1>. QED BY <1>1, PlacedHolds

\* An array holds c as often as it has entries of c.
LEMMA PlacedCount ==
  ASSUME NEW S, NEW s \in Seq(S), NEW c, NEW n \in Nat, Placed(s, c, n)
  PROVE  LET entries == {i \in 1..Len(s) : s[i] = c}
         IN  Cardinality(entries) = n /\ (entries # {} <=> n > 0)
  <1> DEFINE entries == {i \in 1..Len(s) : s[i] = c}
  <1>1. PICK i \in 1..(Len(s) + 1) :
          i + n <= Len(s) + 1 /\ \A j \in 1..Len(s) : s[j] = c <=> i <= j /\ j < i + n
    BY DEF Placed
  <1>2. entries = i..(i + n - 1)
    <2>1. \A j \in i..(i + n - 1) : j \in 1..Len(s) /\ i <= j /\ j < i + n
      BY <1>1
    <2>2. \A j \in 1..Len(s) : i <= j /\ j < i + n => j \in i..(i + n - 1)
      BY <1>1
    <2>. QED BY <1>1, <2>1, <2>2
  <1>3. Cardinality(i..(i + n - 1)) = n
    <2>1. i \in Int /\ i + n - 1 \in Int
      BY <1>1
    <2>2. Cardinality(i..(i + n - 1)) =
            IF i > i + n - 1 THEN 0 ELSE (i + n - 1) - i + 1
      BY <2>1, FS_Interval
    <2>. QED BY <1>1, <2>2
  <1>4. entries # {} <=> n > 0
    BY <1>1, <1>2
  <1>. QED BY <1>2, <1>3, <1>4

\* Dropping c takes one of its entries away.
LEMMA PlacedDrop ==
  ASSUME NEW S, NEW s \in Seq(S), NEW c, NEW n \in Nat, n > 0, Placed(s, c, n)
  PROVE  Placed(DropWatcher(s, c), c, n - 1)
  <1> DEFINE D == DropWatcher(s, c)
  <1>1. Holds(s, c)
    BY PlacedHolds
  <1>2a. PICK k \in 1..Len(s) : DroppedAt(s, c, k)
    BY <1>1, DropIs
  <1>2. /\ s[k] = c /\ \A j \in 1..(k - 1) : s[j] # c
        /\ \A j \in 1..(Len(s) - 1) : D[j] = IF j < k THEN s[j] ELSE s[j + 1]
    BY <1>2a DEF DroppedAt
  <1>3. D \in Seq(S) /\ Len(D) = Len(s) - 1
    BY <1>1, DropIs
  <1>4. PICK i \in 1..(Len(s) + 1) :
          i + n <= Len(s) + 1 /\ \A j \in 1..Len(s) : s[j] = c <=> i <= j /\ j < i + n
    BY DEF Placed
  <1> HIDE DEF D
  <1>5. k = i
    BY <1>2, <1>4
  <1>6. ASSUME NEW j \in 1..Len(D) PROVE D[j] = c <=> i <= j /\ j < i + (n - 1)
    <2>1. j \in 1..Len(s) /\ j + 1 \in 1..Len(s)
      BY <1>3
    <2>2. CASE j < k
      <3>1. D[j] = s[j]
        BY <1>2, <1>3, <2>2
      <3>. QED BY <1>4, <1>5, <2>1, <2>2, <3>1
    <2>3. CASE ~(j < k)
      <3>1. D[j] = s[j + 1]
        BY <1>2, <1>3, <2>3
      <3>. QED BY <1>4, <1>5, <2>1, <2>3, <3>1
    <2>. QED BY <2>2, <2>3
  <1>7. i \in 1..(Len(D) + 1) /\ i + (n - 1) <= Len(D) + 1
    BY <1>2, <1>3, <1>4, <1>5
  <1>. QED BY <1>6, <1>7 DEF Placed, D

\* ... and leaves the entries of every other code object neighbours.
LEMMA PlacedDropOther ==
  ASSUME NEW S, NEW s \in Seq(S), NEW c, NEW x, x # c, NEW n \in Nat, Placed(s, x, n)
  PROVE  Placed(DropWatcher(s, c), x, n)
  <1> DEFINE D == DropWatcher(s, c)
  <1>0. CASE ~Holds(s, c)
    BY <1>0 DEF DropWatcher
  <1>1. CASE Holds(s, c)
    <2>2a. PICK k \in 1..Len(s) : DroppedAt(s, c, k)
      BY <1>1, DropIs
    <2>2. /\ s[k] = c /\ \A j \in 1..(k - 1) : s[j] # c
          /\ \A j \in 1..(Len(s) - 1) : D[j] = IF j < k THEN s[j] ELSE s[j + 1]
      BY <2>2a DEF DroppedAt
    <2>3. D \in Seq(S) /\ Len(D) = Len(s) - 1
      BY <1>1, DropIs
    <2>4. PICK i \in 1..(Len(s) + 1) :
            i + n <= Len(s) + 1 /\ \A j \in 1..Len(s) : s[j] = x <=> i <= j /\ j < i + n
      BY DEF Placed
    <2> HIDE DEF D
    <2>5. k < i \/ i + n <= k
      BY <2>2, <2>4
    <2>6. \A j \in 1..Len(D) : \/ j < k /\ D[j] = s[j] /\ j \in 1..Len(s)
                               \/ j >= k /\ D[j] = s[j + 1] /\ j + 1 \in 1..Len(s)
      BY <2>2, <2>3
    <2>7. CASE k < i
      <3>1. i - 1 \in 1..(Len(D) + 1) /\ (i - 1) + n <= Len(D) + 1
        BY <2>2, <2>3, <2>4, <2>7
      <3>2. ASSUME NEW j \in 1..Len(D) PROVE D[j] = x <=> i - 1 <= j /\ j < (i - 1) + n
        <4>1. CASE j < k /\ D[j] = s[j] /\ j \in 1..Len(s)
          BY <2>4, <2>7, <4>1
        <4>2. CASE j >= k /\ D[j] = s[j + 1] /\ j + 1 \in 1..Len(s)
          <5>1. D[j] = x <=> i <= j + 1 /\ j + 1 < i + n
            BY <2>4, <4>2
          <5>. QED BY <5>1
        <4>. QED BY <2>6, <4>1, <4>2
      <3>. QED BY <3>1, <3>2 DEF Placed, D
    <2>8. CASE i + n <= k
      <3>1. i \in 1..(Len(D) + 1) /\ i + n <= Len(D) + 1
        BY <2>2, <2>3, <2>4, <2>8
      <3>2. ASSUME NEW j \in 1..Len(D) PROVE D[j] = x <=> i <= j /\ j < i + n
        <4>1. CASE j < k /\ D[j] = s[j] /\ j \in 1..Len(s)
          BY <2>4, <4>1
        <4>2. CASE j >= k /\ D[j] = s[j + 1] /\ j + 1 \in 1..Len(s)
          <5>1. D[j] = x <=> i <= j + 1 /\ j + 1 < i + n
            BY <2>4, <4>2
          <5>. QED BY <2>8, <4>2, <5>1
        <4>. QED BY <2>6, <4>1, <4>2
      <3>. QED BY <3>1, <3>2 DEF Placed, D
    <2>. QED BY <2>5, <2>7, <2>8
  <1>. QED BY <1>0, <1>1

\* An entry at the end of the array disturbs no other code object, ...
LEMMA PlacedAppendOther ==
  ASSUME NEW S, NEW s \in Seq(S), NEW c \in S, NEW x, x # c, NEW n \in Nat, Placed(s, x, n)
  PROVE  Placed(Append(s, c), x, n)
  <1> DEFINE A == Append(s, c)
  <1>1. A \in Seq(S) /\ Len(A) = Len(s) + 1 /\ A[Len(s) + 1] = c
    OBVIOUS
  <1>2. \A j \in 1..Len(s) : A[j] = s[j]
    OBVIOUS
  <1>3. PICK i \in 1..(Len(s) + 1) :
          i + n <= Len(s) + 1 /\ \A j \in 1..Len(s) : s[j] = x <=> i <= j /\ j < i + n
    BY DEF Placed
  <1> HIDE DEF A
  <1>4. ASSUME NEW j \in 1..Len(A) PROVE A[j] = x <=> i <= j /\ j < i + n
    <2>1. CASE j \in 1..Len(s)
      BY <1>2, <1>3, <2>1
    <2>2. CASE j = Len(s) + 1
      BY <1>1, <1>3, <2>2
    <2>. QED BY <1>1, <2>1, <2>2
  <1>5. i \in 1..(Len(A) + 1) /\ i + n <= Len(A) + 1
    BY <1>1, <1>3
  <1>. QED BY <1>4, <1>5 DEF Placed, A

\* ... and is the neighbour of one just made.
LEMMA PlacedAppend ==
  ASSUME NEW S, NEW s \in Seq(S), NEW c \in S, Placed(s, c, 0)
  PROVE  Placed(Append(s, c), c, 1) /\ Placed(Append(Append(s, c), c), c, 2)
  <1> DEFINE A == Append(s, c)
             B == Append(A, c)
             i == Len(s) + 1
  <1>1. A \in Seq(S) /\ Len(A) = Len(s) + 1 /\ A[Len(s) + 1] = c /\ \A j \in 1..Len(s) : A[j] = s[j]
    OBVIOUS
  <1>2. B \in Seq(S) /\ Len(B) = Len(A) + 1 /\ B[Len(A) + 1] = c /\ \A j \in 1..Len(A) : B[j] = A[j]
    BY <1>1
  <1>3. \A j \in 1..Len(s) : s[j] # c
    BY PlacedNot DEF Holds
  <1> HIDE DEF A, B
  <1>4. ASSUME NEW j \in 1..Len(A) PROVE A[j] = c <=> i <= j /\ j < i + 1
    <2>1. j \in 1..Len(s) \/ j = Len(s) + 1
      BY <1>1
    <2>. QED BY <1>1, <1>3, <2>1
  <1>5. ASSUME NEW j \in 1..Len(B) PROVE B[j] = c <=> i <= j /\ j < i + 2
    <2>1. j \in 1..Len(A) \/ j = Len(A) + 1
      BY <1>2
    <2>. QED BY <1>1, <1>2, <1>4, <2>1
  <1>6. i \in 1..(Len(A) + 1) /\ i + 1 <= Len(A) + 1
    BY <1>1
  <1>7. i \in 1..(Len(B) + 1) /\ i + 2 <= Len(B) + 1
    BY <1>1, <1>2
  <1>8. Placed(A, c, 1)
    BY <1>4, <1>6 DEF Placed
  <1>9. Placed(B, c, 2)
    BY <1>5, <1>7 DEF Placed
  <1>. QED BY <1>8, <1>9 DEF A, B

\* Dropping the first entry and appending one may change places.
LEMMA AppendDrop ==
  ASSUME NEW S, NEW s \in Seq(S), NEW c \in S, Holds(s, c)
  PROVE  Holds(Append(s, c), c) /\ DropWatcher(Append(s, c), c) = Append(DropWatcher(s, c), c)
  <1> DEFINE A == Append(s, c)
             D == DropWatcher(s, c)
             L == DropWatcher(A, c)
             R == Append(D, c)
  <1>1. A \in Seq(S) /\ Len(A) = Len(s) + 1 /\ A[Len(s) + 1] = c /\ \A j \in 1..Len(s) : A[j] = s[j]
    OBVIOUS
  <1>2. Holds(A, c)
    BY <1>1 DEF Holds
  <1>3a. PICK k \in 1..Len(s) : DroppedAt(s, c, k)
    BY DropIs
  <1>3. /\ s[k] = c /\ \A j \in 1..(k - 1) : s[j] # c
        /\ \A j \in 1..(Len(s) - 1) : D[j] = IF j < k THEN s[j] ELSE s[j + 1]
    BY <1>3a DEF DroppedAt
  <1>4. D \in Seq(S) /\ Len(D) = Len(s) - 1
    BY DropIs
  <1> HIDE DEF A
  <1>5a. PICK m \in 1..Len(A) : DroppedAt(A, c, m)
    BY <1>1, <1>2, DropIs
  <1>5. /\ A[m] = c /\ \A j \in 1..(m - 1) : A[j] # c
        /\ \A j \in 1..(Len(A) - 1) : L[j] = IF j < m THEN A[j] ELSE A[j + 1]
    BY <1>5a DEF DroppedAt
  <1>6. L \in Seq(S) /\ Len(L) = Len(A) - 1
    BY <1>1, <1>2, DropIs DEF L
  <1> HIDE DEF D, L
  <1>7. m = k
    <2>1. A[k] = c /\ k \in 1..Len(A)
      BY <1>1, <1>3
    <2>2. m <= k
      BY <1>5, <2>1
    <2>3. m \in 1..Len(s) /\ s[m] = c
      BY <1>1, <1>5, <2>2
    <2>. QED BY <1>3, <2>2, <2>3
  <1>8. R \in Seq(S) /\ Len(R) = Len(s) /\ R[Len(s)] = c /\ \A j \in 1..(Len(s) - 1) : R[j] = D[j]
    <2>1. R \in Seq(S) /\ Len(R) = Len(D) + 1 /\ R[Len(D) + 1] = c /\ \A j \in 1..Len(D) : R[j] = D[j]
      BY <1>4
    <2> HIDE DEF R
    <2>. QED BY <1>3, <1>4, <2>1
  <1> HIDE DEF R
  <1>9. ASSUME NEW j \in 1..Len(s) PROVE L[j] = R[j]
    <2>1. L[j] = IF j < k THEN A[j] ELSE A[j + 1]
      BY <1>1, <1>5, <1>6, <1>7
    <2>2. CASE j < Len(s)
      <3>1. R[j] = IF j < k THEN s[j] ELSE s[j + 1]
        BY <1>3, <1>8, <2>2
      <3>2. A[j] = s[j] /\ A[j + 1] = s[j + 1]
        BY <1>1, <2>2
      <3>. QED BY <2>1, <3>1, <3>2
    <2>3. CASE j = Len(s)
      BY <1>1, <1>3, <1>8, <2>1, <2>3
    <2>. QED BY <2>2, <2>3
  <1>10. L = R
    <2>1. L \in Seq(S) /\ R \in Seq(S) /\ Len(L) = Len(R) /\ \A j \in 1..Len(L) : L[j] = R[j]
      BY <1>1, <1>6, <1>8, <1>9
    <2>. QED BY <2>1, SeqEqual
  <1>. QED BY <1>2, <1>10 DEF A, D, L, R

\* An array with one slot cleared.
Cleared(s, i, empty) == [j \in 1..Len(s) |-> IF j = i THEN empty ELSE s[j]]

\* A slot of c that is cleared leaves the entries of the others where they are.
LEMMA PlacedClear ==
  ASSUME NEW S, NEW s \in Seq(S), NEW empty, NEW i \in 1..Len(s),
         NEW x, x # empty, NEW n \in Nat, Placed(s, x, n), s[i] = x => n = 1
  PROVE  /\ Cleared(s, i, empty) \in Seq(S \cup {empty}) /\ Len(Cleared(s, i, empty)) = Len(s)
         /\ s[i] = x => Placed(Cleared(s, i, empty), x, 0)
         /\ s[i] # x => Placed(Cleared(s, i, empty), x, n)
  <1> DEFINE cleared == Cleared(s, i, empty)
  <1>0. Len(s) \in Nat /\ \A j \in 1..Len(s) : s[j] \in S
    OBVIOUS
  <1>1. cleared \in Seq(S \cup {empty}) /\ Len(cleared) = Len(s)
    <2>1. cleared \in [1..Len(s) -> S \cup {empty}]
      BY <1>0 DEF Cleared
    <2>. QED BY <1>0, <2>1
  <1>2. \A j \in 1..Len(s) : cleared[j] = IF j = i THEN empty ELSE s[j]
    BY DEF Cleared
  <1>3. PICK k \in 1..(Len(s) + 1) :
          k + n <= Len(s) + 1 /\ \A j \in 1..Len(s) : s[j] = x <=> k <= j /\ j < k + n
    BY DEF Placed
  <1>4. ASSUME s[i] = x PROVE Placed(cleared, x, 0)
    <2>1. \A j \in 1..Len(s) : s[j] = x => j = i
      BY <1>3, <1>4
    <2>2. ~Holds(cleared, x)
      BY <1>1, <1>2, <2>1 DEF Holds
    <2>. QED BY <1>1, <2>2, PlacedNot
  <1>5. ASSUME s[i] # x PROVE Placed(cleared, x, n)
    <2>1. \A j \in 1..Len(cleared) : cleared[j] = x <=> s[j] = x
      BY <1>1, <1>2, <1>5
    <2>. QED BY <1>1, <1>3, <2>1 DEF Placed
  <1>. QED BY <1>1, <1>4, <1>5

\* The walk of notify_watchers() ends in the last of any sets its slots lead through.
LEMMA WalkReaches ==
  ASSUME ma_watchers \in [Dict -> Seq(Code)], NEW d \in Dict, NEW A, WalkStart \in A[0],
         \A i \in 1..Len(ma_watchers[d]) : \A w \in A[i - 1] : VisitSlot(d, i, w) \in A[i]
  PROVE  Walk(d) \in A[Len(ma_watchers[d])]
  <1> DEFINE N == Len(ma_watchers[d])
             Rec(f) == [i \in 0..Len(ma_watchers[d]) |->
                          IF i = 0 THEN WalkStart ELSE VisitSlot(d, i, f[i - 1])]
             after == CHOOSE f : f = Rec(f)
             Good(m) == \E f : f[0] = WalkStart /\ \A i \in 1..m : f[i] = VisitSlot(d, i, f[i - 1])
             Bad == {m \in 0..N : ~Good(m)}
             Astray == {m \in 0..N : after[m] \notin A[m]}
  <1>0. N \in Nat
    OBVIOUS
  <1> HIDE DEF N
  <1>1. Good(0)
    <2>1. [i \in {0} |-> WalkStart][0] = WalkStart /\ 1..0 = {}
      OBVIOUS
    <2>. QED BY <2>1
  <1>2. ASSUME NEW m \in 0..N, m # 0, Good(m - 1) PROVE Good(m)
    <2>1. m \in 1..N /\ m \in Nat
      BY <1>0, <1>2
    <2>2. PICK f : f[0] = WalkStart /\ \A i \in 1..(m - 1) : f[i] = VisitSlot(d, i, f[i - 1])
      BY <1>2
    <2> DEFINE h == [i \in 0..m |-> IF i = m THEN VisitSlot(d, m, f[m - 1]) ELSE f[i]]
    <2>3. h[0] = WalkStart
      BY <2>1, <2>2
    <2>4. ASSUME NEW i \in 1..m PROVE h[i] = VisitSlot(d, i, h[i - 1])
      <3>1. i - 1 \in 0..m /\ i - 1 # m /\ i \in 0..m
        BY <2>1
      <3>2. h[i - 1] = f[i - 1]
        BY <3>1
      <3>3. CASE i = m
        BY <3>1, <3>2, <3>3
      <3>4. CASE i # m
        BY <2>1, <2>2, <3>1, <3>2, <3>4
      <3>. QED BY <3>3, <3>4
    <2> HIDE DEF h
    <2>. QED BY <2>3, <2>4
  <1> HIDE DEF Good
  <1>3. Good(N)
    <2>1. Bad = {}
      <3> SUFFICES ASSUME Bad # {} PROVE FALSE
        OBVIOUS
      <3>1. PICK m \in Bad : \A k \in Bad : m <= k
        <4>1. Bad \in SUBSET Nat
          BY <1>0
        <4>. QED BY <4>1, LeastIndex
      <3>2. m \in 0..N /\ ~Good(m) /\ m # 0
        BY <1>1
      <3>3. m - 1 \in 0..N /\ m - 1 \notin Bad
        BY <1>0, <3>1, <3>2
      <3>. QED BY <1>2, <3>2, <3>3
    <2>. QED BY <1>0, <2>1
  <1>4. \E f : f = Rec(f)
    <2>1. PICK f : f[0] = WalkStart /\ \A i \in 1..N : f[i] = VisitSlot(d, i, f[i - 1])
      BY <1>3 DEF Good
    <2> DEFINE g == [i \in 0..N |-> f[i]]
    <2>2. ASSUME NEW i \in 0..N PROVE g[i] = Rec(g)[i]
      <3>1. CASE i = 0
        BY <2>1, <3>1 DEF N
      <3>2. CASE i # 0
        <4>1. i \in 1..N /\ i - 1 \in 0..N
          BY <1>0, <3>2
        <4>2. g[i] = VisitSlot(d, i, g[i - 1])
          BY <2>1, <4>1
        <4>3. Rec(g)[i] = VisitSlot(d, i, g[i - 1])
          BY <3>2 DEF N
        <4>. QED BY <4>2, <4>3
      <3>. QED BY <3>1, <3>2
    <2>3. g = Rec(g)
      BY <2>2 DEF N
    <2>. QED BY <2>3
  <1>5. after = Rec(after)
    BY <1>4
  <1>6. Walk(d) = after[N]
    BY DEF Walk, N
  <1> HIDE DEF after
  <1>7. after[0] = WalkStart
    BY <1>0, <1>5 DEF N
  <1>8. ASSUME NEW i \in 1..N PROVE after[i] = VisitSlot(d, i, after[i - 1])
    <2>1. i \in 0..N /\ i # 0
      BY <1>0
    <2>. QED BY <1>5, <2>1 DEF N
  <1>9. Astray = {}
    <2> SUFFICES ASSUME Astray # {} PROVE FALSE
      OBVIOUS
    <2>1. PICK m \in Astray : \A k \in Astray : m <= k
      <3>1. Astray \in SUBSET Nat
        BY <1>0
      <3>. QED BY <3>1, LeastIndex
    <2>2. m \in 1..N
      BY <1>0, <1>7
    <2>3. m - 1 \in 0..N /\ m - 1 \notin Astray
      BY <1>0, <2>1, <2>2
    <2>4. after[m - 1] \in A[m - 1]
      BY <2>3
    <2>5. VisitSlot(d, m, after[m - 1]) \in A[m]
      BY <2>2, <2>4 DEF N
    <2>. QED BY <1>8, <2>2, <2>5
  <1>10. N \in 0..N
    BY <1>0
  <1>11. after[N] \in A[N]
    BY <1>9, <1>10
  <1>. QED BY <1>6, <1>11 DEF N

-----------------------------------------------------------------------------
(* Type correctness.                                                         *)

\* The two assumed dictionaries are set and reset together.
AssumptionsPaired ==
  \A c \in Code : co_assumed_globals[c] = NoDict <=> co_assumed_builtins[c] = NoDict

TypeInv == TypeOK /\ AssumptionsPaired

LEMMA AssumesType == \A c \in Code, d \in Dict : Assumes(c, d) \in 0..2
  BY DEF Assumes, One

\* What notify_watchers(d) works on: slots of d that are cleared, and arrays elsewhere.
WatcherAssertions == {"DropNonWatcher", "NotWatching", "FreedDict", "FreedCode"}
Walks(d) ==
  {w \in [arrays : [Dict -> Seq(Code \cup {NoCode})], visits : [Code -> Nat],
          failed : SUBSET (failed \cup WatcherAssertions)] :
     \A e \in Dict \ {d} : w.arrays[e] \in Seq(Code)}

LEMMA WalkStartTypes == ASSUME TypeOK, NEW d \in Dict PROVE WalkStart \in Walks(d)
  <1>1. \A e \in Dict : ma_watchers[e] \in Seq(Code) /\ ma_watchers[e] \in Seq(Code \cup {NoCode})
    BY DEF TypeOK
  <1>. QED BY <1>1 DEF TypeOK, WalkStart, Walks

\* A visit: the arrays, one slot cleared, with the types they had.
LEMMA VisitTypes ==
  ASSUME TypeOK, NEW d \in Dict, NEW i \in Nat, NEW w \in Walks(d)
  PROVE  VisitSlot(d, i, w) \in Walks(d)
  <1> SUFFICES ASSUME i \in 1..Len(w.arrays[d]), w.arrays[d][i] # NoCode
               PROVE  Visit(d, i, w) \in Walks(d)
    BY DEF VisitSlot
  <1> DEFINE c == w.arrays[d][i]
             other == IF w.visits[c] = 0 THEN OtherAssumed(d, c) ELSE NoDict
             Dropped(e) == IF e = other THEN DropWatcher(w.arrays[e], c) ELSE w.arrays[e]
             Shifted(e) == [j \in 1..Len(Dropped(e)) |->
                              IF e = d /\ j = i THEN NoCode ELSE Dropped(e)[j]]
             v == Visit(d, i, w)
  <1>1. /\ w.arrays \in [Dict -> Seq(Code \cup {NoCode})] /\ w.visits \in [Code -> Nat]
        /\ w.failed \subseteq failed \cup WatcherAssertions
        /\ \A e \in Dict \ {d} : w.arrays[e] \in Seq(Code)
    BY DEF Walks
  <1>2. c \in Code
    BY <1>1
  <1>3. /\ v.arrays = [e \in Dict |-> Shifted(e)]
        /\ v.visits = [w.visits EXCEPT ![c] = @ + 1]
        /\ v.failed = w.failed
             \cup Fails("FreedCode", c \in liveCodes)
             \cup Fails("NotWatching", other # NoDict)
             \cup Fails("FreedDict", other \in liveDicts \cup {NoDict})
             \cup Fails("DropNonWatcher", \A e \in {other} \cap Dict : Holds(w.arrays[e], c))
        /\ v = [arrays |-> v.arrays, visits |-> v.visits, failed |-> v.failed]
    BY DEF Visit
  <1>4. \A e \in Dict : /\ Dropped(e) \in Seq(Code \cup {NoCode})
                        /\ e # d => Dropped(e) \in Seq(Code)
    BY <1>1, DropType
  <1> HIDE DEF c, other, v, Dropped
  <1>5. ASSUME NEW e \in Dict
        PROVE  /\ Shifted(e) \in Seq(Code \cup {NoCode})
               /\ e # d => Shifted(e) \in Seq(Code)
    <2>1. Len(Dropped(e)) \in Nat
      BY <1>4
    <2>2. \A j \in 1..Len(Dropped(e)) : Dropped(e)[j] \in Code \cup {NoCode}
      BY <1>4
    <2>3. e # d => \A j \in 1..Len(Dropped(e)) : Dropped(e)[j] \in Code
      BY <1>4
    <2>4. Shifted(e) \in [1..Len(Dropped(e)) -> Code \cup {NoCode}]
      BY <2>2
    <2>5. e # d => Shifted(e) \in [1..Len(Dropped(e)) -> Code]
      BY <2>3
    <2> HIDE DEF Shifted
    <2>. QED BY <2>1, <2>4, <2>5
  <1> HIDE DEF Shifted
  <1>6. v.failed \subseteq failed \cup WatcherAssertions
    BY <1>1, <1>3 DEF Fails, WatcherAssertions
  <1>7. v.visits \in [Code -> Nat]
    BY <1>1, <1>2, <1>3
  <1>8. v.arrays \in [Dict -> Seq(Code \cup {NoCode})] /\ \A e \in Dict \ {d} : v.arrays[e] \in Seq(Code)
    BY <1>3, <1>5
  <1>9. v \in Walks(d)
    BY <1>3, <1>6, <1>7, <1>8 DEF Walks
  <1>. QED BY <1>9 DEF v

LEMMA WalkTypes == ASSUME TypeOK, NEW d \in Dict PROVE Walk(d) \in Walks(d)
  <1> DEFINE N == Len(ma_watchers[d])
             A == [i \in 0..N |-> Walks(d)]
  <1>1. ma_watchers \in [Dict -> Seq(Code)] /\ N \in Nat
    BY DEF TypeOK
  <1>2. WalkStart \in A[0]
    BY <1>1, WalkStartTypes
  <1>3. ASSUME NEW i \in 1..N, NEW w \in A[i - 1] PROVE VisitSlot(d, i, w) \in A[i]
    <2>1. i \in 0..N /\ i - 1 \in 0..N /\ i \in Nat
      BY <1>1
    <2>2. w \in Walks(d)
      BY <1>3, <2>1
    <2>. QED BY <2>1, <2>2, VisitTypes
  <1> HIDE DEF A
  <1>4. Walk(d) \in A[N]
    BY <1>1, <1>2, <1>3, WalkReaches
  <1>. QED BY <1>1, <1>4 DEF A

\* The types of what notify_watchers() changes.
LEMMA NotifyTypes ==
  ASSUME TypeOK, NEW d \in Dict, NotifyWatchers(d)
  PROVE  /\ co_use_llvm' \in [Code -> BOOLEAN]
         /\ co_fatalbailcount' \in [Code -> 0..PY_MAX_FATALBAILCOUNT]
         /\ ma_watchers' \in [Dict -> Seq(Code)]
         /\ co_assumed_globals' \in [Code -> Dict \cup {NoDict}]
         /\ co_assumed_builtins' \in [Code -> Dict \cup {NoDict}]
         /\ failed' \subseteq failed \cup WatcherAssertions
         /\ failed' \subseteq Assertions
  <1> DEFINE walk == Walk(d)
  <1>0. /\ walk.arrays \in [Dict -> Seq(Code \cup {NoCode})] /\ walk.visits \in [Code -> Nat]
        /\ walk.failed \subseteq failed \cup WatcherAssertions
        /\ \A e \in Dict \ {d} : walk.arrays[e] \in Seq(Code)
    BY WalkTypes DEF Walks
  <1>1. /\ Invalidate(walk.visits)
        /\ ma_watchers' = [walk.arrays EXCEPT ![d] = <<>>]
        /\ co_assumed_globals' =
             [c \in Code |-> IF walk.visits[c] > 0 THEN NoDict ELSE co_assumed_globals[c]]
        /\ co_assumed_builtins' =
             [c \in Code |-> IF walk.visits[c] > 0 THEN NoDict ELSE co_assumed_builtins[c]]
        /\ failed' = walk.failed
    BY DEF NotifyWatchers
  <1> HIDE DEF walk
  <1>2. co_use_llvm' \in [Code -> BOOLEAN]
    BY <1>1 DEF TypeOK, Invalidate
  <1>3. co_fatalbailcount' \in [Code -> 0..PY_MAX_FATALBAILCOUNT]
    <2>1. \A c \in Code : co_fatalbailcount[c] \in Nat /\ walk.visits[c] \in Nat
      BY <1>0 DEF TypeOK
    <2>. QED BY <1>1, <2>1, ConstantsAssumption DEF Invalidate
  <1>4. ma_watchers' \in [Dict -> Seq(Code)]
    BY <1>0, <1>1
  <1>5. /\ co_assumed_globals' \in [Code -> Dict \cup {NoDict}]
        /\ co_assumed_builtins' \in [Code -> Dict \cup {NoDict}]
    BY <1>1 DEF TypeOK
  <1>6. failed' \subseteq failed \cup WatcherAssertions /\ failed' \subseteq Assertions
    BY <1>0, <1>1 DEF TypeOK, WatcherAssertions, Assertions
  <1>. QED BY <1>2, <1>3, <1>4, <1>5, <1>6

LEMMA AddIs ==
  ASSUME NEW arrays \in [Dict -> Seq(Code)], NEW d \in Dict, NEW c \in Code
  PROVE  /\ Add(arrays, d, c) \in [Dict -> Seq(Code)]
         /\ Add(arrays, d, c)[d] = Append(arrays[d], c)
         /\ \A e \in Dict \ {d} : Add(arrays, d, c)[e] = arrays[e]
  <1>1. Append(arrays[d], c) \in Seq(Code)
    OBVIOUS
  <1>. QED BY <1>1 DEF Add

LEMMA DroppedIs ==
  ASSUME NEW arrays \in [Dict -> Seq(Code)], NEW d \in Dict, NEW c \in Code
  PROVE  /\ Drop(arrays, d, c) \in [Dict -> Seq(Code)]
         /\ Drop(arrays, d, c)[d] = DropWatcher(arrays[d], c)
         /\ \A e \in Dict \ {d} : Drop(arrays, d, c)[e] = arrays[e]
  <1>1. DropWatcher(arrays[d], c) \in Seq(Code)
    BY DropType
  <1>. QED BY <1>1 DEF Drop

LEMMA DropBothType ==
  ASSUME TypeInv, NEW arrays \in [Dict -> Seq(Code)], NEW c \in Code
  PROVE  DropBoth(arrays, c) \in [Dict -> Seq(Code)]
  <1>1. CASE Watching(c)
    <2>1. co_assumed_globals[c] \in Dict /\ co_assumed_builtins[c] \in Dict
      BY <1>1 DEF Watching, TypeInv, TypeOK, AssumptionsPaired
    <2>2. Drop(arrays, co_assumed_globals[c], c) \in [Dict -> Seq(Code)]
      BY <2>1, DroppedIs
    <2>3. Drop(Drop(arrays, co_assumed_globals[c], c), co_assumed_builtins[c], c)
            \in [Dict -> Seq(Code)]
      BY <2>1, <2>2, DroppedIs
    <2>. QED BY <1>1, <2>3 DEF DropBoth
  <1>2. CASE ~Watching(c)
    BY <1>2 DEF DropBoth
  <1>. QED BY <1>1, <1>2

\* The types of what _PyCode_WatchGlobals() changes.
LEMMA WatchTypes ==
  ASSUME TypeInv, NEW c \in Code, NEW g \in Dict, NEW b \in Dict, WatchGlobals(c, g, b)
  PROVE  /\ co_fdo_globals' \in [Code -> BOOLEAN]
         /\ ma_watchers' \in [Dict -> Seq(Code)]
         /\ co_assumed_globals' \in [Code -> Dict \cup {NoDict}]
         /\ co_assumed_builtins' \in [Code -> Dict \cup {NoDict}]
         /\ failed' \subseteq Assertions
  <1> USE DEF TypeInv
  <1> DEFINE added == Add(Add(ma_watchers, g, c), b, c)
  <1>1. CASE {g, b} \subseteq Exact
    <2>1. ma_watchers' \in [Dict -> Seq(Code)]
      <3>1. ma_watchers \in [Dict -> Seq(Code)]
        BY DEF TypeOK
      <3>2. Add(ma_watchers, g, c) \in [Dict -> Seq(Code)]
        BY <3>1, AddIs
      <3>3. added \in [Dict -> Seq(Code)]
        BY <3>2, AddIs
      <3>. QED BY <1>1, <3>3, DropBothType DEF WatchGlobals
    <2>2. failed' \subseteq Assertions
      BY <1>1 DEF TypeOK, WatchGlobals, DropFailures, Fails, Assertions
    <2>. QED BY <1>1, <2>1, <2>2, ZenonT(60) DEF TypeOK, WatchGlobals
  <1>2. CASE ~({g, b} \subseteq Exact)
    BY <1>2 DEF TypeOK, WatchGlobals
  <1>. QED BY <1>1, <1>2

\* The types of what dropping the assumptions of a code object changes.
LEMMA DropTypes ==
  ASSUME TypeInv, NEW c \in Code, DropAssumptions(c)
  PROVE  /\ ma_watchers' \in [Dict -> Seq(Code)]
         /\ co_assumed_globals' \in [Code -> Dict \cup {NoDict}]
         /\ co_assumed_builtins' \in [Code -> Dict \cup {NoDict}]
         /\ failed \cup DropFailures(ma_watchers, c) \subseteq Assertions
  <1> USE DEF TypeInv
  <1>1. ma_watchers' \in [Dict -> Seq(Code)]
    BY DropBothType DEF TypeOK, DropAssumptions
  <1>2. failed \cup DropFailures(ma_watchers, c) \subseteq Assertions
    BY DEF TypeOK, DropFailures, Fails, Assertions
  <1>. QED BY <1>1, <1>2 DEF TypeOK, DropAssumptions

\* The IR is a value that a dictionary holds, or embeds nothing.
LEMMA NewIRType == ASSUME TypeOK, AssumptionsPaired, NEW c \in Code
                   PROVE  NewIR(c) \in IR
  BY ConstantsAssumption DEF TypeOK, AssumptionsPaired, NewIR, Lookup, Watching, IR

\* The types of what FinishFunction() changes.
LEMMA FinishTypes ==
  ASSUME TypeInv, NEW c \in Code, FinishFunction(c)
  PROVE  /\ co_fdo_globals' \in [Code -> BOOLEAN]
         /\ ma_watchers' \in [Dict -> Seq(Code)]
         /\ co_assumed_globals' \in [Code -> Dict \cup {NoDict}]
         /\ co_assumed_builtins' \in [Code -> Dict \cup {NoDict}]
         /\ failed' \subseteq Assertions
         /\ listening' \subseteq Code
  <1>1. CASE NewIR(c) = Safe /\ Watching(c)
    BY <1>1, DropTypes DEF TypeInv, TypeOK, FinishFunction
  <1>2. CASE ~(NewIR(c) = Safe /\ Watching(c))
    BY <1>2 DEF TypeInv, TypeOK, FinishFunction, assumeVars
  <1>. QED BY <1>1, <1>2

LEMMA InitTypes == Init => TypeInv
  BY ConstantsAssumption
  DEF Init, TypeInv, TypeOK, AssumptionsPaired, NotMerging, FrameRecord, Free, Assertions

\* A dictionary operation that notifies.
LEMMA NotifyPaired ==
  ASSUME TypeInv, NEW d \in Dict, NotifyWatchers(d)
  PROVE  AssumptionsPaired'
  BY DEF TypeInv, TypeOK, AssumptionsPaired, NotifyWatchers

LEMMA DictStepTypes == TypeInv /\ DictStep => TypeInv'
  <1> SUFFICES ASSUME TypeInv, DictStep PROVE TypeInv'
    OBVIOUS
  <1> USE DEF TypeInv
  <1> PICK d \in Dict :
        \/ PyDict_New(d) \/ Dict_dealloc(d) \/ PyDict_Clear(d) \/ Notify(d)
        \/ MergeEnd(d) \/ MergeFail(d)
        \/ \E n \in Name : DelItem(d, n) \/ Dict_pop(d, n) \/ MergeEntry(d, n)
        \/ \E n \in Name, v \in Value : SetItemNew(d, n, v) \/ SetItemReplace(d, n, v)
        \/ \E other \in Dict, override \in BOOLEAN : MergeBegin(d, other, override)
    BY DEF DictStep
  <1>1. CASE PyDict_New(d)
    BY <1>1 DEF PyDict_New, NotifyFrame, irVars, assumeVars, heatVars, TypeOK, AssumptionsPaired
  <1>2. CASE Dict_dealloc(d)
    BY <1>2, NotifyTypes, NotifyPaired
    DEF Dict_dealloc, NotifyFrame, irVars, TypeOK, NotifyWatchers, Invalidate
  <1>3. CASE PyDict_Clear(d)
    BY <1>3, NotifyTypes, NotifyPaired
    DEF PyDict_Clear, NotifyFrame, irVars, TypeOK, NotifyWatchers, Invalidate
  <1>4. CASE Notify(d)
    <2>1. notifying' \in [Dict -> 0..MaxPending]
      <3>1. notifying[d] - 1 \in 0..MaxPending
        BY <1>4, ConstantsAssumption DEF Notify, TypeOK
      <3>. QED BY <1>4, <3>1 DEF Notify, TypeOK
    <2>. QED BY <1>4, <2>1, NotifyTypes, NotifyPaired
    DEF Notify, NotifyFrame, irVars, TypeOK, NotifyWatchers, Invalidate
  <1>5. CASE MergeEnd(d)
    BY <1>5, NotifyTypes, NotifyPaired
    DEF MergeEnd, NotMerging, NotifyFrame, irVars, TypeOK, NotifyWatchers, Invalidate
  <1>6. CASE MergeFail(d)
    BY <1>6 DEF MergeFail, NotMerging, NotifyFrame, irVars, assumeVars, heatVars, TypeOK,
                AssumptionsPaired
  <1>7. ASSUME NEW n \in Name, DelItem(d, n) PROVE TypeInv'
    BY <1>7, ConstantsAssumption DEF DelItem, StoreAndDrop, NotifyFrame, irVars, assumeVars, heatVars, TypeOK,
                AssumptionsPaired
  <1>8. ASSUME NEW n \in Name, Dict_pop(d, n) PROVE TypeInv'
    BY <1>8, NotifyTypes, NotifyPaired
    DEF Dict_pop, NotifyFrame, irVars, TypeOK, NotifyWatchers, Invalidate
  <1>9. ASSUME NEW n \in Name, MergeEntry(d, n) PROVE TypeInv'
    <2>1. value' \in [Dict -> [Name -> Value \cup {NoValue}]]
      <3>1. CASE value' = value
        BY <3>1 DEF TypeOK
      <3>2. CASE /\ value[merging[d].from][n] # NoValue
                 /\ value' = [value EXCEPT ![d][n] = value[merging[d].from][n]]
        <4>1. merging[d] \in MergeRecord
          BY <1>9 DEF MergeEntry, TypeOK, NotMerging
        <4>. QED BY <3>2, <4>1 DEF TypeOK, MergeRecord
      <3>. QED BY <1>9, <3>1, <3>2 DEF MergeEntry
    <2>2. merging' \in [Dict -> {NotMerging} \cup MergeRecord]
      <3>1. merging[d] \in MergeRecord
        BY <1>9 DEF MergeEntry, TypeOK, NotMerging
      <3>2. [merging[d] EXCEPT !.left = @ \ {n}] \in MergeRecord
        BY <3>1 DEF MergeRecord
      <3>. QED BY <1>9, <3>2 DEF MergeEntry, TypeOK
    <2>. QED BY <1>9, <2>1, <2>2
         DEF MergeEntry, NotifyFrame, irVars, assumeVars, heatVars, TypeOK, AssumptionsPaired
  <1>10. ASSUME NEW n \in Name, NEW v \in Value, SetItemNew(d, n, v) PROVE TypeInv'
    BY <1>10, NotifyTypes, NotifyPaired
    DEF SetItemNew, NotifyFrame, irVars, TypeOK, NotifyWatchers, Invalidate
  <1>11. ASSUME NEW n \in Name, NEW v \in Value, SetItemReplace(d, n, v) PROVE TypeInv'
    BY <1>11, ConstantsAssumption DEF SetItemReplace, StoreAndDrop, NotifyFrame, irVars, assumeVars, heatVars, TypeOK,
                AssumptionsPaired
  <1>12. ASSUME NEW other \in Dict, NEW override \in BOOLEAN, MergeBegin(d, other, override)
         PROVE  TypeInv'
    BY <1>12 DEF MergeBegin, MergeRecord, NotifyFrame, irVars, assumeVars, heatVars, TypeOK,
                 AssumptionsPaired
  <1>. QED
    BY <1>1, <1>2, <1>3, <1>4, <1>5, <1>6, <1>7, <1>8, <1>9, <1>10, <1>11, <1>12

\* FinishFunction() and _PyCode_WatchGlobals() set or reset both assumptions.
LEMMA FinishPaired ==
  ASSUME TypeInv, NEW c \in Code, FinishFunction(c) PROVE AssumptionsPaired'
  <1>1. CASE DropAssumptions(c)
    BY <1>1 DEF DropAssumptions, TypeInv, TypeOK, AssumptionsPaired
  <1>2. CASE UNCHANGED assumeVars
    BY <1>2 DEF assumeVars, TypeInv, AssumptionsPaired
  <1>. QED BY <1>1, <1>2 DEF FinishFunction

LEMMA WatchPaired ==
  ASSUME TypeInv, NEW c \in Code, NEW g \in Dict, NEW b \in Dict, WatchGlobals(c, g, b)
  PROVE  AssumptionsPaired'
  <1>1. CASE /\ co_assumed_globals' = [co_assumed_globals EXCEPT ![c] = g]
             /\ co_assumed_builtins' = [co_assumed_builtins EXCEPT ![c] = b]
    <2>1. g # NoDict /\ b # NoDict
      BY ConstantsAssumption
    <2>. QED BY <1>1, <2>1 DEF TypeInv, TypeOK, AssumptionsPaired
  <1>2. CASE UNCHANGED <<co_assumed_globals, co_assumed_builtins>>
    BY <1>2 DEF TypeInv, AssumptionsPaired
  <1>. QED BY <1>1, <1>2 DEF WatchGlobals

LEMMA CodeStepTypes == TypeInv /\ CodeStep => TypeInv'
  <1> SUFFICES ASSUME TypeInv, CodeStep PROVE TypeInv'
    OBVIOUS
  <1> USE DEF TypeInv
  <1>1. ASSUME NEW c \in Code, PyCode_New(c) PROVE TypeInv'
    BY <1>1, ConstantsAssumption DEF PyCode_New, dictVars, TypeOK, AssumptionsPaired
  <1>2. ASSUME NEW c \in Code, Code_dealloc(c) PROVE TypeInv'
    <2>1. AssumptionsPaired'
      BY <1>2 DEF Code_dealloc, DropAssumptions, TypeOK, AssumptionsPaired
    <2>. QED BY <1>2, <2>1, DropTypes DEF Code_dealloc, dictVars, heatVars, TypeOK
  <1>3. ASSUME NEW c \in Code, Set_optimization(c) PROVE TypeInv'
    BY <1>3, FinishTypes, FinishPaired, NewIRType, ZenonT(60)
    DEF Set_optimization, Crash, dictVars, irVars, assumeVars, heatVars, TypeOK,
        AssumptionsPaired, Assertions
  <1>4. ASSUME NEW c \in Code, Llvmfunction_str(c) PROVE TypeInv'
    BY <1>4, FinishTypes, FinishPaired
    DEF Llvmfunction_str, Crash, dictVars, irVars, assumeVars, heatVars, TypeOK,
        AssumptionsPaired, Assertions
  <1>5. ASSUME NEW c \in Code, NEW b \in BOOLEAN, Set_use_llvm(c, b) PROVE TypeInv'
    BY <1>5 DEF Set_use_llvm, CodeFrame, dictVars, irVars, assumeVars, TypeOK,
                AssumptionsPaired
  <1>6. ASSUME NEW C \in SUBSET Code, PyType_Modified(C) PROVE TypeInv'
    BY <1>6, ConstantsAssumption
    DEF PyType_Modified, Invalidate, One, dictVars, irVars, assumeVars, TypeOK, AssumptionsPaired
  <1>7. ASSUME NEW m \in Modes, SetJitControl(m) PROVE TypeInv'
    BY <1>7 DEF SetJitControl, dictVars, irVars, assumeVars, heatVars, TypeOK,
                AssumptionsPaired
  <1>. QED BY <1>1, <1>2, <1>3, <1>4, <1>5, <1>6, <1>7 DEF CodeStep

\* What every call does to the heat of its code object.
CallVars == /\ co_use_llvm' \in [Code -> BOOLEAN]
            /\ co_hotness' \in [Code -> 0..(PY_HOTNESS_THRESHOLD + 1)]
            /\ co_fatalbailcount' \in [Code -> 0..PY_MAX_FATALBAILCOUNT]
            /\ co_llvm_function' = co_llvm_function /\ UNCHANGED dictVars
            /\ UNCHANGED <<liveCodes, listening, Py_JitControl>>

LEMMA CallTypes ==
  ASSUME TypeInv, NEW f \in Frame, NEW c \in Code, NEW g \in Dict, NEW b \in Dict,
         NEW use \in BOOLEAN, Call(f, c, g, b, use)
  PROVE  CallVars
  <1>1. Heated(c) \in 0..(PY_HOTNESS_THRESHOLD + 1)
    BY ConstantsAssumption DEF TypeInv, TypeOK, Heated
  <1>. QED BY <1>1 DEF CallVars, Call, TypeInv, TypeOK

LEMMA NewFrameType ==
  ASSUME TypeInv, NEW f \in Frame, NEW c \in Code, NEW g \in Dict, NEW b \in Dict,
         NEW pc \in {"compile", "ready"}, NEW use \in BOOLEAN, NewFrame(f, pc, c, g, b, use)
  PROVE  frame' \in [Frame -> FrameRecord \cup {Free}]
  <1>1. [pc |-> pc, code |-> c, globals |-> g, builtins |-> b, use_llvm |-> use] \in FrameRecord
    BY DEF FrameRecord
  <1>. QED BY <1>1 DEF NewFrame, TypeInv, TypeOK

LEMMA FrameUseType == ASSUME TypeInv, NEW c \in Code, NEW g \in Dict, NEW b \in Dict
                      PROVE  FrameUse(c, g, b) \in BOOLEAN
  BY DEF FrameUse, GoesHot, SnapshotUse, TypeInv, TypeOK

LEMMA CallStepTypes == TypeInv /\ CallStep => TypeInv'
  <1> SUFFICES ASSUME TypeInv, NEW f \in Frame, NEW c \in Code, NEW g \in Dict, NEW b \in Dict,
                      \/ CallInterpreted(f, c, g, b) \/ CallCompiled(f, c, g, b)
                      \/ CallJit(f, c, g, b) \/ CallRefused(f, c, g, b)
                      \/ CallCompile(f, c, g, b) \/ CallWatchFails(f, c, g, b)
               PROVE  TypeInv'
    BY DEF CallStep
  <1> USE DEF TypeInv
  <1>0. FrameUse(c, g, b) \in BOOLEAN
    BY FrameUseType
  <1>1. CASE CallInterpreted(f, c, g, b)
    <2>1. CallVars
      BY <1>1, CallTypes DEF CallInterpreted
    <2>2. frame' \in [Frame -> FrameRecord \cup {Free}]
      BY <1>1, <1>0, NewFrameType DEF CallInterpreted
    <2>. QED BY <1>1, <2>1, <2>2 DEF CallInterpreted, CallVars, dictVars, TypeOK, assumeVars, AssumptionsPaired
  <1>2. CASE CallCompiled(f, c, g, b)
    <2>1. CallVars
      BY <1>2, CallTypes DEF CallCompiled
    <2>2. frame' \in [Frame -> FrameRecord \cup {Free}]
      BY <1>2, <1>0, NewFrameType DEF CallCompiled
    <2>. QED BY <1>2, <2>1, <2>2 DEF CallCompiled, CallVars, dictVars, TypeOK, assumeVars, AssumptionsPaired
  <1>3. CASE CallJit(f, c, g, b)
    <2>1. CallVars
      BY <1>3, CallTypes DEF CallJit
    <2>2. frame' \in [Frame -> FrameRecord \cup {Free}]
      BY <1>3, <1>0, NewFrameType DEF CallJit, TypeOK
    <2>. QED BY <1>3, <2>1, <2>2 DEF CallJit, CallVars, dictVars, TypeOK, assumeVars, AssumptionsPaired
  <1>4. CASE CallRefused(f, c, g, b)
    <2>1. CallVars
      BY <1>4, CallTypes DEF CallRefused
    <2>2. frame' \in [Frame -> FrameRecord \cup {Free}]
      BY <1>4, <1>0, NewFrameType DEF CallRefused
    <2>. QED BY <1>4, <2>1, <2>2, WatchTypes, WatchPaired DEF CallRefused, CallVars, dictVars, TypeOK
  <1>5. CASE CallCompile(f, c, g, b)
    <2>1. CallVars
      BY <1>5, CallTypes DEF CallCompile
    <2>2. frame' \in [Frame -> FrameRecord \cup {Free}]
      BY <1>5, <1>0, NewFrameType DEF CallCompile
    <2>. QED BY <1>5, <2>1, <2>2, WatchTypes, WatchPaired DEF CallCompile, CallVars, dictVars, TypeOK
  <1>6. CASE CallWatchFails(f, c, g, b)
    <2>1. CallVars
      BY <1>6, CallTypes DEF CallWatchFails
    <2>2. failed' \subseteq Assertions
      BY <1>6 DEF CallWatchFails, TypeOK, Fails, Assertions
    <2>3. ma_watchers' \in [Dict -> Seq(Code)]
      <3>1. ma_watchers \in [Dict -> Seq(Code)]
        BY DEF TypeOK
      <3>2. Add(ma_watchers, g, c) \in [Dict -> Seq(Code)]
        BY <3>1, AddIs
      <3>3. Drop(Add(ma_watchers, g, c), g, c) \in [Dict -> Seq(Code)]
        BY <3>2, DroppedIs
      <3>. QED BY <1>6, <3>1, <3>3 DEF CallWatchFails
    <2>. QED BY <1>6, <2>1, <2>2, <2>3 DEF CallWatchFails, CallVars, dictVars, TypeOK, AssumptionsPaired
  <1>. QED BY <1>1, <1>2, <1>3, <1>4, <1>5, <1>6

LEMMA FrameActionTypes == TypeInv /\ FrameActions => TypeInv'
  <1> SUFFICES ASSUME TypeInv, NEW f \in Frame,
                      \/ Compile(f) \/ CompileFails(f) \/ EvalInterpreted(f) \/ EvalNative(f)
                      \/ Bail(f) \/ Yield(f) \/ Return(f) \/ ForIter(f)
               PROVE  TypeInv'
    BY DEF FrameActions
  <1> USE DEF TypeInv
  <1> HIDE DEF FrameRecord
  <1>0. frame[f].pc # "free" => frame[f] \in FrameRecord /\ frame[f].code \in Code
    BY DEF TypeOK, Free, FrameRecord
  <1>1. CASE Compile(f)
    <2> DEFINE c == frame[f].code
    <2>1. c \in Code /\ frame[f] \in FrameRecord
      BY <1>1, <1>0 DEF Compile
    <2>2. CASE Crash
      BY <2>2 DEF Crash, dictVars, irVars, assumeVars, heatVars, TypeOK, AssumptionsPaired,
                  Assertions
    <2>3. CASE ~ReadsNullDict(c)
      <3>0. /\ FinishFunction(c)
            /\ co_llvm_function' = [co_llvm_function EXCEPT ![c] = NewIR(c)]
            /\ \/ co_native_function' = [co_native_function EXCEPT ![c] =
                       IF @ = NoIR THEN NewIR(c) ELSE @]
               \/ UNCHANGED co_native_function
            /\ \/ frame' = [frame EXCEPT ![f].pc = "ready"]
               \/ frame' = [frame EXCEPT ![f] = Free]
            /\ UNCHANGED <<dictVars, heatVars, liveCodes, Py_JitControl>>
        BY <1>1, <2>3 DEF Compile
      <3>1. NewIR(c) \in IR /\ FinishFunction(c)
        BY <3>0, <2>1, NewIRType
      <3>2. AssumptionsPaired'
        BY <2>1, <3>1, FinishPaired
      <3>3. [frame[f] EXCEPT !.pc = "ready"] \in FrameRecord
        BY <2>1 DEF FrameRecord
      <3>4. frame' \in [Frame -> FrameRecord \cup {Free}]
        BY <3>0, <3>3 DEF TypeOK
      <3>5. /\ co_native_function' \in [Code -> IR \cup {NoIR}]
            /\ co_llvm_function' \in [Code -> IR \cup {NoIR}]
        <4>1. /\ co_native_function \in [Code -> IR \cup {NoIR}]
              /\ co_llvm_function \in [Code -> IR \cup {NoIR}]
          BY DEF TypeOK
        <4> DEFINE built == NewIR(c)
        <4>2. /\ built \in IR
              /\ co_llvm_function' = [co_llvm_function EXCEPT ![c] = built]
              /\ \/ co_native_function' = [co_native_function EXCEPT ![c] =
                         IF @ = NoIR THEN built ELSE @]
                 \/ co_native_function' = co_native_function
          BY <3>0, <3>1
        <4>. HIDE DEF built
        <4>. QED BY <2>1, <4>1, <4>2
      <3>. HIDE DEF c
      <3>. QED BY <2>1, <3>0, <3>1, <3>2, <3>4, <3>5, FinishTypes
           DEF dictVars, heatVars, TypeOK
    <2>. QED BY <1>1, <2>2, <2>3 DEF Compile
  <1>2. CASE CompileFails(f)
    BY <1>2 DEF CompileFails, dictVars, irVars, assumeVars, heatVars, TypeOK, AssumptionsPaired
  <1>3. CASE EvalInterpreted(f)
    <2>1. [frame[f] EXCEPT !.pc = "interp", !.use_llvm = FALSE] \in FrameRecord
      BY <1>3, <1>0 DEF EvalInterpreted, FrameRecord
    <2>. QED BY <1>3, <2>1 DEF EvalInterpreted, FrameStep, Fails, Assertions,
           dictVars, irVars, assumeVars, heatVars, TypeOK, AssumptionsPaired
  <1>4. CASE EvalNative(f)
    <2>1. [frame[f] EXCEPT !.pc = "native"] \in FrameRecord
      BY <1>4, <1>0 DEF EvalNative, FrameRecord
    <2>. QED BY <1>4, <2>1 DEF EvalNative, FrameStep, Fails, Assertions,
           dictVars, irVars, assumeVars, heatVars, TypeOK, AssumptionsPaired
  <1>5. CASE Bail(f)
    <2>1. [frame[f] EXCEPT !.pc = "interp", !.use_llvm = FALSE] \in FrameRecord
      BY <1>5, <1>0 DEF Bail, FrameRecord
    <2>. QED BY <1>5, <2>1 DEF Bail, FrameStep,
           dictVars, irVars, assumeVars, heatVars, TypeOK, AssumptionsPaired
  <1>6. CASE Yield(f)
    <2>1. [frame[f] EXCEPT !.pc = "ready"] \in FrameRecord
      BY <1>6, <1>0 DEF Yield, FrameRecord
    <2>. QED BY <1>6, <2>1 DEF Yield, FrameStep,
           dictVars, irVars, assumeVars, heatVars, TypeOK, AssumptionsPaired
  <1>7. CASE Return(f)
    BY <1>7 DEF Return, FrameStep, dictVars, irVars, assumeVars, heatVars, TypeOK,
                AssumptionsPaired
  <1>8. CASE ForIter(f)
    <2>1. Heated(frame[f].code) \in 0..(PY_HOTNESS_THRESHOLD + 1)
      BY <1>8, <1>0, ConstantsAssumption DEF ForIter, TypeOK, Heated
    <2>. QED BY <1>8, <2>1 DEF ForIter, dictVars, irVars, assumeVars, TypeOK,
                                AssumptionsPaired
  <1>. QED BY <1>1, <1>2, <1>3, <1>4, <1>5, <1>6, <1>7, <1>8

LEMMA StutterTypes == TypeInv /\ UNCHANGED vars => TypeInv'
  BY DEF TypeInv, TypeOK, AssumptionsPaired, vars, dictVars, irVars, assumeVars, heatVars

LEMMA TypeInvInductive == Spec => []TypeInv
  <1>1. TypeInv /\ [Next]_vars => TypeInv'
    BY DictStepTypes, CodeStepTypes, CallStepTypes, FrameActionTypes, StutterTypes DEF Next
  <1>. QED BY InitTypes, <1>1, PTL DEF Spec

\* Every variable keeps its type: whatever the walk of notify_watchers() meets, the arrays
\* hold code objects only, and no slot it has cleared is left (all of the modelled functions).
THEOREM TypeCorrect == Spec => []TypeOK
  BY TypeInvInductive, PTL DEF TypeInv

-----------------------------------------------------------------------------
(* The watcher arrays agree with the assumptions of the code objects.        *)

\* Every watcher array holds a code object once for each of its assumptions of that
\* dictionary, one beside the other, and what is assumed is allocated.
ArraysPlaced ==
  \A c \in Code, d \in Dict :
    /\ Placed(ma_watchers[d], c, Assumes(c, d))
    /\ Assumes(c, d) > 0 => c \in liveCodes /\ d \in liveDicts

WatchInv == TypeInv /\ ArraysPlaced /\ WatcherAssertionsHold

LEMMA PlacedExact == ASSUME TypeInv, ArraysPlaced PROVE WatchersExact
  <1> SUFFICES ASSUME NEW c \in Code, NEW d \in Dict
               PROVE  LET entries == {i \in 1..Len(ma_watchers[d]) : ma_watchers[d][i] = c} IN
                      /\ Cardinality(entries) = Assumes(c, d)
                      /\ entries # {} => c \in liveCodes /\ d \in liveDicts
    BY DEF WatchersExact
  <1>1. ma_watchers[d] \in Seq(Code)
    BY DEF TypeInv, TypeOK
  <1>0. Assumes(c, d) \in Nat
    BY AssumesType
  <1>2. Placed(ma_watchers[d], c, Assumes(c, d))
    BY DEF ArraysPlaced
  <1>. QED BY <1>0, <1>1, <1>2, PlacedCount DEF ArraysPlaced

\* The walk up to slot i of an array whose entries are neighbours: the slots it has passed
\* are cleared, the code objects it visited are in no array, and nothing has failed.
Walked(d, i) ==
  {w \in Walks(d) :
     /\ w.failed = failed
     /\ Len(w.arrays[d]) <= Len(ma_watchers[d])
     /\ \A j \in 1..Len(w.arrays[d]) : j <= i => w.arrays[d][j] = NoCode
     /\ \A x \in Code : w.visits[x] = 0 \/ (w.visits[x] = 1 /\ Assumes(x, d) > 0)
     /\ \A x \in Code, e \in Dict :
          Placed(w.arrays[e], x, IF w.visits[x] = 0 THEN Assumes(x, e) ELSE 0)}

\* Dropping a watcher disturbs no slot before its first entry; of two neighbours the
\* second moves into the slot of the first.
FirstIs(s, c, i) == s[i] = c /\ \A j \in 1..Len(s) : j < i => s[j] # c

LEMMA DropLater ==
  ASSUME NEW S, NEW s \in Seq(S), NEW c, NEW i \in 1..Len(s), FirstIs(s, c, i)
  PROVE  /\ DropWatcher(s, c) \in Seq(S) /\ Len(DropWatcher(s, c)) = Len(s) - 1
         /\ \A j \in 1..(Len(s) - 1) : j < i => DropWatcher(s, c)[j] = s[j]
         /\ Placed(s, c, 2) => i \in 1..(Len(s) - 1) /\ DropWatcher(s, c)[i] = c
  <1>0. s[i] = c /\ \A j \in 1..Len(s) : j < i => s[j] # c
    BY DEF FirstIs
  <1>1. Holds(s, c)
    BY <1>0 DEF Holds
  <1>2. PICK k \in 1..Len(s) : DroppedAt(s, c, k)
    BY <1>1, DropIs
  <1>3. k = i
    BY <1>0, <1>2 DEF DroppedAt
  <1>4. \A j \in 1..(Len(s) - 1) : DropWatcher(s, c)[j] = IF j < i THEN s[j] ELSE s[j + 1]
    BY <1>2, <1>3 DEF DroppedAt
  <1>5. ASSUME Placed(s, c, 2) PROVE i \in 1..(Len(s) - 1) /\ DropWatcher(s, c)[i] = c
    <2>1. PICK h \in 1..(Len(s) + 1) :
            h + 2 <= Len(s) + 1 /\ \A j \in 1..Len(s) : s[j] = c <=> h <= j /\ j < h + 2
      BY <1>5 DEF Placed
    <2>2. h = i
      BY <1>0, <2>1
    <2>3. i \in 1..(Len(s) - 1) /\ s[i + 1] = c
      BY <2>1, <2>2
    <2>. QED BY <1>4, <2>3
  <1>. QED BY <1>1, <1>4, <1>5, DropIs

\* The dictionaries a watcher of d has assumed are d and the other one.
LEMMA OtherIs ==
  ASSUME TypeInv, NEW d \in Dict, NEW c \in Code, Assumes(c, d) > 0
  PROVE  /\ OtherAssumed(d, c) \in Dict
         /\ \A e \in Dict : Assumes(c, e) = One(e = d) + One(e = OtherAssumed(d, c))
  BY ConstantsAssumption
  DEF TypeInv, TypeOK, AssumptionsPaired, OtherAssumed, Assumes, One

LEMMA VisitExact ==
  ASSUME WatchInv, NEW d \in Dict, NEW i \in Nat, i > 0, NEW w \in Walked(d, i - 1)
  PROVE  VisitSlot(d, i, w) \in Walked(d, i)
  <1> USE DEF WatchInv, TypeInv
  <1>1. /\ w \in Walks(d) /\ w.failed = failed
        /\ Len(w.arrays[d]) <= Len(ma_watchers[d])
        /\ \A j \in 1..Len(w.arrays[d]) : j <= i - 1 => w.arrays[d][j] = NoCode
        /\ \A x \in Code : w.visits[x] = 0 \/ (w.visits[x] = 1 /\ Assumes(x, d) > 0)
        /\ \A x \in Code, e \in Dict :
             Placed(w.arrays[e], x, IF w.visits[x] = 0 THEN Assumes(x, e) ELSE 0)
    BY DEF Walked
  <1>2. /\ w.arrays \in [Dict -> Seq(Code \cup {NoCode})] /\ w.visits \in [Code -> Nat]
        /\ \A e \in Dict \ {d} : w.arrays[e] \in Seq(Code)
    BY <1>1 DEF Walks
  <1>3. CASE ~(i \in 1..Len(w.arrays[d]) /\ w.arrays[d][i] # NoCode)
    <2>1. VisitSlot(d, i, w) = w
      BY <1>3 DEF VisitSlot
    <2>2. \A j \in 1..Len(w.arrays[d]) : j <= i => w.arrays[d][j] = NoCode
      <3>1. \A j \in 1..Len(w.arrays[d]) : j <= i => j <= i - 1 \/ j = i
        OBVIOUS
      <3>. QED BY <1>1, <1>3, <3>1
    <2>. QED BY <1>1, <2>1, <2>2 DEF Walked
  <1>4. CASE i \in 1..Len(w.arrays[d]) /\ w.arrays[d][i] # NoCode
    <2> DEFINE c == w.arrays[d][i]
               other == OtherAssumed(d, c)
               Dropped(e) == IF e = other THEN DropWatcher(w.arrays[e], c) ELSE w.arrays[e]
               Shifted(e) == [j \in 1..Len(Dropped(e)) |->
                                IF e = d /\ j = i THEN NoCode ELSE Dropped(e)[j]]
               v == VisitSlot(d, i, w)
    <2>1. c \in Code /\ Holds(w.arrays[d], c)
      BY <1>2, <1>4 DEF Holds
    <2>2. w.visits[c] = 0 /\ Assumes(c, d) > 0
      <3>1. w.arrays[d] \in Seq(Code \cup {NoCode})
        BY <1>2
      <3> DEFINE n == IF w.visits[c] = 0 THEN Assumes(c, d) ELSE 0
      <3>2. Placed(w.arrays[d], c, n) /\ n \in Nat
        BY <1>1, <2>1, AssumesType
      <3> HIDE DEF n, c
      <3>3. n > 0
        BY <2>1, <3>1, <3>2, PlacedHolds
      <3>. QED BY <3>3 DEF n
    <2>3. /\ other \in Dict /\ \A e \in Dict : Assumes(c, e) = One(e = d) + One(e = other)
      BY <2>1, <2>2, OtherIs
    <2>4. /\ v.arrays = [e \in Dict |-> Shifted(e)]
          /\ v.visits = [w.visits EXCEPT ![c] = @ + 1]
          /\ v.failed = w.failed
               \cup Fails("FreedCode", c \in liveCodes)
               \cup Fails("NotWatching", other # NoDict)
               \cup Fails("FreedDict", other \in liveDicts \cup {NoDict})
               \cup Fails("DropNonWatcher", \A e \in {other} \cap Dict : Holds(w.arrays[e], c))
      BY <1>4, <2>2 DEF VisitSlot, Visit
    <2>5. v \in Walks(d)
      BY <1>1, VisitTypes
    <2>6. \A e \in Dict : Placed(w.arrays[e], c, One(e = d) + One(e = other))
      BY <1>1, <2>1, <2>2, <2>3
    <2>7. \A j \in 1..Len(w.arrays[d]) : j < i => w.arrays[d][j] = NoCode /\ w.arrays[d][j] # c
      BY <1>1, <1>4
    <2>8. w.arrays[d][i] = c
      OBVIOUS
    <2>9. \A e \in Dict : w.arrays[e] \in Seq(Code \cup {NoCode})
      BY <1>2
    <2>10. \A e \in Dict : Dropped(e) \in Seq(Code \cup {NoCode})
      BY <2>9, DropType
    <2>11. \A e \in Dict : e = other => Dropped(e) = DropWatcher(w.arrays[e], c)
      OBVIOUS
    <2>12. \A e \in Dict : e # other => Dropped(e) = w.arrays[e]
      OBVIOUS
    <2>13. \A e \in Dict : v.arrays[e] = Shifted(e)
      BY <2>4
    <2>14. \A x \in Code : v.visits[x] = IF x = c THEN 1 ELSE w.visits[x]
      BY <1>2, <2>2, <2>4
    <2> HIDE DEF c, other, v, Dropped
    <2>15. ASSUME NEW e \in Dict PROVE Placed(Dropped(e), c, One(e = d))
      <3>1. CASE e = other
        <4>1. Placed(w.arrays[e], c, One(e = d) + 1) /\ One(e = d) + 1 \in Nat /\ One(e = d) + 1 > 0
          BY <2>6, <3>1 DEF One
        <4>2. Placed(DropWatcher(w.arrays[e], c), c, (One(e = d) + 1) - 1)
          BY <2>9, <4>1, PlacedDrop
        <4>3. (One(e = d) + 1) - 1 = One(e = d)
          BY DEF One
        <4>. QED BY <2>11, <3>1, <4>2, <4>3
      <3>2. CASE e # other
        <4>1. One(e = d) + One(e = other) = One(e = d)
          BY <3>2 DEF One
        <4>. QED BY <2>6, <2>12, <3>2, <4>1
      <3>. QED BY <3>1, <3>2
    <2>16. /\ Len(Dropped(d)) <= Len(w.arrays[d])
           /\ i \in 1..Len(Dropped(d)) /\ Dropped(d)[i] = c
           /\ \A j \in 1..Len(Dropped(d)) : j < i => Dropped(d)[j] = NoCode
      <3>1. CASE d = other
        <4>1. Placed(w.arrays[d], c, 2)
          BY <2>6, <3>1 DEF One
        <4>2. w.arrays[d] \in Seq(Code \cup {NoCode}) /\ i \in 1..Len(w.arrays[d])
          BY <1>4, <2>9
        <4>a. FirstIs(w.arrays[d], c, i)
          BY <2>7, <2>8 DEF FirstIs
        <4> DEFINE D == DropWatcher(w.arrays[d], c)
        <4>3. /\ Len(D) = Len(w.arrays[d]) - 1
              /\ \A j \in 1..(Len(w.arrays[d]) - 1) : j < i => D[j] = w.arrays[d][j]
              /\ i \in 1..(Len(w.arrays[d]) - 1) /\ D[i] = c
          BY <4>a, <4>1, <4>2, DropLater
        <4>4. Dropped(d) = D
          BY <2>11, <3>1
        <4> HIDE DEF D
        <4>5. \A j \in 1..Len(D) : j < i => D[j] = NoCode
          BY <2>7, <4>2, <4>3
        <4>. QED BY <4>2, <4>3, <4>4, <4>5
      <3>2. CASE d # other
        <4>1. Dropped(d) = w.arrays[d]
          BY <2>12, <3>2
        <4>. QED BY <1>4, <2>7, <2>8, <2>9, <4>1
      <3>. QED BY <3>1, <3>2
    <2>17. ASSUME NEW e \in Dict, NEW x \in Code, x # c, w.visits[x] = 0 \/ w.visits[x] = 1
           PROVE  Placed(Dropped(e), x, IF w.visits[x] = 0 THEN Assumes(x, e) ELSE 0)
      <3> DEFINE n == IF w.visits[x] = 0 THEN Assumes(x, e) ELSE 0
      <3>1. n \in Nat /\ Placed(w.arrays[e], x, n)
        BY <1>1, AssumesType
      <3> HIDE DEF n
      <3>2. Placed(DropWatcher(w.arrays[e], c), x, n)
        BY <2>9, <2>17, <3>1, PlacedDropOther
      <3>3. Placed(Dropped(e), x, n)
        BY <2>11, <2>12, <3>1, <3>2
      <3>. QED BY <3>3 DEF n
    <2>18. /\ Len(v.arrays[d]) <= Len(ma_watchers[d])
           /\ \A j \in 1..Len(v.arrays[d]) : j <= i => v.arrays[d][j] = NoCode
      <3>1. Len(Dropped(d)) \in Nat
        BY <2>10
      <3>2. Shifted(d) = [j \in 1..Len(Dropped(d)) |-> IF j = i THEN NoCode ELSE Dropped(d)[j]]
        OBVIOUS
      <3>3. v.arrays[d] = [j \in 1..Len(Dropped(d)) |-> IF j = i THEN NoCode ELSE Dropped(d)[j]]
        BY <2>13, <3>2
      <3>4. Len(v.arrays[d]) = Len(Dropped(d))
        BY <3>1, <3>3
      <3>5. Len(w.arrays[d]) \in Nat /\ Len(ma_watchers[d]) \in Nat
        BY <2>9 DEF TypeOK
      <3>6. ASSUME NEW j \in 1..Len(v.arrays[d]), j <= i PROVE v.arrays[d][j] = NoCode
        <4>1. j < i \/ j = i
          BY <3>6
        <4>. QED BY <2>16, <3>3, <3>4, <4>1
      <3>. QED BY <1>1, <2>16, <3>1, <3>4, <3>5, <3>6
    <2>19. ASSUME NEW e \in Dict, NEW x \in Code
           PROVE  Placed(v.arrays[e], x, IF v.visits[x] = 0 THEN Assumes(x, e) ELSE 0)
      <3>0. x # NoCode
        BY ConstantsAssumption
      <3>1. CASE e = d
        <4> DEFINE s == Dropped(d)
                   cleared == Cleared(s, i, NoCode)
        <4>1. v.arrays[e] = cleared
          BY <2>13, <3>1 DEF Cleared
        <4>2. s \in Seq(Code \cup {NoCode}) /\ i \in 1..Len(s) /\ s[i] = c
          BY <2>10, <2>16
        <4> HIDE DEF s
        <4>3. CASE x = c
          <5>1. Placed(s, x, 1)
            BY <2>15, <3>1, <4>3 DEF One, s
          <5>2. Placed(cleared, x, 0)
            BY <3>0, <4>2, <4>3, <5>1, PlacedClear
          <5>. QED BY <2>14, <4>1, <4>3, <5>2
        <4>4. CASE x # c
          <5> DEFINE n == IF w.visits[x] = 0 THEN Assumes(x, e) ELSE 0
          <5>1. n \in Nat /\ Placed(s, x, n)
            BY <1>1, <2>17, <3>1, <4>4, AssumesType DEF s
          <5>2. Placed(cleared, x, n)
            <6> HIDE DEF n
            <6>. QED BY <3>0, <4>2, <4>4, <5>1, PlacedClear
          <5>. QED BY <2>14, <4>1, <4>4, <5>2
        <4>. QED BY <4>3, <4>4
      <3>2. CASE e # d
        <4>1. Dropped(e) \in Seq(Code \cup {NoCode})
          BY <2>10
        <4>2. Shifted(e) = Dropped(e)
          <5>1. Shifted(e) = [j \in 1..Len(Dropped(e)) |-> Dropped(e)[j]]
            BY <3>2
          <5> HIDE DEF Shifted
          <5>2. Shifted(e) \in Seq(Code \cup {NoCode}) /\ Len(Shifted(e)) = Len(Dropped(e))
                /\ \A j \in 1..Len(Shifted(e)) : Shifted(e)[j] = Dropped(e)[j]
            <6>1. Shifted(e) \in [1..Len(Dropped(e)) -> Code \cup {NoCode}]
              BY <4>1, <5>1
            <6>2. Shifted(e) \in Seq(Code \cup {NoCode}) /\ Len(Shifted(e)) = Len(Dropped(e))
              BY <4>1, <6>1
            <6>. QED BY <5>1, <6>2
          <5>. QED BY <4>1, <5>2, SeqEqual
        <4>3. v.arrays[e] = Dropped(e)
          BY <2>13, <4>2
        <4>4. CASE x = c
          <5>1. Placed(Dropped(e), x, 0)
            BY <2>15, <3>2, <4>4 DEF One
          <5>. QED BY <2>14, <4>3, <4>4, <5>1
        <4>5. CASE x # c
          BY <1>1, <2>14, <2>17, <4>3, <4>5
        <4>. QED BY <4>4, <4>5
      <3>. QED BY <3>1, <3>2
    <2>20. \A x \in Code : v.visits[x] = 0 \/ (v.visits[x] = 1 /\ Assumes(x, d) > 0)
      BY <1>1, <2>2, <2>14
    <2>21. v.failed = failed
      <3>1. c \in liveCodes
        BY <2>1, <2>2 DEF ArraysPlaced
      <3>2. Assumes(c, other) > 0 /\ Holds(w.arrays[other], c)
        <4>1. One(other = d) + One(other = other) \in Nat /\ One(other = d) + One(other = other) > 0
          BY DEF One
        <4>2. Placed(w.arrays[other], c, One(other = d) + One(other = other))
          BY <2>3, <2>6
        <4>3. w.arrays[other] \in Seq(Code \cup {NoCode})
          BY <2>3, <2>9
        <4>. QED BY <2>3, <4>1, <4>2, <4>3, PlacedHolds
      <3>3. other \in liveDicts /\ other # NoDict
        BY <2>1, <2>3, <3>2, ConstantsAssumption DEF ArraysPlaced
      <3>. QED BY <1>1, <2>4, <3>1, <3>2, <3>3 DEF Fails
    <2>22. v \in Walked(d, i)
      BY <2>5, <2>18, <2>19, <2>20, <2>21 DEF Walked
    <2>. QED BY <2>22 DEF v
  <1>. QED BY <1>3, <1>4

\* notify_watchers(d) visits the code objects that have assumed d, each once.
LEMMA WalkExact ==
  ASSUME WatchInv, NEW d \in Dict
  PROVE  /\ Walk(d) \in Walks(d) /\ Walk(d).failed = failed
         /\ \A x \in Code : Walk(d).visits[x] = One(Assumes(x, d) > 0)
         /\ \A x \in Code, e \in Dict :
              Placed(Walk(d).arrays[e], x, IF Assumes(x, d) > 0 THEN 0 ELSE Assumes(x, e))
  <1> DEFINE N == Len(ma_watchers[d])
             A == [i \in 0..N |-> Walked(d, i)]
             w == Walk(d)
  <1> USE DEF WatchInv, TypeInv
  <1>1. ma_watchers \in [Dict -> Seq(Code)] /\ N \in Nat
    BY DEF TypeOK
  <1>2. WalkStart \in A[0]
    <2>1. \A x \in Code, e \in Dict : Placed(ma_watchers[e], x, Assumes(x, e))
      BY DEF ArraysPlaced
    <2>2. /\ WalkStart.arrays = ma_watchers /\ WalkStart.failed = failed
          /\ \A x \in Code : WalkStart.visits[x] = 0
      BY DEF WalkStart
    <2>3. \A j \in 1..N : ~(j <= 0)
      OBVIOUS
    <2>4. \A x \in Code, e \in Dict :
            Placed(WalkStart.arrays[e], x, IF WalkStart.visits[x] = 0 THEN Assumes(x, e) ELSE 0)
      BY <2>1, <2>2
    <2>5. /\ WalkStart \in Walks(d) /\ Len(WalkStart.arrays[d]) <= Len(ma_watchers[d])
          /\ \A j \in 1..Len(WalkStart.arrays[d]) : j <= 0 => WalkStart.arrays[d][j] = NoCode
      BY <1>1, <2>2, <2>3, WalkStartTypes
    <2> DEFINE u == WalkStart
    <2>a. /\ u \in Walks(d) /\ u.failed = failed
          /\ Len(u.arrays[d]) <= Len(ma_watchers[d])
          /\ \A j \in 1..Len(u.arrays[d]) : j <= 0 => u.arrays[d][j] = NoCode
          /\ \A x \in Code : u.visits[x] = 0 \/ (u.visits[x] = 1 /\ Assumes(x, d) > 0)
          /\ \A x \in Code, e \in Dict :
               Placed(u.arrays[e], x, IF u.visits[x] = 0 THEN Assumes(x, e) ELSE 0)
      <3>1. \A x \in Code : u.visits[x] = 0 \/ (u.visits[x] = 1 /\ Assumes(x, d) > 0)
        BY <2>2
      <3>2. u.failed = failed
        BY <2>2
      <3>3. /\ u \in Walks(d)
            /\ Len(u.arrays[d]) <= Len(ma_watchers[d])
            /\ \A j \in 1..Len(u.arrays[d]) : j <= 0 => u.arrays[d][j] = NoCode
        BY <2>5
      <3>4. \A x \in Code, e \in Dict :
              Placed(u.arrays[e], x, IF u.visits[x] = 0 THEN Assumes(x, e) ELSE 0)
        BY <2>4
      <3> HIDE DEF u
      <3>. QED BY <3>1, <3>2, <3>3, <3>4
    <2> HIDE DEF N, u
    <2>6. u \in Walked(d, 0)
      BY <2>a DEF Walked
    <2>. QED BY <1>1, <2>6 DEF u, N
  <1>3. ASSUME NEW i \in 1..N, NEW u \in A[i - 1] PROVE VisitSlot(d, i, u) \in A[i]
    <2>1. i \in 0..N /\ i - 1 \in 0..N /\ i \in Nat /\ i > 0
      BY <1>1
    <2>2. u \in Walked(d, i - 1)
      BY <1>3, <2>1
    <2>. QED BY <2>1, <2>2, VisitExact
  <1> HIDE DEF A
  <1>4. w \in A[N]
    BY <1>1, <1>2, <1>3, WalkReaches
  <1>5. w \in Walked(d, N)
    BY <1>1, <1>4 DEF A
  <1> HIDE DEF N, w
  <1>6. /\ w \in Walks(d) /\ w.failed = failed
        /\ Len(w.arrays[d]) <= N
        /\ \A j \in 1..Len(w.arrays[d]) : j <= N => w.arrays[d][j] = NoCode
        /\ \A x \in Code : w.visits[x] = 0 \/ (w.visits[x] = 1 /\ Assumes(x, d) > 0)
        /\ \A x \in Code, e \in Dict :
             Placed(w.arrays[e], x, IF w.visits[x] = 0 THEN Assumes(x, e) ELSE 0)
    BY <1>5 DEF Walked, N
  <1>7. w.arrays[d] \in Seq(Code \cup {NoCode})
    BY <1>6 DEF Walks
  <1>8. ASSUME NEW x \in Code, w.visits[x] = 0 PROVE ~(Assumes(x, d) > 0)
    <2>1. Placed(w.arrays[d], x, Assumes(x, d)) /\ Assumes(x, d) \in Nat
      BY <1>6, <1>8, AssumesType
    <2>2. ~Holds(w.arrays[d], x)
      <3>1. \A j \in 1..Len(w.arrays[d]) : w.arrays[d][j] = NoCode
        BY <1>1, <1>6, <1>7
      <3>. QED BY <3>1, ConstantsAssumption DEF Holds
    <2>. QED BY <1>7, <2>1, <2>2, PlacedHolds
  <1>9. \A x \in Code : w.visits[x] = One(Assumes(x, d) > 0)
    BY <1>6, <1>8 DEF One
  <1>10. \A x \in Code : w.visits[x] = 0 <=> ~(Assumes(x, d) > 0)
    BY <1>6, <1>8
  <1>11. \A x \in Code, e \in Dict :
           Placed(w.arrays[e], x, IF Assumes(x, d) > 0 THEN 0 ELSE Assumes(x, e))
    <2> TAKE x \in Code, e \in Dict
    <2>1. Placed(w.arrays[e], x, IF w.visits[x] = 0 THEN Assumes(x, e) ELSE 0)
      BY <1>6
    <2>. QED BY <1>10, <2>1
  <1>. QED BY <1>6, <1>9, <1>11 DEF w

\* Adding a watcher and dropping its first entries may change places.
LEMMA DropAdd ==
  ASSUME NEW arrays \in [Dict -> Seq(Code)], NEW d \in Dict, NEW e \in Dict, NEW c \in Code,
         Holds(arrays[e], c)
  PROVE  /\ Holds(Add(arrays, d, c)[e], c)
         /\ Drop(Add(arrays, d, c), e, c) = Add(Drop(arrays, e, c), d, c)
  <1> DEFINE A == Add(arrays, d, c)
             D == Drop(arrays, e, c)
  <1>1. /\ A \in [Dict -> Seq(Code)] /\ A[d] = Append(arrays[d], c)
        /\ \A h \in Dict \ {d} : A[h] = arrays[h]
    BY AddIs
  <1>2. /\ D \in [Dict -> Seq(Code)] /\ D[e] = DropWatcher(arrays[e], c)
        /\ \A h \in Dict \ {e} : D[h] = arrays[h]
    BY DroppedIs
  <1> HIDE DEF A, D
  <1>3. /\ Drop(A, e, c) \in [Dict -> Seq(Code)] /\ Drop(A, e, c)[e] = DropWatcher(A[e], c)
        /\ \A h \in Dict \ {e} : Drop(A, e, c)[h] = A[h]
    BY <1>1, DroppedIs
  <1>4. /\ Add(D, d, c) \in [Dict -> Seq(Code)] /\ Add(D, d, c)[d] = Append(D[d], c)
        /\ \A h \in Dict \ {d} : Add(D, d, c)[h] = D[h]
    BY <1>2, AddIs
  <1>5. arrays[e] \in Seq(Code)
    OBVIOUS
  <1>6. /\ Holds(Append(arrays[e], c), c)
        /\ DropWatcher(Append(arrays[e], c), c) = Append(DropWatcher(arrays[e], c), c)
    BY <1>5, AppendDrop
  <1>7. Holds(A[e], c)
    BY <1>1, <1>6
  <1>8. ASSUME NEW h \in Dict PROVE Drop(A, e, c)[h] = Add(D, d, c)[h]
    <2>1. CASE h = d /\ h = e
      BY <1>1, <1>2, <1>3, <1>4, <1>6, <2>1
    <2>2. CASE h = d /\ h # e
      BY <1>1, <1>2, <1>3, <1>4, <2>2
    <2>3. CASE h # d /\ h = e
      BY <1>1, <1>2, <1>3, <1>4, <2>3
    <2>4. CASE h # d /\ h # e
      BY <1>1, <1>2, <1>3, <1>4, <2>4
    <2>. QED BY <2>1, <2>2, <2>3, <2>4
  <1>9. Drop(A, e, c) = Add(D, d, c)
    BY <1>3, <1>4, <1>8
  <1>. QED BY <1>7, <1>9 DEF A, D

\* c is where dropping both its assumptions looks for it.
HoldsBoth(arrays, c) ==
  LET g == co_assumed_globals[c]  b == co_assumed_builtins[c] IN
  Watching(c) => Holds(arrays[g], c) /\ Holds(Drop(arrays, g, c)[b], c)

LEMMA DropBothAdd ==
  ASSUME TypeInv, NEW arrays \in [Dict -> Seq(Code)], NEW d \in Dict, NEW c \in Code,
         HoldsBoth(arrays, c)
  PROVE  /\ HoldsBoth(Add(arrays, d, c), c)
         /\ DropBoth(Add(arrays, d, c), c) = Add(DropBoth(arrays, c), d, c)
  <1>1. CASE ~Watching(c)
    BY <1>1 DEF HoldsBoth, DropBoth
  <1>2. CASE Watching(c)
    <2> DEFINE g == co_assumed_globals[c]
               b == co_assumed_builtins[c]
    <2>1. g \in Dict /\ b \in Dict
      BY <1>2 DEF Watching, TypeInv, TypeOK, AssumptionsPaired
    <2>2. Holds(arrays[g], c) /\ Holds(Drop(arrays, g, c)[b], c)
      BY <1>2 DEF HoldsBoth
    <2>3. Drop(arrays, g, c) \in [Dict -> Seq(Code)]
      BY <2>1, DroppedIs
    <2> DEFINE A == Add(arrays, d, c)
               L == Drop(A, g, c)
               E == Drop(arrays, g, c)
    <2>8. HoldsBoth(A, c) <=> Holds(A[g], c) /\ Holds(L[b], c)
      BY <1>2 DEF HoldsBoth
    <2>9. DropBoth(A, c) = Drop(L, b, c) /\ DropBoth(arrays, c) = Drop(E, b, c)
      BY <1>2 DEF DropBoth
    <2> HIDE DEF g, b
    <2>4. Holds(A[g], c) /\ L = Add(E, d, c)
      BY <2>1, <2>2, DropAdd
    <2> HIDE DEF A, L, E
    <2>5. /\ Holds(Add(E, d, c)[b], c)
          /\ Drop(Add(E, d, c), b, c) = Add(Drop(E, b, c), d, c)
      <3>1. E \in [Dict -> Seq(Code)] /\ Holds(E[b], c)
        BY <2>2, <2>3 DEF E
      <3>. QED BY <2>1, <3>1, DropAdd
    <2>6. HoldsBoth(A, c)
      BY <2>8, <2>4, <2>5
    <2>7. DropBoth(A, c) = Add(DropBoth(arrays, c), d, c)
      BY <2>9, <2>4, <2>5
    <2>. QED BY <2>6, <2>7 DEF A
  <1>. QED BY <1>1, <1>2

\* Dropping both assumptions takes c out of every array, and fails no assertion.
LEMMA DropExact ==
  ASSUME WatchInv, NEW c \in Code
  PROVE  /\ HoldsBoth(ma_watchers, c) /\ DropFailures(ma_watchers, c) = {}
         /\ \A k \in Code, d \in Dict :
              Placed(DropBoth(ma_watchers, c)[d], k, IF k = c THEN 0 ELSE Assumes(k, d))
  <1> USE DEF WatchInv, TypeInv
  <1>0. \A k \in Code, d \in Dict :
          /\ ma_watchers[d] \in Seq(Code) /\ Placed(ma_watchers[d], k, Assumes(k, d))
          /\ Assumes(k, d) \in Nat
    <2>1. \A k \in Code, d \in Dict : Assumes(k, d) \in Nat
      BY AssumesType
    <2>. QED BY <2>1 DEF TypeOK, ArraysPlaced
  <1>1. CASE ~Watching(c)
    <2>1. \A d \in Dict : Assumes(c, d) = 0
      BY <1>1, ConstantsAssumption DEF Watching, Assumes, One, AssumptionsPaired
    <2>. QED BY <1>0, <1>1, <2>1 DEF HoldsBoth, DropFailures, Fails, DropBoth
  <1>2. CASE Watching(c)
    <2> DEFINE g == co_assumed_globals[c]
               b == co_assumed_builtins[c]
               M == ma_watchers
               D == Drop(M, g, c)
               E == Drop(D, b, c)
    <2>1. g \in Dict /\ b \in Dict
      BY <1>2 DEF Watching, TypeOK, AssumptionsPaired
    <2>2. \A d \in Dict : Assumes(c, d) = One(d = g) + One(d = b)
      BY DEF Assumes
    <2>3. M \in [Dict -> Seq(Code)]
      BY DEF TypeOK
    <2>4. /\ DropBoth(ma_watchers, c) = E
          /\ HoldsBoth(ma_watchers, c) <=> Holds(M[g], c) /\ Holds(D[b], c)
      BY <1>2 DEF HoldsBoth, DropBoth
    <2>5. /\ D \in [Dict -> Seq(Code)] /\ D[g] = DropWatcher(M[g], c)
          /\ \A e \in Dict \ {g} : D[e] = M[e]
      BY <2>1, <2>3, DroppedIs
    <2>6. /\ E \in [Dict -> Seq(Code)] /\ E[b] = DropWatcher(D[b], c)
          /\ \A e \in Dict \ {b} : E[e] = D[e]
      BY <2>1, <2>5, DroppedIs
    <2>7. /\ Assumes(c, g) > 0 /\ Assumes(c, b) > 0
      BY <2>1, <2>2 DEF One
    <2>8. {g, b} \subseteq liveDicts
      BY <2>1, <2>7 DEF ArraysPlaced
    <2> HIDE DEF g, b, M, D, E
    <2>9. \A d \in Dict : Placed(M[d], c, One(d = g) + One(d = b))
      BY <1>0, <2>2 DEF M
    <2>10. \A d \in Dict : Placed(D[d], c, One(d = b))
      <3> TAKE d \in Dict
      <3>1. CASE d = g
        <4>1. M[d] \in Seq(Code) /\ Placed(M[d], c, One(d = b) + 1)
          BY <2>3, <2>9, <3>1 DEF One
        <4>2. One(d = b) + 1 \in Nat /\ One(d = b) + 1 > 0 /\ (One(d = b) + 1) - 1 = One(d = b)
          BY DEF One
        <4>3. Placed(DropWatcher(M[d], c), c, (One(d = b) + 1) - 1)
          BY <4>1, <4>2, PlacedDrop
        <4>. QED BY <2>5, <3>1, <4>2, <4>3
      <3>2. CASE d # g
        <4>1. One(d = g) + One(d = b) = One(d = b)
          BY <3>2 DEF One
        <4>. QED BY <2>5, <2>9, <3>2, <4>1
      <3>. QED BY <3>1, <3>2
    <2>11. \A d \in Dict : Placed(E[d], c, 0)
      <3> TAKE d \in Dict
      <3>1. CASE d = b
        <4>1. D[d] \in Seq(Code) /\ Placed(D[d], c, 1)
          BY <2>5, <2>10, <3>1 DEF One
        <4>2. Placed(DropWatcher(D[d], c), c, 1 - 1)
          BY <4>1, PlacedDrop
        <4>. QED BY <2>6, <3>1, <4>2
      <3>2. CASE d # b
        BY <2>6, <2>10, <3>2 DEF One
      <3>. QED BY <3>1, <3>2
    <2>12. ASSUME NEW k \in Code, k # c, NEW d \in Dict PROVE Placed(E[d], k, Assumes(k, d))
      <3> DEFINE n == Assumes(k, d)
      <3>1. n \in Nat /\ Placed(M[d], k, n) /\ M[d] \in Seq(Code)
        BY <1>0 DEF M
      <3> HIDE DEF n
      <3>2. Placed(DropWatcher(M[d], c), k, n)
        BY <2>12, <3>1, PlacedDropOther
      <3>3. Placed(D[d], k, n) /\ D[d] \in Seq(Code)
        BY <2>5, <3>1, <3>2
      <3>4. Placed(DropWatcher(D[d], c), k, n)
        BY <2>12, <3>1, <3>3, PlacedDropOther
      <3>5. Placed(E[d], k, n)
        BY <2>6, <3>3, <3>4
      <3>. QED BY <3>5 DEF n
    <2>13. HoldsBoth(ma_watchers, c)
      <3>1. M[g] \in Seq(Code) /\ D[b] \in Seq(Code)
        BY <2>1, <2>3, <2>5
      <3>2. Placed(M[g], c, One(g = g) + One(g = b)) /\ Placed(D[b], c, One(b = b))
        BY <2>1, <2>9, <2>10
      <3>3. /\ One(g = g) + One(g = b) \in Nat /\ One(g = g) + One(g = b) > 0
            /\ One(b = b) \in Nat /\ One(b = b) > 0
        BY DEF One
      <3>. QED BY <2>4, <3>1, <3>2, <3>3, PlacedHolds
    <2>14. DropFailures(ma_watchers, c) = {}
      BY <2>8, <2>13 DEF DropFailures, HoldsBoth, Fails, g, b
    <2>. QED BY <2>4, <2>11, <2>12, <2>13, <2>14
  <1>. QED BY <1>1, <1>2

\* DropAssumptions(c) leaves the arrays exact.
LEMMA DropsExact ==
  ASSUME WatchInv, NEW c \in Code, DropAssumptions(c)
  PROVE  /\ \A k \in Code, d \in Dict : Placed(ma_watchers'[d], k, Assumes(k, d)')
         /\ \A k \in Code, d \in Dict : Assumes(k, d)' > 0 => k # c /\ Assumes(k, d) > 0
  <1> USE DEF WatchInv, TypeInv
  <1>1. ASSUME NEW k \in Code, NEW d \in Dict
        PROVE  Assumes(k, d)' = IF k = c THEN 0 ELSE Assumes(k, d)
    BY ConstantsAssumption DEF DropAssumptions, Assumes, One, TypeOK
  <1>. QED BY <1>1, DropExact DEF DropAssumptions

\* _PyCode_WatchGlobals() keeps the arrays exact when it watches live dictionaries.
LEMMA WatchExact ==
  ASSUME WatchInv, NEW c \in liveCodes, NEW g \in liveDicts, NEW b \in liveDicts,
         WatchGlobals(c, g, b), UNCHANGED <<liveCodes, liveDicts>>
  PROVE  ArraysPlaced' /\ WatcherAssertionsHold'
  <1> USE DEF WatchInv, TypeInv
  <1>0. c \in Code /\ g \in Dict /\ b \in Dict
    BY DEF TypeOK
  <1>1. CASE {g, b} \subseteq Exact
    <2> DEFINE M == ma_watchers
               A == Add(M, g, c)
               added == Add(A, b, c)
               D == DropBoth(M, c)
               F == Add(D, g, c)
               R == Add(F, b, c)
    <2>1. M \in [Dict -> Seq(Code)]
      BY DEF TypeOK
    <2>2. A \in [Dict -> Seq(Code)]
      BY <1>0, <2>1, AddIs
    <2>3. HoldsBoth(A, c) /\ DropBoth(A, c) = F
      BY <1>0, <2>1, DropExact, DropBothAdd
    <2>4. HoldsBoth(added, c) /\ DropBoth(added, c) = R
      <3> HIDE DEF A, F
      <3>1. HoldsBoth(added, c) /\ DropBoth(added, c) = Add(DropBoth(A, c), b, c)
        BY <1>0, <2>2, <2>3, DropBothAdd
      <3>. QED BY <2>3, <3>1
    <2>5. /\ ma_watchers' = R
          /\ co_assumed_globals' = [co_assumed_globals EXCEPT ![c] = g]
          /\ co_assumed_builtins' = [co_assumed_builtins EXCEPT ![c] = b]
          /\ failed' = failed
            \cup Fails("AddTwice", g # b /\ ~Holds(ma_watchers[g], c) /\ ~Holds(ma_watchers[b], c))
            \cup DropFailures(added, c)
      BY <1>1, <2>4 DEF WatchGlobals
    <2>6. DropFailures(added, c) = {}
      <3>1. DropFailures(ma_watchers, c) = {}
        BY <1>0, DropExact
      <3>2. Watching(c) => {co_assumed_globals[c], co_assumed_builtins[c]} \subseteq liveDicts
        BY <3>1 DEF DropFailures, Fails
      <3> HIDE DEF added
      <3>. QED BY <2>4, <3>2 DEF DropFailures, HoldsBoth, Fails
    <2>7. /\ D \in [Dict -> Seq(Code)]
          /\ \A k \in Code, d \in Dict : Placed(D[d], k, IF k = c THEN 0 ELSE Assumes(k, d))
      BY <1>0, <2>1, DropBothType, DropExact
    <2>8. /\ F \in [Dict -> Seq(Code)] /\ F[g] = Append(D[g], c)
          /\ \A e \in Dict \ {g} : F[e] = D[e]
      BY <1>0, <2>7, AddIs
    <2>9. /\ R \in [Dict -> Seq(Code)] /\ R[b] = Append(F[b], c)
          /\ \A e \in Dict \ {b} : R[e] = F[e]
      <3> HIDE DEF F
      <3>. QED BY <1>0, <2>8, AddIs
    <2> HIDE DEF M, A, added, D, F, R
    <2>10. ASSUME NEW k \in Code, NEW d \in Dict
           PROVE  /\ k = c => Assumes(k, d)' = One(g = d) + One(b = d)
                  /\ k # c => Assumes(k, d)' = Assumes(k, d)
      <3>1. k = c => co_assumed_globals'[k] = g /\ co_assumed_builtins'[k] = b
        BY <1>0, <2>5 DEF TypeOK
      <3>2. k # c => /\ co_assumed_globals'[k] = co_assumed_globals[k]
                     /\ co_assumed_builtins'[k] = co_assumed_builtins[k]
        BY <2>5 DEF TypeOK
      <3>. QED BY <3>1, <3>2 DEF Assumes
    <2>11. ASSUME NEW d \in Dict PROVE Placed(R[d], c, One(g = d) + One(b = d))
      <3>1. D[d] \in Seq(Code) /\ Placed(D[d], c, 0)
        BY <1>0, <2>7
      <3>2. Placed(Append(D[d], c), c, 1) /\ Placed(Append(Append(D[d], c), c), c, 2)
        BY <1>0, <3>1, PlacedAppend
      <3>3. CASE g = d /\ b = d
        <4>1. R[d] = Append(Append(D[d], c), c)
          BY <2>8, <2>9, <3>3
        <4>. QED BY <3>2, <3>3, <4>1 DEF One
      <3>4. CASE g = d /\ b # d
        <4>1. R[d] = Append(D[d], c)
          BY <2>8, <2>9, <3>4
        <4>. QED BY <3>2, <3>4, <4>1 DEF One
      <3>5. CASE g # d /\ b = d
        <4>1. R[d] = Append(D[d], c)
          BY <2>8, <2>9, <3>5
        <4>. QED BY <3>2, <3>5, <4>1 DEF One
      <3>6. CASE g # d /\ b # d
        <4>1. R[d] = D[d]
          BY <2>8, <2>9, <3>6
        <4>. QED BY <3>1, <3>6, <4>1 DEF One
      <3>. QED BY <3>3, <3>4, <3>5, <3>6
    <2>12. ASSUME NEW k \in Code, k # c, NEW d \in Dict PROVE Placed(R[d], k, Assumes(k, d))
      <3> DEFINE n == Assumes(k, d)
      <3>1. n \in Nat /\ D[d] \in Seq(Code) /\ Placed(D[d], k, n)
        BY <2>7, <2>12, AssumesType
      <3> HIDE DEF n
      <3>2. Placed(Append(D[d], c), k, n)
        BY <1>0, <2>12, <3>1, PlacedAppendOther
      <3>3. F[d] \in Seq(Code) /\ Placed(F[d], k, n)
        BY <2>8, <3>1, <3>2
      <3>4. Placed(Append(F[d], c), k, n)
        BY <1>0, <2>12, <3>1, <3>3, PlacedAppendOther
      <3>5. Placed(R[d], k, n)
        BY <2>9, <3>3, <3>4
      <3>. QED BY <3>5 DEF n
    <2>13. ASSUME NEW k \in Code, NEW d \in Dict
           PROVE  /\ Placed(ma_watchers'[d], k, Assumes(k, d)')
                  /\ Assumes(k, d)' > 0 => k \in liveCodes' /\ d \in liveDicts'
      <3>1. CASE k = c
        <4>1. One(g = d) + One(b = d) > 0 => d \in liveDicts
          BY DEF One
        <4>. QED BY <2>5, <2>10, <2>11, <3>1, <4>1
      <3>2. CASE k # c
        BY <2>5, <2>10, <2>12, <3>2 DEF ArraysPlaced
      <3>. QED BY <3>1, <3>2
    <2>14. failed' \subseteq failed \cup {"AddTwice"}
      BY <2>5, <2>6 DEF Fails
    <2>. QED BY <2>13, <2>14 DEF ArraysPlaced, WatcherAssertionsHold
  <1>2. CASE ~({g, b} \subseteq Exact)
    BY <1>2 DEF WatchGlobals, ArraysPlaced, WatcherAssertionsHold, Assumes
  <1>. QED BY <1>1, <1>2

\* The code objects that have assumed d.
Watchers(d) == {c \in Code : Assumes(c, d) > 0}

\* Invalidation of each code object of C, once.
Retires(C) ==
  /\ co_use_llvm' = [c \in Code |-> co_use_llvm[c] /\ c \notin C]
  /\ co_fatalbailcount' = [c \in Code |->
       IF c \in C /\ co_fatalbailcount[c] < PY_MAX_FATALBAILCOUNT
       THEN co_fatalbailcount[c] + 1 ELSE co_fatalbailcount[c]]

LEMMA InvalidateIs ==
  ASSUME TypeOK, NEW C \in SUBSET Code, NEW times, \A c \in Code : times[c] = One(c \in C),
         Invalidate(times)
  PROVE  Retires(C)
  <1>1. \A c \in Code : times[c] = 0 <=> c \notin C
    BY DEF One
  <1>2. \A c \in Code : co_fatalbailcount[c] \in 0..PY_MAX_FATALBAILCOUNT
    BY DEF TypeOK
  <1>3. \A c \in Code : co_use_llvm[c] /\ times[c] = 0 <=> co_use_llvm[c] /\ c \notin C
    BY <1>1
  <1>4. ASSUME NEW c \in Code
        PROVE  (IF co_fatalbailcount[c] + times[c] < PY_MAX_FATALBAILCOUNT
                THEN co_fatalbailcount[c] + times[c] ELSE PY_MAX_FATALBAILCOUNT)
               = (IF c \in C /\ co_fatalbailcount[c] < PY_MAX_FATALBAILCOUNT
                  THEN co_fatalbailcount[c] + 1 ELSE co_fatalbailcount[c])
    <2>1. CASE c \in C
      <3>1. times[c] = 1
        BY <2>1 DEF One
      <3>. QED BY <1>2, <2>1, <3>1, ConstantsAssumption
    <2>2. CASE c \notin C
      <3>1. times[c] = 0
        BY <2>2 DEF One
      <3>. QED BY <1>2, <2>2, <3>1, ConstantsAssumption
    <2>. QED BY <2>1, <2>2
  <1>. QED BY <1>3, <1>4 DEF Invalidate, Retires

\* notify_watchers(d) retires the code objects that have assumed d, which assume nothing
\* any more, and leaves every array exact.
LEMMA NotifyIs ==
  ASSUME WatchInv, NEW d \in Dict, NotifyWatchers(d)
  PROVE  /\ Retires(Watchers(d)) /\ failed' = failed
         /\ \A c \in Code :
              /\ co_assumed_globals'[c] =
                   IF c \in Watchers(d) THEN NoDict ELSE co_assumed_globals[c]
              /\ co_assumed_builtins'[c] =
                   IF c \in Watchers(d) THEN NoDict ELSE co_assumed_builtins[c]
         /\ \A c \in Code, e \in Dict : Placed(ma_watchers'[e], c, Assumes(c, e)')
         /\ \A c \in Code, e \in Dict : Assumes(c, e)' > 0 => e # d /\ Assumes(c, e) > 0
  <1> DEFINE walk == Walk(d)
  <1> USE DEF WatchInv, TypeInv
  <1>1. /\ walk \in Walks(d) /\ walk.failed = failed
        /\ \A x \in Code : walk.visits[x] = One(Assumes(x, d) > 0)
        /\ \A x \in Code, e \in Dict :
             Placed(walk.arrays[e], x, IF Assumes(x, d) > 0 THEN 0 ELSE Assumes(x, e))
    BY WalkExact
  <1>2. /\ Invalidate(walk.visits)
        /\ ma_watchers' = [walk.arrays EXCEPT ![d] = <<>>]
        /\ co_assumed_globals' =
             [c \in Code |-> IF walk.visits[c] > 0 THEN NoDict ELSE co_assumed_globals[c]]
        /\ co_assumed_builtins' =
             [c \in Code |-> IF walk.visits[c] > 0 THEN NoDict ELSE co_assumed_builtins[c]]
        /\ failed' = walk.failed
    BY DEF NotifyWatchers
  <1> HIDE DEF walk
  <1>3. walk.arrays \in [Dict -> Seq(Code \cup {NoCode})]
    BY <1>1 DEF Walks
  <1>4. \A c \in Code : /\ walk.visits[c] = One(c \in Watchers(d))
                        /\ walk.visits[c] > 0 <=> c \in Watchers(d)
    BY <1>1 DEF Watchers, One
  <1>5. Retires(Watchers(d))
    <2>1. Watchers(d) \in SUBSET Code
      BY DEF Watchers
    <2>. QED BY <1>2, <1>4, <2>1, InvalidateIs
  <1>6. \A c \in Code :
          /\ co_assumed_globals'[c] = IF c \in Watchers(d) THEN NoDict ELSE co_assumed_globals[c]
          /\ co_assumed_builtins'[c] = IF c \in Watchers(d) THEN NoDict ELSE co_assumed_builtins[c]
    BY <1>2, <1>4
  <1>7. ASSUME NEW c \in Code, NEW e \in Dict
        PROVE  Assumes(c, e)' = IF c \in Watchers(d) THEN 0 ELSE Assumes(c, e)
    BY <1>6, ConstantsAssumption DEF Assumes, One
  <1>8. ASSUME NEW c \in Code, NEW e \in Dict
        PROVE  /\ Placed(ma_watchers'[e], c, Assumes(c, e)')
               /\ Assumes(c, e)' > 0 => e # d /\ Assumes(c, e) > 0
    <2>1. c \notin Watchers(d) => Assumes(c, d) = 0
      <3>1. Assumes(c, d) \in 0..2
        BY AssumesType
      <3>. QED BY <3>1 DEF Watchers
    <2>2. CASE e = d
      <3>1. ma_watchers'[e] = <<>>
        BY <1>2, <1>3, <2>2
      <3>2. Assumes(c, e)' = 0
        BY <1>7, <2>1, <2>2
      <3>3. <<>> \in Seq(Code) /\ ~Holds(<<>>, c)
        BY DEF Holds
      <3>4. Placed(<<>>, c, 0)
        BY <3>3, PlacedNot
      <3>5. ~(Assumes(c, e)' > 0)
        BY <3>2
      <3>. QED BY <3>1, <3>2, <3>4, <3>5
    <2>3. CASE e # d
      <3>1. ma_watchers'[e] = walk.arrays[e]
        BY <1>2, <1>3, <2>3
      <3>2. Assumes(c, e)' = IF Assumes(c, d) > 0 THEN 0 ELSE Assumes(c, e)
        BY <1>7 DEF Watchers
      <3>3. Placed(walk.arrays[e], c, IF Assumes(c, d) > 0 THEN 0 ELSE Assumes(c, e))
        BY <1>1
      <3>. QED BY <2>3, <3>1, <3>2, <3>3
    <2>. QED BY <2>2, <2>3
  <1>. QED BY <1>1, <1>2, <1>5, <1>6, <1>8

\* A failed call that took back its first entry: one entry of c, or none, has neighbours.
LEMMA WatchFailsExact ==
  ASSUME WatchInv, NEW c \in Code, NEW g \in Dict, Assumes(c, g) < 2,
         UNCHANGED <<co_assumed_globals, co_assumed_builtins, liveCodes, liveDicts>>,
         ma_watchers' = Drop(Add(ma_watchers, g, c), g, c)
  PROVE  ArraysPlaced'
  <1> DEFINE M == ma_watchers
             A == Add(M, g, c)
             D == Drop(A, g, c)
             n == Assumes(c, g)
  <1> USE DEF WatchInv, TypeInv
  <1>1. M \in [Dict -> Seq(Code)]
    BY DEF TypeOK
  <1>2. /\ A \in [Dict -> Seq(Code)] /\ A[g] = Append(M[g], c)
        /\ \A e \in Dict \ {g} : A[e] = M[e]
    BY <1>1, AddIs
  <1>3. /\ D \in [Dict -> Seq(Code)] /\ D[g] = DropWatcher(A[g], c)
        /\ \A e \in Dict \ {g} : D[e] = A[e]
    <2> HIDE DEF A
    <2>. QED BY <1>2, DroppedIs
  <1>4. ma_watchers' = D /\ \A k \in Code, e \in Dict : Assumes(k, e)' = Assumes(k, e)
    BY DEF Assumes
  <1>5. n \in 0..2
    BY AssumesType
  <1>6. \A k \in Code, e \in Dict : Placed(M[e], k, Assumes(k, e))
    BY DEF ArraysPlaced
  <1> HIDE DEF M, A, D
  <1>7. Placed(D[g], c, n)
    <2>0. M[g] \in Seq(Code) /\ Placed(M[g], c, n)
      BY <1>1, <1>6
    <2> HIDE DEF n
    <2>1. CASE n = 0
      <3>1. Placed(A[g], c, 1) /\ A[g] \in Seq(Code)
        BY <1>2, <2>0, <2>1, PlacedAppend
      <3>2. Placed(D[g], c, 1 - 1)
        BY <1>3, <3>1, PlacedDrop
      <3>. QED BY <2>1, <3>2
    <2>2. CASE n = 1
      <3>1. Holds(M[g], c)
        BY <2>0, <2>2, PlacedHolds
      <3>2. D[g] = Append(DropWatcher(M[g], c), c)
        BY <1>2, <1>3, <2>0, <3>1, AppendDrop
      <3>3. Placed(DropWatcher(M[g], c), c, 1 - 1)
        BY <2>0, <2>2, PlacedDrop
      <3>4. DropWatcher(M[g], c) \in Seq(Code) /\ Placed(DropWatcher(M[g], c), c, 0)
        BY <2>0, <3>3, DropType
      <3>5. Placed(Append(DropWatcher(M[g], c), c), c, 1)
        BY <3>4, PlacedAppend
      <3>. QED BY <2>2, <3>2, <3>5
    <2>. QED BY <1>5, <2>1, <2>2 DEF n
  <1>8. ASSUME NEW k \in Code, k # c PROVE Placed(D[g], k, Assumes(k, g))
    <2> DEFINE m == Assumes(k, g)
    <2>1. M[g] \in Seq(Code) /\ Placed(M[g], k, m) /\ m \in Nat
      BY <1>1, <1>6, AssumesType
    <2> HIDE DEF m
    <2>2. A[g] \in Seq(Code) /\ Placed(A[g], k, m)
      BY <1>2, <1>8, <2>1, PlacedAppendOther
    <2>3. Placed(D[g], k, m)
      BY <1>3, <1>8, <2>1, <2>2, PlacedDropOther
    <2>. QED BY <2>3 DEF m
  <1>9. \A k \in Code, e \in Dict \ {g} : Placed(D[e], k, Assumes(k, e))
    BY <1>2, <1>3, <1>6
  <1>10. ASSUME NEW k \in Code, NEW e \in Dict PROVE Placed(D[e], k, Assumes(k, e))
    BY <1>7, <1>8, <1>9
  <1>. QED BY <1>4, <1>10 DEF ArraysPlaced

\* A step that leaves the arrays and the assumptions alone.
LEMMA QuietExact ==
  ASSUME WatchInv, UNCHANGED <<ma_watchers, co_assumed_globals, co_assumed_builtins>>,
         liveCodes \subseteq liveCodes', liveDicts \subseteq liveDicts',
         failed' \subseteq failed \cup {"AddTwice", "NoNative", "FatalReentry", "NullDict"}
  PROVE  ArraysPlaced' /\ WatcherAssertionsHold'
  BY DEF WatchInv, ArraysPlaced, WatcherAssertionsHold, Assumes

\* A dictionary operation that notifies d and frees at most d.
LEMMA NotifyStepExact ==
  ASSUME WatchInv, NEW d \in Dict, NotifyWatchers(d),
         liveCodes' = liveCodes, liveDicts \ {d} \subseteq liveDicts'
  PROVE  ArraysPlaced' /\ WatcherAssertionsHold'
  <1>1. \A c \in Code, e \in Dict : Assumes(c, e)' > 0 => c \in liveCodes' /\ e \in liveDicts'
    BY NotifyIs DEF WatchInv, ArraysPlaced
  <1>. QED BY <1>1, NotifyIs DEF ArraysPlaced, WatchInv, WatcherAssertionsHold

LEMMA FinishExact ==
  ASSUME WatchInv, NEW c \in Code, FinishFunction(c), UNCHANGED <<liveCodes, liveDicts>>
  PROVE  ArraysPlaced' /\ WatcherAssertionsHold'
  <1>1. CASE DropAssumptions(c) /\ failed' = failed \cup DropFailures(ma_watchers, c)
    <2>1. failed' = failed
      BY <1>1, DropExact
    <2>. QED BY <1>1, <2>1, DropsExact DEF WatchInv, ArraysPlaced, WatcherAssertionsHold
  <1>2. CASE UNCHANGED <<assumeVars, failed>>
    BY <1>2, QuietExact DEF assumeVars
  <1>. QED BY <1>1, <1>2 DEF FinishFunction

\* The environments of what follows: there is memory for the builtins' array whenever the
\* globals' array has the code object in it twice.
NeverTwiceShort == "nomem_twice" \notin Env

LEMMA DictStepExact == WatchInv /\ DictStep => ArraysPlaced' /\ WatcherAssertionsHold'
  <1> SUFFICES ASSUME WatchInv, DictStep PROVE ArraysPlaced' /\ WatcherAssertionsHold'
    OBVIOUS
  <1> USE DEF assumeVars, heatVars, NotifyFrame
  <1>1. ASSUME NEW d \in Dict, PyDict_New(d) PROVE ArraysPlaced' /\ WatcherAssertionsHold'
    BY <1>1, QuietExact DEF PyDict_New
  <1>2. ASSUME NEW d \in Dict, \/ Dict_dealloc(d) \/ PyDict_Clear(d) \/ Notify(d) \/ MergeEnd(d)
        PROVE  ArraysPlaced' /\ WatcherAssertionsHold'
    BY <1>2, NotifyStepExact DEF Dict_dealloc, PyDict_Clear, Notify, MergeEnd
  <1>3. ASSUME NEW d \in Dict, NEW n \in Name, Dict_pop(d, n)
        PROVE  ArraysPlaced' /\ WatcherAssertionsHold'
    BY <1>3, NotifyStepExact DEF Dict_pop
  <1>4. ASSUME NEW d \in Dict, NEW n \in Name, NEW v \in Value, SetItemNew(d, n, v)
        PROVE  ArraysPlaced' /\ WatcherAssertionsHold'
    BY <1>4, NotifyStepExact DEF SetItemNew
  <1>5. ASSUME NEW d \in Dict, NEW n \in Name,
               \/ DelItem(d, n) \/ MergeEntry(d, n) \/ \E v \in Value : SetItemReplace(d, n, v)
        PROVE  ArraysPlaced' /\ WatcherAssertionsHold'
    BY <1>5, QuietExact DEF DelItem, SetItemReplace, StoreAndDrop, MergeEntry
  <1>6. ASSUME NEW d \in Dict,
               \/ MergeFail(d)
               \/ \E other \in Dict, override \in BOOLEAN : MergeBegin(d, other, override)
        PROVE  ArraysPlaced' /\ WatcherAssertionsHold'
    BY <1>6, QuietExact DEF MergeFail, MergeBegin
  <1>. QED BY <1>1, <1>2, <1>3, <1>4, <1>5, <1>6 DEF DictStep

LEMMA CodeStepExact == WatchInv /\ CodeStep => ArraysPlaced' /\ WatcherAssertionsHold'
  <1> SUFFICES ASSUME WatchInv, CodeStep PROVE ArraysPlaced' /\ WatcherAssertionsHold'
    OBVIOUS
  <1> USE DEF dictVars
  <1>1. ASSUME NEW c \in Code, PyCode_New(c) PROVE ArraysPlaced' /\ WatcherAssertionsHold'
    <2>1. \A d \in Dict : Assumes(c, d) = 0
      <3>1. \A d \in Dict : Assumes(c, d) \in 0..2
        BY AssumesType
      <3>. QED BY <1>1, <3>1 DEF WatchInv, ArraysPlaced, PyCode_New
    <2>2. ASSUME NEW k \in Code, NEW d \in Dict PROVE Assumes(k, d)' = Assumes(k, d)
      <3>1. CASE k = c
        BY <1>1, <2>1, <3>1, ConstantsAssumption
        DEF PyCode_New, Assumes, One, WatchInv, TypeInv, TypeOK
      <3>2. CASE k # c
        BY <1>1, <3>2 DEF PyCode_New, Assumes, WatchInv, TypeInv, TypeOK
      <3>. QED BY <3>1, <3>2
    <2>. QED BY <1>1, <2>2 DEF PyCode_New, WatchInv, ArraysPlaced, WatcherAssertionsHold
  <1>2. ASSUME NEW c \in Code, Code_dealloc(c) PROVE ArraysPlaced' /\ WatcherAssertionsHold'
    <2>1. failed' = failed
      BY <1>2, DropExact DEF Code_dealloc
    <2>. QED BY <1>2, <2>1, DropsExact
         DEF Code_dealloc, WatchInv, ArraysPlaced, WatcherAssertionsHold
  <1>3. ASSUME NEW c \in Code, Set_optimization(c) \/ Llvmfunction_str(c)
        PROVE  ArraysPlaced' /\ WatcherAssertionsHold'
    <2>1. CASE Crash
      BY <2>1, QuietExact DEF Crash, assumeVars
    <2>2. CASE FinishFunction(c) /\ UNCHANGED <<liveCodes, liveDicts>>
      BY <2>2, FinishExact
    <2>. QED BY <1>3, <2>1, <2>2 DEF Set_optimization, Llvmfunction_str
  <1>4. ASSUME NEW c \in Code, NEW b \in BOOLEAN, Set_use_llvm(c, b)
        PROVE  ArraysPlaced' /\ WatcherAssertionsHold'
    BY <1>4, QuietExact DEF Set_use_llvm, CodeFrame, assumeVars
  <1>5. ASSUME NEW C \in SUBSET Code, PyType_Modified(C)
        PROVE  ArraysPlaced' /\ WatcherAssertionsHold'
    BY <1>5, QuietExact DEF PyType_Modified, assumeVars
  <1>6. ASSUME NEW m \in Modes, SetJitControl(m)
        PROVE  ArraysPlaced' /\ WatcherAssertionsHold'
    BY <1>6, QuietExact DEF SetJitControl, assumeVars
  <1>. QED BY <1>1, <1>2, <1>3, <1>4, <1>5, <1>6 DEF CodeStep

LEMMA CallStepExact ==
  ASSUME NeverTwiceShort PROVE WatchInv /\ CallStep => ArraysPlaced' /\ WatcherAssertionsHold'
  <1> SUFFICES ASSUME WatchInv, NEW f \in Frame, NEW c \in Code, NEW g \in Dict, NEW b \in Dict,
                      \/ CallInterpreted(f, c, g, b) \/ CallCompiled(f, c, g, b)
                      \/ CallJit(f, c, g, b) \/ CallRefused(f, c, g, b)
                      \/ CallCompile(f, c, g, b) \/ CallWatchFails(f, c, g, b)
               PROVE  ArraysPlaced' /\ WatcherAssertionsHold'
    BY DEF CallStep
  <1> USE DEF Call, dictVars
  <1>1. CASE CallInterpreted(f, c, g, b) \/ CallCompiled(f, c, g, b) \/ CallJit(f, c, g, b)
    BY <1>1, QuietExact DEF CallInterpreted, CallCompiled, CallJit, assumeVars
  <1>2. CASE CallWatchFails(f, c, g, b)
    <2>1. failed' \subseteq failed \cup {"AddTwice"}
      BY <1>2 DEF CallWatchFails, Fails
    <2>2. WatcherAssertionsHold'
      BY <2>1 DEF WatchInv, WatcherAssertionsHold
    <2>3. CASE UNCHANGED <<ma_watchers, failed>>
      BY <1>2, <2>3, QuietExact DEF CallWatchFails
    <2>4. CASE Assumes(c, g) < 2 /\ ma_watchers' = Drop(Add(ma_watchers, g, c), g, c)
      BY <1>2, <2>2, <2>4, WatchFailsExact DEF CallWatchFails
    <2>. QED BY <1>2, <2>3, <2>4 DEF CallWatchFails, NeverTwiceShort
  <1>3. CASE CallRefused(f, c, g, b) \/ CallCompile(f, c, g, b)
    BY <1>3, WatchExact DEF CallRefused, CallCompile
  <1>. QED BY <1>1, <1>2, <1>3

LEMMA FrameActionExact == WatchInv /\ FrameActions => ArraysPlaced' /\ WatcherAssertionsHold'
  <1> SUFFICES ASSUME WatchInv, NEW f \in Frame,
                      \/ Compile(f) \/ CompileFails(f) \/ EvalInterpreted(f) \/ EvalNative(f)
                      \/ Bail(f) \/ Yield(f) \/ Return(f) \/ ForIter(f)
               PROVE  ArraysPlaced' /\ WatcherAssertionsHold'
    BY DEF FrameActions
  <1> USE DEF dictVars
  <1>1. CASE Compile(f)
    <2>1. frame[f].code \in Code
      BY <1>1 DEF Compile, WatchInv, TypeInv, TypeOK, FrameRecord, Free
    <2>2. CASE Crash
      BY <2>2, QuietExact DEF Crash, assumeVars
    <2>3. CASE FinishFunction(frame[f].code) /\ UNCHANGED <<liveCodes, liveDicts>>
      BY <2>1, <2>3, FinishExact
    <2>. QED BY <1>1, <2>2, <2>3 DEF Compile
  <1>2. CASE CompileFails(f) \/ Bail(f) \/ Yield(f) \/ Return(f) \/ ForIter(f)
    BY <1>2, QuietExact DEF CompileFails, Bail, Yield, Return, ForIter, FrameStep, assumeVars
  <1>3. CASE EvalInterpreted(f) \/ EvalNative(f)
    BY <1>3, QuietExact DEF EvalInterpreted, EvalNative, FrameStep, Fails, assumeVars
  <1>. QED BY <1>1, <1>2, <1>3

LEMMA InitWatched == Init => WatchInv
  <1> SUFFICES ASSUME Init PROVE ArraysPlaced /\ WatcherAssertionsHold
    BY InitTypes DEF WatchInv
  <1>1. \A c \in Code, d \in Dict : Assumes(c, d) = 0
    BY ConstantsAssumption DEF Init, Assumes, One
  <1>2. \A c \in Code, d \in Dict : Placed(ma_watchers[d], c, 0)
    <2>1. \A c \in Code : <<>> \in Seq(Code) /\ ~Holds(<<>>, c)
      BY DEF Holds
    <2>2. \A c \in Code : Placed(<<>>, c, 0)
      BY <2>1, PlacedNot
    <2>. QED BY <2>2 DEF Init
  <1>. QED BY <1>1, <1>2 DEF Init, ArraysPlaced, WatcherAssertionsHold

LEMMA WatchInvInductive == ASSUME NeverTwiceShort PROVE Spec => []WatchInv
  <1>1. Init => WatchInv
    BY InitWatched
  <1>2. WatchInv /\ [Next]_vars => WatchInv'
    <2>1. TypeInv /\ [Next]_vars => TypeInv'
      BY DictStepTypes, CodeStepTypes, CallStepTypes, FrameActionTypes, StutterTypes DEF Next
    <2>2. WatchInv /\ UNCHANGED vars => ArraysPlaced' /\ WatcherAssertionsHold'
      BY QuietExact DEF vars, dictVars, assumeVars
    <2>. QED BY <2>1, <2>2, DictStepExact, CodeStepExact, CallStepExact, FrameActionExact
         DEF Next, WatchInv
  <1>. QED BY <1>1, <1>2, PTL DEF Spec

\* Whatever programs and re-entered code do, a code object is in the watcher arrays exactly as
\* often as it assumes dictionaries, and both ends are allocated (_PyCode_WatchGlobals,
\* FinishFunction, notify_watchers, code_dealloc, dict_dealloc); except that the add of the
\* builtins must not run out of memory while the globals' array holds the code object twice.
THEOREM WatchersAlwaysExact == ASSUME NeverTwiceShort PROVE Spec => []WatchersExact
  <1>1. WatchInv => WatchersExact
    BY PlacedExact DEF WatchInv
  <1>. QED BY <1>1, WatchInvInductive, PTL

\* So, under the same exception, no call drops a watcher that is not there, notifies a code
\* object that does not watch, or follows a pointer to a freed dictionary or code object.
THEOREM WatcherAssertionsAlwaysHold ==
  ASSUME NeverTwiceShort PROVE Spec => []WatcherAssertionsHold
  <1>1. WatchInv => WatcherAssertionsHold
    BY DEF WatchInv
  <1>. QED BY <1>1, WatchInvInductive, PTL

-----------------------------------------------------------------------------
(* Embedded globals are current.                                             *)

\* The environments in which they are: each code object runs with one namespace, a
\* single invalidation retires the machine code, a merge does not fail half way, no
\* watcher array is left without its order, and nothing recompiles or re-enables code
\* behind the watchers' back.
Orderly ==
  /\ PY_MAX_FATALBAILCOUNT = 1
  /\ \A c \in Code : \A p, q \in Namespaces[c] : p = q
  /\ Env \cap {"collect", "merge_fails", "nomem_twice", "print_ir", "reenable"} = {}

\* Invalidated code is not marked for native execution.
RetiredOff == \A c \in Code : Invalidated(c) => ~co_use_llvm[c]

\* What IR or machine code of c embeds is what c's lookups find, up to a pending change.
Current(c, e) ==
  e \in Value =>
    /\ Watching(c)
    /\ \/ Pending(co_assumed_globals[c]) \/ Pending(co_assumed_builtins[c])
       \/ e = Lookup(co_assumed_globals[c], co_assumed_builtins[c], Loads[c])
EmbeddedCurrent ==
  \A c \in Code : \/ Invalidated(c)
                  \/ Current(c, co_llvm_function[c]) /\ Current(c, co_native_function[c])

OwnNamespace ==
  /\ \A c \in Code : Watching(c) =>
       <<co_assumed_globals[c], co_assumed_builtins[c]>> \in Namespaces[c]
  /\ \A f \in Frame : Busy(f) =>
       <<frame[f].globals, frame[f].builtins>> \in Namespaces[frame[f].code]

\* One frame compiles at a time, and only code that has neither IR nor machine code.
MadeOnce ==
  /\ \A c \in Code : co_llvm_function[c] = NoIR => co_native_function[c] = NoIR
  /\ \A f \in Frame : frame[f].pc = "compile" => co_llvm_function[frame[f].code] = NoIR
  /\ \A f, h \in Frame : frame[f].pc = "compile" /\ frame[h].pc = "compile" => f = h

FreshInv == WatchInv /\ RetiredOff /\ EmbeddedCurrent /\ OwnNamespace /\ MadeOnce

LEMMA InitFresh == Init => RetiredOff /\ EmbeddedCurrent /\ OwnNamespace /\ MadeOnce
  BY ConstantsAssumption
  DEF Init, RetiredOff, EmbeddedCurrent, OwnNamespace, MadeOnce, Invalidated, Current,
      Watching, Busy, Free

\* Invalidation retires a code object at once, and takes nothing back.
LEMMA InvalidateRetires ==
  ASSUME Orderly, FreshInv, NEW C \in SUBSET Code, Retires(C)
  PROVE  /\ RetiredOff'
         /\ \A c \in C : Invalidated(c)'
         /\ \A c \in Code : Invalidated(c) => Invalidated(c)'
  <1> USE DEF FreshInv, WatchInv, TypeInv
  <1>1. \A c \in Code : co_fatalbailcount[c] \in 0..1
    BY DEF TypeOK, Orderly
  <1>2. \A c \in Code : co_fatalbailcount'[c] = IF c \in C THEN 1 ELSE co_fatalbailcount[c]
    BY <1>1 DEF Retires, Orderly
  <1>3. \A c \in Code : Invalidated(c) <=> co_fatalbailcount[c] = 1
    BY <1>1 DEF Invalidated, Orderly
  <1>4. \A c \in Code : Invalidated(c)' <=> c \in C \/ Invalidated(c)
    BY <1>1, <1>2, <1>3 DEF Invalidated, Orderly
  <1>5. \A c \in Code : co_use_llvm'[c] => co_use_llvm[c] /\ c \notin C
    BY DEF Retires
  <1>. QED BY <1>4, <1>5 DEF RetiredOff

\* After notify_watchers(d) no valid code depends on d, so d may have changed in any way.
LEMMA NotifyFresh ==
  ASSUME Orderly, FreshInv, NEW d \in Dict, NotifyWatchers(d), UNCHANGED irVars,
         \A e \in Dict \ {d} : value'[e] = value[e] /\ (Pending(e) => Pending(e)')
  PROVE  RetiredOff' /\ EmbeddedCurrent'
  <1> USE DEF FreshInv, WatchInv, TypeInv
  <1>1. /\ RetiredOff'
        /\ \A c \in Watchers(d) : Invalidated(c)'
        /\ \A c \in Code : Invalidated(c) => Invalidated(c)'
    BY NotifyIs, InvalidateRetires DEF Watchers
  <1>2. ASSUME NEW c \in Code, ~Invalidated(c)', NEW x, Current(c, x)
        PROVE  Current(c, x)'
    <2>1. c \notin Watchers(d)
      BY <1>1, <1>2
    <2>2. co_assumed_globals[c] # d /\ co_assumed_builtins[c] # d
      BY <2>1 DEF Watchers, Assumes, One
    <2>3. /\ co_assumed_globals'[c] = co_assumed_globals[c]
          /\ co_assumed_builtins'[c] = co_assumed_builtins[c]
      BY <2>1, NotifyIs
    <2>4. SUFFICES ASSUME x \in Value PROVE Current(c, x)'
      BY DEF Current
    <2>5. Watching(c) /\ Watching(c)'
      BY <1>2, <2>3, <2>4 DEF Current, Watching
    <2>6. /\ co_assumed_globals[c] \in Dict \ {d}
          /\ co_assumed_builtins[c] \in Dict \ {d}
      BY <2>2, <2>5 DEF Watching, TypeOK, AssumptionsPaired
    <2>7. Lookup(co_assumed_globals[c], co_assumed_builtins[c], Loads[c])'
            = Lookup(co_assumed_globals[c], co_assumed_builtins[c], Loads[c])
      BY <2>3, <2>6 DEF Lookup
    <2>8. /\ Pending(co_assumed_globals[c]) => Pending(co_assumed_globals[c])'
          /\ Pending(co_assumed_builtins[c]) => Pending(co_assumed_builtins[c])'
      BY <2>3, <2>6 DEF Pending
    <2>. QED BY <1>2, <2>4, <2>5, <2>7, <2>8 DEF Current
  <1>3. ASSUME NEW c \in Code, ~Invalidated(c)'
        PROVE  Current(c, co_llvm_function[c])' /\ Current(c, co_native_function[c])'
    <2>1. Current(c, co_llvm_function[c]) /\ Current(c, co_native_function[c])
      BY <1>1, <1>3 DEF EmbeddedCurrent
    <2>. QED BY <1>2, <1>3, <2>1 DEF irVars, Current
  <1>. QED BY <1>1, <1>3 DEF EmbeddedCurrent

\* A step that changes no code object, and dictionaries only while they are pending.
LEMMA QuietFresh ==
  ASSUME Orderly, FreshInv, UNCHANGED <<irVars, co_assumed_globals, co_assumed_builtins>>,
         RetiredOff', \A c \in Code : Invalidated(c) => Invalidated(c)',
         \A d \in Dict : /\ Pending(d) => Pending(d)'
                         /\ value'[d] # value[d] => Pending(d)'
  PROVE  RetiredOff' /\ EmbeddedCurrent'
  <1> USE DEF FreshInv, WatchInv, TypeInv
  <1>1. ASSUME NEW c \in Code, NEW x, Current(c, x)
        PROVE  Current(c, x)'
    <2>1. SUFFICES ASSUME x \in Value PROVE Current(c, x)'
      BY DEF Current
    <2>2. Watching(c) /\ Watching(c)'
      BY <1>1, <2>1 DEF Current, Watching
    <2>3. co_assumed_globals[c] \in Dict /\ co_assumed_builtins[c] \in Dict
      BY <2>2 DEF Watching, TypeOK, AssumptionsPaired
    <2>4. \/ Pending(co_assumed_globals[c])' \/ Pending(co_assumed_builtins[c])'
          \/ Lookup(co_assumed_globals[c], co_assumed_builtins[c], Loads[c])'
               = Lookup(co_assumed_globals[c], co_assumed_builtins[c], Loads[c])
      BY <2>3 DEF Lookup, Pending
    <2>5. /\ Pending(co_assumed_globals[c]) => Pending(co_assumed_globals[c])'
          /\ Pending(co_assumed_builtins[c]) => Pending(co_assumed_builtins[c])'
      BY <2>3 DEF Pending
    <2>. QED BY <1>1, <2>1, <2>2, <2>4, <2>5 DEF Current
  <1>2. ASSUME NEW c \in Code, ~Invalidated(c)'
        PROVE  Current(c, co_llvm_function[c])' /\ Current(c, co_native_function[c])'
    <2>1. Current(c, co_llvm_function[c]) /\ Current(c, co_native_function[c])
      BY <1>2 DEF EmbeddedCurrent
    <2>. QED BY <1>1, <2>1 DEF irVars, Current
  <1>. QED BY <1>2 DEF EmbeddedCurrent

\* A step that neither assumes new dictionaries nor makes new frames.
LEMMA KeptNamespace ==
  ASSUME OwnNamespace,
         \A c \in Code : Watching(c)' =>
           /\ co_assumed_globals'[c] = co_assumed_globals[c]
           /\ co_assumed_builtins'[c] = co_assumed_builtins[c],
         \A f \in Frame : frame'[f].pc # "free" =>
           /\ Busy(f) /\ frame'[f].code = frame[f].code
           /\ frame'[f].globals = frame[f].globals
           /\ frame'[f].builtins = frame[f].builtins
  PROVE  OwnNamespace'
  BY DEF OwnNamespace, Busy, Watching

LEMMA DictStepFresh ==
  ASSUME Orderly, FreshInv, DictStep
  PROVE  RetiredOff' /\ EmbeddedCurrent' /\ OwnNamespace' /\ MadeOnce'
  <1> USE DEF NotifyFrame, heatVars, assumeVars
  <1>0. TypeOK /\ RetiredOff /\ OwnNamespace /\ MadeOnce
    BY DEF FreshInv, WatchInv, TypeInv
  <1>1. ASSUME NEW d \in Dict, PyDict_New(d) PROVE RetiredOff' /\ EmbeddedCurrent'
    BY <1>0, <1>1, QuietFresh DEF PyDict_New, RetiredOff, Invalidated, Pending
  <1>2. ASSUME NEW d \in Dict, Dict_dealloc(d) \/ PyDict_Clear(d) PROVE RetiredOff' /\ EmbeddedCurrent'
    BY <1>0, <1>2, NotifyFresh DEF Dict_dealloc, PyDict_Clear, Pending, TypeOK
  <1>3. ASSUME NEW d \in Dict, Notify(d) \/ MergeEnd(d) PROVE RetiredOff' /\ EmbeddedCurrent'
    BY <1>0, <1>3, NotifyFresh DEF Notify, MergeEnd, Pending, TypeOK
  <1>4. ASSUME NEW d \in Dict, NEW n \in Name, Dict_pop(d, n) PROVE RetiredOff' /\ EmbeddedCurrent'
    BY <1>0, <1>4, NotifyFresh DEF Dict_pop, Pending, TypeOK
  <1>5. ASSUME NEW d \in Dict, NEW n \in Name, NEW v \in Value, SetItemNew(d, n, v)
        PROVE  RetiredOff' /\ EmbeddedCurrent'
    BY <1>0, <1>5, NotifyFresh DEF SetItemNew, Pending, TypeOK
  <1>6. ASSUME NEW d \in Dict, NEW n \in Name, NEW v, StoreAndDrop(d, n, v)
        PROVE  RetiredOff' /\ EmbeddedCurrent'
    <2>1. \A e \in Dict : Pending(e) => Pending(e)'
      BY <1>0, <1>6 DEF StoreAndDrop, Pending, TypeOK
    <2>2. \A e \in Dict : value'[e] # value[e] => e = d
      BY <1>0, <1>6 DEF StoreAndDrop, TypeOK
    <2>3. Pending(d)'
      BY <1>0, <1>6 DEF StoreAndDrop, Pending, TypeOK
    <2>. QED BY <1>0, <1>6, <2>1, <2>2, <2>3, QuietFresh
         DEF StoreAndDrop, RetiredOff, Invalidated
  <1>7. ASSUME NEW d \in Dict, NEW n \in Name, MergeEntry(d, n)
        PROVE  RetiredOff' /\ EmbeddedCurrent'
    <2>1. merging[d] \in MergeRecord
      BY <1>0, <1>7 DEF MergeEntry, TypeOK, NotMerging
    <2>2. merging'[d].from \in Dict /\ \A e \in Dict \ {d} : merging'[e] = merging[e]
      BY <1>0, <1>7, <2>1 DEF MergeEntry, TypeOK, MergeRecord
    <2>3. Pending(d)'
      BY <2>2, ConstantsAssumption DEF Pending, NotMerging
    <2>4. \A e \in Dict \ {d} : value'[e] = value[e] /\ (Pending(e) => Pending(e)')
      BY <1>0, <1>7, <2>2 DEF MergeEntry, TypeOK, Pending
    <2>. QED BY <1>0, <1>7, <2>3, <2>4, QuietFresh DEF MergeEntry, RetiredOff, Invalidated
  <1>8. ASSUME NEW d \in Dict, NEW other \in Dict, NEW override \in BOOLEAN,
               MergeBegin(d, other, override)
        PROVE  RetiredOff' /\ EmbeddedCurrent'
    BY <1>0, <1>8, QuietFresh DEF MergeBegin, RetiredOff, Invalidated, Pending, TypeOK
  <1>9. ASSUME NEW d \in Dict, MergeFail(d) PROVE FALSE
    BY <1>9 DEF MergeFail, Orderly
  <1>10. RetiredOff' /\ EmbeddedCurrent'
    BY <1>1, <1>2, <1>3, <1>4, <1>5, <1>6, <1>7, <1>8, <1>9
    DEF DictStep, DelItem, SetItemReplace
  <1>11. /\ UNCHANGED <<irVars, frame>>
         /\ \A c \in Code : Watching(c)' =>
              /\ co_assumed_globals'[c] = co_assumed_globals[c]
              /\ co_assumed_builtins'[c] = co_assumed_builtins[c]
    <2>1. ASSUME NEW d \in Dict, NotifyWatchers(d), NEW c \in Code, Watching(c)'
          PROVE  /\ co_assumed_globals'[c] = co_assumed_globals[c]
                 /\ co_assumed_builtins'[c] = co_assumed_builtins[c]
      BY <2>1, NotifyIs DEF FreshInv, Watching
    <2>. QED BY <2>1 DEF DictStep, PyDict_New, Dict_dealloc, PyDict_Clear, Notify, MergeEnd,
           MergeFail, DelItem, SetItemReplace, StoreAndDrop, Dict_pop, MergeEntry, SetItemNew,
           MergeBegin
  <1>12. OwnNamespace'
    BY <1>0, <1>11, KeptNamespace DEF Busy
  <1>13. MadeOnce'
    BY <1>0, <1>11 DEF MadeOnce, irVars
  <1>. QED BY <1>10, <1>12, <1>13

\* Dropping or keeping the assumptions of c: the other code objects notice nothing.
LEMMA OthersFresh ==
  ASSUME Orderly, FreshInv, NEW c \in Code, UNCHANGED dictVars,
         \A k \in Code \ {c} :
           /\ co_llvm_function'[k] = co_llvm_function[k]
           /\ co_native_function'[k] = co_native_function[k]
           /\ co_assumed_globals'[k] = co_assumed_globals[k]
           /\ co_assumed_builtins'[k] = co_assumed_builtins[k]
           /\ Invalidated(k) => Invalidated(k)'
  PROVE  \A k \in Code \ {c} : Invalidated(k)' \/
           /\ Current(k, co_llvm_function[k])'
           /\ Current(k, co_native_function[k])'
  <1> SUFFICES ASSUME NEW k \in Code \ {c}, ~Invalidated(k)'
               PROVE  Current(k, co_llvm_function[k])' /\ Current(k, co_native_function[k])'
    OBVIOUS
  <1>1. Current(k, co_llvm_function[k]) /\ Current(k, co_native_function[k])
    BY DEF FreshInv, EmbeddedCurrent
  <1>2. Lookup(co_assumed_globals[k], co_assumed_builtins[k], Loads[k])'
          = Lookup(co_assumed_globals[k], co_assumed_builtins[k], Loads[k])
    BY DEF Lookup, dictVars
  <1>. QED BY <1>1, <1>2 DEF Current, Watching, Pending, dictVars

\* A compilation embeds what the lookups find, or stops watching.
LEMMA FinishFresh ==
  ASSUME Orderly, FreshInv, NEW c \in Code, FinishFunction(c),
         co_native_function[c] = NoIR,
         co_llvm_function' = [co_llvm_function EXCEPT ![c] = NewIR(c)],
         \/ co_native_function' = [co_native_function EXCEPT ![c] = NewIR(c)]
         \/ co_native_function' = co_native_function,
         UNCHANGED <<dictVars, heatVars>>
  PROVE  RetiredOff' /\ EmbeddedCurrent'
  <1> USE DEF FreshInv, WatchInv, TypeInv
  <1>1. RetiredOff' /\ \A k \in Code : Invalidated(k) => Invalidated(k)'
    BY DEF RetiredOff, Invalidated, heatVars
  <1>2. \A k \in Code \ {c} : /\ co_llvm_function'[k] = co_llvm_function[k]
                              /\ co_native_function'[k] = co_native_function[k]
                              /\ co_assumed_globals'[k] = co_assumed_globals[k]
                              /\ co_assumed_builtins'[k] = co_assumed_builtins[k]
    BY DEF FinishFunction, DropAssumptions, assumeVars, TypeOK
  <1>3. /\ co_llvm_function'[c] = NewIR(c)
        /\ co_native_function'[c] \in {NewIR(c), NoIR}
    BY DEF TypeOK
  <1>4. CASE NewIR(c) \in Value
    <2>1. NewIR(c) # Safe
      BY <1>4, ConstantsAssumption
    <2>2. UNCHANGED assumeVars
      BY <2>1 DEF FinishFunction
    <2>3. /\ Watching(c)
          /\ NewIR(c) = Lookup(co_assumed_globals[c], co_assumed_builtins[c], Loads[c])
      BY <2>1 DEF NewIR
    <2>4. /\ Watching(c)'
          /\ NewIR(c) = Lookup(co_assumed_globals[c], co_assumed_builtins[c], Loads[c])'
      BY <2>2, <2>3 DEF Watching, Lookup, assumeVars, dictVars
    <2>5. Current(c, co_llvm_function[c])' /\ Current(c, co_native_function[c])'
      BY <1>3, <2>4, ConstantsAssumption DEF Current
    <2>. QED BY <1>1, <1>2, <2>5, OthersFresh DEF EmbeddedCurrent
  <1>5. CASE NewIR(c) \notin Value
    <2>1. Current(c, co_llvm_function[c])' /\ Current(c, co_native_function[c])'
      BY <1>3, <1>5, ConstantsAssumption DEF Current
    <2>. QED BY <1>1, <1>2, <2>1, OthersFresh DEF EmbeddedCurrent
  <1>. QED BY <1>4, <1>5

\* Code without IR and machine code embeds nothing.
LEMMA BareFresh ==
  ASSUME Orderly, FreshInv, NEW c \in Code, RetiredOff', UNCHANGED dictVars,
         co_llvm_function'[c] = NoIR, co_native_function'[c] = NoIR,
         \A k \in Code \ {c} :
           /\ co_llvm_function'[k] = co_llvm_function[k]
           /\ co_native_function'[k] = co_native_function[k]
           /\ co_assumed_globals'[k] = co_assumed_globals[k]
           /\ co_assumed_builtins'[k] = co_assumed_builtins[k]
           /\ Invalidated(k) => Invalidated(k)'
  PROVE  EmbeddedCurrent'
  <1>1. Current(c, co_llvm_function[c])' /\ Current(c, co_native_function[c])'
    BY ConstantsAssumption DEF Current
  <1>. QED BY <1>1, OthersFresh DEF EmbeddedCurrent

LEMMA CodeStepFresh ==
  ASSUME Orderly, FreshInv, CodeStep
  PROVE  RetiredOff' /\ EmbeddedCurrent' /\ OwnNamespace' /\ MadeOnce'
  <1> DEFINE Goal == RetiredOff' /\ EmbeddedCurrent' /\ OwnNamespace' /\ MadeOnce'
  <1>0. TypeOK /\ RetiredOff /\ EmbeddedCurrent /\ OwnNamespace /\ MadeOnce
    BY DEF FreshInv, WatchInv, TypeInv
  <1>1. ASSUME NEW c \in Code, PyCode_New(c) PROVE Goal
    <2>1. RetiredOff'
      BY <1>0, <1>1 DEF Orderly, PyCode_New, RetiredOff, Invalidated, TypeOK
    <2>2. EmbeddedCurrent'
      BY <1>0, <1>1, <2>1, BareFresh DEF PyCode_New, Invalidated, TypeOK
    <2>3. OwnNamespace'
      BY <1>0, <1>1, KeptNamespace DEF PyCode_New, TypeOK, Watching, Busy
    <2>4. MadeOnce'
      BY <1>0, <1>1 DEF PyCode_New, MadeOnce, TypeOK, FrameRecord, Free
    <2>. QED BY <2>1, <2>2, <2>3, <2>4
  <1>2. ASSUME NEW c \in Code, Code_dealloc(c) PROVE Goal
    <2>1. RetiredOff'
      BY <1>0, <1>2 DEF Code_dealloc, RetiredOff, Invalidated, heatVars
    <2>2. EmbeddedCurrent'
      BY <1>0, <1>2, <2>1, BareFresh
      DEF Code_dealloc, DropAssumptions, Invalidated, heatVars, TypeOK
    <2>3. OwnNamespace'
      BY <1>0, <1>2, KeptNamespace DEF Code_dealloc, DropAssumptions, TypeOK, Watching, Busy
    <2>4. MadeOnce'
      BY <1>0, <1>2 DEF Code_dealloc, MadeOnce, TypeOK, FrameRecord, Free
    <2>. QED BY <2>1, <2>2, <2>3, <2>4
  <1>3. ASSUME NEW c \in Code, Set_optimization(c) PROVE Goal
    <2>1. CASE Crash
      <3>1. RetiredOff' /\ EmbeddedCurrent'
        BY <1>0, <2>1, QuietFresh DEF Crash, dictVars, heatVars, assumeVars, RetiredOff,
                                      Invalidated, Pending
      <3>. QED BY <1>0, <2>1, <3>1
           DEF Crash, assumeVars, irVars, OwnNamespace, MadeOnce, Watching, Busy
    <2>2. CASE ~ReadsNullDict(c)
      <3>0. /\ FinishFunction(c) /\ CanRun /\ co_llvm_function[c] = NoIR
            /\ co_llvm_function' = [co_llvm_function EXCEPT ![c] = NewIR(c)]
            /\ UNCHANGED <<dictVars, co_native_function, heatVars, frame>>
        BY <1>3, <2>2 DEF Set_optimization
      <3>1. co_native_function[c] = NoIR
        BY <1>0, <3>0 DEF MadeOnce
      <3>2. RetiredOff' /\ EmbeddedCurrent'
        BY <3>0, <3>1, FinishFresh
      <3>3. OwnNamespace'
        BY <1>0, <3>0, KeptNamespace
        DEF FinishFunction, DropAssumptions, assumeVars, TypeOK, Watching, Busy
      <3>4. \A f \in Frame : frame[f].pc # "compile"
        BY <3>0 DEF CanRun, CompilesDone, Orderly
      <3>5. MadeOnce'
        BY <1>0, <3>0, <3>1, <3>4 DEF MadeOnce, TypeOK
      <3>. QED BY <3>2, <3>3, <3>5
    <2>. QED BY <1>3, <2>1, <2>2 DEF Set_optimization
  <1>4. ASSUME NEW c \in Code, Llvmfunction_str(c) PROVE FALSE
    BY <1>4 DEF Llvmfunction_str, Orderly
  <1>5. ASSUME NEW c \in Code, NEW b \in BOOLEAN, Set_use_llvm(c, b) PROVE Goal
    <2>1. RetiredOff'
      BY <1>0, <1>5 DEF Orderly, Set_use_llvm, RetiredOff, Invalidated, TypeOK
    <2>2. EmbeddedCurrent'
      BY <1>0, <1>5, <2>1, QuietFresh
      DEF Set_use_llvm, CodeFrame, dictVars, assumeVars, Invalidated, Pending
    <2>. QED BY <1>0, <1>5, <2>1, <2>2
         DEF Set_use_llvm, CodeFrame, irVars, assumeVars, OwnNamespace, MadeOnce, Watching, Busy
  <1>6. ASSUME NEW C \in SUBSET Code, PyType_Modified(C) PROVE Goal
    <2>1. RetiredOff' /\ EmbeddedCurrent'
      BY <1>0, <1>6, InvalidateIs, InvalidateRetires, QuietFresh
      DEF PyType_Modified, dictVars, assumeVars, Pending
    <2>. QED BY <1>0, <1>6, <2>1
         DEF PyType_Modified, irVars, assumeVars, OwnNamespace, MadeOnce, Watching, Busy
  <1>7. ASSUME NEW m \in Modes, SetJitControl(m) PROVE Goal
    <2>1. RetiredOff' /\ EmbeddedCurrent'
      BY <1>0, <1>7, QuietFresh DEF SetJitControl, dictVars, assumeVars, heatVars, RetiredOff,
                                    Invalidated, Pending
    <2>. QED BY <1>0, <1>7, <2>1
         DEF SetJitControl, irVars, assumeVars, OwnNamespace, MadeOnce, Watching, Busy
  <1>. QED BY <1>1, <1>2, <1>3, <1>4, <1>5, <1>6, <1>7 DEF CodeStep

LEMMA CallStepFresh ==
  ASSUME Orderly, FreshInv, CallStep
  PROVE  RetiredOff' /\ EmbeddedCurrent' /\ OwnNamespace' /\ MadeOnce'
  <1>0. TypeOK /\ RetiredOff /\ EmbeddedCurrent /\ OwnNamespace /\ MadeOnce
    BY DEF FreshInv, WatchInv, TypeInv
  <1>1. PICK f \in Frame, c \in Code, g \in Dict, b \in Dict :
          \/ CallInterpreted(f, c, g, b) \/ CallCompiled(f, c, g, b)
          \/ CallJit(f, c, g, b) \/ CallRefused(f, c, g, b)
          \/ CallCompile(f, c, g, b) \/ CallWatchFails(f, c, g, b)
    BY DEF CallStep
  <1>2. PICK use \in BOOLEAN : Call(f, c, g, b, use) /\ (use => WantsNative(c))
    BY <1>1 DEF CallInterpreted, CallCompiled, CallJit, CallRefused, CallCompile, CallWatchFails
  <1>3. /\ <<g, b>> \in Namespaces[c] /\ ~Busy(f) /\ CanRun
        /\ UNCHANGED <<dictVars, co_fatalbailcount, co_llvm_function>>
        /\ co_use_llvm' = [co_use_llvm EXCEPT ![c] = use]
    BY <1>2 DEF Call
  <1>4. RetiredOff'
    BY <1>0, <1>2, <1>3 DEF RetiredOff, Invalidated, WantsNative, TypeOK
  <1>5. \A k \in Code : Invalidated(k) => Invalidated(k)'
    BY <1>3 DEF Invalidated
  <1>6. \/ frame' = frame
        \/ \E pc \in {"ready", "compile"}, u \in BOOLEAN : NewFrame(f, pc, c, g, b, u)
    BY <1>0, <1>1, FrameUseType
    DEF CallInterpreted, CallCompiled, CallJit, CallRefused, CallCompile, CallWatchFails,
        FreshInv, WatchInv
  <1>7. \A h \in Frame \ {f} : frame'[h] = frame[h]
    <2>1. CASE frame' = frame
      BY <2>1
    <2>2. ASSUME NEW pc \in {"ready", "compile"}, NEW u \in BOOLEAN,
                 NewFrame(f, pc, c, g, b, u)
          PROVE  \A h \in Frame \ {f} : frame'[h] = frame[h]
      BY <1>0, <2>2 DEF NewFrame, TypeOK
    <2>. QED BY <1>6, <2>1, <2>2
  <1>8. \/ frame'[f] = frame[f]
        \/ /\ frame'[f].code = c /\ frame'[f].globals = g /\ frame'[f].builtins = b
           /\ frame'[f].pc # "free"
    BY <1>0, <1>6 DEF NewFrame, TypeOK
  <1>9. \A h \in Frame : Busy(h)' =>
          <<frame'[h].globals, frame'[h].builtins>> \in Namespaces[frame'[h].code]
    BY <1>0, <1>3, <1>7, <1>8 DEF OwnNamespace, Busy
  <1>10. \A h \in Frame : frame[h].pc # "compile"
    BY <1>3 DEF CanRun, CompilesDone, Orderly
  <1>11. CASE CallInterpreted(f, c, g, b) \/ CallCompiled(f, c, g, b)
    <2>1. UNCHANGED <<irVars, assumeVars>>
      BY <1>3, <1>11 DEF CallInterpreted, CallCompiled, irVars
    <2>2. RetiredOff' /\ EmbeddedCurrent'
      BY <1>3, <1>4, <1>5, <2>1, QuietFresh DEF dictVars, assumeVars, Pending
    <2>3. OwnNamespace'
      BY <1>0, <1>9, <2>1 DEF OwnNamespace, assumeVars, Watching
    <2>4. \A h \in Frame : frame'[h].pc # "compile"
      <3>1. \E u \in BOOLEAN : NewFrame(f, "ready", c, g, b, u)
        BY <1>11, <1>0, FrameUseType DEF CallInterpreted, CallCompiled, FreshInv, WatchInv
      <3>2. frame'[f].pc = "ready"
        BY <1>0, <3>1 DEF NewFrame, TypeOK
      <3>. QED BY <1>7, <1>10, <3>2
    <2>5. MadeOnce'
      BY <1>0, <2>1, <2>4 DEF MadeOnce, irVars
    <2>. QED BY <2>2, <2>3, <2>5
  <1>12. CASE CallJit(f, c, g, b)
    <2>1. UNCHANGED assumeVars
      BY <1>12 DEF CallJit
    <2>2. /\ \A k \in Code \ {c} : co_native_function'[k] = co_native_function[k]
          /\ co_native_function'[c] \in {co_native_function[c], co_llvm_function[c]}
          /\ co_llvm_function[c] # NoIR
      BY <1>0, <1>12 DEF CallJit, TypeOK
    <2>3. ASSUME NEW k \in Code, ~Invalidated(k)'
          PROVE  Current(k, co_llvm_function[k])' /\ Current(k, co_native_function[k])'
      <3>1. Current(k, co_llvm_function[k]) /\ Current(k, co_native_function[k])
        BY <1>0, <1>5, <2>3 DEF EmbeddedCurrent
      <3>2. \A x : Current(k, x) => Current(k, x)'
        BY <1>3, <2>1 DEF Current, Watching, Pending, Lookup, dictVars, assumeVars
      <3>3. co_native_function'[k] \in {co_native_function[k], co_llvm_function[k]}
        BY <2>2
      <3>. QED BY <1>3, <3>1, <3>2, <3>3 DEF Current
    <2>4. EmbeddedCurrent'
      BY <2>3 DEF EmbeddedCurrent
    <2>5. OwnNamespace'
      BY <1>0, <1>9, <2>1 DEF OwnNamespace, assumeVars, Watching
    <2>6. \A h \in Frame : frame'[h].pc # "compile"
      BY <1>0, <1>7, <1>10, <1>12 DEF CallJit, NewFrame, TypeOK
    <2>7. MadeOnce'
      BY <1>0, <1>3, <2>2, <2>6 DEF MadeOnce
    <2>. QED BY <1>4, <2>4, <2>5, <2>7
  <1>13. CASE CallRefused(f, c, g, b) \/ CallCompile(f, c, g, b) \/ CallWatchFails(f, c, g, b)
    <2>1. co_llvm_function[c] = NoIR /\ UNCHANGED co_native_function
      BY <1>13 DEF CallRefused, CallCompile, CallWatchFails
    <2>2. co_native_function[c] = NoIR
      BY <1>0, <2>1 DEF MadeOnce
    <2>3. \/ WatchGlobals(c, g, b)
          \/ UNCHANGED <<co_assumed_globals, co_assumed_builtins>>
      BY <1>13 DEF CallRefused, CallCompile, CallWatchFails
    <2>4. /\ \A k \in Code \ {c} : /\ co_assumed_globals'[k] = co_assumed_globals[k]
                                   /\ co_assumed_builtins'[k] = co_assumed_builtins[k]
          /\ \/ co_assumed_globals'[c] = g /\ co_assumed_builtins'[c] = b
             \/ /\ co_assumed_globals'[c] = co_assumed_globals[c]
                /\ co_assumed_builtins'[c] = co_assumed_builtins[c]
      BY <1>0, <2>3 DEF WatchGlobals, TypeOK
    <2>5. EmbeddedCurrent'
      BY <1>3, <1>4, <1>5, <2>1, <2>2, <2>4, BareFresh
    <2>6. OwnNamespace'
      BY <1>0, <1>3, <1>9, <2>4 DEF OwnNamespace, Watching
    <2>7. MadeOnce'
      BY <1>0, <1>3, <1>7, <1>8, <1>10, <2>1, <2>2 DEF MadeOnce
    <2>. QED BY <1>4, <2>5, <2>6, <2>7
  <1>. QED BY <1>1, <1>11, <1>12, <1>13

LEMMA FrameActionFresh ==
  ASSUME Orderly, FreshInv, FrameActions
  PROVE  RetiredOff' /\ EmbeddedCurrent' /\ OwnNamespace' /\ MadeOnce'
  <1> DEFINE Goal == RetiredOff' /\ EmbeddedCurrent' /\ OwnNamespace' /\ MadeOnce'
  <1>0. TypeOK /\ RetiredOff /\ EmbeddedCurrent /\ OwnNamespace /\ MadeOnce
    BY DEF FreshInv, WatchInv, TypeInv
  <1>1. ASSUME NEW f \in Frame, Compile(f), Crash PROVE Goal
    <2>1. RetiredOff' /\ EmbeddedCurrent'
      BY <1>0, <1>1, QuietFresh DEF Crash, dictVars, heatVars, assumeVars, RetiredOff,
                                    Invalidated, Pending
    <2>. QED BY <1>0, <1>1, <2>1
         DEF Crash, assumeVars, irVars, OwnNamespace, MadeOnce, Watching, Busy
  <1>2. ASSUME NEW f \in Frame, Compile(f), ~ReadsNullDict(frame[f].code) PROVE Goal
    <2> DEFINE c == frame[f].code
    <2>0. c \in Code /\ frame[f] \in FrameRecord
      BY <1>0, <1>2 DEF Compile, TypeOK, FrameRecord, Free
    <2>1. /\ FinishFunction(c)
          /\ co_llvm_function' = [co_llvm_function EXCEPT ![c] = NewIR(c)]
          /\ \/ co_native_function' = [co_native_function EXCEPT ![c] =
                     IF @ = NoIR THEN NewIR(c) ELSE @]
             \/ UNCHANGED co_native_function
          /\ \/ frame' = [frame EXCEPT ![f].pc = "ready"]
             \/ frame' = [frame EXCEPT ![f] = Free]
          /\ UNCHANGED <<dictVars, heatVars>>
          /\ frame[f].pc = "compile"
      BY <1>2 DEF Compile
    <2>2. co_llvm_function[c] = NoIR /\ co_native_function[c] = NoIR
      BY <1>0, <2>0, <2>1 DEF MadeOnce
    <2>3. \/ co_native_function' = [co_native_function EXCEPT ![c] = NewIR(c)]
          \/ co_native_function' = co_native_function
      BY <1>0, <2>0, <2>1, <2>2 DEF TypeOK
    <2>4. RetiredOff' /\ EmbeddedCurrent'
      BY <2>0, <2>1, <2>2, <2>3, FinishFresh
    <2>5. /\ \A h \in Frame \ {f} : frame'[h] = frame[h]
          /\ frame'[f].pc # "compile"
          /\ frame'[f].pc # "free" =>
               /\ frame'[f].code = frame[f].code /\ frame'[f].globals = frame[f].globals
               /\ frame'[f].builtins = frame[f].builtins
      BY <1>0, <2>0, <2>1 DEF TypeOK, Free, FrameRecord
    <2>6. OwnNamespace'
      BY <1>0, <2>0, <2>1, <2>5, KeptNamespace
      DEF FinishFunction, DropAssumptions, assumeVars, TypeOK, Watching, Busy
    <2>7. \A h \in Frame : frame'[h].pc # "compile"
      BY <1>0, <2>1, <2>5 DEF MadeOnce
    <2>8. \A k \in Code : co_llvm_function'[k] = NoIR => co_native_function'[k] = NoIR
      <3>1. NewIR(c) # NoIR
        BY <2>0, NewIRType, ConstantsAssumption DEF FreshInv, WatchInv, TypeInv, IR
      <3>. QED BY <1>0, <2>0, <2>1, <2>3, <3>1 DEF MadeOnce, TypeOK
    <2>9. MadeOnce'
      BY <2>7, <2>8 DEF MadeOnce
    <2>. QED BY <2>4, <2>6, <2>9
  <1>3. ASSUME NEW f \in Frame,
               \/ CompileFails(f) \/ EvalInterpreted(f) \/ EvalNative(f) \/ Bail(f)
               \/ Yield(f) \/ Return(f)
        PROVE  Goal
    <2>1. UNCHANGED <<dictVars, irVars, assumeVars, heatVars>>
      BY <1>3 DEF CompileFails, EvalInterpreted, EvalNative, Bail, Yield, Return, FrameStep
    <2>2. RetiredOff' /\ EmbeddedCurrent'
      BY <1>0, <2>1, QuietFresh DEF dictVars, heatVars, assumeVars, RetiredOff, Invalidated,
                                    Pending
    <2>3. /\ \A h \in Frame \ {f} : frame'[h] = frame[h]
          /\ frame'[f].pc # "compile"
          /\ frame'[f].pc # "free" =>
               /\ Busy(f)
               /\ frame'[f].code = frame[f].code /\ frame'[f].globals = frame[f].globals
               /\ frame'[f].builtins = frame[f].builtins
      <3>1. \/ frame' = [frame EXCEPT ![f] = Free]
            \/ /\ frame[f].pc # "free"
               /\ \E pc \in {"ready", "interp", "native"}, u \in BOOLEAN :
                    frame' = [frame EXCEPT ![f] = [frame[f] EXCEPT !.pc = pc, !.use_llvm = u]]
        <4>1. frame[f].pc # "free" => frame[f] \in FrameRecord
          BY <1>0 DEF TypeOK, Free
        <4>2. CASE CompileFails(f) \/ Return(f)
          BY <4>2 DEF CompileFails, Return, FrameStep
        <4>3. CASE EvalInterpreted(f)
          BY <4>3 DEF EvalInterpreted, FrameStep
        <4>4. CASE EvalNative(f)
          <5>1. [frame[f] EXCEPT !.pc = "native"]
                  = [frame[f] EXCEPT !.pc = "native", !.use_llvm = frame[f].use_llvm]
            BY <4>1, <4>4 DEF EvalNative, FrameRecord
          <5>. QED BY <4>1, <4>4, <5>1 DEF EvalNative, FrameStep, FrameRecord
        <4>5. CASE Bail(f)
          BY <4>5 DEF Bail, FrameStep
        <4>6. CASE Yield(f)
          <5>1. [frame[f] EXCEPT !.pc = "ready"]
                  = [frame[f] EXCEPT !.pc = "ready", !.use_llvm = frame[f].use_llvm]
            BY <4>1, <4>6 DEF Yield, FrameRecord
          <5>. QED BY <4>1, <4>6, <5>1 DEF Yield, FrameStep, FrameRecord
        <4>. QED BY <1>3, <4>2, <4>3, <4>4, <4>5, <4>6
      <3>2. CASE frame' = [frame EXCEPT ![f] = Free]
        BY <1>0, <3>2 DEF TypeOK, Free
      <3>3. CASE /\ frame[f].pc # "free"
                 /\ \E pc \in {"ready", "interp", "native"}, u \in BOOLEAN :
                      frame' = [frame EXCEPT ![f] = [frame[f] EXCEPT !.pc = pc, !.use_llvm = u]]
        BY <1>0, <3>3 DEF TypeOK, Free, FrameRecord, Busy
      <3>. QED BY <3>1, <3>2, <3>3
    <2>4. OwnNamespace'
      BY <1>0, <2>1, <2>3, KeptNamespace DEF assumeVars, Watching, Busy
    <2>5. MadeOnce'
      BY <1>0, <2>1, <2>3 DEF MadeOnce, irVars
    <2>. QED BY <2>2, <2>4, <2>5
  <1>4. ASSUME NEW f \in Frame, ForIter(f) PROVE Goal
    <2>1. RetiredOff' /\ EmbeddedCurrent'
      BY <1>0, <1>4, QuietFresh DEF ForIter, dictVars, assumeVars, RetiredOff, Invalidated,
                                    Pending
    <2>. QED BY <1>0, <1>4, <2>1
         DEF ForIter, irVars, assumeVars, OwnNamespace, MadeOnce, Watching, Busy
  <1>. QED BY <1>1, <1>2, <1>3, <1>4 DEF FrameActions, Compile

\* In an orderly environment, machine code that passes its guard pushes the object the
\* lookups of LOAD_GLOBAL would find, except while a change has not notified yet
\* (LOAD_GLOBAL_fast, PyDict_SetItem, notify_watchers, mark_called_and_maybe_compile).
THEOREM MachineCodeCurrent == ASSUME Orderly PROVE Spec => []StaleOnlyWhilePending
  <1>1. Init => FreshInv
    BY InitWatched, InitFresh DEF FreshInv
  <1>2. FreshInv /\ [Next]_vars => FreshInv'
    <2> SUFFICES ASSUME FreshInv, [Next]_vars PROVE FreshInv'
      OBVIOUS
    <2>1. WatchInv'
      <3>1. TypeInv'
        BY DictStepTypes, CodeStepTypes, CallStepTypes, FrameActionTypes, StutterTypes
        DEF Next, FreshInv, WatchInv
      <3>2. UNCHANGED vars => ArraysPlaced' /\ WatcherAssertionsHold'
        BY QuietExact DEF vars, dictVars, assumeVars, FreshInv
      <3>3. NeverTwiceShort
        BY DEF Orderly, NeverTwiceShort
      <3>. QED BY <3>1, <3>2, <3>3, DictStepExact, CodeStepExact, CallStepExact, FrameActionExact
           DEF Next, FreshInv, WatchInv
    <2>2. CASE UNCHANGED vars
      <3>1. RetiredOff' /\ EmbeddedCurrent'
        BY <2>2, QuietFresh DEF FreshInv, vars, dictVars, assumeVars, heatVars, RetiredOff,
                                Invalidated, Pending
      <3>2. OwnNamespace' /\ MadeOnce'
        BY <2>2 DEF FreshInv, vars, assumeVars, irVars, OwnNamespace, MadeOnce, Watching, Busy
      <3>. QED BY <2>1, <3>1, <3>2 DEF FreshInv
    <2>3. CASE Next
      BY <2>1, <2>3, DictStepFresh, CodeStepFresh, CallStepFresh, FrameActionFresh
      DEF Next, FreshInv
    <2>. QED BY <2>2, <2>3
  <1>3. FreshInv => StaleOnlyWhilePending
    <2> SUFFICES ASSUME FreshInv, NEW f \in Frame, frame[f].pc = "native",
                        co_use_llvm[frame[f].code],
                        co_native_function[frame[f].code] \in Value
                 PROVE  \/ Pending(frame[f].globals) \/ Pending(frame[f].builtins)
                        \/ co_native_function[frame[f].code]
                             = Lookup(frame[f].globals, frame[f].builtins,
                                      Loads[frame[f].code])
      BY DEF StaleOnlyWhilePending
    <2> DEFINE c == frame[f].code
    <2>1. frame[f] \in FrameRecord /\ c \in Code
      BY DEF FreshInv, WatchInv, TypeInv, TypeOK, FrameRecord, Free
    <2>2. Current(c, co_native_function[c])
      BY <2>1 DEF FreshInv, RetiredOff, EmbeddedCurrent
    <2>3. Watching(c)
      BY <2>2 DEF Current
    <2>4. /\ <<co_assumed_globals[c], co_assumed_builtins[c]>> \in Namespaces[c]
          /\ <<frame[f].globals, frame[f].builtins>> \in Namespaces[c]
      BY <2>1, <2>3 DEF FreshInv, OwnNamespace, Busy
    <2>5. /\ co_assumed_globals[c] = frame[f].globals
          /\ co_assumed_builtins[c] = frame[f].builtins
      BY <2>1, <2>4 DEF Orderly
    <2>. QED BY <2>2, <2>5 DEF Current
  <1>. QED BY <1>1, <1>2, <1>3, PTL DEF Spec
-----------------------------------------------------------------------------
(* Nothing is added to a watcher array twice.                                *)

\* When no compilation is given up between the watching and the IR, or interrupted there by
\* another call, and globals are not their own builtins.
AllCompile ==
  /\ Refused = {} /\ Env \cap {"collect", "compile_fails", "nomem_twice"} = {}
  /\ \A c \in Code : \A p \in Namespaces[c] : p[1] # p[2]

\* Code without IR watches only in the middle of its compilation.
Compiling(c) == \E f \in Frame : frame[f].pc = "compile" /\ frame[f].code = c
BareUnwatched == \A c \in Code : co_llvm_function[c] = NoIR /\ Watching(c) => Compiling(c)
OnceInv == WatchInv /\ BareUnwatched /\ AddedOnce

\* A step that makes nobody watch and ends no compilation.
LEMMA QuietOnce ==
  ASSUME OnceInv, "AddTwice" \in failed' => "AddTwice" \in failed,
         \A c \in Code : Compiling(c) => Compiling(c)',
         \A c \in Code : co_llvm_function'[c] = NoIR =>
           \/ co_assumed_globals'[c] = NoDict
           \/ co_llvm_function[c] = NoIR /\ co_assumed_globals'[c] = co_assumed_globals[c]
  PROVE  BareUnwatched' /\ AddedOnce'
  <1> SUFFICES ASSUME NEW c \in Code, co_llvm_function'[c] = NoIR, Watching(c)'
               PROVE  Compiling(c)'
    BY DEF OnceInv, AddedOnce, BareUnwatched
  <1>1. co_llvm_function[c] = NoIR /\ Watching(c)
    BY DEF Watching
  <1>. QED BY <1>1 DEF OnceInv, BareUnwatched

LEMMA NotifyOnce ==
  ASSUME OnceInv, NEW d \in Dict, NotifyWatchers(d), UNCHANGED <<co_llvm_function, frame>>
  PROVE  BareUnwatched' /\ AddedOnce'
  <1>1. "AddTwice" \in failed' => "AddTwice" \in failed
    BY NotifyIs DEF OnceInv
  <1>2. \A c \in Code : co_assumed_globals'[c] \in {NoDict, co_assumed_globals[c]}
    BY NotifyIs DEF OnceInv
  <1>3. \A c \in Code : Compiling(c) => Compiling(c)'
    BY DEF Compiling
  <1>. QED BY <1>1, <1>2, <1>3, QuietOnce

\* The frames other than f stay, and f was not compiling.
LEMMA FrameOnce ==
  ASSUME NEW f \in Frame, NEW r, frame' = [frame EXCEPT ![f] = r], frame[f].pc # "compile",
         WatchInv
  PROVE  \A c \in Code : Compiling(c) => Compiling(c)'
  BY DEF Compiling, WatchInv, TypeInv, TypeOK

LEMMA DictStepOnce == OnceInv /\ DictStep => BareUnwatched' /\ AddedOnce'
  <1> SUFFICES ASSUME OnceInv, DictStep PROVE BareUnwatched' /\ AddedOnce'
    OBVIOUS
  <1> USE DEF assumeVars, heatVars, irVars, NotifyFrame
  <1>q. UNCHANGED <<assumeVars, irVars, frame, failed>> => BareUnwatched' /\ AddedOnce'
    BY QuietOnce DEF Compiling
  <1>1. ASSUME NEW d \in Dict,
               \/ PyDict_New(d) \/ MergeFail(d)
               \/ \E other \in Dict, override \in BOOLEAN : MergeBegin(d, other, override)
               \/ \E n \in Name : DelItem(d, n) \/ MergeEntry(d, n)
               \/ \E n \in Name, v \in Value : SetItemReplace(d, n, v)
        PROVE  BareUnwatched' /\ AddedOnce'
    BY <1>1, <1>q
    DEF PyDict_New, MergeFail, MergeBegin, DelItem, SetItemReplace, StoreAndDrop, MergeEntry
  <1>2. ASSUME NEW d \in Dict,
               \/ Dict_dealloc(d) \/ PyDict_Clear(d) \/ Notify(d) \/ MergeEnd(d)
               \/ \E n \in Name : Dict_pop(d, n)
               \/ \E n \in Name, v \in Value : SetItemNew(d, n, v)
        PROVE  BareUnwatched' /\ AddedOnce'
    BY <1>2, NotifyOnce
    DEF Dict_dealloc, PyDict_Clear, Notify, MergeEnd, Dict_pop, SetItemNew
  <1>. QED BY <1>1, <1>2 DEF DictStep

\* FinishFunction of code that has its IR now.
LEMMA FinishOnce ==
  ASSUME OnceInv, NEW c \in Code, FinishFunction(c), co_llvm_function'[c] # NoIR,
         \A k \in Code \ {c} : /\ co_llvm_function'[k] = co_llvm_function[k]
                               /\ Compiling(k) => Compiling(k)'
  PROVE  BareUnwatched' /\ AddedOnce'
  <1>1. "AddTwice" \in failed' => "AddTwice" \in failed
    BY DEF FinishFunction, DropFailures, Fails
  <1>2. \A k \in Code \ {c} : co_assumed_globals'[k] = co_assumed_globals[k]
    BY DEF FinishFunction, DropAssumptions, assumeVars, OnceInv, WatchInv, TypeInv, TypeOK
  <1>. QED BY <1>1, <1>2 DEF OnceInv, BareUnwatched, AddedOnce, Watching

LEMMA CodeStepOnce == OnceInv /\ CodeStep => BareUnwatched' /\ AddedOnce'
  <1> SUFFICES ASSUME OnceInv, CodeStep PROVE BareUnwatched' /\ AddedOnce'
    OBVIOUS
  <1> USE DEF assumeVars, heatVars, irVars, CodeFrame, dictVars
  <1>t. TypeOK /\ TypeInv
    BY DEF OnceInv, WatchInv, TypeInv
  <1>q. UNCHANGED <<assumeVars, irVars, frame, failed>> => BareUnwatched' /\ AddedOnce'
    BY QuietOnce DEF Compiling
  <1>1. ASSUME NEW c \in Code, PyCode_New(c) PROVE BareUnwatched' /\ AddedOnce'
    BY <1>1, <1>t, QuietOnce DEF PyCode_New, TypeOK, Compiling
  <1>2. ASSUME NEW c \in Code, Code_dealloc(c) PROVE BareUnwatched' /\ AddedOnce'
    <2>1. "AddTwice" \in failed' => "AddTwice" \in failed
      BY <1>2 DEF Code_dealloc, DropFailures, Fails
    <2>2. \A k \in Code : co_llvm_function'[k] = NoIR =>
            \/ co_assumed_globals'[k] = NoDict
            \/ co_llvm_function[k] = NoIR /\ co_assumed_globals'[k] = co_assumed_globals[k]
      BY <1>2, <1>t DEF Code_dealloc, DropAssumptions, TypeOK
    <2>3. \A k \in Code : Compiling(k) => Compiling(k)'
      BY <1>2 DEF Code_dealloc, Compiling
    <2>. QED BY <2>1, <2>2, <2>3, QuietOnce
  <1>3. ASSUME NEW c \in Code, Set_optimization(c) \/ Llvmfunction_str(c)
        PROVE  BareUnwatched' /\ AddedOnce'
    <2>1. CASE Crash
      BY <2>1, QuietOnce DEF Crash, Compiling
    <2>2. CASE /\ FinishFunction(c) /\ UNCHANGED frame
               /\ \/ UNCHANGED co_llvm_function /\ co_llvm_function[c] # NoIR
                  \/ co_llvm_function' = [co_llvm_function EXCEPT ![c] = NewIR(c)]
      <3>1. co_llvm_function'[c] # NoIR
        BY <2>2, <1>t, NewIRType, ConstantsAssumption DEF TypeOK, TypeInv, IR
      <3>. QED BY <2>2, <3>1, <1>t, FinishOnce DEF TypeOK, Compiling
    <2>. QED BY <1>3, <2>1, <2>2 DEF Set_optimization, Llvmfunction_str
  <1>4. ASSUME NEW c \in Code, \E b \in BOOLEAN : Set_use_llvm(c, b)
        PROVE  BareUnwatched' /\ AddedOnce'
    BY <1>4, <1>q DEF Set_use_llvm
  <1>5. ASSUME NEW C \in SUBSET Code, PyType_Modified(C) PROVE BareUnwatched' /\ AddedOnce'
    BY <1>5, <1>q DEF PyType_Modified
  <1>6. ASSUME NEW m \in Modes, SetJitControl(m) PROVE BareUnwatched' /\ AddedOnce'
    BY <1>6, <1>q DEF SetJitControl
  <1>. QED BY <1>1, <1>2, <1>3, <1>4, <1>5, <1>6 DEF CodeStep

LEMMA CallStepOnce == ASSUME AllCompile PROVE OnceInv /\ CallStep => BareUnwatched' /\ AddedOnce'
  <1> SUFFICES ASSUME OnceInv, NEW f \in Frame, NEW c \in Code, NEW g \in Dict, NEW b \in Dict,
                      \/ CallInterpreted(f, c, g, b) \/ CallCompiled(f, c, g, b)
                      \/ CallJit(f, c, g, b) \/ CallRefused(f, c, g, b)
                      \/ CallCompile(f, c, g, b) \/ CallWatchFails(f, c, g, b)
               PROVE  BareUnwatched' /\ AddedOnce'
    BY DEF CallStep
  <1> USE DEF Call
  <1>c. CanRun /\ ~Busy(f)
    BY DEF CallInterpreted, CallCompiled, CallJit, CallRefused, CallCompile, CallWatchFails
  <1>t. TypeOK /\ WatchInv /\ frame[f].pc # "compile"
    BY <1>c DEF OnceInv, WatchInv, TypeInv, Busy
  <1>n. \A k \in Code : ~Compiling(k)
    BY <1>c DEF Compiling, CanRun, CompilesDone, AllCompile
  <1>w. co_llvm_function[c] = NoIR => \A d \in Dict : ~Holds(ma_watchers[d], c)
    <2> SUFFICES ASSUME co_llvm_function[c] = NoIR, NEW d \in Dict
                 PROVE  ~Holds(ma_watchers[d], c)
      OBVIOUS
    <2>1. co_assumed_globals[c] = NoDict
      BY <1>n DEF OnceInv, BareUnwatched, Watching
    <2>2. co_assumed_builtins[c] = NoDict
      BY <2>1 DEF OnceInv, WatchInv, TypeInv, AssumptionsPaired
    <2>3. Assumes(c, d) = 0
      BY <2>1, <2>2, ConstantsAssumption DEF Assumes, One
    <2>4. Placed(ma_watchers[d], c, 0) /\ ma_watchers[d] \in Seq(Code)
      BY <1>t, <2>3 DEF WatchInv, ArraysPlaced, TypeOK
    <2>. QED BY <2>4, PlacedNot
  <1>1. CASE CallInterpreted(f, c, g, b) \/ CallCompiled(f, c, g, b) \/ CallJit(f, c, g, b)
    <2>1. UNCHANGED <<assumeVars, co_llvm_function, failed>>
      BY <1>1 DEF CallInterpreted, CallCompiled, CallJit
    <2>. QED BY <2>1, <1>n, QuietOnce DEF assumeVars
  <1>2. CASE CallWatchFails(f, c, g, b)
    <2>1. "AddTwice" \in failed' => "AddTwice" \in failed
      BY <1>2, <1>w DEF CallWatchFails, Fails
    <2>. QED BY <1>2, <2>1, <1>n, QuietOnce DEF CallWatchFails
  <1>3. CASE CallCompile(f, c, g, b)
    <2>1. g # b
      BY <1>3 DEF CallCompile, AllCompile
    <2>2. ~Holds(ma_watchers[g], c) /\ ~Holds(ma_watchers[b], c)
      BY <1>3, <1>w DEF CallCompile
    <2>3. "AddTwice" \in failed' => "AddTwice" \in failed
      BY <1>3, <2>1, <2>2 DEF CallCompile, WatchGlobals, Fails, DropFailures
    <2>4. Compiling(c)'
      BY <1>3, <1>t DEF CallCompile, NewFrame, Compiling, TypeOK
    <2>5. \A k \in Code \ {c} : co_assumed_globals'[k] = co_assumed_globals[k]
      BY <1>3, <1>t DEF CallCompile, WatchGlobals, TypeOK
    <2>6. UNCHANGED co_llvm_function
      BY <1>3 DEF CallCompile
    <2>. QED BY <2>3, <2>4, <2>5, <2>6, <1>n DEF OnceInv, BareUnwatched, AddedOnce, Watching
  <1>4. CASE CallRefused(f, c, g, b)
    BY <1>4 DEF CallRefused, AllCompile
  <1>. QED BY <1>1, <1>2, <1>3, <1>4

LEMMA FrameActionOnce ==
  ASSUME AllCompile PROVE OnceInv /\ FrameActions => BareUnwatched' /\ AddedOnce'
  <1> SUFFICES ASSUME OnceInv, NEW f \in Frame,
                      \/ Compile(f) \/ CompileFails(f) \/ EvalInterpreted(f) \/ EvalNative(f)
                      \/ Bail(f) \/ Yield(f) \/ Return(f) \/ ForIter(f)
               PROVE  BareUnwatched' /\ AddedOnce'
    BY DEF FrameActions
  <1> USE DEF dictVars, irVars, assumeVars
  <1>t. TypeOK /\ TypeInv /\ WatchInv
    BY DEF OnceInv, WatchInv, TypeInv
  <1>1. CASE Compile(f)
    <2> DEFINE c == frame[f].code
    <2>1. c \in Code
      BY <1>1, <1>t DEF Compile, TypeOK, FrameRecord, Free
    <2>2. CASE Crash
      BY <2>2, QuietOnce DEF Crash, Compiling
    <2>3. CASE ~Crash
      <3>1. /\ co_llvm_function' = [co_llvm_function EXCEPT ![c] = NewIR(c)]
            /\ FinishFunction(c) /\ \A h \in Frame \ {f} : frame'[h] = frame[h]
        BY <1>1, <2>3, <1>t DEF Compile, TypeOK
      <3>2. co_llvm_function'[c] # NoIR
        BY <2>1, <3>1, <1>t, NewIRType, ConstantsAssumption DEF TypeOK, TypeInv, IR
      <3>3. \A k \in Code \ {c} : Compiling(k) => Compiling(k)'
        BY <3>1 DEF Compiling
      <3>4. \A k \in Code \ {c} : co_llvm_function'[k] = co_llvm_function[k]
        BY <3>1, <1>t DEF TypeOK
      <3>. QED BY <2>1, <3>1, <3>2, <3>3, <3>4, FinishOnce
    <2>. QED BY <2>2, <2>3
  <1>2. CASE CompileFails(f)
    BY <1>2 DEF CompileFails, AllCompile
  <1>3. CASE ForIter(f)
    BY <1>3, QuietOnce DEF ForIter, Compiling
  <1>4. CASE EvalInterpreted(f) \/ EvalNative(f) \/ Bail(f) \/ Yield(f) \/ Return(f)
    <2>1. UNCHANGED <<irVars, assumeVars>> /\ ("AddTwice" \in failed' => "AddTwice" \in failed)
      BY <1>4 DEF EvalInterpreted, EvalNative, Bail, Yield, Return, FrameStep, Fails
    <2>2. \A k \in Code : Compiling(k) => Compiling(k)'
      BY <1>4, <1>t, FrameOnce
      DEF EvalInterpreted, EvalNative, Bail, Yield, Return, FrameStep
    <2>. QED BY <2>1, <2>2, QuietOnce
  <1>. QED BY <1>1, <1>2, <1>3, <1>4

\* When every code object can be compiled, no compilation fails or is interrupted between the
\* watching and the IR, and globals are not their own builtins, no code object is added to a
\* watcher array it is in (_PyCode_WatchGlobals, mark_called_and_maybe_compile).
THEOREM WatchersAddedOnce == ASSUME AllCompile PROVE Spec => []AddedOnce
  <1>1. Init => OnceInv
    <2>1. Init => BareUnwatched /\ AddedOnce
      BY DEF Init, BareUnwatched, AddedOnce, Watching
    <2>. QED BY <2>1, InitWatched DEF OnceInv
  <1>2. OnceInv /\ [Next]_vars => OnceInv'
    <2> SUFFICES ASSUME OnceInv, [Next]_vars PROVE OnceInv'
      OBVIOUS
    <2>1. TypeInv'
      BY DictStepTypes, CodeStepTypes, CallStepTypes, FrameActionTypes, StutterTypes
      DEF Next, OnceInv, WatchInv
    <2>2. CASE UNCHANGED vars
      <3>1. ArraysPlaced' /\ WatcherAssertionsHold'
        BY <2>2, QuietExact DEF vars, dictVars, assumeVars, OnceInv
      <3>2. BareUnwatched' /\ AddedOnce'
        BY <2>2, QuietOnce DEF vars, irVars, assumeVars, Compiling
      <3>. QED BY <2>1, <3>1, <3>2 DEF OnceInv, WatchInv
    <2>4. NeverTwiceShort
      BY DEF AllCompile, NeverTwiceShort
    <2>3. CASE Next
      BY <2>1, <2>3, <2>4, DictStepExact, CodeStepExact, CallStepExact, FrameActionExact,
         DictStepOnce, CodeStepOnce, CallStepOnce, FrameActionOnce
      DEF Next, OnceInv, WatchInv
    <2>. QED BY <2>2, <2>3
  <1>3. OnceInv => AddedOnce
    BY DEF OnceInv
  <1>. QED BY <1>1, <1>2, <1>3, PTL DEF Spec

-----------------------------------------------------------------------------
(***************************************************************************)
(* JitCode implements MachineCodeLife, and the assertions of               *)
(* PyEval_EvalFrame() hold.                                                *)
(***************************************************************************)
\* A frame keeps its code object, a frame that is to enter machine code has some, and
\* only allocated code objects listen to types.
FramesKept ==
  /\ \A f \in Frame : Busy(f) => frame[f].code \in liveCodes
  /\ \A f \in Frame : frame[f].pc \in {"ready", "native", "interp"} =>
       (frame[f].use_llvm => co_native_function[frame[f].code] # NoIR)
  /\ listening \subseteq liveCodes

LifeInv == WatchInv /\ RetiredOff /\ FramesKept

\* What MachineCodeLife sees of a frame.
Entered(f) == IF frame[f].pc = "native" THEN frame[f].code ELSE NoCode

LifeStep == Life!LifeNext \/ UNCHANGED Life!lifeVars

LEMMA SameLife ==
  ASSUME \A c \in Code : Phase(c)' = Phase(c), \A f \in Frame : Entered(f)' = Entered(f)
  PROVE  LifeStep
  BY DEF LifeStep, Life!lifeVars, Entered

LEMMA SamePhase ==
  ASSUME UNCHANGED <<liveCodes, co_native_function, co_fatalbailcount>>
  PROVE  \A c \in Code : Phase(c)' = Phase(c)
  BY DEF Phase, Invalidated

\* Invalidating allocated code objects.
LEMMA InvalidateLife ==
  ASSUME LifeInv, NEW C \in SUBSET Code, C \subseteq liveCodes, Retires(C),
         UNCHANGED <<liveCodes, co_native_function, frame>>
  PROVE  LifeStep /\ RetiredOff'
  <1> DEFINE N == {c \in C : Invalidated(c)'}
  <1>0. /\ co_fatalbailcount \in [Code -> 0..PY_MAX_FATALBAILCOUNT]
        /\ co_use_llvm \in [Code -> BOOLEAN]
    BY DEF LifeInv, WatchInv, TypeInv, TypeOK
  <1>1. /\ \A c \in Code : co_fatalbailcount'[c] >= co_fatalbailcount[c]
        /\ \A c \in Code \ C : co_fatalbailcount'[c] = co_fatalbailcount[c]
    BY <1>0, ConstantsAssumption DEF Retires
  <1>2. \A c \in Code : Phase(c)' = IF c \in N THEN "invalid" ELSE Phase(c)
    <2>1. SUFFICES ASSUME NEW c \in Code
                   PROVE  Phase(c)' = IF c \in N THEN "invalid" ELSE Phase(c)
      OBVIOUS
    <2>2. CASE c \in C
      <3>1. Invalidated(c) => Invalidated(c)'
        BY <1>0, <1>1, ConstantsAssumption DEF Invalidated, Retires
      <3>. QED BY <2>2, <3>1 DEF Phase
    <2>3. CASE c \notin C
      BY <1>1, <2>3 DEF Phase, Invalidated
    <2>. QED BY <2>2, <2>3
  <1>3. \A c \in N : Phase(c) \in {"cold", "compiled", "invalid"}
    BY DEF Phase
  <1>4. Life!InvalidateAll(N)
    BY <1>2, <1>3 DEF Life!InvalidateAll
  <1>5. RetiredOff'
    <2>1. \A c \in Code : co_use_llvm'[c] => co_use_llvm[c] /\ c \notin C
      BY DEF Retires
    <2>. QED BY <1>1, <2>1 DEF LifeInv, RetiredOff, Invalidated
  <1>. QED BY <1>4, <1>5 DEF LifeStep, Life!LifeNext

\* notify_watchers() invalidates allocated code objects only.
LEMMA NotifyLife ==
  ASSUME LifeInv, NEW d \in Dict, NotifyWatchers(d),
         UNCHANGED <<liveCodes, listening, co_native_function, frame>>
  PROVE  LifeStep /\ RetiredOff' /\ FramesKept'
  <1>1. Watchers(d) \in SUBSET Code /\ Watchers(d) \subseteq liveCodes
    BY DEF LifeInv, WatchInv, ArraysPlaced, Watchers
  <1>2. LifeStep /\ RetiredOff'
    BY <1>1, NotifyIs, InvalidateLife DEF LifeInv
  <1>. QED BY <1>2 DEF LifeInv, FramesKept, Busy

\* A step that changes nothing MachineCodeLife sees.
LEMMA QuietLife ==
  ASSUME LifeInv, UNCHANGED <<liveCodes, co_native_function, co_fatalbailcount, frame>>,
         listening' \subseteq liveCodes,
         \A c \in Code : co_use_llvm'[c] => co_use_llvm[c] \/ ~Invalidated(c)
  PROVE  LifeStep /\ RetiredOff' /\ FramesKept'
  <1>1. LifeStep
    BY SameLife, SamePhase DEF Entered
  <1>2. RetiredOff'
    BY DEF LifeInv, RetiredOff, Invalidated
  <1>. QED BY <1>1, <1>2 DEF LifeInv, FramesKept, Busy

LEMMA DictStepLife ==
  ASSUME LifeInv, DictStep
  PROVE  LifeStep /\ RetiredOff' /\ FramesKept'
  <1> DEFINE Goal == LifeStep /\ RetiredOff' /\ FramesKept'
  <1>1. PICK d \in Dict :
          \/ PyDict_New(d) \/ Dict_dealloc(d) \/ PyDict_Clear(d) \/ Notify(d)
          \/ MergeEnd(d) \/ MergeFail(d)
          \/ \E n \in Name : DelItem(d, n) \/ Dict_pop(d, n) \/ MergeEntry(d, n)
          \/ \E n \in Name, v \in Value : SetItemNew(d, n, v) \/ SetItemReplace(d, n, v)
          \/ \E other \in Dict, override \in BOOLEAN : MergeBegin(d, other, override)
    BY DEF DictStep
  <1>2. CASE \/ Dict_dealloc(d) \/ PyDict_Clear(d) \/ Notify(d) \/ MergeEnd(d)
             \/ \E n \in Name : Dict_pop(d, n)
             \/ \E n \in Name, v \in Value : SetItemNew(d, n, v)
    BY <1>2, NotifyLife
    DEF Dict_dealloc, PyDict_Clear, Notify, MergeEnd, Dict_pop, SetItemNew, NotifyFrame, irVars
  <1>3. CASE \/ PyDict_New(d) \/ MergeFail(d)
             \/ \E n \in Name : DelItem(d, n) \/ MergeEntry(d, n)
             \/ \E n \in Name, v \in Value : SetItemReplace(d, n, v)
             \/ \E other \in Dict, override \in BOOLEAN : MergeBegin(d, other, override)
    <2>1. UNCHANGED <<liveCodes, listening, irVars, heatVars, frame>>
      BY <1>3 DEF PyDict_New, MergeFail, DelItem, MergeEntry, SetItemReplace, StoreAndDrop,
                  MergeBegin, NotifyFrame
    <2>. QED BY <2>1, QuietLife DEF irVars, heatVars, LifeInv, FramesKept
  <1>. QED BY <1>1, <1>2, <1>3

LEMMA CodeStepLife ==
  ASSUME "reenable" \notin Env, LifeInv, CodeStep
  PROVE  LifeStep /\ RetiredOff' /\ FramesKept'
  <1> DEFINE Goal == LifeStep /\ RetiredOff' /\ FramesKept'
  <1>0. /\ co_fatalbailcount \in [Code -> 0..PY_MAX_FATALBAILCOUNT]
        /\ co_native_function \in [Code -> IR \cup {NoIR}]
        /\ frame \in [Frame -> FrameRecord \cup {Free}]
        /\ FramesKept /\ RetiredOff
    BY DEF LifeInv, WatchInv, TypeInv, TypeOK
  <1>1. ASSUME NEW c \in Code, PyCode_New(c) PROVE Goal
    <2>1. Phase(c) = "absent" /\ Phase(c)' = "cold"
      BY <1>0, <1>1, ConstantsAssumption DEF PyCode_New, Phase, Invalidated
    <2>2. \A k \in Code \ {c} : Phase(k)' = Phase(k)
      BY <1>0, <1>1 DEF PyCode_New, Phase, Invalidated
    <2>3. Life!Create(c)
      BY <1>1, <2>1, <2>2 DEF Life!Create, PyCode_New
    <2>4. RetiredOff'
      BY <1>0, <1>1, ConstantsAssumption DEF PyCode_New, RetiredOff, Invalidated, LifeInv,
         WatchInv, TypeInv, TypeOK
    <2>5. FramesKept'
      BY <1>0, <1>1 DEF PyCode_New, FramesKept, Busy
    <2>. QED BY <2>3, <2>4, <2>5 DEF LifeStep, Life!LifeNext
  <1>2. ASSUME NEW c \in Code, Code_dealloc(c) PROVE Goal
    <2>1. \A f \in Frame : Busy(f) => frame[f].code # c
      BY <1>2 DEF Code_dealloc, CodeInUse
    <2>2. Phase(c) # "absent" /\ Phase(c)' = "absent"
      BY <1>2 DEF Code_dealloc, Phase
    <2>3. \A k \in Code \ {c} : Phase(k)' = Phase(k)
      BY <1>0, <1>2 DEF Code_dealloc, Phase, Invalidated, heatVars
    <2>4. \A f \in Frame : Entered(f) # c
      BY <2>1, ConstantsAssumption DEF Entered, Busy
    <2>5. Life!Delete(c)
      BY <1>2, <2>2, <2>3, <2>4 DEF Life!Delete, Code_dealloc, Entered
    <2>6. RetiredOff'
      BY <1>0, <1>2 DEF Code_dealloc, RetiredOff, Invalidated, heatVars
    <2>7. FramesKept'
      BY <1>0, <1>2, <2>1 DEF Code_dealloc, FramesKept, Busy
    <2>. QED BY <2>5, <2>6, <2>7 DEF LifeStep, Life!LifeNext
  <1>3. ASSUME NEW c \in Code, Set_optimization(c) \/ Llvmfunction_str(c) PROVE Goal
    <2>1. /\ UNCHANGED <<liveCodes, co_native_function, heatVars, frame>>
          /\ listening' \subseteq listening \cup {c} /\ c \in liveCodes
      BY <1>3 DEF Set_optimization, Llvmfunction_str, Crash, FinishFunction, irVars
    <2>. QED BY <1>0, <2>1, QuietLife DEF heatVars, FramesKept
  <1>4. ASSUME NEW c \in Code, NEW b \in BOOLEAN, Set_use_llvm(c, b) PROVE Goal
    <2>1. /\ UNCHANGED <<liveCodes, co_native_function, co_fatalbailcount, frame, listening>>
          /\ co_use_llvm' = [co_use_llvm EXCEPT ![c] = b]
          /\ b => ~Invalidated(c)
      BY <1>4, ConstantsAssumption
      DEF Set_use_llvm, CodeFrame, irVars, Invalidated
    <2>2. \A k \in Code : co_use_llvm'[k] => co_use_llvm[k] \/ ~Invalidated(k)
      BY <2>1 DEF LifeInv, WatchInv, TypeInv, TypeOK
    <2>. QED BY <1>0, <2>1, <2>2, QuietLife DEF FramesKept
  <1>5. ASSUME NEW C \in SUBSET Code, PyType_Modified(C) PROVE Goal
    <2>1. C \subseteq liveCodes
      BY <1>0, <1>5 DEF PyType_Modified, FramesKept
    <2>2. LifeStep /\ RetiredOff'
      BY <1>5, <2>1, InvalidateIs, InvalidateLife
      DEF PyType_Modified, irVars, LifeInv, WatchInv, TypeInv
    <2>. QED BY <1>0, <1>5, <2>2 DEF PyType_Modified, FramesKept, Busy, irVars
  <1>6. ASSUME NEW m \in Modes, SetJitControl(m) PROVE Goal
    BY <1>0, <1>6, QuietLife DEF SetJitControl, irVars, heatVars, FramesKept
  <1>. QED BY <1>1, <1>2, <1>3, <1>4, <1>5, <1>6 DEF CodeStep

LEMMA CallStepLife ==
  ASSUME LifeInv, CallStep
  PROVE  LifeStep /\ RetiredOff' /\ FramesKept'
  <1>0. /\ co_fatalbailcount \in [Code -> 0..PY_MAX_FATALBAILCOUNT]
        /\ co_native_function \in [Code -> IR \cup {NoIR}]
        /\ co_llvm_function \in [Code -> IR \cup {NoIR}]
        /\ frame \in [Frame -> FrameRecord \cup {Free}]
        /\ co_use_llvm \in [Code -> BOOLEAN]
        /\ FramesKept /\ RetiredOff
    BY DEF LifeInv, WatchInv, TypeInv, TypeOK
  <1>1. PICK f \in Frame, c \in Code, g \in Dict, b \in Dict :
          \/ CallInterpreted(f, c, g, b) \/ CallCompiled(f, c, g, b)
          \/ CallJit(f, c, g, b) \/ CallRefused(f, c, g, b)
          \/ CallCompile(f, c, g, b) \/ CallWatchFails(f, c, g, b)
    BY DEF CallStep
  <1>2. PICK use \in BOOLEAN : Call(f, c, g, b, use) /\ (use => ~Invalidated(c))
    BY <1>1 DEF CallInterpreted, CallCompiled, CallJit, CallRefused, CallCompile,
                CallWatchFails, WantsNative
  <1>3. /\ ~Busy(f) /\ c \in liveCodes
        /\ UNCHANGED <<co_fatalbailcount, liveCodes, listening>>
        /\ co_use_llvm' = [co_use_llvm EXCEPT ![c] = use]
    BY <1>2 DEF Call
  <1>4. RetiredOff'
    BY <1>0, <1>2, <1>3 DEF RetiredOff, Invalidated
  <1>5. \/ UNCHANGED co_native_function
        \/ /\ ~Invalidated(c) /\ co_native_function[c] = NoIR /\ co_llvm_function[c] # NoIR
           /\ co_native_function' = [co_native_function EXCEPT ![c] = co_llvm_function[c]]
    BY <1>1 DEF CallInterpreted, CallCompiled, CallJit, CallRefused, CallCompile,
                CallWatchFails, WantsNative
  <1>6. \/ UNCHANGED frame
        \/ NewFrame(f, "ready", c, g, b, FALSE)
        \/ NewFrame(f, "ready", c, g, b, FrameUse(c, g, b)) /\ co_native_function'[c] # NoIR
        \/ NewFrame(f, "compile", c, g, b, FrameUse(c, g, b))
    BY <1>0, <1>1 DEF CallInterpreted, CallCompiled, CallJit, CallRefused, CallCompile,
                CallWatchFails
  <1>7. \A h \in Frame : Entered(h)' = Entered(h)
    BY <1>0, <1>3, <1>6 DEF NewFrame, Entered, Busy
  <1>8. FramesKept'
    <2>1. \A k \in Code : co_native_function[k] # NoIR => co_native_function'[k] # NoIR
      BY <1>0, <1>5
    <2>2. \A h \in Frame : frame'[h] = frame[h] \/ h = f
      BY <1>0, <1>6 DEF NewFrame
    <2>3. \/ frame'[f] = frame[f]
          \/ /\ frame'[f].code = c
             /\ \/ frame'[f].pc = "compile"
                \/ frame'[f].use_llvm = FALSE
                \/ co_native_function'[c] # NoIR
      BY <1>0, <1>6 DEF NewFrame
    <2>4. \A h \in Frame : Busy(h)' => frame'[h].code \in liveCodes'
      BY <1>0, <1>3, <2>2, <2>3 DEF FramesKept, Busy
    <2>5. \A h \in Frame : Busy(h) => frame[h].code \in Code
      BY <1>0 DEF Busy, FrameRecord, Free
    <2>6. \A h \in Frame : frame'[h].pc \in {"ready", "native", "interp"} =>
            (frame'[h].use_llvm => co_native_function'[frame'[h].code] # NoIR)
      BY <1>0, <2>1, <2>2, <2>3, <2>5 DEF FramesKept, Busy
    <2>. QED BY <1>0, <1>3, <2>4, <2>6 DEF FramesKept
  <1>9. LifeStep
    <2>1. CASE UNCHANGED co_native_function
      BY <1>3, <1>7, <2>1, SameLife, SamePhase
    <2>2. CASE /\ ~Invalidated(c) /\ co_native_function[c] = NoIR /\ co_llvm_function[c] # NoIR
               /\ co_native_function' = [co_native_function EXCEPT ![c] = co_llvm_function[c]]
      <3>1. Phase(c) = "cold" /\ Phase(c)' = "compiled"
        BY <1>0, <1>3, <2>2 DEF Phase, Invalidated
      <3>2. \A k \in Code \ {c} : Phase(k)' = Phase(k)
        BY <1>0, <1>3, <2>2 DEF Phase, Invalidated
      <3>3. Life!MakeNative(c)
        BY <1>7, <3>1, <3>2 DEF Life!MakeNative, Entered
      <3>. QED BY <3>3 DEF LifeStep, Life!LifeNext
    <2>. QED BY <1>5, <2>1, <2>2
  <1>. QED BY <1>4, <1>8, <1>9

LEMMA FrameActionLife ==
  ASSUME LifeInv, FrameActions
  PROVE  LifeStep /\ RetiredOff' /\ FramesKept'
  <1> DEFINE Goal == LifeStep /\ RetiredOff' /\ FramesKept'
  <1>0. /\ co_fatalbailcount \in [Code -> 0..PY_MAX_FATALBAILCOUNT]
        /\ co_native_function \in [Code -> IR \cup {NoIR}]
        /\ frame \in [Frame -> FrameRecord \cup {Free}]
        /\ FramesKept /\ RetiredOff
    BY DEF LifeInv, WatchInv, TypeInv, TypeOK
  <1>1. ASSUME NEW f \in Frame, Compile(f) PROVE Goal
    <2>c. PICK c \in Code : c = frame[f].code
      BY <1>0, <1>1 DEF Compile, FrameRecord, Free
    <2>0. frame[f] \in FrameRecord /\ c \in liveCodes /\ frame[f].pc = "compile"
      BY <1>0, <1>1, <2>c DEF Compile, FrameRecord, Free, FramesKept, Busy
    <2>1. CASE Crash
      BY <1>0, <2>1, QuietLife DEF Crash, irVars, heatVars, FramesKept
    <2>2. CASE ~Crash
      <3>1. /\ UNCHANGED <<co_fatalbailcount, co_use_llvm, liveCodes>>
            /\ listening' \subseteq listening \cup {c}
            /\ \/ /\ co_native_function' = [co_native_function EXCEPT ![c] =
                       IF @ = NoIR THEN NewIR(c) ELSE @]
                  /\ frame' = [frame EXCEPT ![f].pc = "ready"]
               \/ /\ UNCHANGED co_native_function
                  /\ frame' = [frame EXCEPT ![f] = Free]
        BY <1>1, <2>c, <2>2 DEF Compile, FinishFunction, heatVars
      <3>2. NewIR(c) # NoIR
        BY <2>c, <2>0, NewIRType, ConstantsAssumption DEF LifeInv, WatchInv, TypeInv, IR
      <3>3. \A h \in Frame : Entered(h)' = Entered(h)
        BY <1>0, <2>c, <2>0, <3>1 DEF Entered, Free, FrameRecord
      <3>4. RetiredOff'
        BY <1>0, <3>1 DEF RetiredOff, Invalidated
      <3>5. \A k \in Code \ {c} : co_native_function'[k] = co_native_function[k]
        BY <1>0, <3>1
      <3>6. \/ co_native_function'[c] = co_native_function[c]
            \/ co_native_function[c] = NoIR /\ co_native_function'[c] # NoIR
        BY <1>0, <2>c, <2>0, <3>1, <3>2
      <3>7. /\ \A h \in Frame : h # f => frame'[h] = frame[h]
            /\ \/ frame'[f].pc = "free"
               \/ frame'[f].code = c /\ co_native_function'[c] # NoIR
        BY <1>0, <2>c, <2>0, <3>1, <3>2 DEF Free, FrameRecord
      <3>8. FramesKept'
        <4>1. \A h \in Frame : Busy(h)' => frame'[h].code \in liveCodes'
          BY <1>0, <2>c, <2>0, <3>1, <3>7 DEF FramesKept, Busy
        <4>2. \A k \in Code : co_native_function[k] # NoIR => co_native_function'[k] # NoIR
          BY <3>5, <3>6
        <4>3. \A h \in Frame : Busy(h) => frame[h].code \in Code
          BY <1>0 DEF Busy, FrameRecord, Free
        <4>4. \A h \in Frame : frame'[h].pc \in {"ready", "native", "interp"} =>
                (frame'[h].use_llvm => co_native_function'[frame'[h].code] # NoIR)
          BY <1>0, <3>7, <4>2, <4>3 DEF FramesKept, Busy
        <4>. QED BY <1>0, <2>c, <2>0, <3>1, <4>1, <4>4 DEF FramesKept
      <3>9. LifeStep
        <4>1. \A k \in Code \ {c} : Phase(k)' = Phase(k)
          BY <3>1, <3>5 DEF Phase, Invalidated
        <4>2. CASE Phase(c)' = Phase(c)
          BY <3>3, <4>1, <4>2, SameLife
        <4>3. CASE Phase(c)' # Phase(c)
          <5>1. Phase(c) = "cold" /\ Phase(c)' = "compiled"
            BY <2>c, <2>0, <3>1, <3>6, <4>3 DEF Phase, Invalidated
          <5>2. Life!MakeNative(c)
            BY <3>3, <4>1, <5>1 DEF Life!MakeNative, Entered
          <5>. QED BY <2>c, <2>0, <5>2 DEF LifeStep, Life!LifeNext
        <4>. QED BY <4>2, <4>3
      <3>. QED BY <3>4, <3>8, <3>9
    <2>. QED BY <2>1, <2>2
  <1>2. ASSUME NEW f \in Frame, ForIter(f) PROVE Goal
    BY <1>0, <1>2, QuietLife DEF ForIter, irVars, FramesKept
  <1>3. ASSUME NEW f \in Frame,
               \/ CompileFails(f) \/ EvalInterpreted(f) \/ EvalNative(f) \/ Bail(f)
               \/ Yield(f) \/ Return(f)
        PROVE  Goal
    <2>c. PICK c \in Code : c = frame[f].code
      BY <1>0, <1>3 DEF CompileFails, EvalInterpreted, EvalNative, Bail, Yield, Return,
                        FrameRecord, Free
    <2>0. frame[f] \in FrameRecord /\ c \in liveCodes
      BY <1>0, <1>3, <2>c DEF CompileFails, EvalInterpreted, EvalNative, Bail, Yield, Return,
                        FramesKept, Busy, FrameRecord, Free
    <2>1. UNCHANGED <<liveCodes, listening, co_native_function, co_use_llvm, co_fatalbailcount>>
      BY <1>3 DEF CompileFails, EvalInterpreted, EvalNative, Bail, Yield, Return, FrameStep,
                  irVars, heatVars
    <2>2. RetiredOff' /\ (\A k \in Code : Phase(k)' = Phase(k))
      BY <1>0, <2>1, SamePhase DEF RetiredOff, Invalidated
    <2>3. /\ \A h \in Frame : h # f => frame'[h] = frame[h]
          /\ \/ frame'[f].pc = "free"
             \/ /\ frame'[f].code = c
                /\ \/ frame'[f].use_llvm = FALSE
                   \/ /\ frame'[f].use_llvm = frame[f].use_llvm
                      /\ frame[f].pc \in {"ready", "native", "interp"}
      <3>1. CASE CompileFails(f) \/ Return(f)
        BY <1>0, <3>1 DEF CompileFails, Return, FrameStep, Free
      <3>2. CASE EvalInterpreted(f) \/ Bail(f)
        BY <1>0, <2>c, <2>0, <3>2, ZenonT(60) DEF EvalInterpreted, Bail, FrameStep, FrameRecord
      <3>3. CASE EvalNative(f) \/ Yield(f)
        BY <1>0, <2>c, <2>0, <3>3 DEF EvalNative, Yield, FrameStep, FrameRecord
      <3>. QED BY <1>3, <3>1, <3>2, <3>3
    <2>4. FramesKept'
      <3>1. \A h \in Frame : Busy(h)' => frame'[h].code \in liveCodes'
        BY <1>0, <2>c, <2>0, <2>1, <2>3 DEF FramesKept, Busy
      <3>2. \A h \in Frame : frame'[h].pc \in {"ready", "native", "interp"} =>
              (frame'[h].use_llvm => co_native_function'[frame'[h].code] # NoIR)
        <4>1. SUFFICES ASSUME NEW h \in Frame, frame'[h].pc \in {"ready", "native", "interp"},
                              frame'[h].use_llvm
                       PROVE  co_native_function'[frame'[h].code] # NoIR
          OBVIOUS
        <4>2. CASE h # f
          <5>1. frame'[h] = frame[h]
            BY <2>3, <4>2
          <5>. QED BY <1>0, <2>1, <4>1, <5>1 DEF FramesKept
        <4>3. CASE h = f
          <5>1. frame'[f].code = c /\ frame'[f].use_llvm = frame[f].use_llvm
            BY <2>3, <4>1, <4>3
          <5>2. frame[f].pc \in {"ready", "native", "interp"} /\ frame[f].use_llvm
            BY <2>3, <4>1, <4>3, <5>1
          <5>. QED BY <1>0, <2>c, <2>1, <4>3, <5>1, <5>2 DEF FramesKept
        <4>. QED BY <4>2, <4>3
      <3>. QED BY <1>0, <2>1, <3>1, <3>2 DEF FramesKept
    <2>5. \A h \in Frame : h # f => Entered(h)' = Entered(h)
      BY <2>3 DEF Entered
    <2>6. LifeStep
      <3>1. CASE Entered(f)' = Entered(f)
        BY <2>2, <2>5, <3>1, SameLife
      <3>2. CASE EvalNative(f)
        <4>1. frame[f].pc = "ready" /\ frame[f].use_llvm /\ co_use_llvm[c]
          BY <2>c, <3>2 DEF EvalNative
        <4>2. frame'[f].pc = "native" /\ frame'[f].code = c
          BY <1>0, <2>c, <2>0, <3>2 DEF EvalNative, FrameStep, FrameRecord
        <4>3. Phase(c) = "compiled"
          BY <1>0, <2>c, <2>0, <4>1 DEF Phase, FramesKept, RetiredOff
        <4>4. Entered(f) = NoCode /\ Entered(f)' = c
          BY <2>c, <4>1, <4>2 DEF Entered
        <4>5. Life!Enter(f, c)
          BY <2>2, <2>5, <4>3, <4>4 DEF Life!Enter, Entered
        <4>. QED BY <2>c, <2>0, <4>5 DEF LifeStep, Life!LifeNext
      <3>3. CASE ~EvalNative(f) /\ Entered(f)' # Entered(f)
        <4>1. frame'[f].pc # "native"
          <5>1. CASE CompileFails(f) \/ Return(f)
            BY <1>0, <5>1 DEF CompileFails, Return, FrameStep, Free
          <5>2. CASE EvalInterpreted(f)
            BY <1>0, <2>0, <5>2 DEF EvalInterpreted, FrameStep, FrameRecord
          <5>3. CASE Bail(f)
            BY <1>0, <2>0, <5>3 DEF Bail, FrameStep, FrameRecord
          <5>4. CASE Yield(f)
            BY <1>0, <2>0, <5>4 DEF Yield, FrameStep, FrameRecord
          <5>. QED BY <1>3, <3>3, <5>1, <5>2, <5>3, <5>4
        <4>2. Entered(f) # NoCode /\ Entered(f)' = NoCode
          BY <3>3, <4>1 DEF Entered
        <4>3. Life!Leave(f)
          BY <2>2, <2>5, <4>2 DEF Life!Leave, Entered
        <4>. QED BY <4>3 DEF LifeStep, Life!LifeNext
      <3>. QED BY <3>1, <3>2, <3>3
    <2>. QED BY <2>2, <2>4, <2>6
  <1>. QED BY <1>1, <1>2, <1>3 DEF FrameActions

LEMMA NextLife ==
  ASSUME "reenable" \notin Env
  PROVE  LifeInv /\ [Next]_vars => LifeStep /\ RetiredOff' /\ FramesKept'
  <1>1. LifeInv /\ UNCHANGED vars => LifeStep /\ RetiredOff' /\ FramesKept'
    BY QuietLife DEF vars, irVars, heatVars, LifeInv, FramesKept
  <1>. QED BY <1>1, DictStepLife, CodeStepLife, CallStepLife, FrameActionLife DEF Next

LEMMA LifeInvInductive ==
  ASSUME NeverTwiceShort, "reenable" \notin Env
  PROVE  Spec => []LifeInv
  <1>1. Init => RetiredOff /\ FramesKept
    BY InitFresh DEF Init, FramesKept, Busy, Free
  <1>2. LifeInv /\ [Next]_vars => RetiredOff' /\ FramesKept'
    BY NextLife
  <1>. QED BY <1>1, <1>2, WatchInvInductive, PTL DEF Spec, LifeInv

\* Unless a program re-enables invalidated code or the watcher arrays lose their order,
\* JitCode implements MachineCodeLife: PyEval_EvalFrame() starts machine code only while it
\* is valid, machine code is made once, and code that a frame runs is not freed.
THEOREM ImplementsMachineCodeLife ==
  ASSUME NeverTwiceShort, "reenable" \notin Env
  PROVE  Spec => ImplementsLife
  <1>1. Init => Life!LifeInit
    BY DEF Init, Life!LifeInit, Phase, Free
  <1>2. LifeInv /\ [Next]_vars => [Life!LifeNext]_(Life!lifeVars)
    BY NextLife DEF LifeStep
  <1>. QED BY <1>1, <1>2, LifeInvInductive, PTL DEF Spec, ImplementsLife, Life!LifeSpec

-----------------------------------------------------------------------------
(* The assertions of PyEval_EvalFrame().                                     *)

\* What a compilation will read, LOAD_GLOBAL_fast can read.
CompilesSafely == \A f \in Frame : frame[f].pc = "compile" => ~ReadsNullDict(frame[f].code)

\* Nothing compiles behind the back of mark_called_and_maybe_compile().
OnlyCallsCompile == Env \cap {"reenable", "collect", "print_ir", "set_optimization", "nomem_twice"} = {}

LEMMA EntrySafe ==
  ASSUME OnlyCallsCompile, LifeInv, EntryAssertionsHold, CompilesSafely, [Next]_vars
  PROVE  EntryAssertionsHold' /\ CompilesSafely'
  <1> DEFINE Labels == {"NoNative", "FatalReentry", "NullDict"}
  <1>0. TypeOK /\ FramesKept /\ RetiredOff
    BY DEF LifeInv, WatchInv, TypeInv
  <1>1. CASE DictStep
    <2>1. failed' \subseteq failed \cup WatcherAssertions
      <3> DEFINE Few == failed' \subseteq failed \cup WatcherAssertions
      <3>0. \A d \in Dict : NotifyWatchers(d) => Few
        BY <1>0, NotifyTypes
      <3>1. \A d \in Dict : PyDict_New(d) \/ Dict_dealloc(d) \/ PyDict_Clear(d) \/ Notify(d) => Few
        BY <3>0 DEF PyDict_New, Dict_dealloc, PyDict_Clear, Notify
      <3>2. \A d \in Dict : MergeEnd(d) \/ MergeFail(d) => Few
        BY <3>0 DEF MergeEnd, MergeFail
      <3>3. \A d \in Dict, n \in Name : DelItem(d, n) \/ Dict_pop(d, n) \/ MergeEntry(d, n) => Few
        BY <3>0 DEF DelItem, Dict_pop, MergeEntry, StoreAndDrop
      <3>4. \A d \in Dict, n \in Name, v \in Value : SetItemNew(d, n, v) \/ SetItemReplace(d, n, v) => Few
        BY <3>0 DEF SetItemNew, SetItemReplace, StoreAndDrop
      <3>5. \A d, other \in Dict, override \in BOOLEAN : MergeBegin(d, other, override) => Few
        BY DEF MergeBegin
      <3> HIDE DEF Few
      <3>6. Few
        BY <1>1, <3>1, <3>2, <3>3, <3>4, <3>5 DEF DictStep
      <3> QED BY <3>6 DEF Few
    <2>2. UNCHANGED frame
      BY <1>1 DEF DictStep, PyDict_New, Dict_dealloc, PyDict_Clear, Notify, MergeEnd, MergeFail,
         DelItem, Dict_pop, MergeEntry, SetItemNew, SetItemReplace, StoreAndDrop, MergeBegin,
         NotifyFrame
    <2>3. \A f \in Frame : frame[f].pc # "compile"
      BY <1>1, SMTT(30) DEF DictStep, PyDict_New, Dict_dealloc, PyDict_Clear, Notify, MergeEnd, MergeFail,
         DelItem, Dict_pop, MergeEntry, SetItemNew, SetItemReplace, StoreAndDrop, MergeBegin,
         CanRun, CompilesDone, OnlyCallsCompile
    <2>. QED BY <2>1, <2>2, <2>3 DEF EntryAssertionsHold, CompilesSafely, WatcherAssertions
  <1>2. CASE CodeStep
    <2>1. failed' \subseteq failed \cup {"FreedDict", "DropNonWatcher"}
      BY <1>2 DEF CodeStep, PyCode_New, Code_dealloc, Set_optimization, Llvmfunction_str,
         Set_use_llvm, PyType_Modified, SetJitControl, OnlyCallsCompile, DropFailures, Fails
    <2>2. UNCHANGED frame
      BY <1>2 DEF CodeStep, PyCode_New, Code_dealloc, Set_optimization, Llvmfunction_str,
         Set_use_llvm, PyType_Modified, SetJitControl, OnlyCallsCompile, CodeFrame
    <2>3. \A f \in Frame : frame[f].pc # "compile"
      BY <1>2 DEF CodeStep, PyCode_New, Code_dealloc, Set_optimization, Llvmfunction_str,
         Set_use_llvm, PyType_Modified, SetJitControl, CanRun, CompilesDone, OnlyCallsCompile
    <2>. QED BY <2>1, <2>2, <2>3 DEF EntryAssertionsHold, CompilesSafely
  <1>3. CASE CallStep
    <2>1. PICK f \in Frame, c \in Code, g \in Dict, b \in Dict :
            \/ CallInterpreted(f, c, g, b) \/ CallCompiled(f, c, g, b)
            \/ CallJit(f, c, g, b) \/ CallRefused(f, c, g, b)
            \/ CallCompile(f, c, g, b) \/ CallWatchFails(f, c, g, b)
      BY <1>3 DEF CallStep
    <2>2. failed' \subseteq failed \cup {"AddTwice", "FreedDict", "DropNonWatcher"}
      BY <2>1 DEF CallInterpreted, CallCompiled, CallJit, CallRefused, CallCompile,
                  CallWatchFails, WatchGlobals, DropFailures, Fails
    <2>3. \A h \in Frame : frame[h].pc # "compile"
      BY <2>1 DEF CallInterpreted, CallCompiled, CallJit, CallRefused, CallCompile,
                  CallWatchFails, Call, CanRun, CompilesDone, OnlyCallsCompile
    <2>4. \A h \in Frame \ {f} : frame'[h].pc # "compile"
      BY <1>0, <2>1, <2>3 DEF CallInterpreted, CallCompiled, CallJit, CallRefused,
                  CallCompile, CallWatchFails, NewFrame, TypeOK
    <2>5. ASSUME frame'[f].pc = "compile" PROVE ~ReadsNullDict(frame[f].code)'
      <3>1. CallCompile(f, c, g, b)
        <4>1. \A u : NewFrame(f, "ready", c, g, b, u) => frame'[f].pc = "ready"
          BY <1>0 DEF NewFrame, TypeOK
        <4>2. CASE CallInterpreted(f, c, g, b) \/ CallCompiled(f, c, g, b)
                   \/ CallRefused(f, c, g, b)
          BY <2>5, <4>1, <4>2 DEF CallInterpreted, CallCompiled, CallRefused
        <4>3. CASE CallJit(f, c, g, b) \/ CallWatchFails(f, c, g, b)
          BY <2>3, <2>5, <4>1, <4>3 DEF CallJit, CallWatchFails
        <4>. QED BY <2>1, <4>2, <4>3
      <3>2. frame'[f].code = c
        BY <1>0, <3>1 DEF CallCompile, NewFrame, TypeOK
      <3>3. co_fdo_globals'[c] => co_assumed_globals'[c] = g
        BY <1>0, <3>1 DEF CallCompile, WatchGlobals, TypeOK
      <3>. QED BY <3>2, <3>3, ConstantsAssumption DEF ReadsNullDict, Watching
    <2>. QED BY <2>2, <2>4, <2>5 DEF EntryAssertionsHold, CompilesSafely
  <1>4. CASE FrameActions
    <2>1. PICK f \in Frame :
            \/ Compile(f) \/ CompileFails(f) \/ EvalInterpreted(f) \/ EvalNative(f)
            \/ Bail(f) \/ Yield(f) \/ Return(f) \/ ForIter(f)
      BY <1>4 DEF FrameActions
    <2>2. \A h \in Frame : /\ frame'[h].pc = "compile" => frame'[h] = frame[h]
                           /\ frame[h].pc = "compile" => frame[h].code \in Code
      <3>1. \A h \in Frame : frame[h].pc = "compile" => frame[h] \in FrameRecord
        BY <1>0 DEF TypeOK, Free
      <3>2. ASSUME ~ForIter(f), ~Compile(f), NEW h \in Frame, frame'[h].pc = "compile"
            PROVE  frame'[h] = frame[h]
        <4>1. CASE h # f
          BY <1>0, <2>1, <3>2, <4>1 DEF CompileFails, EvalInterpreted, EvalNative, Bail, Yield,
             Return, FrameStep, TypeOK
        <4>2. CASE h = f
          <5>0. frame[f].pc # "free" => frame[f] \in FrameRecord
            BY <1>0 DEF TypeOK, Free
          <5>1. frame'[f].pc \in {"free", "ready", "native", "interp"}
            <6>1. CASE CompileFails(f) \/ Return(f)
              BY <1>0, <6>1 DEF CompileFails, Return, FrameStep, TypeOK, Free
            <6>2. CASE EvalInterpreted(f)
              BY <1>0, <5>0, <6>2 DEF EvalInterpreted, FrameStep, TypeOK, FrameRecord
            <6>3. CASE EvalNative(f)
              BY <1>0, <5>0, <6>3 DEF EvalNative, FrameStep, TypeOK, FrameRecord
            <6>4. CASE Bail(f)
              BY <1>0, <5>0, <6>4 DEF Bail, FrameStep, TypeOK, FrameRecord
            <6>5. CASE Yield(f)
              BY <1>0, <5>0, <6>5 DEF Yield, FrameStep, TypeOK, FrameRecord
            <6>. QED BY <2>1, <3>2, <6>1, <6>2, <6>3, <6>4, <6>5
          <5>. QED BY <3>2, <4>2, <5>1
        <4>. QED BY <4>1, <4>2
      <3>3. CASE ForIter(f)
        BY <3>1, <3>3 DEF ForIter, FrameRecord
      <3>4. CASE Compile(f)
        <4>1. \/ frame' = frame
              \/ frame' = [frame EXCEPT ![f].pc = "ready"]
              \/ frame' = [frame EXCEPT ![f] = Free]
          BY <3>4 DEF Compile, Crash
        <4>2. frame[f] \in FrameRecord
          BY <3>1, <3>4 DEF Compile
        <4>. QED BY <1>0, <3>1, <4>1, <4>2 DEF TypeOK, Free, FrameRecord
      <3>. QED BY <2>1, <3>1, <3>2, <3>3, <3>4 DEF FrameRecord
    <2>3. \A k \in Code : ~ReadsNullDict(k) => ~ReadsNullDict(k)'
      <3>1. \/ UNCHANGED assumeVars
            \/ /\ DropAssumptions(frame[f].code)
               /\ co_fdo_globals' = [co_fdo_globals EXCEPT ![frame[f].code] = FALSE]
        BY <2>1 DEF Compile, Crash, FinishFunction, CompileFails, EvalInterpreted, EvalNative,
           Bail, Yield, Return, ForIter, FrameStep
      <3>. QED BY <1>0, <3>1 DEF DropAssumptions, ReadsNullDict, Watching, assumeVars, TypeOK
    <2>4. CompilesSafely'
      <3>1. ASSUME NEW h \in Frame, frame'[h].pc = "compile"
            PROVE  ~ReadsNullDict(frame[h].code)'
        <4>1. PICK k \in Code : k = frame[h].code /\ k = frame'[h].code
          BY <2>2, <3>1
        <4>2. ~ReadsNullDict(k)
          BY <2>2, <3>1, <4>1 DEF CompilesSafely
        <4>. QED BY <2>3, <4>1, <4>2
      <3>. QED BY <3>1 DEF CompilesSafely
    <2>5. failed' \cap Labels \subseteq failed
      <3>1. CASE EvalInterpreted(f) \/ EvalNative(f)
        <4>1. frame[f].pc = "ready" /\ frame[f].code \in Code
          BY <1>0, <3>1 DEF EvalInterpreted, EvalNative, TypeOK, FrameRecord, Free
        <4>2. frame[f].use_llvm => co_native_function[frame[f].code] # NoIR
          BY <1>0, <4>1 DEF FramesKept
        <4>. QED BY <1>0, <3>1, <4>1, <4>2 DEF EvalInterpreted, EvalNative, Fails, RetiredOff
      <3>2. CASE Compile(f)
        BY <3>2 DEF Compile, CompilesSafely, FinishFunction, DropFailures, Fails
      <3>3. CASE CompileFails(f) \/ Bail(f) \/ Yield(f) \/ Return(f) \/ ForIter(f)
        BY <3>3 DEF CompileFails, Bail, Yield, Return, ForIter
      <3>. QED BY <2>1, <3>1, <3>2, <3>3
    <2>. QED BY <2>4, <2>5 DEF EntryAssertionsHold
  <1>5. CASE UNCHANGED vars
    BY <1>5 DEF vars, assumeVars, EntryAssertionsHold, CompilesSafely, ReadsNullDict, Watching
  <1>. QED BY <1>1, <1>2, <1>3, <1>4, <1>5 DEF Next

\* No frame enters machine code that is missing or was invalidated, and LOAD_GLOBAL_fast
\* never reads a dictionary that is not there, as long as code is compiled by calls only
\* and the watcher arrays keep their order.
THEOREM EntryAssertionsAlwaysHold ==
  ASSUME OnlyCallsCompile
  PROVE  Spec => []EntryAssertionsHold
  <1>1. "reenable" \notin Env /\ NeverTwiceShort
    BY DEF OnlyCallsCompile, NeverTwiceShort
  <1>2. Init => EntryAssertionsHold /\ CompilesSafely
    BY DEF Init, EntryAssertionsHold, CompilesSafely, Free
  <1>. QED BY <1>1, <1>2, EntrySafe, LifeInvInductive, PTL DEF Spec
=============================================================================
