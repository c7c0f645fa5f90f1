------------------------- MODULE RunReportingProofs -------------------------
(***************************************************************************)
(* The counters of a run balance, its percentiles have the ranks that are  *)
(* asked for and its report adds up, for any number of questions, any      *)
(* latencies, any number of attempts and any number of repeated events.    *)
(*                                                                         *)
(* First the operators of the report: what sorting and taking values do,   *)
(* then what follows for a percentile, a median and a whole report.  Then  *)
(* the inductive invariant IInv of the run, one lemma for each action, and *)
(* the properties.                                                         *)
(***************************************************************************)
EXTENDS RunReporting, WellFoundedInduction, FiniteSetTheorems, FunctionTheorems,
        SequenceTheorems, TLAPS

-----------------------------------------------------------------------------
(* Induction, by the least counterexample. *)

\* A set of naturals that holds 0 and, with any number, the next one is all of them.
LEMMA Induction ==
    ASSUME NEW S, 0 \in S, \A n \in Nat : n \in S => n + 1 \in S
    PROVE  \A n \in Nat : n \in S
<1> DEFINE R == {ss \in Nat \X Nat : ss[1] < ss[2]}
           T == Nat \ S
<1>1. SUFFICES ASSUME T # {} PROVE FALSE
  OBVIOUS
<1>2. IsWellFoundedOn(R, Nat)
  BY NatLessThanWellFounded DEF OpToRel
<1>3. PICK x \in T : \A y \in T : ~(<<y, x>> \in R)
  <2> HIDE DEF R
  <2> QED BY <1>1, <1>2, WFMin
<1>4. x \in Nat /\ x # 0 /\ x \notin S
  BY <1>3
<1>5. x - 1 \in Nat /\ x - 1 < x /\ (x - 1) + 1 = x
  BY <1>4
<1>6. x - 1 \in S
  BY <1>3, <1>5
<1> QED BY <1>4, <1>5, <1>6

-----------------------------------------------------------------------------
(* The values at some places. *)

\* Taken, stopped after the first n values.
TakenUpTo(values, places) ==
    LET taken[n \in 0..Len(values)] ==
            IF n = 0 THEN <<>>
            ELSE IF n \in places THEN Append(taken[n - 1], values[n]) ELSE taken[n - 1]
    IN  taken

\* It exists, and takes the values one by one.
LEMMA TakenDefined ==
    ASSUME NEW values, NEW places, Len(values) \in Nat
    PROVE  /\ Taken(values, places) = TakenUpTo(values, places)[Len(values)]
           /\ TakenUpTo(values, places)[0] = <<>>
           /\ \A n \in 1..Len(values) :
                 TakenUpTo(values, places)[n] =
                     IF n \in places THEN Append(TakenUpTo(values, places)[n - 1], values[n])
                     ELSE TakenUpTo(values, places)[n - 1]
<1>1. Taken(values, places) = TakenUpTo(values, places)[Len(values)]
  BY DEF Taken, TakenUpTo
<1> DEFINE N == Len(values)
           Step(f, n) == IF n = 0 THEN <<>>
                         ELSE IF n \in places THEN Append(f[n - 1], values[n]) ELSE f[n - 1]
           S == {m \in Nat : \E f : f = [n \in 0..m |-> Step(f, n)]}
<1>2. 0 \in S
  <2> DEFINE f == [n \in 0..0 |-> <<>>]
  <2>1. f = [n \in 0..0 |-> Step(f, n)]
    OBVIOUS
  <2> QED BY <2>1
<1>3. \A m \in Nat : m \in S => m + 1 \in S
  <2> SUFFICES ASSUME NEW m \in Nat, m \in S PROVE m + 1 \in S
    OBVIOUS
  <2>1. PICK h : h = [n \in 0..m |-> Step(h, n)]
    OBVIOUS
  <2> DEFINE g == [n \in 0..(m + 1) |-> IF n \in 0..m THEN h[n] ELSE Step(h, n)]
  <2>2. \A n \in 0..(m + 1) : g[n] = Step(g, n)
    <3> SUFFICES ASSUME NEW n \in 0..(m + 1) PROVE g[n] = Step(g, n)
      OBVIOUS
    <3>1. n # 0 => n - 1 \in 0..m /\ g[n - 1] = h[n - 1]
      OBVIOUS
    <3>2. g[n] = Step(h, n)
      BY <2>1
    <3> QED BY <3>1, <3>2
  <2>3. g = [n \in 0..(m + 1) |-> Step(g, n)]
    BY <2>2
  <2> HIDE DEF g
  <2>4. \E f : f = [n \in 0..(m + 1) |-> Step(f, n)]
    BY <2>3
  <2>5. m + 1 \in Nat
    OBVIOUS
  <2> HIDE DEF Step
  <2> QED BY <2>4, <2>5
<1> HIDE DEF S
<1>4. N \in S
  BY <1>2, <1>3, Induction
<1> DEFINE taken == TakenUpTo(values, places)
<1>5. taken = [n \in 0..N |-> Step(taken, n)]
  BY <1>4 DEF S, TakenUpTo
<1> HIDE DEF taken
<1>6. \A n \in 0..N : taken[n] = Step(taken, n)
  <2> HIDE DEF Step
  <2> QED BY <1>5
<1>7. \A n \in 1..N : n \in 0..N /\ n # 0
  OBVIOUS
<1>8. /\ taken[0] = <<>>
      /\ \A n \in 1..N : taken[n] = IF n \in places THEN Append(taken[n - 1], values[n])
                                    ELSE taken[n - 1]
  BY <1>6, <1>7
<1> QED BY <1>1, <1>8 DEF taken

\* At how many of the places the value is in W.
CountIn(values, places, W) == Cardinality({i \in places : values[i] \in W})

\* What is taken: the values at these places, and no other, each as often.
LEMMA TakenCounts ==
    ASSUME NEW U, NEW values \in Seq(U), NEW places, places \subseteq 1..Len(values),
           NEW V, \A i \in places : values[i] \in V
    PROVE  /\ Taken(values, places) \in Seq(V)
           /\ Len(Taken(values, places)) = Cardinality(places)
           /\ \A W : CountIn(Taken(values, places), 1..Len(Taken(values, places)), W)
                       = CountIn(values, places, W)
<1> DEFINE N == Len(values)
           taken == TakenUpTo(values, places)
<1>1. /\ N \in Nat /\ DOMAIN values = 1..N
      /\ \A i \in places : i \in Nat /\ i >= 1 /\ i <= N /\ values[i] \in V
  OBVIOUS
<1>2. Taken(values, places) = taken[N]
  BY <1>1, TakenDefined
<1>3. /\ taken[0] = <<>>
      /\ \A n \in 1..N : taken[n] = IF n \in places THEN Append(taken[n - 1], values[n])
                                    ELSE taken[n - 1]
  BY <1>1, TakenDefined
<1> HIDE DEF N, taken
<1> DEFINE There(n, W) == {k \in 1..Len(taken[n]) : taken[n][k] \in W}
           Here(n, W) == {i \in places : i <= n /\ values[i] \in W}
           Same(n) == /\ taken[n] \in Seq(V)
                      /\ \A W : /\ IsFiniteSet(There(n, W)) /\ IsFiniteSet(Here(n, W))
                                /\ Cardinality(There(n, W)) = Cardinality(Here(n, W))
           S == {n \in Nat : n <= N => Same(n)}
<1>4. Same(0)
  <2>1. taken[0] \in Seq(V) /\ Len(taken[0]) = 0
    BY <1>3
  <2>2. ASSUME NEW W PROVE There(0, W) = {}
    BY <2>1
  <2>3. ASSUME NEW W PROVE Here(0, W) = {}
    <3>1. \A i \in places : ~(i <= 0)
      BY <1>1
    <3> QED BY <3>1
  <2> HIDE DEF There, Here
  <2> QED BY <2>1, <2>2, <2>3, FS_EmptySet
<1>5. ASSUME NEW m \in Nat, Same(m), m + 1 <= N
      PROVE  Same(m + 1)
  <2>1. taken[m] \in Seq(V)
    BY <1>5
  <2>2. m + 1 \in 1..N /\ (m + 1) - 1 = m
    BY <1>1, <1>5
  <2>3. \A i \in places : i <= m + 1 <=> (i <= m \/ i = m + 1)
    BY <1>1
  <2>4. CASE m + 1 \notin places
    <3>1. taken[m + 1] = taken[m]
      BY <1>3, <2>2, <2>4
    <3>2. ASSUME NEW W PROVE Here(m + 1, W) = Here(m, W)
      BY <2>3, <2>4
    <3>3. ASSUME NEW W PROVE There(m + 1, W) = There(m, W)
      BY <3>1
    <3> HIDE DEF There, Here
    <3> QED BY <1>5, <3>1, <3>2, <3>3
  <2>5. CASE m + 1 \in places
    <3> DEFINE x == values[m + 1]
               L == Len(taken[m])
    <3>1. taken[m + 1] = Append(taken[m], x)
      BY <1>3, <2>2, <2>5
    <3>2. x \in V
      BY <1>1, <2>5
    <3>3. /\ taken[m + 1] \in Seq(V) /\ L \in Nat /\ Len(taken[m + 1]) = L + 1
          /\ \A k \in 1..L : taken[m + 1][k] = taken[m][k]
          /\ taken[m + 1][L + 1] = x
      BY <2>1, <3>1, <3>2
    <3>4. \A k : k \in 1..(L + 1) <=> (k \in 1..L \/ k = L + 1)
      BY <3>3
    <3>5. L + 1 \notin 1..L
      BY <3>3
    <3>6. ~(m + 1 <= m)
      OBVIOUS
    <3>8. m + 1 \in places
      BY <2>5
    <3>7. ASSUME NEW W
          PROVE  /\ IsFiniteSet(There(m + 1, W)) /\ IsFiniteSet(Here(m + 1, W))
                 /\ Cardinality(There(m + 1, W)) = Cardinality(Here(m + 1, W))
      <4>1. /\ IsFiniteSet(There(m, W)) /\ IsFiniteSet(Here(m, W))
            /\ Cardinality(There(m, W)) = Cardinality(Here(m, W))
        BY <1>5
      <4>2. CASE x \notin W
        <5>1. There(m + 1, W) = There(m, W)
          BY <3>3, <3>4, <4>2
        <5>2. Here(m + 1, W) = Here(m, W)
          BY <2>3, <4>2
        <5> HIDE DEF There, Here
        <5> QED BY <4>1, <5>1, <5>2
      <4>3. CASE x \in W
        <5>1. There(m + 1, W) = There(m, W) \cup {L + 1} /\ L + 1 \notin There(m, W)
          BY <3>3, <3>4, <3>5, <4>3
        <5>2. Here(m + 1, W) = Here(m, W) \cup {m + 1}
          BY <2>3, <3>8, <4>3
        <5>3. m + 1 \notin Here(m, W)
          BY <3>6
        <5> HIDE DEF There, Here
        <5>4. L + 1 \notin There(m, W) /\ Cardinality(There(m, W)) = Cardinality(Here(m, W))
          BY <4>1, <5>1
        <5>5. /\ IsFiniteSet(There(m + 1, W))
              /\ Cardinality(There(m + 1, W)) = Cardinality(There(m, W)) + 1
          BY <4>1, <5>1, <5>4, FS_AddElement
        <5>6. /\ IsFiniteSet(Here(m + 1, W))
              /\ Cardinality(Here(m + 1, W)) = Cardinality(Here(m, W)) + 1
          BY <4>1, <5>2, <5>3, FS_AddElement
        <5> QED BY <5>4, <5>5, <5>6
      <4> QED BY <4>2, <4>3
    <3> QED BY <3>3, <3>7
  <2> QED BY <2>4, <2>5
<1> HIDE DEF Same
<1>6. \A n \in Nat : n \in S
  <2>1. 0 \in S
    BY <1>4
  <2>2. \A m \in Nat : m \in S => m + 1 \in S
    BY <1>1, <1>5
  <2> HIDE DEF S
  <2> QED BY <2>1, <2>2, Induction
<1>7. /\ taken[N] \in Seq(V)
      /\ \A W : Cardinality(There(N, W)) = Cardinality(Here(N, W))
  <2>1. Same(N)
    BY <1>1, <1>6
  <2> QED BY <2>1 DEF Same
<1>8. ASSUME NEW W PROVE Here(N, W) = {i \in places : values[i] \in W}
  BY <1>1
<1>9. Len(taken[N]) = Cardinality(places)
  <2>1. There(N, V) = 1..Len(taken[N])
    BY <1>7
  <2>2. Here(N, V) = places
    <3>1. \A i \in places : i <= N /\ values[i] \in V
      BY <1>1
    <3> QED BY <3>1
  <2>3. Len(taken[N]) \in Nat
    BY <1>7
  <2>4. Cardinality(1..Len(taken[N])) = Len(taken[N])
    BY <2>3, FS_Interval
  <2> HIDE DEF There, Here
  <2> QED BY <1>7, <2>1, <2>2, <2>4
<1>10. ASSUME NEW W
       PROVE  CountIn(taken[N], 1..Len(taken[N]), W) = CountIn(values, places, W)
  BY <1>7, <1>8 DEF CountIn
<1> QED BY <1>2, <1>7, <1>9, <1>10

\* All of them are the sequence itself.
LEMMA TakenAll ==
    ASSUME NEW V, NEW values \in Seq(V)
    PROVE  Taken(values, 1..Len(values)) = values
<1> DEFINE N == Len(values)
           places == 1..N
           taken == TakenUpTo(values, places)
<1>1. N \in Nat /\ DOMAIN values = 1..N /\ \A i \in 1..N : values[i] \in V
  OBVIOUS
<1>2. Taken(values, places) = taken[N]
  BY <1>1, TakenDefined
<1>3. /\ taken[0] = <<>>
      /\ \A n \in 1..N : taken[n] = IF n \in places THEN Append(taken[n - 1], values[n])
                                    ELSE taken[n - 1]
  BY <1>1, TakenDefined
<1> HIDE DEF N, places, taken
<1>4. \A n \in 1..N : taken[n] = Append(taken[n - 1], values[n])
  BY <1>3 DEF places
<1> DEFINE Same(m) == /\ taken[m] \in Seq(V) /\ Len(taken[m]) = m
                      /\ \A k \in 1..m : taken[m][k] = values[k]
           S == {m \in Nat : m <= N => Same(m)}
<1>5. Same(0)
  BY <1>3
<1>6. ASSUME NEW m \in Nat, Same(m), m + 1 <= N
      PROVE  Same(m + 1)
  <2>1. m + 1 \in 1..N /\ (m + 1) - 1 = m
    BY <1>1, <1>6
  <2>2. taken[m + 1] = Append(taken[m], values[m + 1]) /\ values[m + 1] \in V
    BY <1>1, <1>4, <2>1
  <2> QED BY <1>6, <2>2
<1> HIDE DEF Same
<1>7. \A n \in Nat : n \in S
  <2>1. 0 \in S
    BY <1>5
  <2>2. \A m \in Nat : m \in S => m + 1 \in S
    BY <1>1, <1>6
  <2> HIDE DEF S
  <2> QED BY <2>1, <2>2, Induction
<1>8. Same(N)
  BY <1>1, <1>7
<1>9. taken[N] = values
  BY <1>1, <1>8 DEF N, Same
<1> QED BY <1>2, <1>9 DEF N, places

-----------------------------------------------------------------------------
(* Rounding. *)

LEMMA RoundedBounds ==
    ASSUME NEW a \in Nat
    PROVE  /\ Rounded(a, 100) \in Nat
           /\ 200 * Rounded(a, 100) - 2 * a <= 100
           /\ 2 * a - 200 * Rounded(a, 100) <= 100
<1> DEFINE d == a \div 100
           r == a % 100
<1>1. d \in Nat /\ r \in 0..99 /\ a = 100 * d + r
  OBVIOUS
<1>2. Rounded(a, 100) = IF 2 * r < 100 \/ (2 * r = 100 /\ d % 2 = 0) THEN d ELSE d + 1
  BY DEF Rounded
<1> HIDE DEF d, r
<1> QED BY <1>1, <1>2

LEMMA IndexBounds ==
    ASSUME NEW n \in Nat \ {0}, NEW percent \in {50, 95}
    PROVE  /\ Index(n, percent) \in 0..(n - 1)
           /\ 200 * Index(n, percent) - 2 * (n - 1) * percent <= 100
           /\ 2 * (n - 1) * percent - 200 * Index(n, percent) <= 100
<1>1. CASE n = 1
  BY <1>1 DEF Index
<1>2. CASE n # 1
  <2> DEFINE a == (n - 1) * percent
  <2>1. a \in Nat /\ a <= 95 * (n - 1) /\ 2 * (n - 1) * percent = 2 * a
    <3>1. CASE percent = 50
      BY <3>1
    <3>2. CASE percent = 95
      BY <3>2
    <3> QED BY <3>1, <3>2
  <2>2. Index(n, percent) = Rounded(a, 100)
    BY <1>2 DEF Index
  <2> HIDE DEF a
  <2>3. /\ Index(n, percent) \in Nat
        /\ 200 * Index(n, percent) - 2 * a <= 100
        /\ 2 * a - 200 * Index(n, percent) <= 100
    BY <2>1, <2>2, RoundedBounds
  <2>4. Index(n, percent) <= n - 1
    BY <1>2, <2>1, <2>3
  <2>5. n - 1 \in Nat
    OBVIOUS
  <2> HIDE DEF Index
  <2> QED BY <2>1, <2>3, <2>4, <2>5
<1> QED BY <1>1, <1>2

-----------------------------------------------------------------------------
(* Sorting. *)

\* How many of the values are below v, and how many are not above it.
Below(values, v) == Cardinality({i \in DOMAIN values : values[i] < v})
Upto(values, v) == Cardinality({i \in DOMAIN values : values[i] <= v})

\* Every place is taken by one value.
LEMMA PlacesAreFilled ==
    ASSUME NEW values \in Seq(Nat), NEW place \in 1..Len(values)
    PROVE  \E i \in 1..Len(values) : Place(values, i) = place
<1> DEFINE n == Len(values)
           Upto_(i) == {j \in DOMAIN values : \/ values[j] < values[i]
                                     \/ (values[j] = values[i] /\ j <= i)}
           f == [i \in 1..n |-> Place(values, i)]
<1>1. /\ n \in Nat /\ DOMAIN values = 1..n /\ \A i \in 1..n : values[i] \in Nat
      /\ IsFiniteSet(1..n) /\ Cardinality(1..n) = n
  <2>1. n \in Nat /\ DOMAIN values = 1..n /\ \A i \in 1..n : values[i] \in Nat
    OBVIOUS
  <2> HIDE DEF n
  <2> QED BY <2>1, FS_Interval
<1>2. \A i \in 1..n : f[i] = Cardinality(Upto_(i))
  BY DEF Place
<1> HIDE DEF n, f
<1>3. ASSUME NEW i \in 1..n
      PROVE  /\ i \in Upto_(i) /\ IsFiniteSet(Upto_(i)) /\ Upto_(i) \in SUBSET (1..n)
             /\ f[i] \in 1..n
  <2>1. i \in Upto_(i) /\ Upto_(i) \in SUBSET (1..n)
    BY <1>1
  <2>2. f[i] = Cardinality(Upto_(i))
    BY <1>2
  <2> HIDE DEF Upto_
  <2>3. IsFiniteSet(Upto_(i)) /\ Cardinality(Upto_(i)) <= n
    BY <1>1, <2>1, FS_Subset
  <2>4. Cardinality(Upto_(i)) \in Nat /\ Cardinality(Upto_(i)) # 0
    BY <2>1, <2>3, FS_CardinalityType, FS_EmptySet
  <2> QED BY <1>1, <2>1, <2>2, <2>3, <2>4
<1>4. ASSUME NEW i \in 1..n, NEW j \in 1..n,
             values[i] < values[j] \/ (values[i] = values[j] /\ i < j)
      PROVE  f[i] # f[j]
  <2>1. Upto_(i) \subseteq Upto_(j)
    BY <1>1, <1>4
  <2>2. j \notin Upto_(i)
    BY <1>1, <1>4
  <2>3. f[i] = Cardinality(Upto_(i)) /\ f[j] = Cardinality(Upto_(j))
    BY <1>2
  <2> HIDE DEF Upto_
  <2>4. Upto_(i) # Upto_(j) /\ IsFiniteSet(Upto_(j)) /\ Upto_(i) \in SUBSET Upto_(j)
    BY <1>3, <2>1, <2>2
  <2> QED BY <2>3, <2>4, FS_Subset
<1>5. \A i, j \in 1..n : f[i] = f[j] => i = j
  <2> SUFFICES ASSUME NEW i \in 1..n, NEW j \in 1..n, i # j PROVE f[i] # f[j]
    OBVIOUS
  <2>1. \/ values[i] < values[j] \/ (values[i] = values[j] /\ i < j)
        \/ values[j] < values[i] \/ (values[j] = values[i] /\ j < i)
    BY <1>1
  <2> QED BY <1>4, <2>1
<1>6. f \in Injection(1..n, 1..n)
  <2>1. f \in [1..n -> 1..n]
    BY <1>3 DEF f
  <2> QED BY <1>5, <2>1 DEF Injection, IsInjective
<1>7. f \in Surjection(1..n, 1..n)
  BY <1>1, <1>6, FS_Injection
<1>8. \E i \in 1..n : f[i] = place
  BY <1>7 DEF Surjection, n
<1> QED BY <1>8 DEF n, f

\* What is at a place has as many values on either side as the place says.
LEMMA SortedRanks ==
    ASSUME NEW values \in Seq(Nat), NEW k \in 1..Len(values)
    PROVE  /\ \E i \in 1..Len(values) : Sorted(values)[k] = values[i]
           /\ Below(values, Sorted(values)[k]) \in 0..(k - 1)
           /\ Upto(values, Sorted(values)[k]) \in k..Len(values)
<1> DEFINE n == Len(values)
<1>1. /\ n \in Nat /\ DOMAIN values = 1..n /\ \A i \in 1..n : values[i] \in Nat
      /\ IsFiniteSet(1..n) /\ Cardinality(1..n) = n
  <2>1. n \in Nat /\ DOMAIN values = 1..n /\ \A i \in 1..n : values[i] \in Nat
    OBVIOUS
  <2> HIDE DEF n
  <2> QED BY <2>1, FS_Interval
<1>2. PICK i \in 1..n : /\ Sorted(values)[k] = values[i] /\ Place(values, i) = k
  <2>1. \E i \in DOMAIN values : Place(values, i) = k
    BY <1>1, PlacesAreFilled
  <2>2. Sorted(values)[k] = values[CHOOSE i \in DOMAIN values : Place(values, i) = k]
    BY <1>1 DEF Sorted
  <2> QED BY <1>1, <2>1, <2>2
<1> DEFINE P == {j \in DOMAIN values : \/ values[j] < values[i]
                              \/ (values[j] = values[i] /\ j <= i)}
           B == {j \in DOMAIN values : values[j] < values[i]}
           U == {j \in DOMAIN values : values[j] <= values[i]}
<1>3. /\ k = Cardinality(P) /\ Below(values, Sorted(values)[k]) = Cardinality(B)
      /\ Upto(values, Sorted(values)[k]) = Cardinality(U)
  BY <1>2 DEF Place, Below, Upto
<1>4. /\ B \in SUBSET (P \ {i}) /\ P \in SUBSET U /\ U \in SUBSET (1..n) /\ i \in P
      /\ P \in SUBSET (1..n) /\ B \in SUBSET (1..n)
  BY <1>1
<1> HIDE DEF P, B, U, n
<1>5. IsFiniteSet(U) /\ Cardinality(U) <= n
  <2> DEFINE D == 1..n
  <2>1. U \in SUBSET D /\ IsFiniteSet(D) /\ Cardinality(D) = n
    BY <1>1, <1>4
  <2> HIDE DEF D
  <2> QED BY <2>1, FS_Subset
<1>6. /\ IsFiniteSet(P) /\ Cardinality(P) <= Cardinality(U)
  BY <1>4, <1>5, FS_Subset
<1>7. IsFiniteSet(P \ {i}) /\ Cardinality(P \ {i}) = Cardinality(P) - 1
  BY <1>4, <1>6, FS_RemoveElement
<1>8. IsFiniteSet(B) /\ Cardinality(B) <= Cardinality(P) - 1
  <2> DEFINE Less == P \ {i}
  <2>1. B \in SUBSET Less /\ IsFiniteSet(Less) /\ Cardinality(Less) = Cardinality(P) - 1
    BY <1>4, <1>7
  <2> HIDE DEF Less
  <2>2. IsFiniteSet(B) /\ Cardinality(B) <= Cardinality(Less)
    BY <2>1, FS_Subset
  <2> QED BY <2>1, <2>2
<1>9. Cardinality(B) \in Nat /\ Cardinality(P) \in Nat /\ Cardinality(U) \in Nat
  BY <1>5, <1>6, <1>8, FS_CardinalityType
<1> QED BY <1>1, <1>2, <1>3, <1>5, <1>6, <1>8, <1>9 DEF n

-----------------------------------------------------------------------------
(* Percentiles. *)

\* A percentile has the rank asked for.
LEMMA PercentileRank ==
    ASSUME NEW values \in Seq(Nat), values # <<>>, NEW percent \in {50, 95}
    PROVE  /\ \E i \in 1..Len(values) : Percentile(values, percent) = values[i]
           /\ NearRank(Percentile(values, percent), values, percent)
<1> DEFINE n == Len(values)
           k == Index(n, percent)
           v == Percentile(values, percent)
<1>1. n \in Nat \ {0} /\ DOMAIN values = 1..n
  OBVIOUS
<1>2. Cardinality(DOMAIN values) = n
  <2> HIDE DEF n
  <2> QED BY <1>1, FS_Interval
<1>3. /\ k \in 0..(n - 1)
      /\ 200 * k - 2 * (n - 1) * percent <= 100
      /\ 2 * (n - 1) * percent - 200 * k <= 100
  <2> HIDE DEF n
  <2>1. CASE percent = 50
    BY <1>1, <2>1, IndexBounds
  <2>2. CASE percent = 95
    BY <1>1, <2>2, IndexBounds
  <2> QED BY <2>1, <2>2
<1>4. v = Sorted(values)[k + 1]
  BY DEF Percentile
<1> HIDE DEF n, k, v
<1>5. k + 1 \in 1..n
  BY <1>1, <1>3
<1>6. /\ \E i \in 1..n : v = values[i]
      /\ Below(values, v) \in 0..((k + 1) - 1)
      /\ Upto(values, v) \in (k + 1)..n
  <2> DEFINE place == k + 1
  <2>1. place \in 1..Len(values) /\ v = Sorted(values)[place]
    BY <1>4, <1>5 DEF n
  <2> HIDE DEF place
  <2>2. /\ \E i \in 1..Len(values) : v = values[i]
        /\ Below(values, v) \in 0..(place - 1)
        /\ Upto(values, v) \in place..Len(values)
    BY <2>1, SortedRanks
  <2> QED BY <2>2 DEF place, n
<1>7. k \in Below(values, v)..(Upto(values, v) - 1)
  BY <1>1, <1>3, <1>6
<1>8. NearRank(v, values, percent)
  <2>1. CASE percent = 50
    BY <1>2, <1>3, <1>7, <2>1 DEF NearRank, Below, Upto
  <2>2. CASE percent = 95
    BY <1>2, <1>3, <1>7, <2>2 DEF NearRank, Below, Upto
  <2> QED BY <2>1, <2>2
<1> QED BY <1>6, <1>8 DEF n, v

\* The median is between two values, with no more than half of them on either side.
LEMMA MedianHalves ==
    ASSUME NEW values \in Seq(Nat), values # <<>>
    PROVE  /\ \E i, j \in 1..Len(values) : TwiceMedian(values) = values[i] + values[j]
           /\ 2 * Cardinality({i \in DOMAIN values : 2 * values[i] < TwiceMedian(values)})
                <= Len(values)
           /\ 2 * Cardinality({i \in DOMAIN values : 2 * values[i] > TwiceMedian(values)})
                <= Len(values)
<1> DEFINE n == Len(values)
           low == (n + 1) \div 2
           high == n \div 2 + 1
           a == Sorted(values)[low]
           b == Sorted(values)[high]
           m == TwiceMedian(values)
           Under(v) == {i \in DOMAIN values : values[i] < v}
           Within(v) == {i \in DOMAIN values : values[i] <= v}
           Lower == {i \in DOMAIN values : 2 * values[i] < m}
           Upper == {i \in DOMAIN values : 2 * values[i] > m}
<1>1. n \in Nat \ {0} /\ DOMAIN values = 1..n /\ \A i \in 1..n : values[i] \in Nat
  OBVIOUS
<1>2. /\ low \in 1..n /\ high \in 1..n /\ low <= high
      /\ 2 * low >= n /\ 2 * (high - 1) <= n
      /\ n % 2 = 1 => low = high
      /\ n % 2 # 1 => low = n \div 2
  <2> HIDE DEF n
  <2> QED BY <1>1
<1>3. m = IF n % 2 = 1 THEN 2 * a ELSE Sorted(values)[n \div 2] + b
  <2>1. n # 0
    BY <1>1
  <2> QED BY <2>1 DEF TwiceMedian
<1> HIDE DEF n, low, high, a, b, m
<1>4. /\ \E i \in 1..n : a = values[i]
      /\ Below(values, a) <= low - 1 /\ Upto(values, a) >= low
      /\ \E i \in 1..n : b = values[i]
      /\ Below(values, b) <= high - 1 /\ Upto(values, b) >= high
  <2>1. /\ \E i \in 1..n : a = values[i]
        /\ Below(values, a) \in 0..(low - 1) /\ Upto(values, a) \in low..n
    BY <1>2, SortedRanks DEF n, a
  <2>2. /\ \E i \in 1..n : b = values[i]
        /\ Below(values, b) \in 0..(high - 1) /\ Upto(values, b) \in high..n
    BY <1>2, SortedRanks DEF n, b
  <2>3. Below(values, a) <= low - 1 /\ Upto(values, a) >= low
    BY <1>1, <1>2, <2>1
  <2>4. Below(values, b) <= high - 1 /\ Upto(values, b) >= high
    BY <1>1, <1>2, <2>2
  <2> QED BY <2>1, <2>2, <2>3, <2>4
<1>5. a \in Nat /\ b \in Nat
  BY <1>1, <1>4
<1>6. m = a + b
  <2>1. CASE n % 2 = 1
    BY <1>2, <1>3, <1>5, <2>1 DEF a, b
  <2>2. CASE n % 2 # 1
    BY <1>2, <1>3, <1>5, <2>2 DEF a
  <2> QED BY <2>1, <2>2
<1>7. IsFiniteSet(DOMAIN values) /\ Cardinality(DOMAIN values) = n
  BY <1>1, FS_Interval
<1>8. \A v : /\ Below(values, v) = Cardinality(Under(v))
             /\ Upto(values, v) = Cardinality(Within(v))
  BY DEF Below, Upto
<1>9. a <= b
  <2> SUFFICES ASSUME b < a PROVE FALSE
    BY <1>5
  <2>1. Within(b) \in SUBSET Under(a) /\ Under(a) \in SUBSET DOMAIN values
    BY <1>1, <1>5
  <2> HIDE DEF Within, Under
  <2>2. IsFiniteSet(Under(a))
    BY <1>7, <2>1, FS_Subset
  <2>3. Cardinality(Within(b)) <= Cardinality(Under(a))
    BY <2>1, <2>2, FS_Subset
  <2>4. Cardinality(Within(b)) \in Nat /\ Cardinality(Under(a)) \in Nat
    BY <2>1, <2>2, FS_Subset, FS_CardinalityType
  <2> QED BY <1>2, <1>4, <1>8, <2>3, <2>4
<1>10. 2 * Cardinality(Lower) <= n
  <2>1. Lower \in SUBSET Under(b) /\ Under(b) \in SUBSET DOMAIN values
    BY <1>1, <1>5, <1>6, <1>9
  <2> HIDE DEF Lower, Under
  <2>2. IsFiniteSet(Under(b))
    BY <1>7, <2>1, FS_Subset
  <2>3. IsFiniteSet(Lower) /\ Cardinality(Lower) <= Cardinality(Under(b))
    BY <2>1, <2>2, FS_Subset
  <2>4. Cardinality(Lower) \in Nat /\ Cardinality(Under(b)) \in Nat
    BY <2>2, <2>3, FS_CardinalityType
  <2>5. Cardinality(Under(b)) <= high - 1
    BY <1>4, <1>8
  <2> QED BY <1>1, <1>2, <2>3, <2>4, <2>5
<1>11. 2 * Cardinality(Upper) <= n
  <2> DEFINE Rest == DOMAIN values \ Within(a)
  <2>1. Upper \in SUBSET Rest /\ Within(a) \in SUBSET DOMAIN values
    BY <1>1, <1>5, <1>6, <1>9
  <2> HIDE DEF Upper, Within
  <2>2. DOMAIN values \cap Within(a) = Within(a)
    BY <2>1
  <2>7. IsFiniteSet(Rest)
    BY <1>7, FS_Difference
  <2>8. Cardinality(Rest) = Cardinality(DOMAIN values) - Cardinality(DOMAIN values \cap Within(a))
    BY <1>7, FS_Difference
  <2>3. IsFiniteSet(Rest) /\ Cardinality(Rest) = n - Cardinality(Within(a))
    BY <1>7, <2>2, <2>7, <2>8
  <2> HIDE DEF Rest
  <2>4. IsFiniteSet(Upper) /\ Cardinality(Upper) <= Cardinality(Rest)
    BY <2>1, <2>3, FS_Subset
  <2>5. IsFiniteSet(Within(a))
    BY <1>7, <2>1, FS_Subset
  <2>6. Cardinality(Upper) \in Nat /\ Cardinality(Within(a)) \in Nat
    BY <2>4, <2>5, FS_CardinalityType
  <2>9. Cardinality(Within(a)) >= low
    BY <1>4, <1>8
  <2> QED BY <1>1, <1>2, <2>3, <2>4, <2>6, <2>9
<1>12. \E i, j \in 1..n : m = values[i] + values[j]
  BY <1>4, <1>6
<1> QED BY <1>10, <1>11, <1>12 DEF n, m

-----------------------------------------------------------------------------
(* What a summary says of latencies, wherever they are taken from. *)

\* No value is below the smallest or above the largest.
LEMMA Extremes ==
    ASSUME NEW values \in Seq(Nat), values # <<>>
    PROVE  \A i \in 1..Len(values) : /\ Min(ToSet(values)) \in Nat
                                     /\ Max(ToSet(values)) \in Nat
                                     /\ Min(ToSet(values)) <= values[i]
                                     /\ values[i] <= Max(ToSet(values))
<1> DEFINE n == Len(values)
           first == Sorted(values)[1]
           last == Sorted(values)[n]
<1>1. n \in Nat \ {0} /\ DOMAIN values = 1..n /\ \A i \in 1..n : values[i] \in Nat
  OBVIOUS
<1>2. ToSet(values) = {values[i] : i \in 1..n}
  BY <1>1 DEF ToSet
<1>3. Cardinality(DOMAIN values) = n /\ IsFiniteSet(DOMAIN values)
  <2> HIDE DEF n
  <2> QED BY <1>1, FS_Interval
<1> HIDE DEF n, first, last
<1>4. first \in ToSet(values) /\ \A i \in 1..n : first <= values[i]
  <2> DEFINE B == {i \in DOMAIN values : values[i] < first}
  <2>1. 1 \in 1..n
    BY <1>1
  <2>2. (\E i \in 1..n : first = values[i]) /\ Below(values, first) \in 0..(1 - 1)
    BY <2>1, SortedRanks DEF n, first
  <2>3. Cardinality(B) = 0 /\ B \in SUBSET DOMAIN values
    BY <2>2 DEF Below
  <2>4. B = {}
    <3> HIDE DEF B
    <3>1. IsFiniteSet(B)
      BY <1>3, <2>3, FS_Subset
    <3> QED BY <2>3, <3>1, FS_EmptySet
  <2> QED BY <1>1, <1>2, <2>2, <2>4
<1>5. last \in ToSet(values) /\ \A i \in 1..n : values[i] <= last
  <2> DEFINE W == {i \in DOMAIN values : values[i] <= last}
  <2>1. n \in 1..n
    BY <1>1
  <2>2. (\E i \in 1..n : last = values[i]) /\ Upto(values, last) \in n..n
    BY <2>1, SortedRanks DEF n, last
  <2>3. Cardinality(W) = n /\ W \in SUBSET DOMAIN values
    BY <1>1, <2>2 DEF Upto
  <2>4. W = DOMAIN values
    <3> HIDE DEF W
    <3> QED BY <1>3, <2>3, FS_Subset
  <2> QED BY <1>1, <1>2, <2>2, <2>4
<1>6. Min(ToSet(values)) \in ToSet(values) /\ \A y \in ToSet(values) : Min(ToSet(values)) <= y
  <2>1. \E x \in ToSet(values) : \A y \in ToSet(values) : x <= y
    BY <1>2, <1>4
  <2> QED BY <2>1 DEF Min
<1>7. Max(ToSet(values)) \in ToSet(values) /\ \A y \in ToSet(values) : Max(ToSet(values)) >= y
  <2>1. \E x \in ToSet(values) : \A y \in ToSet(values) : x >= y
    BY <1>1, <1>2, <1>5
  <2> QED BY <2>1 DEF Max
<1> QED BY <1>1, <1>2, <1>6, <1>7 DEF n

\* The rows of the results of a run: a request that succeeded has a latency and no
\* error, one that failed an error and no latency.
ErrorNames == Kinds \cup {"client_error"}
PersistedRow ==
    [question_id : Questions, success : {TRUE}, latency_ms : Latencies, error : {NoError}]
    \cup [question_id : Questions, success : {FALSE}, latency_ms : {None}, error : ErrorNames]

Successes(persisted) == {i \in 1..Len(persisted) : persisted[i].success}
MeasuredIn(persisted) == [i \in Successes(persisted) |-> persisted[i].latency_ms]

\* What the percentiles of latencies say, whatever the order of the latencies.
Summarises(latencies, p50, p95, min, max) ==
    /\ NearRank(p95, latencies, 95)
    /\ 2 * Cardinality({i \in DOMAIN latencies : 2 * latencies[i] < p50})
         <= Cardinality(DOMAIN latencies)
    /\ 2 * Cardinality({i \in DOMAIN latencies : 2 * latencies[i] > p50})
         <= Cardinality(DOMAIN latencies)
    /\ min <= p95 /\ p95 <= max
    /\ 2 * min <= p50 /\ p50 <= 2 * max

LEMMA SummaryOfLatencies ==
    ASSUME NEW values \in Seq(Nat), values # <<>>
    PROVE  Summarises(values, TwiceMedian(values), Percentile(values, 95),
                      Min(ToSet(values)), Max(ToSet(values)))
<1> DEFINE n == Len(values)
           min == Min(ToSet(values))
           max == Max(ToSet(values))
           p50 == TwiceMedian(values)
           p95 == Percentile(values, 95)
<1>1. n \in Nat \ {0} /\ DOMAIN values = 1..n /\ \A i \in 1..n : values[i] \in Nat
  OBVIOUS
<1>2. Cardinality(DOMAIN values) = n
  <2> HIDE DEF n
  <2> QED BY <1>1, FS_Interval
<1>3. /\ \E i \in 1..n : p95 = values[i]
      /\ NearRank(p95, values, 95)
  BY PercentileRank
<1>4. /\ \E i, j \in 1..n : p50 = values[i] + values[j]
      /\ 2 * Cardinality({i \in DOMAIN values : 2 * values[i] < p50}) <= n
      /\ 2 * Cardinality({i \in DOMAIN values : 2 * values[i] > p50}) <= n
  BY MedianHalves
<1>5. \A i \in 1..n : min \in Nat /\ max \in Nat /\ min <= values[i] /\ values[i] <= max
  BY Extremes
<1> HIDE DEF n, min, max, p50, p95
<1>6. min <= p95 /\ p95 <= max
  BY <1>3, <1>5
<1>7. 2 * min <= p50 /\ p50 <= 2 * max
  BY <1>1, <1>4, <1>5
<1>8. Summarises(values, p50, p95, min, max)
  BY <1>2, <1>3, <1>4, <1>6, <1>7 DEF Summarises
<1> QED BY <1>8 DEF min, max, p50, p95

\* It does not matter where the values are taken from.
LEMMA SummaryOfTaken ==
    ASSUME NEW U, NEW values \in Seq(U), NEW places, places \subseteq 1..Len(values),
           \A i \in places : values[i] \in Nat,
           NEW p50 \in Int, NEW p95 \in Int, NEW min \in Int, NEW max \in Int,
           Summarises(Taken(values, places), p50, p95, min, max)
    PROVE  Summarises([i \in places |-> values[i]], p50, p95, min, max)
<1> DEFINE t == Taken(values, places)
           f == [i \in places |-> values[i]]
<1>1. /\ t \in Seq(Nat) /\ Len(t) = Cardinality(places)
      /\ \A W : CountIn(t, 1..Len(t), W) = CountIn(values, places, W)
  <2> DEFINE V == Nat
  <2>1. \A i \in places : values[i] \in V
    OBVIOUS
  <2> HIDE DEF V
  <2>2. /\ t \in Seq(V) /\ Len(t) = Cardinality(places)
        /\ \A W : CountIn(t, 1..Len(t), W) = CountIn(values, places, W)
    BY <2>1, TakenCounts
  <2> QED BY <2>2 DEF V
<1> HIDE DEF t
<1>2. DOMAIN t = 1..Len(t) /\ Len(t) \in Nat /\ (\A k \in 1..Len(t) : t[k] \in Nat) /\ DOMAIN f = places
  BY <1>1
<1>3. Cardinality(DOMAIN t) = Cardinality(DOMAIN f)
  BY <1>1, <1>2, FS_Interval
<1>4. ASSUME NEW W
      PROVE  Cardinality({k \in DOMAIN t : t[k] \in W}) = Cardinality({i \in DOMAIN f : f[i] \in W})
  <2>1. {i \in DOMAIN f : f[i] \in W} = {i \in places : values[i] \in W}
    OBVIOUS
  <2>2. {k \in DOMAIN t : t[k] \in W} = {k \in 1..Len(t) : t[k] \in W}
    BY <1>2
  <2> QED BY <1>1, <2>1, <2>2 DEF CountIn
<1>5. \A k \in DOMAIN t : t[k] \in Nat
  BY <1>2
<1>6. \A i \in DOMAIN f : f[i] \in Nat
  OBVIOUS
<1> HIDE DEF f
<1>7. Cardinality({k \in DOMAIN t : t[k] < p95}) = Cardinality({i \in DOMAIN f : f[i] < p95})
  <2> DEFINE W == {x \in Nat : x < p95}
  <2>1. {k \in DOMAIN t : t[k] < p95} = {k \in DOMAIN t : t[k] \in W}
    BY <1>5
  <2>2. {i \in DOMAIN f : f[i] < p95} = {i \in DOMAIN f : f[i] \in W}
    BY <1>6
  <2> HIDE DEF W
  <2> QED BY <1>4, <2>1, <2>2
<1>8. Cardinality({k \in DOMAIN t : t[k] <= p95}) = Cardinality({i \in DOMAIN f : f[i] <= p95})
  <2> DEFINE W == {x \in Nat : x <= p95}
  <2>1. {k \in DOMAIN t : t[k] <= p95} = {k \in DOMAIN t : t[k] \in W}
    BY <1>5
  <2>2. {i \in DOMAIN f : f[i] <= p95} = {i \in DOMAIN f : f[i] \in W}
    BY <1>6
  <2> HIDE DEF W
  <2> QED BY <1>4, <2>1, <2>2
<1>9. Cardinality({k \in DOMAIN t : 2 * t[k] < p50}) = Cardinality({i \in DOMAIN f : 2 * f[i] < p50})
  <2> DEFINE W == {x \in Nat : 2 * x < p50}
  <2>1. {k \in DOMAIN t : 2 * t[k] < p50} = {k \in DOMAIN t : t[k] \in W}
    BY <1>5
  <2>2. {i \in DOMAIN f : 2 * f[i] < p50} = {i \in DOMAIN f : f[i] \in W}
    BY <1>6
  <2> HIDE DEF W
  <2> QED BY <1>4, <2>1, <2>2
<1>10. Cardinality({k \in DOMAIN t : 2 * t[k] > p50}) = Cardinality({i \in DOMAIN f : 2 * f[i] > p50})
  <2> DEFINE W == {x \in Nat : 2 * x > p50}
  <2>1. {k \in DOMAIN t : 2 * t[k] > p50} = {k \in DOMAIN t : t[k] \in W}
    BY <1>5
  <2>2. {i \in DOMAIN f : 2 * f[i] > p50} = {i \in DOMAIN f : f[i] \in W}
    BY <1>6
  <2> HIDE DEF W
  <2> QED BY <1>4, <2>1, <2>2
<1>11. Summarises(t, p50, p95, min, max)
  BY DEF t
<1>12. NearRank(p95, f, 95)
  <2>1. NearRank(p95, t, 95)
    BY <1>11 DEF Summarises
  <2> QED BY <1>3, <1>7, <1>8, <2>1 DEF NearRank
<1>13. Summarises(f, p50, p95, min, max)
  BY <1>3, <1>9, <1>10, <1>11, <1>12 DEF Summarises
<1> QED BY <1>13 DEF f

-----------------------------------------------------------------------------
(* The report of some rows. *)

\* The results of an assembled report.
ResultsOf(persisted) ==
    [i \in DOMAIN persisted |-> [correct |-> persisted[i].success,
                                 latency_ms |-> persisted[i].latency_ms,
                                 error |-> persisted[i].error,
                                 benchmark_id |-> "run"]]

LEMMA ResultsOfRows ==
    ASSUME NEW persisted \in Seq(PersistedRow)
    PROVE  LET results == ResultsOf(persisted)
               n == Len(persisted)
           IN  /\ results \in Seq({results[i] : i \in 1..n})
               /\ Len(results) = n /\ DOMAIN results = 1..n
               /\ [i \in DOMAIN results |-> results[i].latency_ms] \in Seq(Nat \cup {None})
               /\ Len([i \in DOMAIN results |-> results[i].latency_ms]) = n
               /\ \A i \in 1..n : /\ results[i].correct = persisted[i].success
                                  /\ results[i].latency_ms = persisted[i].latency_ms
                                  /\ results[i].error = persisted[i].error
                                  /\ results[i].benchmark_id = "run"
               /\ \A i \in Successes(persisted) : persisted[i].latency_ms \in Nat
<1> DEFINE results == ResultsOf(persisted)
           n == Len(persisted)
           latencies == [i \in DOMAIN results |-> results[i].latency_ms]
<1>1. n \in Nat /\ DOMAIN persisted = 1..n /\ \A i \in 1..n : persisted[i] \in PersistedRow
  OBVIOUS
<1>2. /\ DOMAIN results = 1..n
      /\ \A i \in 1..n : /\ results[i].correct = persisted[i].success
                         /\ results[i].latency_ms = persisted[i].latency_ms
                         /\ results[i].error = persisted[i].error
                         /\ results[i].benchmark_id = "run"
      /\ results = [i \in 1..n |-> results[i]]
  BY <1>1 DEF ResultsOf
<1>3. \A i \in 1..n : /\ persisted[i].latency_ms \in Nat \cup {None}
                      /\ persisted[i].success => persisted[i].latency_ms \in Nat
  BY <1>1, ReportingConfig DEF PersistedRow
<1> HIDE DEF results, n
<1>4. results \in Seq({results[i] : i \in 1..n}) /\ Len(results) = n
  BY <1>1, <1>2
<1>5. latencies \in Seq(Nat \cup {None}) /\ Len(latencies) = n
  <2>1. latencies = [i \in 1..n |-> persisted[i].latency_ms]
    BY <1>2
  <2> QED BY <1>1, <1>3, <2>1
<1>6. \A i \in Successes(persisted) : persisted[i].latency_ms \in Nat
  BY <1>3 DEF Successes, n
<1> QED BY <1>2, <1>4, <1>5, <1>6 DEF results, n

LEMMA SuccessesCounted ==
    ASSUME NEW persisted \in Seq(PersistedRow)
    PROVE  /\ IsFiniteSet(Successes(persisted))
           /\ Cardinality(Successes(persisted)) \in 0..Len(persisted)
           /\ Cardinality((1..Len(persisted)) \ Successes(persisted))
                = Len(persisted) - Cardinality(Successes(persisted))
<1> DEFINE n == Len(persisted)
           D == 1..n
           good == Successes(persisted)
<1>1. n \in Nat
  OBVIOUS
<1>2. good \in SUBSET D
  BY DEF Successes
<1>3. IsFiniteSet(D) /\ Cardinality(D) = n
  <2> HIDE DEF n
  <2> QED BY <1>1, FS_Interval
<1> HIDE DEF n, D, good
<1>4. IsFiniteSet(good) /\ Cardinality(good) <= n
  BY <1>2, <1>3, FS_Subset
<1>5. Cardinality(good) \in Nat
  BY <1>4, FS_CardinalityType
<1>6. Cardinality(D \ good) = Cardinality(D) - Cardinality(D \cap good)
  BY <1>3, FS_Difference
<1>7. D \cap good = good
  BY <1>2
<1>8. Cardinality(D \ good) = n - Cardinality(good)
  BY <1>3, <1>6, <1>7
<1> QED BY <1>1, <1>4, <1>5, <1>8 DEF n, D, good

\* The metrics of the results of a run.
SummaryOf(persisted) == ComputeMetrics(ResultsOf(persisted), TRUE)

LEMMA MetricsOfResults ==
    ASSUME NEW persisted \in Seq(PersistedRow), NEW m,
           m = SummaryOf(persisted)
    PROVE  LET n == Len(persisted)
               good == Successes(persisted)
           IN  /\ m.total_requests = n
               /\ m.successful_requests = Cardinality(good)
               /\ m.failure_count = n - Cardinality(good)
               /\ Cardinality(good) > 0 =>
                     Summarises(MeasuredIn(persisted), m.p50, m.p95, m.min, m.max)
<1> DEFINE results == ResultsOf(persisted)
           n == Len(persisted)
           good == Successes(persisted)
           successful == {i \in DOMAIN results : results[i].correct}
           measured == {i \in successful : results[i].latency_ms # None}
           values == [i \in DOMAIN results |-> results[i].latency_ms]
           latencies == Taken(values, measured)
           failures == {i \in DOMAIN results : results[i].error # NoError}
<1>1. /\ m.total_requests = Len(results)
      /\ m.successful_requests = Cardinality(successful)
      /\ m.failure_count = Cardinality(failures)
      /\ m.p50 = TwiceMedian(latencies)
      /\ m.p95 = Percentile(latencies, 95)
      /\ latencies # <<>> => m.min = Min(ToSet(latencies)) /\ m.max = Max(ToSet(latencies))
  BY DEF SummaryOf, ComputeMetrics, FailureCount
<1>2. /\ Len(results) = n /\ DOMAIN results = 1..n
      /\ values \in Seq(Nat \cup {None}) /\ Len(values) = n
      /\ \A i \in 1..n : /\ results[i].correct = persisted[i].success
                         /\ results[i].latency_ms = persisted[i].latency_ms
                         /\ results[i].error = persisted[i].error
      /\ \A i \in good : persisted[i].latency_ms \in Nat
  BY ResultsOfRows
<1>3. n \in Nat /\ \A i \in 1..n : persisted[i] \in PersistedRow
  OBVIOUS
<1>4. \A i \in 1..n : values[i] = persisted[i].latency_ms
  BY <1>2
<1> HIDE DEF results, n, values
<1>5. successful = good
  BY <1>2 DEF Successes, n
<1>6. measured = good
  BY <1>2, <1>5 DEF None, Successes, n
<1>7. failures = (1..n) \ good
  <2>1. \A i \in 1..n : persisted[i].error # NoError <=> ~persisted[i].success
    BY <1>3 DEF PersistedRow, ErrorNames, Kinds, NoError
  <2> QED BY <1>2, <2>1 DEF Successes, n
<1> HIDE DEF successful, measured, failures
<1>8. /\ Cardinality(good) \in 0..n /\ Cardinality((1..n) \ good) = n - Cardinality(good)
      /\ IsFiniteSet(good)
  BY SuccessesCounted DEF n
<1>9. ASSUME Cardinality(good) > 0
      PROVE  Summarises(MeasuredIn(persisted), m.p50, m.p95, m.min, m.max)
  <2>1. good \subseteq 1..Len(values) /\ \A i \in good : values[i] \in Nat
    BY <1>2, <1>4 DEF Successes, n
  <2>2. latencies \in Seq(Nat) /\ Len(latencies) = Cardinality(good)
    <3> DEFINE V == Nat
    <3>1. \A i \in good : values[i] \in V
      BY <2>1
    <3> HIDE DEF V, good
    <3>2. latencies \in Seq(V) /\ Len(latencies) = Cardinality(good)
      BY <1>2, <1>6, <2>1, <3>1, TakenCounts
    <3> QED BY <3>2 DEF V
  <2>3. latencies # <<>>
    BY <1>9, <2>2
  <2> HIDE DEF latencies, good
  <2>4. Summarises(latencies, m.p50, m.p95, m.min, m.max)
    BY <1>1, <1>9, <2>2, <2>3, SummaryOfLatencies
  <2>5. m.p50 \in Int /\ m.p95 \in Int /\ m.min \in Int /\ m.max \in Int
    <3>1. /\ \E i \in 1..Len(latencies) : Percentile(latencies, 95) = latencies[i]
          /\ \E i, j \in 1..Len(latencies) : TwiceMedian(latencies) = latencies[i] + latencies[j]
      BY <2>2, <2>3, PercentileRank, MedianHalves
    <3>2. Min(ToSet(latencies)) \in Nat /\ Max(ToSet(latencies)) \in Nat
      BY <2>2, <2>3, Extremes
    <3>3. \A i \in 1..Len(latencies) : latencies[i] \in Nat
      BY <2>2
    <3>4. m.p50 \in Int
      BY <1>1, <3>1, <3>3
    <3>5. m.p95 \in Int
      BY <1>1, <3>1, <3>3
    <3>6. m.min \in Int /\ m.max \in Int
      <4>1. m.min = Min(ToSet(latencies)) /\ m.max = Max(ToSet(latencies))
        BY <1>1, <1>9, <2>3
      <4> QED BY <3>2, <4>1
    <3> QED BY <3>4, <3>5, <3>6
  <2>6. Summarises([i \in good |-> values[i]], m.p50, m.p95, m.min, m.max)
    BY <1>2, <1>6, <2>1, <2>4, <2>5, SummaryOfTaken DEF latencies
  <2>7. [i \in good |-> values[i]] = MeasuredIn(persisted)
    BY <1>2, <1>4, <2>1 DEF MeasuredIn, good
  <2> QED BY <2>6, <2>7
<1> QED BY <1>1, <1>2, <1>5, <1>7, <1>8, <1>9 DEF n

\* A report is about all the rows it is assembled from, and each of its benchmarks says
\* the same.
Tells(r, persisted) ==
    LET s == r.summary
        n == Len(persisted)
        good == Successes(persisted)
    IN  /\ s.total_requests = n
        /\ s.successful_requests = Cardinality(good)
        /\ s.failure_count = n - Cardinality(good)
        /\ Cardinality(good) > 0 =>
              Summarises(MeasuredIn(persisted), s.p50, s.p95, s.min, s.max)
        /\ \A b \in r.benchmarks : b.metrics = [s EXCEPT !.min = None, !.max = None]

LEMMA ReportOfRows ==
    ASSUME NEW persisted \in Seq(PersistedRow), NEW r, r = AssembleReport(persisted)
    PROVE  r # NoReport /\ Tells(r, persisted)
<1> DEFINE results == ResultsOf(persisted)
           n == Len(persisted)
           ids == {results[i].benchmark_id : i \in DOMAIN results}
<1>1. /\ r.built = TRUE /\ r.summary = ComputeMetrics(results, TRUE)
      /\ r.benchmarks = PerBenchmark(results)
  BY DEF AssembleReport, ResultsOf
<1>2. r # NoReport
  BY <1>1 DEF NoReport
<1>3. /\ results \in Seq({results[i] : i \in 1..n}) /\ Len(results) = n /\ DOMAIN results = 1..n
      /\ \A i \in 1..n : results[i].benchmark_id = "run"
  BY ResultsOfRows
<1>4. n \in Nat
  OBVIOUS
<1> HIDE DEF results, n
<1>5. \A id \in ids : id = "run"
  BY <1>3
<1> HIDE DEF ids
<1>6. OfBenchmark(results, "run") = results
  <2> DEFINE places == {i \in DOMAIN results : results[i].benchmark_id = "run"}
  <2>1. places = 1..Len(results)
    BY <1>3
  <2>2. OfBenchmark(results, "run") = Taken(results, places)
    BY DEF OfBenchmark
  <2> HIDE DEF places
  <2>3. Taken(results, 1..Len(results)) = results
    BY <1>3, TakenAll
  <2> QED BY <2>1, <2>2, <2>3
<1>7. r.benchmarks = {[benchmark_id |-> id,
                       metrics |-> ComputeMetrics(OfBenchmark(results, id), FALSE)] : id \in ids}
  BY <1>1 DEF PerBenchmark, ids
<1>8. ComputeMetrics(results, FALSE) = [ComputeMetrics(results, TRUE) EXCEPT !.min = None, !.max = None]
  <2> DEFINE successful == {i \in DOMAIN results : results[i].correct}
             measured == {i \in successful : results[i].latency_ms # None}
             latencies == Taken([i \in DOMAIN results |-> results[i].latency_ms], measured)
             total == Len(results)
             successes == Cardinality(successful)
             failures == FailureCount(results)
             accuracy == SafeRatio(Cardinality({i \in successful : results[i].correct}),
                                   Cardinality(successful))
             p50 == TwiceMedian(latencies)
             p95 == Percentile(latencies, 95)
             min == Min(ToSet(latencies))
             max == Max(ToSet(latencies))
             range == latencies # <<>>
             M(x, y) == [total_requests |-> total, successful_requests |-> successes,
                         failure_count |-> failures, accuracy |-> accuracy,
                         p50 |-> p50, p95 |-> p95, min |-> x, max |-> y]
  <2>1. /\ ComputeMetrics(results, TRUE) = M(IF TRUE /\ range THEN min ELSE None,
                                             IF TRUE /\ range THEN max ELSE None)
        /\ ComputeMetrics(results, FALSE) = M(IF FALSE /\ range THEN min ELSE None,
                                              IF FALSE /\ range THEN max ELSE None)
    BY Zenon DEF ComputeMetrics
  <2> HIDE DEF total, successes, failures, accuracy, p50, p95, min, max, range
  <2>2. \E x, y : ComputeMetrics(results, TRUE) = M(x, y)
    <3> HIDE DEF M
    <3> QED BY <2>1
  <2>3. ComputeMetrics(results, FALSE) = M(None, None)
    BY <2>1
  <2>4. PICK x, y : ComputeMetrics(results, TRUE) = M(x, y)
    BY <2>2
  <2> DEFINE whole == M(x, y)
             without_min == [whole EXCEPT !.min = None]
  <2>5. without_min = M(None, y)
    OBVIOUS
  <2>6. [whole EXCEPT !.min = None, !.max = None] = [without_min EXCEPT !.max = None]
    OBVIOUS
  <2> HIDE DEF without_min
  <2>7. [without_min EXCEPT !.max = None] = M(None, None)
    BY <2>5
  <2> HIDE DEF M
  <2> QED BY <2>3, <2>4, <2>6, <2>7
<1>9. \A b \in r.benchmarks : b.metrics = [r.summary EXCEPT !.min = None, !.max = None]
  <2> SUFFICES ASSUME NEW b \in r.benchmarks
               PROVE  b.metrics = [r.summary EXCEPT !.min = None, !.max = None]
    OBVIOUS
  <2>1. PICK id \in ids : b = [benchmark_id |-> id,
                               metrics |-> ComputeMetrics(OfBenchmark(results, id), FALSE)]
    BY <1>7
  <2>2. b.metrics = ComputeMetrics(results, FALSE)
    BY <1>5, <1>6, <2>1
  <2> QED BY <1>1, <1>8, <2>2
<1>10. /\ r.summary.total_requests = n
       /\ r.summary.successful_requests = Cardinality(Successes(persisted))
       /\ r.summary.failure_count = n - Cardinality(Successes(persisted))
       /\ Cardinality(Successes(persisted)) > 0 =>
             Summarises(MeasuredIn(persisted), r.summary.p50, r.summary.p95,
                        r.summary.min, r.summary.max)
  <2> DEFINE m == r.summary
  <2>1. m = SummaryOf(persisted)
    BY <1>1 DEF results, SummaryOf
  <2> HIDE DEF m
  <2>2. /\ m.total_requests = Len(persisted)
        /\ m.successful_requests = Cardinality(Successes(persisted))
        /\ m.failure_count = Len(persisted) - Cardinality(Successes(persisted))
        /\ Cardinality(Successes(persisted)) > 0 =>
              Summarises(MeasuredIn(persisted), m.p50, m.p95, m.min, m.max)
    BY <2>1, MetricsOfResults
  <2> QED BY <2>2 DEF m, n
<1>11. Tells(r, persisted)
  BY <1>9, <1>10 DEF Tells, n
<1> QED BY <1>2, <1>11

-----------------------------------------------------------------------------
(* Counting the attempts. *)

\* One value changed: it is counted where it is now, and no longer where it was.
LEMMA CountChanges ==
    ASSUME NEW S, IsFiniteSet(S), NEW f, NEW g, NEW q \in S,
           \A p \in S \ {q} : g[p] = f[p],
           NEW W
    PROVE  /\ CountIn(f, S, W) \in Nat /\ CountIn(g, S, W) \in Nat
           /\ CountIn(g, S, W) = CountIn(f, S, W) + (IF g[q] \in W THEN 1 ELSE 0)
                                                  - (IF f[q] \in W THEN 1 ELSE 0)
<1> DEFINE F == {p \in S : f[p] \in W}
           G == {p \in S : g[p] \in W}
           Rest == {p \in S \ {q} : f[p] \in W}
<1>1. /\ F \in SUBSET S /\ G \in SUBSET S /\ Rest \in SUBSET S /\ q \notin Rest
      /\ F = IF f[q] \in W THEN Rest \cup {q} ELSE Rest
      /\ G = IF g[q] \in W THEN Rest \cup {q} ELSE Rest
  <2>1. F = IF f[q] \in W THEN Rest \cup {q} ELSE Rest
    OBVIOUS
  <2>2. CASE g[q] \in W
    BY <2>1, <2>2
  <2>3. CASE g[q] \notin W
    BY <2>1, <2>3
  <2> QED BY <2>1, <2>2, <2>3
<1>2. CountIn(f, S, W) = Cardinality(F) /\ CountIn(g, S, W) = Cardinality(G)
  BY DEF CountIn
<1> HIDE DEF F, G, Rest
<1>3. IsFiniteSet(Rest)
  BY <1>1, FS_Subset
<1>4. Cardinality(Rest) \in Nat
  BY <1>3, FS_CardinalityType
<1>5. Cardinality(Rest \cup {q}) = Cardinality(Rest) + 1
  BY <1>1, <1>3, FS_AddElement
<1> QED BY <1>1, <1>2, <1>4, <1>5

LEMMA NothingCounted ==
    ASSUME NEW S, NEW f, NEW W, \A p \in S : f[p] \notin W
    PROVE  CountIn(f, S, W) = 0
<1>1. {p \in S : f[p] \in W} = {}
  OBVIOUS
<1> QED BY <1>1, FS_EmptySet DEF CountIn

LEMMA MaxOfTwo ==
    ASSUME NEW a \in Nat, NEW b \in Nat
    PROVE  Max({a, b}) = IF a >= b THEN a ELSE b
<1>1. \E m \in {a, b} : \A y \in {a, b} : m >= y
  OBVIOUS
<1>2. Max({a, b}) \in {a, b} /\ \A y \in {a, b} : Max({a, b}) >= y
  BY <1>1 DEF Max
<1> QED BY <1>2

-----------------------------------------------------------------------------
(* The invariant. *)

Errors == [error : ErrorNames]
Results == [latency_ms : Latencies, correct : BOOLEAN]

Attempts ==
    [stage : {"open"}, number : Nat, outcome : {NoOutcome} \cup Errors]
    \cup [stage : {"in_flight"}, number : Nat, outcome : {NoOutcome}]
    \cup [stage : {"failed"}, number : Nat, outcome : Errors]
    \cup [stage : {"replied", "publishing", "appended", "settled"}, number : Nat,
          outcome : Errors \cup Results]

SuccessEntries ==
    [question_id : Questions, success : {"True"}, latency_ms : Latencies, error : {EmptyText}]
FailureEntries ==
    [question_id : Questions, success : {"False"}, latency_ms : {EmptyNumber}, error : ErrorNames]
Entries == SuccessEntries \cup FailureEntries

Metrics ==
    [http_attempts : Nat, http_in_flight : Nat, peak_http_in_flight : Nat,
     http_successes : Nat, latencies_ms : Seq(Nat), retries : Nat,
     rate_limited : Nat, limited : [Kinds -> Nat],
     completed : Nat, success : Nat, failure : Nat, correct : Nat]

\* The stages of a question that is counted as completed, and those of one with an
\* event in the stream.
Completed == {"publishing", "appended", "settled"}
Sent == {"appended", "settled"}

\* The attempts that the counters tell apart.
InFlight == {a \in Attempts : a.stage = "in_flight"}
UnhandledErrors == {a \in Attempts : a.stage \in {"replied", "failed"} /\ a.outcome \in Errors}
UnhandledResults == {a \in Attempts : a.stage = "replied" /\ a.outcome \in Results}
CompletedErrors == {a \in Attempts : a.stage \in Completed /\ a.outcome \in Errors}
CompletedResults == {a \in Attempts : a.stage \in Completed /\ a.outcome \in Results}
CompletedCorrect == {a \in CompletedResults : a.outcome.correct}

Typed ==
    /\ attempt \in [Questions -> Attempts]
    /\ metrics \in Metrics
    /\ stream \in Seq(Entries)
    /\ rows \in Seq(PersistedRow)
    /\ finished \in BOOLEAN
    /\ cli \in {"running", "printing", "written", "crashed"}

RequestsBalance ==
    metrics.http_attempts =
        metrics.http_in_flight + metrics.http_successes
        + metrics.retries + metrics.failure + CountIn(attempt, Questions, UnhandledErrors)
ResultsBalance ==
    metrics.http_successes = metrics.success + CountIn(attempt, Questions, UnhandledResults)
LatenciesBalance == metrics.http_successes = Len(metrics.latencies_ms)
CompletionsBalance == /\ metrics.completed = metrics.success + metrics.failure
                      /\ metrics.success = CountIn(attempt, Questions, CompletedResults)
                      /\ metrics.failure = CountIn(attempt, Questions, CompletedErrors)
CorrectBalance == metrics.correct = CountIn(attempt, Questions, CompletedCorrect)
RefusalsBalance ==
    metrics.rate_limited =
        metrics.limited["rpm"] + metrics.limited["concurrency"] + metrics.limited["generic"]
InFlightBalance == /\ metrics.http_in_flight = CountIn(attempt, Questions, InFlight)
                   /\ metrics.peak_http_in_flight >= metrics.http_in_flight

Balanced ==
    /\ RequestsBalance /\ ResultsBalance /\ LatenciesBalance /\ CompletionsBalance
    /\ CorrectBalance /\ RefusalsBalance /\ InFlightBalance

\* An entry of the stream says what came of its question, whose XADD has arrived; every
\* such question has one.
EntriesTrue ==
    \A i \in 1..Len(stream) :
        LET q == stream[i].question_id IN
        /\ attempt[q].stage \in Sent
        /\ stream[i] = Fields(q, Result(attempt[q].outcome))
EntriesComplete ==
    \A q \in Questions : attempt[q].stage \in Sent =>
        \E i \in 1..Len(stream) : stream[i].question_id = q

\* The main coroutine publishes one event at a time.
OnePublication == \A p, q \in Publishing : p = q

\* The rows are those of the first entries.
RowsOfEntries ==
    /\ Len(rows) <= Len(stream)
    /\ \A i \in 1..Len(rows) : rows[i] = Row(stream[i])

Streamed == EntriesTrue /\ EntriesComplete /\ OnePublication /\ RowsOfEntries

\* A report is assembled from the first rows.
FirstRows(persisted) ==
    /\ Len(persisted) <= Len(rows)
    /\ \A i \in 1..Len(persisted) : persisted[i] = rows[i]

Reported ==
    report # NoReport =>
        \E persisted \in Seq(PersistedRow) :
            FirstRows(persisted) /\ report = AssembleReport(persisted)

IInv == Typed /\ Balanced /\ Streamed /\ Reported

-----------------------------------------------------------------------------
(* The actions. *)

\* What tells the attempts apart.
LEMMA AttemptKinds ==
    /\ \A o \in Errors : o \notin Results
    /\ \A o : IsResult(o) <=> o \in Results
    /\ \A a \in Attempts : a.stage \in {"replied", "publishing", "appended", "settled"} =>
          a.outcome \in Errors \cup Results
    /\ \A a \in Attempts : a.stage = "failed" => a.outcome \in Errors
    /\ \A a \in Attempts : a.number \in Nat
<1>1. \A o \in Errors : o \notin Results
  <2> SUFFICES ASSUME NEW o \in Errors, o \in Results PROVE FALSE
    OBVIOUS
  <2>1. DOMAIN o = {"error"}
    BY DEF Errors
  <2>2. DOMAIN o = {"latency_ms", "correct"}
    BY DEF Results
  <2> QED BY <2>1, <2>2
<1>2. \A o : IsResult(o) <=> o \in Results
  BY DEF IsResult, Results
<1>3. \A a \in Attempts : a.stage \in {"replied", "publishing", "appended", "settled"} =>
         a.outcome \in Errors \cup Results
  BY DEF Attempts
<1>4. \A a \in Attempts : a.stage = "failed" => a.outcome \in Errors
  BY DEF Attempts
<1>5. \A a \in Attempts : a.number \in Nat
  BY DEF Attempts
<1> QED BY <1>1, <1>2, <1>3, <1>4, <1>5

\* What is counted when the attempt of q changes.
LEMMA Recount ==
    ASSUME attempt \in [Questions -> Attempts], attempt' \in [Questions -> Attempts],
           NEW q \in Questions, \A p \in Questions \ {q} : attempt'[p] = attempt[p]
    PROVE  \A W : /\ CountIn(attempt, Questions, W) \in Nat
                  /\ CountIn(attempt', Questions, W) \in Nat
                  /\ CountIn(attempt', Questions, W) =
                       CountIn(attempt, Questions, W) + (IF attempt'[q] \in W THEN 1 ELSE 0)
                                                      - (IF attempt[q] \in W THEN 1 ELSE 0)
BY CountChanges, ReportingConfig

LEMMA MetricsFields ==
    ASSUME NEW m \in Metrics
    PROVE  /\ m.http_attempts \in Nat /\ m.http_in_flight \in Nat
           /\ m.peak_http_in_flight \in Nat /\ m.http_successes \in Nat
           /\ m.latencies_ms \in Seq(Nat) /\ m.retries \in Nat /\ m.rate_limited \in Nat
           /\ m.limited \in [Kinds -> Nat] /\ m.completed \in Nat /\ m.success \in Nat
           /\ m.failure \in Nat /\ m.correct \in Nat
BY DEF Metrics

Refusals(m) == m.limited["rpm"] + m.limited["concurrency"] + m.limited["generic"]

\* The counters that the records of an error leave alone.
SameRequests(m, n) ==
    /\ n.http_attempts = m.http_attempts /\ n.http_in_flight = m.http_in_flight
    /\ n.peak_http_in_flight = m.peak_http_in_flight
    /\ n.http_successes = m.http_successes /\ n.latencies_ms = m.latencies_ms
SameCompletions(m, n) ==
    /\ n.completed = m.completed /\ n.success = m.success /\ n.failure = m.failure
    /\ n.correct = m.correct
SameRefusals(m, n) == n.rate_limited = m.rate_limited /\ n.limited = m.limited

LEMMA RefusalCounted ==
    ASSUME NEW m \in Metrics, NEW o \in Errors, NEW n, n = RateLimitRecorded(m, o)
    PROVE  /\ n \in Metrics /\ SameRequests(m, n) /\ SameCompletions(m, n)
           /\ n.retries = m.retries
           /\ m.rate_limited = Refusals(m) => n.rate_limited = Refusals(n)
<1> DEFINE e == o.error
           m1 == [m EXCEPT !.rate_limited = m.rate_limited + 1]
           counts == [m.limited EXCEPT ![e] = @ + 1]
           m2 == [m1 EXCEPT !.limited = counts]
<1>1. CASE e \notin Kinds
  <2>1. n = m
    BY <1>1 DEF RateLimitRecorded
  <2> QED BY <2>1 DEF SameRequests, SameCompletions
<1>2. CASE e \in Kinds
  <2>1. n = m2
    BY <1>2 DEF RateLimitRecorded, Metrics
  <2>2. counts \in [Kinds -> Nat] /\ \A k \in Kinds : counts[k] = IF k = e THEN m.limited[k] + 1
                                                              ELSE m.limited[k]
    BY <1>2 DEF Metrics
  <2> HIDE DEF counts, e
  <2>11. m.rate_limited + 1 \in Nat
    BY DEF Metrics
  <2>3. m1 \in Metrics
    BY <2>11 DEF Metrics
  <2>4. /\ m1.rate_limited = m.rate_limited + 1 /\ m1.limited = m.limited /\ m1.retries = m.retries
        /\ SameRequests(m, m1) /\ SameCompletions(m, m1)
    BY DEF Metrics, SameRequests, SameCompletions
  <2> HIDE DEF m1
  <2>5. m2 \in Metrics
    BY <2>2, <2>3 DEF Metrics
  <2>6. /\ m2.rate_limited = m1.rate_limited /\ m2.limited = counts /\ m2.retries = m1.retries
        /\ SameRequests(m1, m2) /\ SameCompletions(m1, m2)
    BY <2>2, <2>3 DEF Metrics, SameRequests, SameCompletions
  <2> HIDE DEF m2
  <2>7. SameRequests(m, m2) /\ SameCompletions(m, m2)
    BY <2>4, <2>6 DEF SameRequests, SameCompletions
  <2>8. m.limited["rpm"] \in Nat /\ m.limited["concurrency"] \in Nat /\ m.limited["generic"] \in Nat
    BY DEF Metrics, Kinds
  <2>9. Refusals(m2) = Refusals(m) + 1
    BY <1>2, <2>2, <2>6, <2>8 DEF Refusals, Kinds
  <2>10. m.rate_limited = Refusals(m) => m2.rate_limited = Refusals(m2)
    BY <2>4, <2>6, <2>9
  <2> QED BY <2>1, <2>4, <2>5, <2>6, <2>7, <2>10
<1> QED BY <1>1, <1>2

LEMMA RetryCounted ==
    ASSUME NEW m \in Metrics, NEW n, n = RetryRecorded(m, FALSE)
    PROVE  /\ n \in Metrics /\ SameRequests(m, n) /\ SameCompletions(m, n) /\ SameRefusals(m, n)
           /\ n.retries = m.retries + 1
<1>1. n = [m EXCEPT !.retries = m.retries + 1]
  BY DEF RetryRecorded
<1>2. m.retries + 1 \in Nat
  BY DEF Metrics
<1>3. n \in Metrics /\ n.retries = m.retries + 1
  BY <1>1, <1>2 DEF Metrics
<1>4. SameRequests(m, n) /\ SameCompletions(m, n) /\ SameRefusals(m, n)
  BY <1>1 DEF Metrics, SameRequests, SameCompletions, SameRefusals
<1> QED BY <1>3, <1>4

LEMMA SuccessCounted ==
    ASSUME NEW m \in Metrics, NEW result, result.status = "success", NEW n,
           n = CompletionRecorded(m, result)
    PROVE  /\ n \in Metrics /\ SameRequests(m, n) /\ SameRefusals(m, n) /\ n.retries = m.retries
           /\ n.completed = m.completed + 1 /\ n.success = m.success + 1 /\ n.failure = m.failure
           /\ n.correct = IF result.correct THEN m.correct + 1 ELSE m.correct
<1> DEFINE correct == IF result.correct THEN m.correct + 1 ELSE m.correct
           m1 == [m EXCEPT !.completed = m.completed + 1]
           m2 == [m1 EXCEPT !.success = m.success + 1]
           m3 == [m2 EXCEPT !.failure = m.failure]
           m4 == [m3 EXCEPT !.correct = correct]
<1>1. n = m4
  BY DEF CompletionRecorded, Metrics
<1>2. correct \in Nat /\ m.completed + 1 \in Nat /\ m.success + 1 \in Nat /\ m.failure \in Nat
  BY DEF Metrics
<1> HIDE DEF correct
<1>3. /\ m1 \in Metrics /\ SameRequests(m, m1) /\ SameRefusals(m, m1) /\ m1.retries = m.retries
      /\ m1.completed = m.completed + 1
  BY <1>2 DEF Metrics, SameRequests, SameRefusals
<1> HIDE DEF m1
<1>4. /\ m2 \in Metrics /\ SameRequests(m1, m2) /\ SameRefusals(m1, m2) /\ m2.retries = m1.retries
      /\ m2.completed = m1.completed /\ m2.success = m.success + 1
  BY <1>2, <1>3 DEF Metrics, SameRequests, SameRefusals
<1> HIDE DEF m2
<1>5. /\ m3 \in Metrics /\ SameRequests(m2, m3) /\ SameRefusals(m2, m3) /\ m3.retries = m2.retries
      /\ m3.completed = m2.completed /\ m3.success = m2.success /\ m3.failure = m.failure
  BY <1>2, <1>4 DEF Metrics, SameRequests, SameRefusals
<1> HIDE DEF m3
<1>6. /\ m4 \in Metrics /\ SameRequests(m3, m4) /\ SameRefusals(m3, m4) /\ m4.retries = m3.retries
      /\ m4.completed = m3.completed /\ m4.success = m3.success /\ m4.failure = m3.failure
      /\ m4.correct = correct
  BY <1>2, <1>5 DEF Metrics, SameRequests, SameRefusals
<1> HIDE DEF m4
<1>7. SameRequests(m, m4) /\ SameRefusals(m, m4)
  BY <1>3, <1>4, <1>5, <1>6 DEF SameRequests, SameRefusals
<1> QED BY <1>1, <1>3, <1>4, <1>5, <1>6, <1>7 DEF correct

LEMMA FailureCounted ==
    ASSUME NEW m \in Metrics, NEW result, result.status = "failed", NEW n,
           n = CompletionRecorded(m, result)
    PROVE  /\ n \in Metrics /\ SameRequests(m, n) /\ SameRefusals(m, n) /\ n.retries = m.retries
           /\ n.completed = m.completed + 1 /\ n.success = m.success /\ n.failure = m.failure + 1
           /\ n.correct = m.correct
<1> DEFINE m1 == [m EXCEPT !.completed = m.completed + 1]
           m2 == [m1 EXCEPT !.success = m.success]
           m3 == [m2 EXCEPT !.failure = m.failure + 1]
           m4 == [m3 EXCEPT !.correct = m.correct]
<1>1. n = m4
  BY DEF CompletionRecorded, Metrics
<1>2. m.correct \in Nat /\ m.completed + 1 \in Nat /\ m.success \in Nat /\ m.failure + 1 \in Nat
  BY DEF Metrics
<1>3. /\ m1 \in Metrics /\ SameRequests(m, m1) /\ SameRefusals(m, m1) /\ m1.retries = m.retries
      /\ m1.completed = m.completed + 1
  BY <1>2 DEF Metrics, SameRequests, SameRefusals
<1> HIDE DEF m1
<1>4. /\ m2 \in Metrics /\ SameRequests(m1, m2) /\ SameRefusals(m1, m2) /\ m2.retries = m1.retries
      /\ m2.completed = m1.completed /\ m2.success = m.success
  BY <1>2, <1>3 DEF Metrics, SameRequests, SameRefusals
<1> HIDE DEF m2
<1>5. /\ m3 \in Metrics /\ SameRequests(m2, m3) /\ SameRefusals(m2, m3) /\ m3.retries = m2.retries
      /\ m3.completed = m2.completed /\ m3.success = m2.success /\ m3.failure = m.failure + 1
  BY <1>2, <1>4 DEF Metrics, SameRequests, SameRefusals
<1> HIDE DEF m3
<1>6. /\ m4 \in Metrics /\ SameRequests(m3, m4) /\ SameRefusals(m3, m4) /\ m4.retries = m3.retries
      /\ m4.completed = m3.completed /\ m4.success = m3.success /\ m4.failure = m3.failure
      /\ m4.correct = m.correct
  BY <1>2, <1>5 DEF Metrics, SameRequests, SameRefusals
<1> HIDE DEF m4
<1>7. SameRequests(m, m4) /\ SameRefusals(m, m4)
  BY <1>3, <1>4, <1>5, <1>6 DEF SameRequests, SameRefusals
<1> QED BY <1>1, <1>3, <1>4, <1>5, <1>6, <1>7

\* A question that has no event in the stream, before the step or after it, and is not
\* published leaves the stream as it is.
LEMMA StreamKept ==
    ASSUME IInv, NEW q \in Questions, attempt[q].stage \notin Sent,
           attempt'[q].stage \notin Sent, \A p \in Questions \ {q} : attempt'[p] = attempt[p],
           attempt' \in [Questions -> Attempts], UNCHANGED <<stream, rows>>, OnePublication'
    PROVE  Streamed'
<1>1. /\ stream \in Seq(Entries) /\ attempt \in [Questions -> Attempts]
      /\ EntriesTrue /\ EntriesComplete /\ RowsOfEntries
  BY DEF IInv, Typed, Streamed
<1>2. EntriesTrue'
  <2> SUFFICES ASSUME NEW i \in 1..Len(stream)
               PROVE  LET p == stream[i].question_id IN
                      attempt'[p].stage \in Sent /\ stream[i] = Fields(p, Result(attempt'[p].outcome))
    BY DEF EntriesTrue
  <2> DEFINE p == stream[i].question_id
  <2>1. p \in Questions
    BY <1>1 DEF Entries, SuccessEntries, FailureEntries
  <2>2. attempt[p].stage \in Sent /\ stream[i] = Fields(p, Result(attempt[p].outcome))
    BY <1>1 DEF EntriesTrue
  <2>3. attempt'[p] = attempt[p]
    BY <2>1, <2>2
  <2> QED BY <2>2, <2>3
<1>3. EntriesComplete'
  BY <1>1 DEF EntriesComplete
<1>4. RowsOfEntries'
  BY <1>1 DEF RowsOfEntries
<1> QED BY <1>2, <1>3, <1>4 DEF Streamed

\* Nothing is published by a step of a question that is not.
LEMMA PublicationKept ==
    ASSUME IInv, NEW q \in Questions,
           attempt'[q].stage \notin {"publishing", "appended"},
           \A p \in Questions \ {q} : attempt'[p] = attempt[p]
    PROVE  OnePublication'
<1>1. \A p \in Publishing' : p \in Publishing
  BY DEF Publishing
<1> QED BY <1>1 DEF IInv, Streamed, OnePublication

\* A step that changes the attempt of q and the metrics, and nothing else.
Counting(q) ==
    /\ attempt' \in [Questions -> Attempts] /\ metrics' \in Metrics
    /\ \A p \in Questions \ {q} : attempt'[p] = attempt[p]
    /\ UNCHANGED <<stream, rows, finished, report, cli>>

LEMMA CountingKeeps ==
    ASSUME IInv, NEW q \in Questions, Counting(q),
           attempt[q].stage \notin Sent, attempt'[q].stage \notin Sent,
           Balanced', OnePublication'
    PROVE  IInv'
<1>1. Typed'
  BY DEF IInv, Typed, Counting
<1>2. Streamed'
  BY StreamKept DEF Counting
<1>3. Reported'
  BY DEF IInv, Reported, FirstRows, Counting
<1> QED BY <1>1, <1>2, <1>3 DEF IInv

LEMMA LaunchKeeps ==
    ASSUME IInv, NEW q \in Questions, Launch(q)
    PROVE  IInv'
<1> DEFINE a == attempt[q]
           b == [stage |-> "in_flight", number |-> a.number + 1, outcome |-> NoOutcome]
<1>1. /\ attempt \in [Questions -> Attempts] /\ metrics \in Metrics
      /\ a \in Attempts /\ a.stage = "open" /\ a.number \in Nat
  BY AttemptKinds DEF IInv, Typed, Launch
<1>2. attempt' = [attempt EXCEPT ![q] = b] /\ b \in Attempts
  BY <1>1 DEF Launch, Attempts
<1>3. /\ attempt' \in [Questions -> Attempts] /\ attempt'[q] = b
      /\ \A p \in Questions \ {q} : attempt'[p] = attempt[p]
  BY <1>1, <1>2
<1>4. /\ a \notin InFlight /\ a \notin UnhandledErrors /\ a \notin UnhandledResults
      /\ a \notin CompletedErrors /\ a \notin CompletedResults /\ a \notin CompletedCorrect
      /\ b \in InFlight /\ b \notin UnhandledErrors /\ b \notin UnhandledResults
      /\ b \notin CompletedErrors /\ b \notin CompletedResults /\ b \notin CompletedCorrect
  BY <1>1, <1>2 DEF InFlight, UnhandledErrors, UnhandledResults, CompletedErrors,
                    CompletedResults, CompletedCorrect, Completed
<1>5. b.stage = "in_flight"
  OBVIOUS
<1> HIDE DEF a, b
<1>6. /\ CountIn(attempt', Questions, InFlight) = CountIn(attempt, Questions, InFlight) + 1
      /\ CountIn(attempt', Questions, UnhandledErrors) = CountIn(attempt, Questions, UnhandledErrors)
      /\ CountIn(attempt', Questions, UnhandledResults) = CountIn(attempt, Questions, UnhandledResults)
      /\ CountIn(attempt', Questions, CompletedErrors) = CountIn(attempt, Questions, CompletedErrors)
      /\ CountIn(attempt', Questions, CompletedResults) = CountIn(attempt, Questions, CompletedResults)
      /\ CountIn(attempt', Questions, CompletedCorrect) = CountIn(attempt, Questions, CompletedCorrect)
  BY <1>1, <1>3, <1>4, Recount DEF a
<1>7. /\ CountIn(attempt, Questions, InFlight) \in Nat
      /\ CountIn(attempt, Questions, UnhandledErrors) \in Nat
  BY <1>1, <1>3, Recount
<1> DEFINE in_flight == metrics.http_in_flight + 1
           peak == Max({metrics.peak_http_in_flight, in_flight})
<1>8. peak = IF metrics.peak_http_in_flight >= in_flight
             THEN metrics.peak_http_in_flight ELSE in_flight
  <2>1. metrics.peak_http_in_flight \in Nat /\ in_flight \in Nat
    BY <1>1 DEF Metrics
  <2> HIDE DEF in_flight
  <2> QED BY <2>1, MaxOfTwo
<1>9. metrics' = [metrics EXCEPT !.http_attempts = @ + 1, !.http_in_flight = in_flight,
                                 !.peak_http_in_flight = peak]
  BY DEF Launch
<1> HIDE DEF peak
<1>10. metrics' \in Metrics
  <2>6. /\ metrics.http_attempts \in Nat /\ metrics.http_in_flight \in Nat
        /\ metrics.peak_http_in_flight \in Nat
    BY <1>1, MetricsFields
  <2>1. in_flight \in Nat /\ peak \in Nat /\ metrics.http_attempts + 1 \in Nat
    BY <1>8, <2>6
  <2> DEFINE m1 == [metrics EXCEPT !.http_attempts = metrics.http_attempts + 1]
             m2 == [m1 EXCEPT !.http_in_flight = in_flight]
             m3 == [m2 EXCEPT !.peak_http_in_flight = peak]
  <2>2. metrics' = m3
    BY <1>9
  <2> HIDE DEF in_flight
  <2>3. m1 \in Metrics
    BY <1>1, <2>1 DEF Metrics
  <2> HIDE DEF m1
  <2>4. m2 \in Metrics
    BY <2>1, <2>3 DEF Metrics
  <2> HIDE DEF m2
  <2>5. m3 \in Metrics
    BY <2>1, <2>4 DEF Metrics
  <2> QED BY <2>2, <2>5
<1>11. Counting(q)
  BY <1>3, <1>10 DEF Counting, Launch
<1>12. Balanced'
  <2>1. /\ metrics'.http_attempts = metrics.http_attempts + 1
        /\ metrics'.http_in_flight = metrics.http_in_flight + 1
        /\ metrics'.peak_http_in_flight = peak
        /\ metrics'.http_successes = metrics.http_successes
        /\ metrics'.latencies_ms = metrics.latencies_ms
        /\ metrics'.retries = metrics.retries
        /\ metrics'.rate_limited = metrics.rate_limited
        /\ metrics'.limited = metrics.limited
        /\ metrics'.completed = metrics.completed
        /\ metrics'.success = metrics.success
        /\ metrics'.failure = metrics.failure
        /\ metrics'.correct = metrics.correct
    BY <1>1, <1>9 DEF Metrics
  <2>2. peak >= metrics.http_in_flight + 1
    BY <1>1, <1>8 DEF Metrics
  <2>3. /\ metrics.http_attempts \in Nat /\ metrics.http_in_flight \in Nat
        /\ metrics.http_successes \in Nat /\ metrics.retries \in Nat
        /\ metrics.failure \in Nat /\ metrics.success \in Nat
    BY <1>1, MetricsFields
  <2>4. RequestsBalance'
    BY <1>6, <1>7, <2>1, <2>3 DEF IInv, Balanced, RequestsBalance
  <2>5. ResultsBalance'
    BY <1>6, <2>1 DEF IInv, Balanced, ResultsBalance
  <2>6. LatenciesBalance' /\ CompletionsBalance'
    BY <1>6, <2>1 DEF IInv, Balanced, LatenciesBalance, CompletionsBalance
  <2>7. CorrectBalance'
    BY <1>6, <2>1 DEF IInv, Balanced, CorrectBalance
  <2>8. RefusalsBalance'
    BY <2>1 DEF IInv, Balanced, RefusalsBalance
  <2>9. InFlightBalance'
    BY <1>6, <2>1, <2>2 DEF IInv, Balanced, InFlightBalance
  <2> QED BY <2>4, <2>5, <2>6, <2>7, <2>8, <2>9 DEF Balanced
<1>13. attempt[q].stage \notin Sent /\ attempt'[q].stage = "in_flight" /\ attempt'[q].stage \notin Sent
  BY <1>1, <1>3, <1>5 DEF Sent, a
<1>14. OnePublication'
  BY <1>3, <1>13, PublicationKept
<1> QED BY <1>11, <1>12, <1>13, <1>14, CountingKeeps

LEMMA ReplyKeeps ==
    ASSUME IInv, NEW q \in Questions, NEW outcome \in Outcomes, Reply(q, outcome)
    PROVE  IInv'
<1> DEFINE a == attempt[q]
           b == attempt'[q]
           won == outcome \in Results
           one == IF won THEN 1 ELSE 0
<1>1. /\ attempt \in [Questions -> Attempts] /\ metrics \in Metrics
      /\ a \in Attempts /\ a.stage = "in_flight" /\ a.number \in Nat
  BY AttemptKinds DEF IInv, Typed, Reply
<1>2. outcome \in Errors \cup Results /\ (IsResult(outcome) <=> won)
  BY AttemptKinds DEF Outcomes, Errors, ErrorNames, Results
<1>3. /\ attempt' = [attempt EXCEPT ![q] = b] /\ b.stage = "replied" /\ b.outcome = outcome
      /\ b = [stage |-> "replied", number |-> a.number, outcome |-> outcome]
  BY <1>1 DEF Reply, Attempts
<1>4. b \in Attempts
  BY <1>1, <1>2, <1>3 DEF Attempts
<1>5. /\ attempt' \in [Questions -> Attempts]
      /\ \A p \in Questions \ {q} : attempt'[p] = attempt[p]
  BY <1>1, <1>3, <1>4
<1>6. /\ a \in InFlight /\ a \notin UnhandledErrors /\ a \notin UnhandledResults
      /\ a \notin CompletedErrors /\ a \notin CompletedResults /\ a \notin CompletedCorrect
  BY <1>1 DEF InFlight, UnhandledErrors, UnhandledResults, CompletedErrors,
              CompletedResults, CompletedCorrect, Completed
<1>7. /\ b \notin InFlight /\ b \notin CompletedErrors /\ b \notin CompletedResults
      /\ b \notin CompletedCorrect
      /\ b \in UnhandledErrors <=> ~won
      /\ b \in UnhandledResults <=> won
  BY <1>2, <1>3, <1>4, AttemptKinds DEF InFlight, UnhandledErrors, UnhandledResults,
     CompletedErrors, CompletedResults, CompletedCorrect, Completed
<1> HIDE DEF a, b, won, one
<1>8. /\ CountIn(attempt', Questions, InFlight) = CountIn(attempt, Questions, InFlight) - 1
      /\ CountIn(attempt', Questions, UnhandledErrors)
           = CountIn(attempt, Questions, UnhandledErrors) + (1 - one)
      /\ CountIn(attempt', Questions, UnhandledResults)
           = CountIn(attempt, Questions, UnhandledResults) + one
      /\ CountIn(attempt', Questions, CompletedErrors) = CountIn(attempt, Questions, CompletedErrors)
      /\ CountIn(attempt', Questions, CompletedResults) = CountIn(attempt, Questions, CompletedResults)
      /\ CountIn(attempt', Questions, CompletedCorrect) = CountIn(attempt, Questions, CompletedCorrect)
  BY <1>1, <1>5, <1>6, <1>7, Recount DEF a, b, one
<1>9. one \in {0, 1}
  BY DEF one
<1>10. /\ CountIn(attempt, Questions, InFlight) \in Nat
      /\ CountIn(attempt', Questions, InFlight) \in Nat
      /\ CountIn(attempt, Questions, UnhandledErrors) \in Nat
      /\ CountIn(attempt, Questions, UnhandledResults) \in Nat
  BY <1>1, <1>5, Recount
<1>11. /\ metrics.http_attempts \in Nat /\ metrics.http_in_flight \in Nat
       /\ metrics.http_successes \in Nat /\ metrics.retries \in Nat
       /\ metrics.failure \in Nat /\ metrics.success \in Nat /\ metrics.latencies_ms \in Seq(Nat)
       /\ metrics.peak_http_in_flight \in Nat
  BY <1>1, MetricsFields
<1> DEFINE in_flight == Max({0, metrics.http_in_flight - 1})
           successes == IF won THEN metrics.http_successes + 1 ELSE metrics.http_successes
           latencies == IF won THEN Append(metrics.latencies_ms, outcome.latency_ms)
                        ELSE metrics.latencies_ms
           m1 == [metrics EXCEPT !.http_in_flight = in_flight]
           m2 == [m1 EXCEPT !.http_successes = successes]
           m3 == [m2 EXCEPT !.latencies_ms = latencies]
<1>12. metrics' = m3
  BY <1>1, <1>2 DEF Reply, Metrics
<1>13. in_flight = metrics.http_in_flight - 1 /\ in_flight \in Nat
  <2>1. metrics.http_in_flight - 1 \in Nat
    BY <1>8, <1>10, <1>11 DEF IInv, Balanced, InFlightBalance
  <2> QED BY <2>1, MaxOfTwo
<1>14. successes \in Nat /\ latencies \in Seq(Nat) /\ Len(latencies) = Len(metrics.latencies_ms) + one
  <2>1. won => outcome.latency_ms \in Nat
    BY ReportingConfig DEF won, Results
  <2>2. CASE won
    BY <1>11, <2>1, <2>2 DEF one
  <2>3. CASE ~won
    BY <1>11, <2>3 DEF one
  <2> QED BY <2>2, <2>3
<1> HIDE DEF in_flight, latencies
<1>15. m1 \in Metrics /\ SameCompletions(metrics, m1) /\ SameRefusals(metrics, m1)
       /\ m1.http_attempts = metrics.http_attempts /\ m1.retries = metrics.retries
       /\ m1.http_in_flight = in_flight /\ m1.peak_http_in_flight = metrics.peak_http_in_flight
  BY <1>1, <1>13 DEF Metrics, SameCompletions, SameRefusals
<1> HIDE DEF m1, successes
<1>16. m2 \in Metrics /\ SameCompletions(m1, m2) /\ SameRefusals(m1, m2)
       /\ m2.http_attempts = m1.http_attempts /\ m2.retries = m1.retries
       /\ m2.http_in_flight = m1.http_in_flight /\ m2.peak_http_in_flight = m1.peak_http_in_flight
       /\ m2.http_successes = successes
  BY <1>14, <1>15 DEF Metrics, SameCompletions, SameRefusals
<1> HIDE DEF m2
<1>17. m3 \in Metrics /\ SameCompletions(m2, m3) /\ SameRefusals(m2, m3)
       /\ m3.http_attempts = m2.http_attempts /\ m3.retries = m2.retries
       /\ m3.http_in_flight = m2.http_in_flight /\ m3.peak_http_in_flight = m2.peak_http_in_flight
       /\ m3.http_successes = m2.http_successes /\ m3.latencies_ms = latencies
  BY <1>14, <1>16 DEF Metrics, SameCompletions, SameRefusals
<1> HIDE DEF m3
<1>18. /\ metrics' \in Metrics /\ SameCompletions(metrics, metrics') /\ SameRefusals(metrics, metrics')
       /\ metrics'.http_attempts = metrics.http_attempts /\ metrics'.retries = metrics.retries
       /\ metrics'.http_in_flight = metrics.http_in_flight - 1
       /\ metrics'.peak_http_in_flight = metrics.peak_http_in_flight
       /\ metrics'.http_successes = metrics.http_successes + one
       /\ Len(metrics'.latencies_ms) = Len(metrics.latencies_ms) + one
  <2>1. successes = metrics.http_successes + one
    BY <1>11 DEF successes, one
  <2> QED BY <1>12, <1>13, <1>14, <1>15, <1>16, <1>17, <2>1 DEF SameCompletions, SameRefusals
<1>19. Counting(q)
  BY <1>5, <1>18 DEF Counting, Reply
<1>20. Balanced'
  <2>7. /\ metrics'.http_attempts = metrics.http_attempts /\ metrics'.retries = metrics.retries
        /\ metrics'.http_in_flight = metrics.http_in_flight - 1
        /\ metrics'.http_successes = metrics.http_successes + one
        /\ metrics'.success = metrics.success /\ metrics'.failure = metrics.failure
    BY <1>18 DEF SameCompletions
  <2>8. RequestsBalance /\ ResultsBalance
    BY DEF IInv, Balanced
  <2>1. RequestsBalance'
    <3> DEFINE e == CountIn(attempt, Questions, UnhandledErrors)
               e_ == CountIn(attempt', Questions, UnhandledErrors)
    <3>1. e_ = e + (1 - one) /\ e \in Nat
      BY <1>8, <1>10
    <3>2. /\ metrics.http_attempts \in Nat /\ metrics.http_in_flight \in Nat
          /\ metrics.http_successes \in Nat /\ metrics.retries \in Nat
          /\ metrics.failure \in Nat
      BY <1>11
    <3>3. metrics.http_attempts = metrics.http_in_flight + metrics.http_successes
                                  + metrics.retries + metrics.failure + e
      BY <2>8 DEF RequestsBalance
    <3> HIDE DEF e, e_
    <3>4. metrics'.http_attempts = metrics'.http_in_flight + metrics'.http_successes
                                   + metrics'.retries + metrics'.failure + e_
      BY <1>9, <2>7, <3>1, <3>2, <3>3
    <3> QED BY <3>4 DEF RequestsBalance, e_
  <2>2. ResultsBalance'
    BY <1>8, <1>10, <1>11, <1>9, <2>7, <2>8 DEF ResultsBalance
  <2>3. LatenciesBalance'
    BY <1>11, <1>18, <1>9 DEF IInv, Balanced, LatenciesBalance
  <2>9. CompletionsBalance' /\ CorrectBalance'
    BY <1>8, <1>18 DEF IInv, Balanced, CompletionsBalance, CorrectBalance, SameCompletions
  <2>5. RefusalsBalance'
    BY <1>18 DEF IInv, Balanced, RefusalsBalance, SameRefusals
  <2>6. InFlightBalance'
    BY <1>8, <1>10, <1>11, <1>18 DEF IInv, Balanced, InFlightBalance
  <2> QED BY <2>1, <2>2, <2>3, <2>5, <2>6, <2>9 DEF Balanced
<1>21. attempt[q].stage \notin Sent /\ attempt'[q].stage = "replied" /\ attempt'[q].stage \notin Sent
  BY <1>1, <1>3 DEF Sent, a, b
<1>22. OnePublication'
  BY <1>5, <1>21, PublicationKept
<1> QED BY <1>19, <1>20, <1>21, <1>22, CountingKeeps

\* An error is one fewer of those that are not handled and one more of the retries, or
\* the last of its question, which fails.
LEMMA HandleErrorKeeps ==
    ASSUME IInv, NEW q \in Questions, HandleError(q)
    PROVE  IInv'
<1> DEFINE a == attempt[q]
           b == attempt'[q]
           last == a.number >= MaxAttempts
           m == RateLimitRecorded(metrics, a.outcome)
           retry == IF last THEN 0 ELSE 1
<1>1. /\ attempt \in [Questions -> Attempts] /\ metrics \in Metrics
      /\ a \in Attempts /\ a.stage = "replied" /\ a.number \in Nat /\ a.outcome \in Errors
  BY AttemptKinds DEF IInv, Typed, HandleError
<1>2. /\ attempt' = [attempt EXCEPT ![q] = b]
      /\ b = [stage |-> IF last THEN "failed" ELSE "open", number |-> a.number, outcome |-> a.outcome]
      /\ metrics' = RetryRecorded(m, last) /\ UNCHANGED <<stream, rows, finished, report, cli>>
  BY <1>1 DEF HandleError, Attempts
<1>3. b \in Attempts /\ b.stage \in {"failed", "open"} /\ (b.stage = "failed" <=> last)
  <2>1. CASE last
    BY <1>1, <1>2, <2>1 DEF Attempts
  <2>2. CASE ~last
    BY <1>1, <1>2, <2>2 DEF Attempts
  <2> QED BY <2>1, <2>2
<1>4. /\ attempt' \in [Questions -> Attempts]
      /\ \A p \in Questions \ {q} : attempt'[p] = attempt[p]
  BY <1>1, <1>2, <1>3
<1>5. /\ a \notin InFlight /\ a \in UnhandledErrors /\ a \notin UnhandledResults
      /\ a \notin CompletedErrors /\ a \notin CompletedResults /\ a \notin CompletedCorrect
  BY <1>1, AttemptKinds DEF InFlight, UnhandledErrors, UnhandledResults, CompletedErrors,
     CompletedResults, CompletedCorrect, Completed
<1>6. /\ b \in UnhandledErrors <=> last
      /\ b \notin InFlight /\ b \notin UnhandledResults
      /\ b \notin CompletedErrors /\ b \notin CompletedResults /\ b \notin CompletedCorrect
  <2>1. b.outcome = a.outcome
    BY <1>2
  <2> QED BY <1>1, <1>3, <2>1 DEF InFlight, UnhandledErrors, UnhandledResults,
             CompletedErrors, CompletedResults, CompletedCorrect, Completed
<1> HIDE DEF a, b, m, last, retry
<1>7. /\ CountIn(attempt', Questions, InFlight) = CountIn(attempt, Questions, InFlight)
      /\ CountIn(attempt', Questions, UnhandledErrors)
           = CountIn(attempt, Questions, UnhandledErrors) - retry
      /\ CountIn(attempt', Questions, UnhandledResults) = CountIn(attempt, Questions, UnhandledResults)
      /\ CountIn(attempt', Questions, CompletedErrors) = CountIn(attempt, Questions, CompletedErrors)
      /\ CountIn(attempt', Questions, CompletedResults) = CountIn(attempt, Questions, CompletedResults)
      /\ CountIn(attempt', Questions, CompletedCorrect) = CountIn(attempt, Questions, CompletedCorrect)
      /\ CountIn(attempt, Questions, UnhandledErrors) \in Nat
  BY <1>1, <1>4, <1>5, <1>6, Recount DEF a, b, retry
<1>8. /\ m \in Metrics /\ SameRequests(metrics, m) /\ SameCompletions(metrics, m)
      /\ m.retries = metrics.retries
      /\ metrics.rate_limited = Refusals(metrics) => m.rate_limited = Refusals(m)
  BY <1>1, RefusalCounted DEF m
<1>9. /\ metrics' \in Metrics /\ SameRequests(m, metrics') /\ SameCompletions(m, metrics')
      /\ SameRefusals(m, metrics') /\ metrics'.retries = m.retries + retry
  <2>1. CASE ~last
    <3>1. metrics' = RetryRecorded(m, FALSE)
      BY <1>2, <2>1 DEF RetryRecorded
    <3> QED BY <1>8, <2>1, <3>1, RetryCounted DEF retry
  <2>2. CASE last
    <3>1. metrics' = m
      BY <1>2, <2>2 DEF RetryRecorded
    <3>2. m.retries \in Nat
      BY <1>8, MetricsFields
    <3> QED BY <1>8, <2>2, <3>1, <3>2 DEF retry, SameRequests, SameCompletions, SameRefusals
  <2> QED BY <2>1, <2>2
<1>10. /\ metrics.http_attempts \in Nat /\ metrics.http_in_flight \in Nat
       /\ metrics.http_successes \in Nat /\ metrics.retries \in Nat /\ metrics.failure \in Nat
       /\ retry \in {0, 1}
  BY <1>1, MetricsFields DEF retry
<1>11. SameRequests(metrics, metrics') /\ SameCompletions(metrics, metrics')
       /\ metrics'.retries = metrics.retries + retry
  BY <1>8, <1>9 DEF SameRequests, SameCompletions
<1>12. Counting(q)
  BY <1>2, <1>4, <1>9 DEF Counting
<1>13. Balanced'
  <2>1. RequestsBalance'
    <3> DEFINE e == CountIn(attempt, Questions, UnhandledErrors)
               e_ == CountIn(attempt', Questions, UnhandledErrors)
    <3>1. /\ metrics'.http_attempts = metrics.http_attempts
          /\ metrics'.http_in_flight = metrics.http_in_flight
          /\ metrics'.http_successes = metrics.http_successes
          /\ metrics'.retries = metrics.retries + retry /\ metrics'.failure = metrics.failure
      BY <1>11 DEF SameRequests, SameCompletions
    <3>2. metrics.http_attempts = metrics.http_in_flight + metrics.http_successes
                                  + metrics.retries + metrics.failure + e
      BY DEF IInv, Balanced, RequestsBalance
    <3>3. e_ = e - retry /\ e \in Nat
      BY <1>7
    <3> HIDE DEF e, e_
    <3>4. metrics'.http_attempts = metrics'.http_in_flight + metrics'.http_successes
                                   + metrics'.retries + metrics'.failure + e_
      BY <1>10, <3>1, <3>2, <3>3
    <3> QED BY <3>4 DEF RequestsBalance, e_
  <2>2. ResultsBalance'
    BY <1>7, <1>11 DEF IInv, Balanced, ResultsBalance, SameRequests, SameCompletions
  <2>3. LatenciesBalance'
    BY <1>11 DEF IInv, Balanced, LatenciesBalance, SameRequests
  <2>4. CompletionsBalance' /\ CorrectBalance'
    BY <1>7, <1>11 DEF IInv, Balanced, CompletionsBalance, CorrectBalance, SameCompletions
  <2>6. RefusalsBalance'
    BY <1>8, <1>9 DEF IInv, Balanced, RefusalsBalance, SameRefusals, Refusals
  <2>7. InFlightBalance'
    BY <1>7, <1>11 DEF IInv, Balanced, InFlightBalance, SameRequests
  <2> QED BY <2>1, <2>2, <2>3, <2>4, <2>6, <2>7 DEF Balanced
<1>14. /\ attempt[q].stage \notin Sent /\ attempt'[q].stage \notin Sent
       /\ attempt'[q].stage \notin {"publishing", "appended"}
  BY <1>1, <1>3 DEF Sent, a, b
<1>15. OnePublication'
  BY <1>4, <1>14, PublicationKept
<1> QED BY <1>12, <1>13, <1>14, <1>15, CountingKeeps

\* A result, or the failure of a question, is no longer unhandled but completed.
LEMMA CompleteKeeps ==
    ASSUME IInv, NEW q \in Questions, Complete(q)
    PROVE  IInv'
<1> DEFINE a == attempt[q]
           b == attempt'[q]
           result == Result(a.outcome)
           won == a.outcome \in Results
           one == IF won THEN 1 ELSE 0
           right == IF won /\ a.outcome.correct THEN 1 ELSE 0
<1>1. /\ attempt \in [Questions -> Attempts] /\ metrics \in Metrics
      /\ a \in Attempts /\ a.number \in Nat
      /\ \/ a.stage = "replied" /\ won
         \/ a.stage = "failed" /\ a.outcome \in Errors
  BY AttemptKinds DEF IInv, Typed, Complete
<1>2. /\ attempt' = [attempt EXCEPT ![q] = b]
      /\ b = [stage |-> "publishing", number |-> a.number, outcome |-> a.outcome]
      /\ metrics' = CompletionRecorded(metrics, result)
      /\ Publishing = {} /\ UNCHANGED <<stream, rows, finished, report, cli>>
  BY <1>1 DEF Complete, Attempts
<1>3. b \in Attempts /\ b.stage = "publishing" /\ b.outcome = a.outcome
  BY <1>1, <1>2 DEF Attempts
<1>4. /\ attempt' \in [Questions -> Attempts]
      /\ \A p \in Questions \ {q} : attempt'[p] = attempt[p]
  BY <1>1, <1>2, <1>3
<1>5. /\ a \notin InFlight
      /\ a \in UnhandledErrors <=> ~won
      /\ a \in UnhandledResults <=> won
      /\ a \notin CompletedErrors /\ a \notin CompletedResults /\ a \notin CompletedCorrect
  BY <1>1, AttemptKinds DEF InFlight, UnhandledErrors, UnhandledResults, CompletedErrors,
     CompletedResults, CompletedCorrect, Completed
<1>6. /\ b \notin InFlight /\ b \notin UnhandledErrors /\ b \notin UnhandledResults
      /\ b \in CompletedErrors <=> ~won
      /\ b \in CompletedResults <=> won
      /\ b \in CompletedCorrect <=> (won /\ a.outcome.correct)
  BY <1>1, <1>3, AttemptKinds DEF InFlight, UnhandledErrors, UnhandledResults,
     CompletedErrors, CompletedResults, CompletedCorrect, Completed
<1>7. /\ won => result.status = "success" /\ result.correct = a.outcome.correct
      /\ ~won => result.status = "failed"
  BY <1>1, AttemptKinds DEF Result
<1> HIDE DEF a, b, result, won, one, right
<1>8. /\ CountIn(attempt', Questions, InFlight) = CountIn(attempt, Questions, InFlight)
      /\ CountIn(attempt', Questions, UnhandledErrors)
           = CountIn(attempt, Questions, UnhandledErrors) - (1 - one)
      /\ CountIn(attempt', Questions, UnhandledResults)
           = CountIn(attempt, Questions, UnhandledResults) - one
      /\ CountIn(attempt', Questions, CompletedErrors)
           = CountIn(attempt, Questions, CompletedErrors) + (1 - one)
      /\ CountIn(attempt', Questions, CompletedResults)
           = CountIn(attempt, Questions, CompletedResults) + one
      /\ CountIn(attempt', Questions, CompletedCorrect)
           = CountIn(attempt, Questions, CompletedCorrect) + right
  BY <1>1, <1>4, <1>5, <1>6, Recount DEF a, b, one, right
<1>9. /\ CountIn(attempt, Questions, UnhandledErrors) \in Nat
      /\ CountIn(attempt, Questions, UnhandledResults) \in Nat
      /\ CountIn(attempt, Questions, CompletedErrors) \in Nat
      /\ CountIn(attempt, Questions, CompletedResults) \in Nat
      /\ CountIn(attempt, Questions, CompletedCorrect) \in Nat
  BY <1>1, <1>4, Recount
<1>10. /\ metrics.http_attempts \in Nat /\ metrics.http_in_flight \in Nat
       /\ metrics.http_successes \in Nat /\ metrics.retries \in Nat /\ metrics.failure \in Nat
       /\ metrics.completed \in Nat /\ metrics.success \in Nat /\ metrics.correct \in Nat
       /\ one \in {0, 1} /\ right \in {0, 1}
  BY <1>1, MetricsFields DEF one, right
<1>11. /\ metrics' \in Metrics /\ SameRequests(metrics, metrics') /\ SameRefusals(metrics, metrics')
       /\ metrics'.retries = metrics.retries /\ metrics'.completed = metrics.completed + 1
       /\ metrics'.success = metrics.success + one
       /\ metrics'.failure = metrics.failure + (1 - one)
       /\ metrics'.correct = metrics.correct + right
  <2>1. CASE won
    <3>1. /\ metrics' \in Metrics /\ SameRequests(metrics, metrics')
          /\ SameRefusals(metrics, metrics')
          /\ metrics'.retries = metrics.retries /\ metrics'.completed = metrics.completed + 1
          /\ metrics'.success = metrics.success + 1 /\ metrics'.failure = metrics.failure
          /\ metrics'.correct = IF result.correct THEN metrics.correct + 1 ELSE metrics.correct
      BY <1>1, <1>2, <1>7, <2>1, SuccessCounted
    <3>2. one = 1 /\ right = IF result.correct THEN 1 ELSE 0
      BY <1>7, <2>1 DEF one, right
    <3> QED BY <1>10, <3>1, <3>2
  <2>2. CASE ~won
    <3>1. /\ metrics' \in Metrics /\ SameRequests(metrics, metrics')
          /\ SameRefusals(metrics, metrics')
          /\ metrics'.retries = metrics.retries /\ metrics'.completed = metrics.completed + 1
          /\ metrics'.success = metrics.success /\ metrics'.failure = metrics.failure + 1
          /\ metrics'.correct = metrics.correct
      BY <1>1, <1>2, <1>7, <2>2, FailureCounted
    <3>2. one = 0 /\ right = 0
      BY <2>2 DEF one, right
    <3> QED BY <1>10, <3>1, <3>2
  <2> QED BY <2>1, <2>2
<1>12. Counting(q)
  BY <1>2, <1>4, <1>11 DEF Counting
<1>13. Balanced'
  <2>1. RequestsBalance'
    <3> DEFINE e == CountIn(attempt, Questions, UnhandledErrors)
               e_ == CountIn(attempt', Questions, UnhandledErrors)
    <3>1. /\ metrics'.http_attempts = metrics.http_attempts
          /\ metrics'.http_in_flight = metrics.http_in_flight
          /\ metrics'.http_successes = metrics.http_successes
          /\ metrics'.retries = metrics.retries /\ metrics'.failure = metrics.failure + (1 - one)
      BY <1>11 DEF SameRequests
    <3>2. metrics.http_attempts = metrics.http_in_flight + metrics.http_successes
                                  + metrics.retries + metrics.failure + e
      BY DEF IInv, Balanced, RequestsBalance
    <3>3. e_ = e - (1 - one) /\ e \in Nat
      BY <1>8, <1>9
    <3> HIDE DEF e, e_
    <3>4. metrics'.http_attempts = metrics'.http_in_flight + metrics'.http_successes
                                   + metrics'.retries + metrics'.failure + e_
      BY <1>10, <3>1, <3>2, <3>3
    <3> QED BY <3>4 DEF RequestsBalance, e_
  <2>2. ResultsBalance'
    <3>1. metrics.http_successes = metrics.success + CountIn(attempt, Questions, UnhandledResults)
      BY DEF IInv, Balanced, ResultsBalance
    <3>2. metrics'.http_successes = metrics.http_successes
      BY <1>11 DEF SameRequests
    <3> QED BY <1>8, <1>9, <1>10, <1>11, <3>1, <3>2 DEF ResultsBalance
  <2>3. LatenciesBalance'
    BY <1>11 DEF IInv, Balanced, LatenciesBalance, SameRequests
  <2>4. CompletionsBalance'
    <3>1. /\ metrics.completed = metrics.success + metrics.failure
          /\ metrics.success = CountIn(attempt, Questions, CompletedResults)
          /\ metrics.failure = CountIn(attempt, Questions, CompletedErrors)
      BY DEF IInv, Balanced, CompletionsBalance
    <3>2. metrics'.completed = metrics'.success + metrics'.failure
      BY <1>10, <1>11, <3>1
    <3>3. metrics'.success = CountIn(attempt', Questions, CompletedResults)
      BY <1>8, <1>11, <3>1
    <3>4. metrics'.failure = CountIn(attempt', Questions, CompletedErrors)
      BY <1>8, <1>11, <3>1
    <3> QED BY <3>2, <3>3, <3>4 DEF CompletionsBalance
  <2>5. CorrectBalance'
    BY <1>8, <1>11 DEF IInv, Balanced, CorrectBalance
  <2>6. RefusalsBalance'
    BY <1>11 DEF IInv, Balanced, RefusalsBalance, SameRefusals
  <2>7. InFlightBalance'
    BY <1>8, <1>11 DEF IInv, Balanced, InFlightBalance, SameRequests
  <2> QED BY <2>1, <2>2, <2>3, <2>4, <2>5, <2>6, <2>7 DEF Balanced
<1>14. attempt[q].stage \notin Sent /\ attempt'[q].stage \notin Sent
  BY <1>1, <1>3 DEF Sent, a, b
<1>15. OnePublication'
  <2>1. \A p \in Publishing' : p = q
    BY <1>2, <1>4 DEF Publishing
  <2> QED BY <2>1 DEF OnePublication
<1> QED BY <1>12, <1>13, <1>14, <1>15, CountingKeeps

\* A step of the XADD of q: what is counted stays as it is.
Sending(q, stage) ==
    /\ attempt[q].stage \in {"publishing", "appended"} /\ stage \in Sent
    /\ attempt' = [attempt EXCEPT ![q].stage = stage]
    /\ UNCHANGED <<metrics, rows, finished, report, cli>>

LEMMA SendingCounts ==
    ASSUME IInv, NEW q \in Questions, NEW stage, Sending(q, stage)
    PROVE  /\ attempt' \in [Questions -> Attempts]
           /\ attempt'[q].stage = stage /\ attempt'[q].outcome = attempt[q].outcome
           /\ \A p \in Questions \ {q} : attempt'[p] = attempt[p]
           /\ attempt[q].outcome \in Errors \cup Results
           /\ Balanced' /\ OnePublication' /\ Reported'
<1> DEFINE a == attempt[q]
           b == attempt'[q]
<1>1. /\ attempt \in [Questions -> Attempts] /\ metrics' = metrics
      /\ a \in Attempts /\ a.number \in Nat /\ a.stage \in {"publishing", "appended"}
      /\ a.outcome \in Errors \cup Results
  BY AttemptKinds DEF IInv, Typed, Sending
<1>2. /\ attempt' = [attempt EXCEPT ![q] = b]
      /\ b = [stage |-> stage, number |-> a.number, outcome |-> a.outcome]
  BY <1>1 DEF Sending, Attempts
<1>3. b \in Attempts /\ b.stage = stage /\ stage \in Sent /\ b.outcome = a.outcome
  BY <1>1, <1>2 DEF Attempts, Sending, Sent
<1>4. /\ attempt' \in [Questions -> Attempts]
      /\ \A p \in Questions \ {q} : attempt'[p] = attempt[p]
  BY <1>1, <1>2, <1>3
<1>5. /\ a \notin InFlight /\ a \notin UnhandledErrors /\ a \notin UnhandledResults
      /\ b \notin InFlight /\ b \notin UnhandledErrors /\ b \notin UnhandledResults
      /\ a \in CompletedErrors <=> b \in CompletedErrors
      /\ a \in CompletedResults <=> b \in CompletedResults
      /\ a \in CompletedCorrect <=> b \in CompletedCorrect
  BY <1>1, <1>3 DEF InFlight, UnhandledErrors, UnhandledResults, CompletedErrors,
     CompletedResults, CompletedCorrect, Completed, Sent
<1> HIDE DEF a, b
<1>6. /\ CountIn(attempt', Questions, InFlight) = CountIn(attempt, Questions, InFlight)
      /\ CountIn(attempt', Questions, UnhandledErrors) = CountIn(attempt, Questions, UnhandledErrors)
      /\ CountIn(attempt', Questions, UnhandledResults) = CountIn(attempt, Questions, UnhandledResults)
      /\ CountIn(attempt', Questions, CompletedErrors) = CountIn(attempt, Questions, CompletedErrors)
      /\ CountIn(attempt', Questions, CompletedResults) = CountIn(attempt, Questions, CompletedResults)
      /\ CountIn(attempt', Questions, CompletedCorrect) = CountIn(attempt, Questions, CompletedCorrect)
  BY <1>1, <1>4, <1>5, Recount DEF a, b
<1>7. Balanced'
  BY <1>1, <1>6 DEF IInv, Balanced, RequestsBalance, ResultsBalance, LatenciesBalance,
     CompletionsBalance, CorrectBalance, RefusalsBalance, InFlightBalance
<1>8. OnePublication'
  <2>1. \A p \in Publishing' : p \in Publishing
    BY <1>1, <1>4 DEF Publishing, a
  <2> QED BY <2>1 DEF IInv, Streamed, OnePublication
<1>9. Reported'
  BY DEF IInv, Reported, FirstRows, Sending
<1> QED BY <1>1, <1>3, <1>4, <1>7, <1>8, <1>9 DEF a, b

LEMMA EntryFields ==
    ASSUME NEW q \in Questions
    PROVE  /\ \A o \in Results : Fields(q, Result(o)) \in SuccessEntries
           /\ \A o \in Errors : Fields(q, Result(o)) \in FailureEntries
           /\ \A o \in Errors \cup Results : Fields(q, Result(o)) \in Entries
           /\ \A o : Fields(q, Result(o)).question_id = q
<1>1. ASSUME NEW o \in Results
      PROVE  Fields(q, Result(o)) \in SuccessEntries
  <2>1. PICK r : r = Result(o)
    OBVIOUS
  <2>2. r.status = "success" /\ r.latency_ms \in Latencies /\ r.error = NoError
    BY <2>1, AttemptKinds DEF Result, Results
  <2>3. Fields(q, r) \in SuccessEntries
    BY <2>2, ReportingConfig DEF Fields, SuccessEntries, None
  <2> QED BY <2>1, <2>3
<1>2. ASSUME NEW o \in Errors
      PROVE  Fields(q, Result(o)) \in FailureEntries
  <2>1. PICK r : r = Result(o)
    OBVIOUS
  <2>2. r.status = "failed" /\ r.latency_ms = None /\ r.error \in ErrorNames
    BY <2>1, AttemptKinds DEF Result, Errors
  <2>3. Fields(q, r) \in FailureEntries
    BY <2>2 DEF Fields, FailureEntries, ErrorNames, Kinds, NoError
  <2> QED BY <2>1, <2>3
<1>3. \A o : Fields(q, Result(o)).question_id = q
  BY DEF Fields
<1> QED BY <1>1, <1>2, <1>3 DEF Entries

LEMMA XAddKeeps ==
    ASSUME IInv, NEW q \in Questions, XAdd(q)
    PROVE  IInv'
<1> DEFINE entry == Fields(q, Result(attempt[q].outcome))
           n == Len(stream)
<1>1. Sending(q, "appended") /\ stream' = Append(stream, entry)
  BY DEF XAdd, Sending, Sent
<1>2. /\ attempt' \in [Questions -> Attempts]
      /\ attempt'[q].stage = "appended" /\ attempt'[q].outcome = attempt[q].outcome
      /\ \A p \in Questions \ {q} : attempt'[p] = attempt[p]
      /\ attempt[q].outcome \in Errors \cup Results
      /\ Balanced' /\ OnePublication' /\ Reported'
  BY <1>1, SendingCounts
<1>3. entry \in Entries /\ entry.question_id = q
  BY <1>2, EntryFields
<1>4. /\ stream \in Seq(Entries) /\ n \in Nat /\ rows \in Seq(PersistedRow) /\ rows' = rows
      /\ EntriesTrue /\ EntriesComplete /\ RowsOfEntries
  BY <1>1 DEF IInv, Typed, Streamed, Sending
<1>5. attempt'[q].outcome = attempt[q].outcome /\ entry = Fields(q, Result(attempt'[q].outcome))
  BY <1>2
<1> HIDE DEF entry
<1>6. /\ stream' \in Seq(Entries) /\ Len(stream') = n + 1 /\ stream'[n + 1] = entry
      /\ \A i \in 1..n : stream'[i] = stream[i]
  BY <1>1, <1>3, <1>4
<1>7. EntriesTrue'
  <2> SUFFICES ASSUME NEW i \in 1..(n + 1)
               PROVE  LET p == stream'[i].question_id IN
                      attempt'[p].stage \in Sent /\ stream'[i] = Fields(p, Result(attempt'[p].outcome))
    BY <1>6 DEF EntriesTrue
  <2>1. CASE i = n + 1
    BY <1>2, <1>3, <1>6, <1>5, <2>1 DEF Sent
  <2>2. CASE i \in 1..n
    <3> DEFINE p == stream[i].question_id
    <3>1. p \in Questions /\ attempt[p].stage \in Sent
          /\ stream[i] = Fields(p, Result(attempt[p].outcome))
      BY <1>4, <2>2 DEF EntriesTrue, Entries, SuccessEntries, FailureEntries
    <3>2. attempt'[p].stage \in Sent /\ attempt'[p].outcome = attempt[p].outcome
      BY <1>2, <3>1 DEF Sent
    <3>3. stream'[i] = stream[i]
      BY <1>6, <2>2
    <3> QED BY <3>1, <3>2, <3>3
  <2> QED BY <1>4, <2>1, <2>2
<1>8. EntriesComplete'
  <2> SUFFICES ASSUME NEW p \in Questions, attempt'[p].stage \in Sent
               PROVE  \E i \in 1..(n + 1) : stream'[i].question_id = p
    BY <1>6 DEF EntriesComplete
  <2>1. CASE p = q
    <3>1. n + 1 \in 1..(n + 1)
      BY <1>4
    <3> QED BY <1>3, <1>6, <2>1, <3>1
  <2>2. CASE p # q
    <3>1. attempt[p].stage \in Sent
      BY <1>2, <2>2
    <3>2. PICK i \in 1..n : stream[i].question_id = p
      BY <1>4, <3>1 DEF EntriesComplete
    <3>3. i \in 1..(n + 1) /\ stream'[i].question_id = p
      BY <1>4, <1>6, <3>2
    <3> QED BY <3>3
  <2> QED BY <2>1, <2>2
<1>9. RowsOfEntries'
  <2>1. Len(rows) \in Nat /\ Len(rows) <= n /\ \A i \in 1..Len(rows) : rows[i] = Row(stream[i])
    BY <1>4 DEF RowsOfEntries
  <2>2. \A i \in 1..Len(rows) : rows[i] = Row(stream'[i])
    BY <1>4, <1>6, <2>1
  <2> QED BY <1>4, <1>6, <2>1, <2>2 DEF RowsOfEntries
<1>10. Typed'
  BY <1>1, <1>2, <1>6 DEF IInv, Typed, Sending
<1> QED BY <1>2, <1>7, <1>8, <1>9, <1>10 DEF IInv, Streamed

LEMMA PublishedKeeps ==
    ASSUME IInv, NEW q \in Questions, Published(q)
    PROVE  IInv'
<1>1. Sending(q, "settled") /\ stream' = stream /\ attempt[q].stage = "appended"
  BY DEF Published, Sending, Sent
<1>2. /\ attempt' \in [Questions -> Attempts]
      /\ attempt'[q].stage = "settled" /\ attempt'[q].outcome = attempt[q].outcome
      /\ \A p \in Questions \ {q} : attempt'[p] = attempt[p]
      /\ Balanced' /\ OnePublication' /\ Reported'
  BY <1>1, SendingCounts
<1>3. /\ stream \in Seq(Entries) /\ EntriesTrue /\ EntriesComplete /\ RowsOfEntries /\ rows' = rows
  BY <1>1 DEF IInv, Typed, Streamed, Sending
<1>4. \A p \in Questions : /\ attempt'[p].stage \in Sent <=> attempt[p].stage \in Sent
                           /\ attempt'[p].outcome = attempt[p].outcome
  BY <1>1, <1>2 DEF Sent
<1>5. EntriesTrue'
  <2> SUFFICES ASSUME NEW i \in 1..Len(stream)
               PROVE  LET p == stream[i].question_id IN
                      attempt'[p].stage \in Sent /\ stream[i] = Fields(p, Result(attempt'[p].outcome))
    BY <1>1 DEF EntriesTrue
  <2>1. stream[i].question_id \in Questions
    BY <1>3 DEF Entries, SuccessEntries, FailureEntries
  <2> QED BY <1>3, <1>4, <2>1 DEF EntriesTrue
<1>6. EntriesComplete'
  BY <1>1, <1>3, <1>4 DEF EntriesComplete
<1>7. RowsOfEntries'
  BY <1>1, <1>3 DEF RowsOfEntries
<1>8. Typed'
  BY <1>1, <1>2 DEF IInv, Typed, Sending
<1> QED BY <1>2, <1>5, <1>6, <1>7, <1>8 DEF IInv, Streamed

LEMMA InitialBalance == Init => IInv
<1> SUFFICES ASSUME Init PROVE IInv
  OBVIOUS
<1>1. \A q \in Questions : attempt[q] = [stage |-> "open", number |-> 0, outcome |-> NoOutcome]
  BY DEF Init
<1>2. Typed
  <2>1. attempt \in [Questions -> Attempts]
    BY DEF Init, Attempts
  <2>2. metrics \in Metrics
    BY DEF Init, Metrics
  <2>3. stream \in Seq(Entries) /\ rows \in Seq(PersistedRow)
    BY DEF Init
  <2> QED BY <2>1, <2>2, <2>3 DEF Init, Typed
<1>3. \A q \in Questions : attempt[q].stage = "open"
  BY <1>1
<1>4. /\ CountIn(attempt, Questions, InFlight) = 0
      /\ CountIn(attempt, Questions, UnhandledErrors) = 0
      /\ CountIn(attempt, Questions, UnhandledResults) = 0
      /\ CountIn(attempt, Questions, CompletedErrors) = 0
      /\ CountIn(attempt, Questions, CompletedResults) = 0
      /\ CountIn(attempt, Questions, CompletedCorrect) = 0
  <2>1. \A q \in Questions :
           /\ attempt[q] \notin InFlight /\ attempt[q] \notin UnhandledErrors
           /\ attempt[q] \notin UnhandledResults /\ attempt[q] \notin CompletedErrors
           /\ attempt[q] \notin CompletedResults /\ attempt[q] \notin CompletedCorrect
    BY <1>3 DEF InFlight, UnhandledErrors, UnhandledResults, CompletedErrors,
                CompletedResults, CompletedCorrect, Completed
  <2> QED BY <2>1, NothingCounted
<1>5. Balanced
  <2>1. /\ metrics.http_attempts = 0 /\ metrics.http_in_flight = 0
        /\ metrics.peak_http_in_flight = 0 /\ metrics.http_successes = 0
        /\ metrics.latencies_ms = <<>> /\ metrics.retries = 0 /\ metrics.rate_limited = 0
        /\ metrics.limited = [kind \in Kinds |-> 0]
        /\ metrics.completed = 0 /\ metrics.success = 0 /\ metrics.failure = 0
        /\ metrics.correct = 0
    BY DEF Init
  <2>2. RequestsBalance /\ ResultsBalance /\ LatenciesBalance /\ CorrectBalance /\ InFlightBalance
    BY <1>4, <2>1 DEF RequestsBalance, ResultsBalance, LatenciesBalance, CorrectBalance, InFlightBalance
  <2>3. CompletionsBalance
    BY <1>4, <2>1 DEF CompletionsBalance
  <2>4. RefusalsBalance
    BY <2>1 DEF RefusalsBalance, Kinds
  <2> QED BY <2>2, <2>3, <2>4 DEF Balanced
<1>6. Streamed
  <2>1. 1..Len(stream) = {} /\ Len(rows) = 0 /\ Len(stream) = 0
    BY DEF Init
  <2>2. \A q \in Questions : attempt[q].stage \notin Sent /\ q \notin Publishing
    BY <1>3 DEF Sent, Publishing
  <2>3. Publishing \subseteq Questions
    BY DEF Publishing
  <2> QED BY <2>1, <2>2, <2>3
          DEF Streamed, EntriesTrue, EntriesComplete, OnePublication, RowsOfEntries
<1>7. Reported
  BY DEF Init, Reported
<1> QED BY <1>2, <1>5, <1>6, <1>7 DEF IInv

\* A row is written from the next entry of the stream.
LEMMA PersistKeeps ==
    ASSUME IInv, Persist
    PROVE  IInv'
<1> DEFINE n == Len(rows)
           row == Row(stream[n + 1])
<1>1. /\ stream \in Seq(Entries) /\ rows \in Seq(PersistedRow) /\ n \in Nat /\ Len(stream) \in Nat
      /\ n < Len(stream) /\ rows' = Append(rows, row)
      /\ UNCHANGED <<attempt, metrics, stream, finished, report, cli>>
  BY DEF IInv, Typed, Persist
<1>2. \A e \in Entries : Row(e) \in PersistedRow
  <2>1. ASSUME NEW e \in SuccessEntries PROVE Row(e) \in PersistedRow
    <3>1. /\ e.question_id \in Questions
          /\ e.success = "True" /\ e.latency_ms \in Latencies /\ e.error = EmptyText
          /\ e.latency_ms # EmptyNumber
      BY ReportingConfig DEF SuccessEntries, EmptyNumber
    <3>2. Row(e) = [question_id |-> e.question_id, success |-> e.success = "True",
                    latency_ms |-> e.latency_ms, error |-> NoError]
      BY <3>1 DEF Row
    <3>3. (e.success = "True") = TRUE
      BY <3>1
    <3>4. [question_id |-> e.question_id, success |-> TRUE,
           latency_ms |-> e.latency_ms, error |-> NoError]
             \in [question_id : Questions, success : {TRUE}, latency_ms : Latencies,
                  error : {NoError}]
      BY <3>1
    <3>5. Row(e) = [question_id |-> e.question_id, success |-> TRUE,
                    latency_ms |-> e.latency_ms, error |-> NoError]
      BY Zenon, <3>2, <3>3
    <3> QED BY Zenon, <3>4, <3>5 DEF PersistedRow
  <2>2. ASSUME NEW e \in FailureEntries PROVE Row(e) \in PersistedRow
    BY DEF FailureEntries, Row, PersistedRow, ErrorNames, Kinds, EmptyText
  <2> QED BY <2>1, <2>2 DEF Entries
<1>3. stream[n + 1] \in Entries
  BY <1>1
<1>4. row \in PersistedRow
  BY <1>2, <1>3
<1> HIDE DEF row
<1>5. /\ rows' \in Seq(PersistedRow) /\ Len(rows') = n + 1 /\ rows'[n + 1] = row
      /\ \A i \in 1..n : rows'[i] = rows[i]
  BY <1>1, <1>4
<1>6. Typed'
  BY <1>1, <1>5 DEF IInv, Typed
<1>7. Balanced'
  BY <1>1 DEF IInv, Balanced, RequestsBalance, ResultsBalance, LatenciesBalance,
              CompletionsBalance, CorrectBalance, RefusalsBalance, InFlightBalance
<1>8. Streamed'
  <2>1. \A i \in 1..(n + 1) : i \in 1..n \/ i = n + 1
    BY <1>1
  <2>2. \A i \in 1..n : rows[i] = Row(stream[i])
    BY DEF IInv, Streamed, RowsOfEntries
  <2>3. rows'[n + 1] = Row(stream[n + 1])
    BY <1>5 DEF row
  <2>4. \A i \in 1..Len(rows') : rows'[i] = Row(stream'[i])
    BY <1>1, <1>5, <2>1, <2>2, <2>3
  <2>5. Len(rows') <= Len(stream')
    BY <1>1, <1>5
  <2>6. EntriesTrue' /\ EntriesComplete' /\ OnePublication'
    BY <1>1 DEF IInv, Streamed, EntriesTrue, EntriesComplete, OnePublication, Publishing
  <2> QED BY <2>4, <2>5, <2>6 DEF Streamed, RowsOfEntries
<1>9. Reported'
  <2>1. ASSUME NEW persisted \in Seq(PersistedRow), FirstRows(persisted)
        PROVE  FirstRows(persisted)'
    <3>1. Len(persisted) \in Nat
      OBVIOUS
    <3> QED BY <1>1, <1>5, <2>1, <3>1 DEF FirstRows
  <2> QED BY <1>1, <2>1 DEF IInv, Reported
<1> QED BY <1>6, <1>7, <1>8, <1>9 DEF IInv

\* A report that is stored is the one assembled from the rows that there are.
LEMMA ReportKept ==
    ASSUME IInv, UNCHANGED <<attempt, metrics, stream, rows>>, finished' \in BOOLEAN,
           cli' \in {"running", "printing", "written", "crashed"}, Reported'
    PROVE  IInv'
<1>1. Typed'
  BY DEF IInv, Typed
<1>2. Balanced'
  BY DEF IInv, Balanced, RequestsBalance, ResultsBalance, LatenciesBalance,
         CompletionsBalance, CorrectBalance, RefusalsBalance, InFlightBalance
<1>3. Streamed'
  BY DEF IInv, Streamed, EntriesTrue, EntriesComplete, OnePublication, Publishing, RowsOfEntries
<1> QED BY <1>1, <1>2, <1>3 DEF IInv

LEMMA ReportBuilt ==
    ASSUME IInv, UNCHANGED rows, report' = AssembleReport(rows)
    PROVE  /\ report' # NoReport
           /\ \E persisted \in Seq(PersistedRow) :
                 FirstRows(persisted)' /\ report' = AssembleReport(persisted)
<1>1. rows \in Seq(PersistedRow) /\ rows' = rows
  BY DEF IInv, Typed
<1>2. report' # NoReport
  <2>1. PICK persisted \in Seq(PersistedRow) : persisted = rows
    BY <1>1
  <2>2. PICK r : r = report'
    OBVIOUS
  <2>3. r = AssembleReport(persisted)
    BY <2>1, <2>2
  <2> QED BY <2>2, <2>3, ReportOfRows
<1>3. FirstRows(rows)'
  BY <1>1 DEF FirstRows
<1> QED BY <1>1, <1>2, <1>3

LEMMA ReportingKeeps ==
    ASSUME IInv, FinishRun \/ GetReport \/ BuildReport \/ PrintAndWrite \/ UNCHANGED vars
    PROVE  IInv'
<1>1. finished \in BOOLEAN /\ cli \in {"running", "printing", "written", "crashed"} /\ Reported
  BY DEF IInv, Typed
<1>2. CASE FinishRun
  <2>1. Reported'
    BY <1>1, <1>2 DEF FinishRun, Reported, FirstRows
  <2> QED BY <1>1, <1>2, <2>1, ReportKept DEF FinishRun
<1>3. CASE GetReport
  <2>1. Reported'
    BY <1>3, ReportBuilt DEF GetReport, Reported
  <2> QED BY <1>1, <1>3, <2>1, ReportKept DEF GetReport
<1>4. CASE BuildReport
  <2>1. CASE report = NoReport /\ report' = AssembleReport(rows) /\ cli' = "printing"
    <3>1. Reported'
      BY <1>4, <2>1, ReportBuilt DEF BuildReport, Reported
    <3> QED BY <1>1, <1>4, <2>1, <3>1, ReportKept DEF BuildReport
  <2>2. CASE cli' = "crashed" /\ UNCHANGED report
    <3>1. Reported'
      BY <1>1, <1>4, <2>2 DEF BuildReport, Reported, FirstRows
    <3> QED BY <1>1, <1>4, <2>2, <3>1, ReportKept DEF BuildReport
  <2> QED BY <1>4, <2>1, <2>2 DEF BuildReport
<1>5. CASE PrintAndWrite
  <2>1. Reported'
    BY <1>1, <1>5 DEF PrintAndWrite, Reported, FirstRows
  <2>2. cli' \in {"running", "printing", "written", "crashed"}
    BY <1>5 DEF PrintAndWrite
  <2> QED BY <1>1, <1>5, <2>1, <2>2, ReportKept DEF PrintAndWrite
<1>6. CASE UNCHANGED vars
  <2>1. Reported'
    BY <1>1, <1>6 DEF vars, Reported, FirstRows
  <2> QED BY <1>1, <1>6, <2>1, ReportKept DEF vars
<1> QED BY <1>2, <1>3, <1>4, <1>5, <1>6

LEMMA BalanceInductive == IInv /\ [Next]_vars => IInv'
<1> SUFFICES ASSUME IInv, [Next]_vars PROVE IInv'
  OBVIOUS
<1>1. ASSUME NEW q \in Questions, Launch(q) PROVE IInv'
  BY <1>1, LaunchKeeps
<1>2. ASSUME NEW q \in Questions, NEW outcome \in Outcomes, Reply(q, outcome) PROVE IInv'
  BY <1>2, ReplyKeeps
<1>3. ASSUME NEW q \in Questions, HandleError(q) PROVE IInv'
  BY <1>3, HandleErrorKeeps
<1>4. ASSUME NEW q \in Questions, Complete(q) PROVE IInv'
  BY <1>4, CompleteKeeps
<1>5. ASSUME NEW q \in Questions, XAdd(q) PROVE IInv'
  BY <1>5, XAddKeeps
<1>6. ASSUME NEW q \in Questions, Published(q) PROVE IInv'
  BY <1>6, PublishedKeeps
<1>7. CASE Persist
  BY <1>7, PersistKeeps
<1>8. CASE FinishRun \/ GetReport \/ BuildReport \/ PrintAndWrite \/ UNCHANGED vars
  BY <1>8, ReportingKeeps
<1> QED BY <1>1, <1>2, <1>3, <1>4, <1>5, <1>6, <1>7, <1>8 DEF Next

LEMMA AlwaysBalanced == Spec => []IInv
BY InitialBalance, BalanceInductive, PTL DEF Spec

-----------------------------------------------------------------------------
(* The properties. *)

LEMMA Counts ==
    ASSUME Typed
    PROVE  /\ Cardinality(At({"replied", "failed"}, FALSE)) = CountIn(attempt, Questions, UnhandledErrors)
           /\ Cardinality(At({"replied"}, TRUE)) = CountIn(attempt, Questions, UnhandledResults)
           /\ Cardinality(At({"in_flight"}, FALSE)) = CountIn(attempt, Questions, InFlight)
           /\ Cardinality({q \in At({"publishing", "appended", "settled"}, TRUE) :
                               attempt[q].outcome.correct})
                = CountIn(attempt, Questions, CompletedCorrect)
<1>1. ASSUME NEW q \in Questions
      PROVE  /\ attempt[q] \in UnhandledErrors
                  <=> attempt[q].stage \in {"replied", "failed"} /\ ~IsResult(attempt[q].outcome)
             /\ attempt[q] \in UnhandledResults
                  <=> attempt[q].stage \in {"replied"} /\ IsResult(attempt[q].outcome)
             /\ attempt[q] \in InFlight
                  <=> attempt[q].stage \in {"in_flight"} /\ ~IsResult(attempt[q].outcome)
             /\ attempt[q] \in CompletedCorrect
                  <=> /\ attempt[q].stage \in {"publishing", "appended", "settled"}
                      /\ IsResult(attempt[q].outcome)
                      /\ attempt[q].outcome.correct
  <2>1. attempt[q] \in Attempts
    BY DEF Typed
  <2>2. attempt[q].stage = "in_flight" => attempt[q].outcome = NoOutcome
    BY <2>1 DEF Attempts
  <2>3. NoOutcome \notin Results
    <3>1. DOMAIN NoOutcome = {"error"}
      BY DEF NoOutcome
    <3>2. \A o \in Results : DOMAIN o = {"latency_ms", "correct"}
      BY DEF Results
    <3> QED BY <3>1, <3>2
  <2>4. attempt[q].stage \in {"replied", "failed"} =>
           (attempt[q].outcome \in Errors <=> ~IsResult(attempt[q].outcome))
    BY <2>1, AttemptKinds
  <2> QED BY <2>1, <2>2, <2>3, <2>4, AttemptKinds
           DEF UnhandledErrors, UnhandledResults, InFlight, CompletedCorrect, CompletedResults,
               Completed
<1>2. \A q \in Questions : /\ (IsResult(attempt[q].outcome) = FALSE) <=> ~IsResult(attempt[q].outcome)
                           /\ (IsResult(attempt[q].outcome) = TRUE) <=> IsResult(attempt[q].outcome)
  BY DEF IsResult
<1>3. At({"replied", "failed"}, FALSE) = {q \in Questions : attempt[q] \in UnhandledErrors}
  BY <1>1, <1>2 DEF At
<1>4. At({"replied"}, TRUE) = {q \in Questions : attempt[q] \in UnhandledResults}
  BY <1>1, <1>2 DEF At
<1>5. At({"in_flight"}, FALSE) = {q \in Questions : attempt[q] \in InFlight}
  BY <1>1, <1>2 DEF At
<1>6. {q \in At({"publishing", "appended", "settled"}, TRUE) : attempt[q].outcome.correct}
        = {q \in Questions : attempt[q] \in CompletedCorrect}
  BY <1>1, <1>2 DEF At
<1> QED BY Zenon, <1>3, <1>4, <1>5, <1>6 DEF CountIn

\* The questions with an event are those whose XADD has arrived.
LEMMA AnnouncedQuestions ==
    ASSUME IInv
    PROVE  Announced = {q \in Questions : attempt[q].stage \in Sent}
<1>1. stream \in Seq(Entries) /\ EntriesTrue /\ EntriesComplete
  BY DEF IInv, Typed, Streamed
<1>2. DOMAIN stream = 1..Len(stream)
  BY <1>1
<1>3. ASSUME NEW i \in 1..Len(stream)
      PROVE  stream[i].question_id \in Questions /\ attempt[stream[i].question_id].stage \in Sent
  BY <1>1 DEF EntriesTrue, Entries, SuccessEntries, FailureEntries
<1>4. ASSUME NEW q \in Questions, attempt[q].stage \in Sent
      PROVE  \E i \in 1..Len(stream) : stream[i].question_id = q
  BY <1>1, <1>4 DEF EntriesComplete
<1> QED BY <1>2, <1>3, <1>4 DEF Announced

\* Two sets without a common element.
LEMMA DisjointUnion ==
    ASSUME NEW S, IsFiniteSet(S), NEW T, IsFiniteSet(T), S \cap T = {}
    PROVE  /\ Cardinality(S) \in Nat /\ Cardinality(T) \in Nat
           /\ Cardinality(S \cup T) = Cardinality(S) + Cardinality(T)
<1>1. Cardinality(S \cup T) = Cardinality(S) + Cardinality(T) - Cardinality(S \cap T)
  BY FS_Union
<1>2. Cardinality(S \cap T) = 0
  BY FS_EmptySet
<1>3. Cardinality(S) \in Nat /\ Cardinality(T) \in Nat
  BY FS_CardinalityType
<1> QED BY <1>1, <1>2, <1>3

\* A question that is completed is announced or being published.
LEMMA CompletedQuestions ==
    ASSUME IInv
    PROVE  LET publishing == {q \in Questions : attempt[q].stage = "publishing"} IN
           /\ metrics.completed = Cardinality(Announced) + Cardinality(publishing)
           /\ Cardinality(Announced) \in Nat /\ Cardinality(publishing) \in 0..1
<1> DEFINE A == {q \in Questions : attempt[q].stage \in Sent}
           P == {q \in Questions : attempt[q].stage = "publishing"}
           R == {q \in Questions : attempt[q] \in CompletedResults}
           E == {q \in Questions : attempt[q] \in CompletedErrors}
<1>1. A \subseteq Questions /\ P \subseteq Questions /\ R \subseteq Questions /\ E \subseteq Questions
  OBVIOUS
<1>2. A \cap P = {} /\ R \cap E = {}
  BY AttemptKinds DEF Sent, CompletedResults, CompletedErrors
<1>3. A \cup P = R \cup E
  <2>1. ASSUME NEW q \in Questions
        PROVE  attempt[q].stage \in Completed <=> (attempt[q].stage \in Sent \/ attempt[q].stage = "publishing")
    BY DEF Completed, Sent
  <2>2. ASSUME NEW q \in Questions
        PROVE  attempt[q].stage \in Completed <=> attempt[q] \in CompletedResults \cup CompletedErrors
    <3>1. attempt[q] \in Attempts
      BY DEF IInv, Typed
    <3>2. attempt[q].stage \in Completed => attempt[q].outcome \in Errors \cup Results
      BY <3>1, AttemptKinds DEF Completed
    <3> QED BY <3>1, <3>2 DEF CompletedResults, CompletedErrors
  <2> QED BY <2>1, <2>2
<1>4. \A p, q \in P : p = q
  BY DEF IInv, Streamed, OnePublication, Publishing
<1>5. /\ metrics.completed = metrics.success + metrics.failure
      /\ metrics.success = Cardinality(R) /\ metrics.failure = Cardinality(E)
  BY DEF IInv, Balanced, CompletionsBalance, CountIn
<1>6. Announced = A
  BY AnnouncedQuestions
<1> HIDE DEF A, P, R, E
<1>7. IsFiniteSet(A) /\ IsFiniteSet(P) /\ IsFiniteSet(R) /\ IsFiniteSet(E)
  BY <1>1, FS_Subset, ReportingConfig
<1>8. /\ Cardinality(A) \in Nat /\ Cardinality(P) \in Nat
      /\ Cardinality(R) \in Nat /\ Cardinality(E) \in Nat
  BY <1>7, FS_CardinalityType
<1>9. Cardinality({}) = 0
  BY FS_EmptySet
<1>10. Cardinality(A \cup P) = Cardinality(A) + Cardinality(P)
  BY <1>2, <1>7, DisjointUnion
<1>11. Cardinality(R \cup E) = Cardinality(R) + Cardinality(E)
  BY <1>2, <1>7, DisjointUnion
<1>12. Cardinality(P) \in 0..1
  <2>1. CASE P = {}
    BY <1>9, <2>1
  <2>2. CASE P # {}
    <3>1. PICK q : P = {q}
      BY <1>4, <2>2
    <3>2. Cardinality({q}) = 1
      BY FS_Singleton
    <3> QED BY <3>1, <3>2
  <2> QED BY <2>1, <2>2
<1>13. metrics.completed = Cardinality(A) + Cardinality(P)
  BY <1>3, <1>5, <1>10, <1>11
<1> QED BY <1>6, <1>8, <1>12, <1>13 DEF P

\* Every request of a run is in flight, answered, retried, failed or not handled yet,
\* and the progress view is one question ahead of the stream at most, whatever the
\* questions, the latencies, the attempts and the repeated events.
THEOREM CountersAlwaysBalance == Spec => []CountersBalance
<1>1. ASSUME IInv
      PROVE  /\ metrics.completed =
                  Cardinality(Announced)
                  + Cardinality({q \in Questions : attempt[q].stage = "publishing"})
             /\ metrics.completed <= Cardinality(Announced) + 1
  <2> DEFINE publishing == {q \in Questions : attempt[q].stage = "publishing"}
  <2>1. /\ metrics.completed = Cardinality(Announced) + Cardinality(publishing)
        /\ Cardinality(Announced) \in Nat /\ Cardinality(publishing) \in 0..1
    BY <1>1, CompletedQuestions
  <2> HIDE DEF publishing
  <2>2. metrics.completed <= Cardinality(Announced) + 1
    BY <2>1
  <2> QED BY <2>1, <2>2 DEF publishing
<1>2. IInv => CountersBalance
  BY <1>1, Counts DEF IInv, Balanced, CountersBalance, RequestsBalance, ResultsBalance,
                LatenciesBalance, CompletionsBalance, CorrectBalance, RefusalsBalance,
                InFlightBalance
<1> QED BY <1>2, AlwaysBalanced, PTL

\* What the stored report says of the rows.
LEMMA ReportOfRun ==
    ASSUME IInv, report # NoReport
    PROVE  \E persisted \in Seq(PersistedRow) : FirstRows(persisted) /\ Tells(report, persisted)
<1>1. PICK persisted \in Seq(PersistedRow) :
         FirstRows(persisted) /\ report = AssembleReport(persisted)
  BY DEF IInv, Reported
<1>2. PICK r : r = report
  OBVIOUS
<1>3. r = AssembleReport(persisted)
  BY <1>1, <1>2
<1>4. Tells(r, persisted)
  BY <1>3, ReportOfRows
<1> QED BY <1>1, <1>2, <1>4

\* Every question of a kind has an entry of that kind.
LEMMA EntriesCover ==
    ASSUME NEW s \in Seq(Entries), NEW places, places \subseteq 1..Len(s),
           NEW ids, \A q \in ids : \E i \in places : s[i].question_id = q
    PROVE  /\ IsFiniteSet(places) /\ Cardinality(places) \in Nat
           /\ Cardinality(ids) <= Cardinality(places)
<1> DEFINE D == 1..Len(s)
<1>1. IsFiniteSet(D) /\ places \subseteq D
  BY FS_Interval
<1> HIDE DEF D
<1>2. IsFiniteSet(places)
  BY <1>1, FS_Subset
<1>3. Cardinality(places) \in Nat
  BY <1>2, FS_CardinalityType
<1> DEFINE all == {s[i].question_id : i \in places}
           f == [i \in places |-> s[i].question_id]
<1>4. f \in Surjection(places, all)
  BY DEF Surjection
<1>5. ids \subseteq all
  OBVIOUS
<1> HIDE DEF f, all
<1>6. IsFiniteSet(all) /\ Cardinality(all) <= Cardinality(places)
  BY <1>2, <1>4, FS_Surjection
<1>7. IsFiniteSet(ids) /\ Cardinality(ids) <= Cardinality(all)
  BY <1>5, <1>6, FS_Subset
<1>8. Cardinality(ids) \in Nat /\ Cardinality(all) \in Nat
  BY <1>6, <1>7, FS_CardinalityType
<1> QED BY <1>2, <1>3, <1>6, <1>7, <1>8

\* The entries that are successes, or failures, exceed the questions that the run has
\* counted as such by no more than the entries that are repeated.
LEMMA EntriesCounted ==
    ASSUME IInv
    PROVE  LET won == {i \in 1..Len(stream) : stream[i] \in SuccessEntries}
               lost == {i \in 1..Len(stream) : stream[i] \in FailureEntries}
           IN  /\ IsFiniteSet(won) /\ IsFiniteSet(lost)
               /\ Cardinality(won) \in Nat /\ Cardinality(lost) \in Nat
               /\ Cardinality(won) <= metrics.success + Repeated
               /\ Cardinality(lost) <= metrics.failure + Repeated
               /\ Len(stream) <= metrics.completed + Repeated
               /\ Repeated \in Int
<1> DEFINE won == {i \in 1..Len(stream) : stream[i] \in SuccessEntries}
           lost == {i \in 1..Len(stream) : stream[i] \in FailureEntries}
           A == {q \in Questions : attempt[q].stage \in Sent}
           W == {q \in A : attempt[q].outcome \in Results}
           L == {q \in A : attempt[q].outcome \in Errors}
           R == {q \in Questions : attempt[q] \in CompletedResults}
           E == {q \in Questions : attempt[q] \in CompletedErrors}
           n == Len(stream)
<1>1. /\ stream \in Seq(Entries) /\ n \in Nat /\ attempt \in [Questions -> Attempts]
      /\ EntriesTrue /\ EntriesComplete
  BY DEF IInv, Typed, Streamed
<1>2. \A q \in A : attempt[q].outcome \in Errors \cup Results
  BY <1>1, AttemptKinds DEF Sent
<1>3. A = W \cup L /\ W \cap L = {} /\ W \subseteq R /\ L \subseteq E
  BY <1>1, <1>2, AttemptKinds DEF CompletedResults, CompletedErrors, Completed, Sent
<1>4. won \cup lost = 1..n /\ won \cap lost = {}
  <2>1. \A i \in 1..n : stream[i] \in Entries
    BY <1>1
  <2>2. \A e \in SuccessEntries : e \notin FailureEntries
    BY DEF SuccessEntries, FailureEntries
  <2> QED BY <2>1, <2>2 DEF Entries
<1>5. \A q \in W : \E i \in won : stream[i].question_id = q
  <2> SUFFICES ASSUME NEW q \in W PROVE \E i \in won : stream[i].question_id = q
    OBVIOUS
  <2>1. PICK i \in 1..n : stream[i].question_id = q
    BY <1>1 DEF EntriesComplete
  <2>2. stream[i] = Fields(q, Result(attempt[q].outcome))
    BY <1>1, <2>1 DEF EntriesTrue
  <2>3. stream[i] \in SuccessEntries
    BY <2>2, EntryFields
  <2> QED BY <2>1, <2>3
<1>6. \A q \in L : \E i \in lost : stream[i].question_id = q
  <2> SUFFICES ASSUME NEW q \in L PROVE \E i \in lost : stream[i].question_id = q
    OBVIOUS
  <2>1. PICK i \in 1..n : stream[i].question_id = q
    BY <1>1 DEF EntriesComplete
  <2>2. stream[i] = Fields(q, Result(attempt[q].outcome))
    BY <1>1, <2>1 DEF EntriesTrue
  <2>3. stream[i] \in FailureEntries
    BY <2>2, EntryFields
  <2> QED BY <2>1, <2>3
<1>7. won \subseteq 1..n /\ lost \subseteq 1..n /\ R \subseteq Questions /\ E \subseteq Questions
  OBVIOUS
<1>8. /\ metrics.completed = metrics.success + metrics.failure
      /\ metrics.success = Cardinality(R) /\ metrics.failure = Cardinality(E)
  BY DEF IInv, Balanced, CompletionsBalance, CountIn
<1>9. Repeated = n - Cardinality(A)
  BY AnnouncedQuestions DEF Repeated
<1>10. Cardinality(1..n) = n
  <2> HIDE DEF n
  <2> QED BY <1>1, FS_Interval
<1> HIDE DEF won, lost, A, W, L, R, E, n
<1>11. /\ IsFiniteSet(won) /\ Cardinality(won) \in Nat /\ Cardinality(W) <= Cardinality(won)
       /\ IsFiniteSet(lost) /\ Cardinality(lost) \in Nat /\ Cardinality(L) <= Cardinality(lost)
  BY <1>1, <1>5, <1>6, <1>7, EntriesCover DEF n
<1>12. IsFiniteSet(R) /\ IsFiniteSet(E)
  BY <1>7, FS_Subset, ReportingConfig
<1>13. /\ IsFiniteSet(W) /\ Cardinality(W) <= Cardinality(R)
       /\ IsFiniteSet(L) /\ Cardinality(L) <= Cardinality(E)
  BY <1>3, <1>12, FS_Subset
<1>14. /\ Cardinality(W) \in Nat /\ Cardinality(L) \in Nat
       /\ Cardinality(R) \in Nat /\ Cardinality(E) \in Nat
  BY <1>12, <1>13, FS_CardinalityType
<1>15. Cardinality(A) = Cardinality(W) + Cardinality(L)
  BY <1>3, <1>13, DisjointUnion
<1>16. n = Cardinality(won) + Cardinality(lost)
  BY <1>4, <1>10, <1>11, DisjointUnion
<1>17. /\ Cardinality(won) <= metrics.success + Repeated
       /\ Cardinality(lost) <= metrics.failure + Repeated
       /\ n <= metrics.completed + Repeated /\ Repeated \in Int
  BY <1>8, <1>9, <1>11, <1>13, <1>14, <1>15, <1>16
<1> QED BY <1>11, <1>17 DEF won, lost, n

\* A stored report adds up with itself, and with the counters of the run, which are
\* ahead of it but for the events that were repeated.
THEOREM ReportAlwaysAddsUp == Spec => []ReportAddsUp
<1>1. ASSUME IInv, report # NoReport
      PROVE  LET s == report.summary IN
             /\ s.total_requests = s.successful_requests + s.failure_count
             /\ s.total_requests <= metrics.completed + Repeated
             /\ s.successful_requests <= metrics.success + Repeated
             /\ s.failure_count <= metrics.failure + Repeated
             /\ s.successful_requests > 0 => s.min <= s.p95 /\ s.p95 <= s.max
                                             /\ 2 * s.min <= s.p50 /\ s.p50 <= 2 * s.max
             /\ \A b \in report.benchmarks :
                   b.metrics = [s EXCEPT !.min = None, !.max = None]
  <2>1. PICK persisted \in Seq(PersistedRow) : FirstRows(persisted) /\ Tells(report, persisted)
    BY <1>1, ReportOfRun
  <2> DEFINE s == report.summary
             n == Len(persisted)
             good == Successes(persisted)
             won == {i \in 1..Len(stream) : stream[i] \in SuccessEntries}
             lost == {i \in 1..Len(stream) : stream[i] \in FailureEntries}
  <2>2. /\ s.total_requests = n /\ s.successful_requests = Cardinality(good)
        /\ s.failure_count = n - Cardinality(good)
        /\ Cardinality(good) > 0 =>
              Summarises(MeasuredIn(persisted), s.p50, s.p95, s.min, s.max)
        /\ \A b \in report.benchmarks : b.metrics = [s EXCEPT !.min = None, !.max = None]
    BY <2>1 DEF Tells
  <2>3. n \in Nat /\ \A i \in 1..n : persisted[i] \in PersistedRow
    OBVIOUS
  <2>4. /\ IsFiniteSet(good) /\ Cardinality(good) \in 0..n
        /\ Cardinality((1..n) \ good) = n - Cardinality(good)
    BY SuccessesCounted
  <2>5. /\ stream \in Seq(Entries) /\ metrics \in Metrics /\ Len(stream) \in Nat
        /\ rows \in Seq(PersistedRow)
    BY <1>1 DEF IInv, Typed
  <2>6. n <= Len(stream) /\ \A i \in 1..n : i \in 1..Len(stream) /\ persisted[i] = Row(stream[i])
    BY <1>1, <2>1, <2>3, <2>5 DEF FirstRows, IInv, Streamed, RowsOfEntries
  <2>7. \A e \in Entries : /\ Row(e).success => e \in SuccessEntries
                           /\ ~Row(e).success => e \in FailureEntries
    BY DEF Row, Entries, SuccessEntries, FailureEntries
  <2>8. /\ good \in SUBSET won /\ (1..n) \ good \in SUBSET lost
    <3>1. \A i \in 1..n : stream[i] \in Entries
      BY <2>5, <2>6
    <3> QED BY <2>6, <2>7, <3>1 DEF Successes
  <2>9. /\ IsFiniteSet(won) /\ IsFiniteSet(lost)
        /\ Cardinality(won) \in Nat /\ Cardinality(lost) \in Nat
        /\ Cardinality(won) <= metrics.success + Repeated
        /\ Cardinality(lost) <= metrics.failure + Repeated
        /\ Len(stream) <= metrics.completed + Repeated /\ Repeated \in Int
    BY <1>1, EntriesCounted
  <2>10. metrics.success \in Nat /\ metrics.failure \in Nat /\ metrics.completed \in Nat
    BY <2>5, MetricsFields
  <2> HIDE DEF won, lost, good, n, s
  <2>11. Cardinality(good) <= Cardinality(won)
    BY <2>8, <2>9, FS_Subset
  <2>12. n - Cardinality(good) <= Cardinality(lost)
    <3> DEFINE bad == (1..n) \ good
    <3>1. bad \in SUBSET lost /\ Cardinality(bad) = n - Cardinality(good)
      BY <2>4, <2>8
    <3> HIDE DEF bad
    <3> QED BY <2>9, <3>1, FS_Subset
  <2>13. /\ s.total_requests = s.successful_requests + s.failure_count
         /\ s.total_requests <= metrics.completed + Repeated
         /\ s.successful_requests <= metrics.success + Repeated
         /\ s.failure_count <= metrics.failure + Repeated
    <3>1. s.total_requests = s.successful_requests + s.failure_count
      BY <2>2, <2>3, <2>4
    <3>2. n <= metrics.completed + Repeated
      BY <2>3, <2>5, <2>6, <2>9, <2>10
    <3>3. Cardinality(good) <= metrics.success + Repeated
      BY <2>4, <2>9, <2>10, <2>11
    <3>4. n - Cardinality(good) <= metrics.failure + Repeated
      BY <2>3, <2>4, <2>9, <2>10, <2>12
    <3> QED BY <2>2, <3>1, <3>2, <3>3, <3>4
  <2>14. s.successful_requests > 0 => s.min <= s.p95 /\ s.p95 <= s.max
                                      /\ 2 * s.min <= s.p50 /\ s.p50 <= 2 * s.max
    BY <2>2 DEF Summarises
  <2> QED BY <2>2, <2>13, <2>14 DEF s
<1>2. IInv => ReportAddsUp
  BY <1>1 DEF ReportAddsUp
<1> QED BY <1>2, AlwaysBalanced, PTL

\* The percentiles of the progress view and of the stored report are measured
\* latencies of the right rank, for any number of latencies, equal ones included.
THEOREM PercentilesAreAlwaysRanks == Spec => []PercentilesAreRanks
<1>1. ASSUME IInv, metrics.latencies_ms # <<>>, NEW percent \in {50, 95}
      PROVE  NearRank(Percentile(metrics.latencies_ms, percent), metrics.latencies_ms, percent)
  <2>1. metrics.latencies_ms \in Seq(Nat)
    BY <1>1, MetricsFields DEF IInv, Typed
  <2> QED BY <1>1, <2>1, PercentileRank
<1>2. ASSUME IInv, report # NoReport
      PROVE  LET successes == {i \in 1..report.summary.total_requests : rows[i].success}
                 latencies == [i \in successes |-> rows[i].latency_ms]
                 n == Cardinality(successes)
             IN  n > 0 =>
                 /\ NearRank(report.summary.p95, latencies, 95)
                 /\ 2 * Cardinality({i \in successes : 2 * latencies[i] < report.summary.p50}) <= n
                 /\ 2 * Cardinality({i \in successes : 2 * latencies[i] > report.summary.p50}) <= n
  <2>1. PICK persisted \in Seq(PersistedRow) : FirstRows(persisted) /\ Tells(report, persisted)
    BY <1>2, ReportOfRun
  <2> DEFINE s == report.summary
             good == Successes(persisted)
             successes == {i \in 1..s.total_requests : rows[i].success}
             latencies == [i \in successes |-> rows[i].latency_ms]
  <2>2. /\ s.total_requests = Len(persisted)
        /\ Cardinality(good) > 0 =>
              Summarises(MeasuredIn(persisted), s.p50, s.p95, s.min, s.max)
    BY <2>1 DEF Tells
  <2>3. \A i \in 1..Len(persisted) : persisted[i] = rows[i]
    BY <2>1 DEF FirstRows
  <2>4. successes = good
    BY <2>2, <2>3 DEF Successes
  <2>5. latencies = MeasuredIn(persisted)
    BY <2>3, <2>4 DEF MeasuredIn, Successes
  <2>6. DOMAIN latencies = successes
    OBVIOUS
  <2> HIDE DEF successes, latencies, good, s
  <2>7. Cardinality(successes) > 0 =>
           /\ NearRank(s.p95, latencies, 95)
           /\ 2 * Cardinality({i \in successes : 2 * latencies[i] < s.p50}) <= Cardinality(successes)
           /\ 2 * Cardinality({i \in successes : 2 * latencies[i] > s.p50}) <= Cardinality(successes)
    BY <2>2, <2>4, <2>5, <2>6 DEF Summarises
  <2> QED BY <2>7 DEF successes, latencies, s
<1>3. IInv => PercentilesAreRanks
  BY <1>1, <1>2 DEF PercentilesAreRanks
<1> QED BY <1>3, AlwaysBalanced, PTL

=============================================================================
