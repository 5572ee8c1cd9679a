----------------------- MODULE HistorySimulationProofs -----------------------
(***************************************************************************)
(* What the replay of past sessions promises, for any number of files, any *)
(* records in them, any period, TTL and number of examples.                *)
(***************************************************************************)
EXTENDS HistorySimulation, FiniteSetTheorems, SequenceTheorems, WellFoundedInduction, TLAPS

-----------------------------------------------------------------------------
(* Induction over the places of a sequence, for sets of numbers. *)

(* The least element of a set of numbers. *)
LEMMA NatSetHasMinimum ==
  ASSUME NEW T \in SUBSET Nat, T # {}
  PROVE  \E m \in T : \A n \in T : m <= n
<1>1. PICK x \in T : \A y \in T : ~ (<<y, x>> \in OpToRel(<, Nat))
  BY WFMin, NatLessThanWellFounded
<1>2. \A y \in T : <<y, x>> \in Nat \X Nat
  OBVIOUS
<1>3. \A y \in T : ~ (y < x)
  BY <1>1, <1>2 DEF OpToRel
<1> QED
  BY <1>3

(* What holds of 0 and passes from each number to the next holds up to m. *)
LEMMA UpTo ==
  ASSUME NEW m \in Nat, NEW T, 0 \in T,
         \A n \in 1 .. m : n - 1 \in T => n \in T
  PROVE  \A n \in 0 .. m : n \in T
<1> SUFFICES ASSUME NEW x \in 0 .. m, x \notin T
             PROVE  FALSE
  OBVIOUS
<1> DEFINE F == {n \in 0 .. m : n \notin T}
<1>1. F \in SUBSET Nat /\ F # {}
  OBVIOUS
<1>2. PICK n \in F : \A k \in F : n <= k
  BY <1>1, NatSetHasMinimum
<1>3. n \in 1 .. m /\ n - 1 \in 0 .. m /\ n - 1 \notin F
  BY <1>2
<1> QED
  BY <1>2, <1>3

(* A bounded set of numbers has a maximum. *)
LEMMA MaximumExists ==
  ASSUME NEW b \in Nat, NEW T \in SUBSET (0 .. b), T # {}
  PROVE  Max(T) \in T /\ \A n \in T : n <= Max(T)
<1> DEFINE U == {k \in 0 .. b : b - k \in T}
<1>1. PICK x \in T : TRUE
  OBVIOUS
<1>2. b - x \in U /\ U \in SUBSET Nat
  BY <1>1
<1>3. PICK m \in U : \A k \in U : m <= k
  BY <1>2, NatSetHasMinimum
<1>4. b - m \in T /\ m \in 0 .. b
  BY <1>3
<1>5. \A n \in T : b - n \in U /\ n \in 0 .. b
  OBVIOUS
<1>6. ASSUME NEW n \in T
      PROVE  n <= b - m
  <2>1. m <= b - n /\ n \in 0 .. b
    BY <1>3, <1>5
  <2> QED
    BY <1>4, <2>1
<1>7. \E y \in T : \A n \in T : y >= n
  BY <1>4, <1>5, <1>6
<1> QED
  BY <1>5, <1>7 DEF Max

(* A bound that is an element is the maximum. *)
LEMMA MaximumIs ==
  ASSUME NEW T \in SUBSET Nat, NEW m \in T, \A n \in T : n <= m
  PROVE  Max(T) = m
<1>1. \A n \in T : m >= n
  OBVIOUS
<1>2. Max(T) \in T /\ \A n \in T : Max(T) >= n
  BY <1>1 DEF Max
<1>3. Max(T) >= m /\ Max(T) <= m /\ Max(T) \in Nat /\ m \in Nat
  BY <1>2
<1> QED
  BY <1>3

(* A fold over a sequence, given by its step, is a function. *)
LEMMA FoldExists ==
  ASSUME NEW A, NEW B, NEW base \in A, NEW st \in [A \X B -> A], NEW q \in Seq(B)
  PROVE  \E f \in [0 .. Len(q) -> A] :
            /\ f[0] = base
            /\ \A n \in 1 .. Len(q) : f[n] = st[<<f[n - 1], q[n]>>]
<1> DEFINE m == Len(q)
           Good(f, n) == /\ f \in [0 .. n -> A] /\ f[0] = base
                         /\ \A k \in 1 .. n : f[k] = st[<<f[k - 1], q[k]>>]
           T == {n \in 0 .. m : \E f : Good(f, n)}
<1>1. m \in Nat /\ \A n \in 1 .. m : q[n] \in B
  BY LenProperties
<1> HIDE DEF m
<1>2. 0 \in T
  <2> DEFINE f == [k \in 0 .. 0 |-> base]
  <2>1. Good(f, 0)
    OBVIOUS
  <2> HIDE DEF f
  <2>2. 0 \in 0 .. m
    BY <1>1
  <2> QED
    BY <2>1, <2>2
<1>3. ASSUME NEW n \in 1 .. m, n - 1 \in T
      PROVE  n \in T
  <2>1. PICK f : Good(f, n - 1)
    BY <1>3
  <2> DEFINE g == [k \in 0 .. n |-> IF k = n THEN st[<<f[n - 1], q[n]>>] ELSE f[k]]
  <2>2. st[<<f[n - 1], q[n]>>] \in A
    <3>1. f[n - 1] \in A /\ q[n] \in B
      BY <1>1, <2>1
    <3> QED
      BY <3>1
  <2>3. g \in [0 .. n -> A] /\ g[0] = base
    <3>1. \A k \in 0 .. n : k # n => k \in 0 .. n - 1
      BY <1>1
    <3>2. \A k \in 0 .. n - 1 : f[k] \in A
      BY <2>1
    <3>3. 0 \in 0 .. n /\ 0 # n /\ f[0] = base
      BY <1>1, <2>1
    <3> QED
      BY <2>2, <3>1, <3>2, <3>3
  <2>4. ASSUME NEW k \in 1 .. n
        PROVE  g[k] = st[<<g[k - 1], q[k]>>]
    <3>1. k - 1 \in 0 .. n /\ k - 1 # n /\ g[k - 1] = f[k - 1]
      BY <1>1
    <3>2. CASE k = n
      BY <3>1, <3>2
    <3>3. CASE k # n
      <4>1. k \in 1 .. n - 1 /\ k \in 0 .. n
        BY <1>1, <3>3
      <4>2. f[k] = st[<<f[k - 1], q[k]>>]
        BY <2>1, <4>1
      <4> QED
        BY <3>1, <3>3, <4>1, <4>2
    <3> QED
      BY <3>2, <3>3
  <2>5. Good(g, n)
    BY <2>3, <2>4
  <2>6. n \in 0 .. m
    BY <1>1
  <2> QED
    BY <2>5, <2>6
<1>4. m \in T
  <2>1. \A n \in 0 .. m : n \in T
    BY <1>1, <1>2, <1>3, UpTo
  <2> HIDE DEF T
  <2>2. m \in 0 .. m
    BY <1>1
  <2> QED
    BY <2>1, <2>2
<1> QED
  BY <1>4 DEF m


-----------------------------------------------------------------------------
(* What sorted() makes of a set. *)

StrictOrder(S, order) ==
    /\ \A x \in S : <<x, x>> \notin order
    /\ \A x, y, z \in S : <<x, y>> \in order /\ <<y, z>> \in order => <<x, z>> \in order
    /\ \A x, y \in S : x = y \/ <<x, y>> \in order \/ <<y, x>> \in order

(* Under a strict order, ranks grow with it. *)
LEMMA RankOrders ==
  ASSUME NEW S, IsFiniteSet(S), NEW order, StrictOrder(S, order)
  PROVE  /\ \A x \in S : Rank(S, x, order) \in 0 .. Cardinality(S) - 1
         /\ \A x, y \in S : <<x, y>> \in order => Rank(S, x, order) < Rank(S, y, order)
<1> DEFINE below(x) == {y \in S : <<y, x>> \in order}
<1>1. Cardinality(S) \in Nat
  BY FS_CardinalityType
<1>2. ASSUME NEW x \in S
      PROVE  /\ Rank(S, x, order) = Cardinality(below(x))
             /\ IsFiniteSet(below(x)) /\ Cardinality(below(x)) \in Nat
             /\ Cardinality(below(x)) < Cardinality(S)
  <2>1. Rank(S, x, order) = Cardinality(below(x))
    BY DEF Rank
  <2>2. below(x) \in SUBSET S /\ below(x) # S
    BY <1>2 DEF StrictOrder
  <2> HIDE DEF below
  <2>3. IsFiniteSet(below(x)) /\ Cardinality(below(x)) <= Cardinality(S)
        /\ (Cardinality(S) = Cardinality(below(x)) => S = below(x))
    BY <2>2, FS_Subset
  <2>4. Cardinality(below(x)) \in Nat
    BY <2>3, FS_CardinalityType
  <2> QED
    BY <1>1, <2>1, <2>2, <2>3, <2>4
<1>3. ASSUME NEW x \in S, NEW y \in S, <<x, y>> \in order
      PROVE  Cardinality(below(x)) < Cardinality(below(y))
  <2>1. below(x) \in SUBSET below(y) /\ x \in below(y) /\ x \notin below(x)
    BY <1>3 DEF StrictOrder
  <2>2. /\ IsFiniteSet(below(y)) /\ Cardinality(below(x)) \in Nat
        /\ Cardinality(below(y)) \in Nat
    BY <1>2
  <2> HIDE DEF below
  <2>3. /\ Cardinality(below(x)) <= Cardinality(below(y))
        /\ Cardinality(below(y)) = Cardinality(below(x)) => below(y) = below(x)
    BY <2>1, <2>2, FS_Subset
  <2> QED
    BY <2>1, <2>2, <2>3
<1> HIDE DEF below
<1>4. \A x \in S : Rank(S, x, order) \in 0 .. Cardinality(S) - 1
  BY <1>1, <1>2
<1>5. \A x, y \in S : <<x, y>> \in order => Rank(S, x, order) < Rank(S, y, order)
  BY <1>2, <1>3
<1> QED
  BY <1>4, <1>5

(* Sorting by rank: all elements, each once, in their order. *)
LEMMA SortedIsSorted ==
  ASSUME NEW S, IsFiniteSet(S), NEW order, StrictOrder(S, order),
         NEW s, s = Sorted(S, order)
  PROVE  /\ s \in Seq(S) /\ Len(s) = Cardinality(S) /\ Len(s) \in Nat
         /\ \A i, j \in 1 .. Len(s) : i < j => <<s[i], s[j]>> \in order
         /\ \A x \in S : \E n \in 1 .. Len(s) : s[n] = x
<1> DEFINE m == Cardinality(S)
           rank(x) == Rank(S, x, order)
           f == [x \in S |-> rank(x) + 1]
           place(n) == CHOOSE x \in S : rank(x) = n - 1
<1>1. m \in Nat
  BY FS_CardinalityType
<1>2. /\ \A x \in S : rank(x) \in 0 .. m - 1
      /\ \A x, y \in S : <<x, y>> \in order => rank(x) < rank(y)
  BY RankOrders
<1>3. \A x, y \in S : x = y \/ <<x, y>> \in order \/ <<y, x>> \in order
  BY DEF StrictOrder
<1>4. s = [n \in 1 .. m |-> place(n)]
  BY DEF Sorted
<1> HIDE DEF m, rank
<1>5. \A x, y \in S : rank(x) = rank(y) => x = y
  <2> SUFFICES ASSUME NEW x \in S, NEW y \in S, rank(x) = rank(y)
               PROVE  x = y
    OBVIOUS
  <2>1. rank(x) \in Int /\ ~ (rank(x) < rank(y)) /\ ~ (rank(y) < rank(x))
    BY <1>2
  <2> QED
    BY <1>2, <1>3, <2>1
<1>6. f \in Injection(S, 1 .. m)
  <2>1. f \in [S -> 1 .. m]
    BY <1>1, <1>2
  <2>2. \A x, y \in S : f[x] = f[y] => rank(x) = rank(y)
    BY <1>2
  <2> QED
    BY <1>5, <2>1, <2>2 DEF Injection, IsInjective
<1>7. IsFiniteSet(1 .. m) /\ Cardinality(1 .. m) = m
  BY <1>1, FS_Interval
<1>8. f \in Surjection(S, 1 .. m)
  <2>1. Cardinality(S) = Cardinality(1 .. m)
    BY <1>7 DEF m
  <2> QED
    BY <1>6, <1>7, <2>1, FS_Injection
<1>9. \A n \in 1 .. m : place(n) \in S /\ rank(place(n)) = n - 1
  <2> SUFFICES ASSUME NEW n \in 1 .. m
               PROVE  \E x \in S : rank(x) = n - 1
    OBVIOUS
  <2>1. PICK x \in S : f[x] = n
    BY <1>8 DEF Surjection
  <2>2. rank(x) + 1 = n /\ rank(x) \in Int
    BY <1>2, <2>1
  <2> QED
    BY <2>2
<1> HIDE DEF place, f
<1>10. s \in [1 .. m -> S] /\ \A n \in 1 .. m : s[n] = place(n)
  BY <1>4, <1>9
<1>11. s \in Seq(S) /\ Len(s) = m
  BY <1>1, <1>10
<1>12. \A i, j \in 1 .. m : i < j => <<s[i], s[j]>> \in order
  <2> SUFFICES ASSUME NEW i \in 1 .. m, NEW j \in 1 .. m, i < j
               PROVE  <<s[i], s[j]>> \in order
    OBVIOUS
  <2>1. /\ s[i] \in S /\ s[j] \in S
        /\ rank(s[i]) = i - 1 /\ rank(s[j]) = j - 1
    BY <1>9, <1>10
  <2>2. s[i] # s[j] /\ ~ (rank(s[j]) < rank(s[i]))
    BY <2>1
  <2> QED
    BY <1>2, <1>3, <2>1, <2>2
<1>13. \A x \in S : \E n \in 1 .. m : s[n] = x
  <2> SUFFICES ASSUME NEW x \in S
               PROVE  \E n \in 1 .. m : s[n] = x
    OBVIOUS
  <2>1. rank(x) + 1 \in 1 .. m /\ (rank(x) + 1) - 1 = rank(x)
    BY <1>1, <1>2
  <2>2. s[rank(x) + 1] \in S /\ rank(s[rank(x) + 1]) = rank(x)
    BY <1>9, <1>10, <2>1
  <2> QED
    BY <1>5, <2>1, <2>2
<1> QED
  BY <1>1, <1>11, <1>12, <1>13 DEF m

(* Sorted times are strictly increasing and leave out none. *)
LEMMA SortedTimes ==
  ASSUME NEW O \in SUBSET Time, NEW s, s = Sorted(O, Earlier)
  PROVE  /\ IsFiniteSet(O)
         /\ s \in Seq(O) /\ s \in Seq(Nat) /\ Len(s) \in Nat
         /\ \A i, j \in 1 .. Len(s) : i < j => s[i] < s[j]
         /\ \A i \in 1 .. Len(s) : s[i] \in O
         /\ \A t \in O : \E n \in 1 .. Len(s) : s[n] = t
<1>1. Horizon \in Nat /\ \A t \in Time : t \in Nat
  BY SimulationAssumption DEF Time
<1>2. IsFiniteSet(O)
  <2>1. IsFiniteSet(Time)
    BY <1>1, FS_Interval DEF Time
  <2> QED
    BY <2>1, FS_Subset
<1>3. \A x, y \in O : <<x, y>> \in Earlier <=> x < y
  BY DEF Earlier
<1>4. StrictOrder(O, Earlier)
  BY <1>1, <1>3 DEF StrictOrder
<1>5. /\ s \in Seq(O) /\ Len(s) \in Nat
      /\ \A i, j \in 1 .. Len(s) : i < j => <<s[i], s[j]>> \in Earlier
      /\ \A t \in O : \E n \in 1 .. Len(s) : s[n] = t
  BY <1>2, <1>4, SortedIsSorted
<1>6. \A i \in 1 .. Len(s) : s[i] \in O
  BY <1>5
<1>7. s \in Seq(Nat)
  BY <1>1, <1>5
<1>8. \A i, j \in 1 .. Len(s) : i < j => s[i] < s[j]
  BY <1>3, <1>5, <1>6
<1> QED
  BY <1>2, <1>5, <1>6, <1>7, <1>8


-----------------------------------------------------------------------------
(* The intervals of a session. *)

Intervals == [start : Nat, end : Nat]

(* The period and the TTL. *)
LEMMA TTLFields == TTL \in Nat /\ TTL > 0 /\ Since \in Nat /\ Until \in Nat /\ Since <= Until
  BY SimulationAssumption

(* What one more record makes of the intervals so far. *)
LEMMA ExtendFields ==
  ASSUME NEW runs \in Seq(Intervals), NEW t \in Nat, NEW r, r = Extend(runs, t)
  PROVE  /\ r \in Seq(Intervals) /\ Len(runs) \in Nat
         /\ \/ /\ Len(runs) > 0 /\ t <= runs[Len(runs)].end
               /\ Len(r) = Len(runs)
               /\ \A i \in 1 .. Len(runs) : i # Len(runs) => r[i] = runs[i]
               /\ r[Len(runs)].start = runs[Len(runs)].start
               /\ r[Len(runs)].end = t + TTL
            \/ /\ Len(runs) > 0 => t > runs[Len(runs)].end
               /\ Len(r) = Len(runs) + 1
               /\ \A i \in 1 .. Len(runs) : r[i] = runs[i]
               /\ r[Len(runs) + 1].start = t /\ r[Len(runs) + 1].end = t + TTL
<1>1. TTL \in Nat /\ t + TTL \in Nat
  BY TTLFields
<1>2. /\ Len(runs) \in Nat /\ DOMAIN runs = 1 .. Len(runs)
      /\ \A i \in 1 .. Len(runs) : runs[i] \in Intervals
      /\ runs # <<>> <=> Len(runs) > 0
  BY EmptySeq, LenProperties
<1>3. \A i \in 1 .. Len(runs) : runs[i].start \in Nat /\ runs[i].end \in Nat
  BY <1>2 DEF Intervals
<1>4. CASE runs # <<>> /\ t <= Last(runs).end
  <2> DEFINE last == [runs[Len(runs)] EXCEPT !.end = t + TTL]
  <2>1. Len(runs) \in 1 .. Len(runs) /\ Last(runs) = runs[Len(runs)]
    BY <1>2, <1>4 DEF Last
  <2>2. r = [runs EXCEPT ![Len(runs)] = last]
    BY <1>4 DEF Extend
  <2>3. /\ last \in Intervals /\ last.end = t + TTL
        /\ last.start = runs[Len(runs)].start
    BY <1>1, <1>2, <2>1 DEF Intervals
  <2> HIDE DEF last
  <2>4. /\ r \in Seq(Intervals) /\ Len(r) = Len(runs) /\ r[Len(runs)] = last
        /\ \A i \in 1 .. Len(runs) : i # Len(runs) => r[i] = runs[i]
    BY <1>2, <2>1, <2>2, <2>3
  <2> QED
    BY <1>2, <1>4, <2>1, <2>3, <2>4
<1>5. CASE ~ (runs # <<>> /\ t <= Last(runs).end)
  <2> DEFINE new == [start |-> t, end |-> t + TTL]
  <2>1. new \in Intervals /\ new.start = t /\ new.end = t + TTL
    BY <1>1 DEF Intervals
  <2>2. r = Append(runs, new)
    BY <1>5 DEF Extend
  <2> HIDE DEF new
  <2>3. /\ r \in Seq(Intervals) /\ Len(r) = Len(runs) + 1
        /\ r[Len(runs) + 1] = new
        /\ \A i \in 1 .. Len(runs) : r[i] = runs[i]
    BY <2>1, <2>2, AppendProperties
  <2>4. Len(runs) > 0 => t > runs[Len(runs)].end
    <3> SUFFICES ASSUME Len(runs) > 0
                 PROVE  t > runs[Len(runs)].end
      OBVIOUS
    <3>1. Len(runs) \in 1 .. Len(runs) /\ Last(runs) = runs[Len(runs)]
      BY <1>2 DEF Last
    <3>2. ~ (t <= runs[Len(runs)].end) /\ runs[Len(runs)].end \in Nat
      BY <1>2, <1>3, <1>5, <3>1
    <3> QED
      BY <3>2
  <2> QED
    BY <1>2, <2>1, <2>3, <2>4
<1> QED
  BY <1>4, <1>5

(* Runs extends along the places of its argument. *)
LEMMA RunsSteps ==
  ASSUME NEW q \in Seq(Nat), NEW u, u = Runs(q)
  PROVE  /\ u \in [0 .. Len(q) -> Seq(Intervals)]
         /\ u[0] = <<>>
         /\ \A n \in 1 .. Len(q) : u[n] = Extend(u[n - 1], q[n])
<1> DEFINE base == <<>>
           st == [x \in Seq(Intervals) \X Nat |-> Extend(x[1], x[2])]
           m == Len(q)
<1>1. base \in Seq(Intervals) /\ m \in Nat /\ \A n \in 1 .. m : q[n] \in Nat
  BY LenProperties
<1>2. st \in [Seq(Intervals) \X Nat -> Seq(Intervals)]
  BY ExtendFields
<1>3. \A p \in Seq(Intervals), t \in Nat : st[<<p, t>>] = Extend(p, t)
  OBVIOUS
<1> HIDE DEF base, st, m
<1>4. PICK f \in [0 .. m -> Seq(Intervals)] :
         /\ f[0] = base
         /\ \A n \in 1 .. m : f[n] = st[<<f[n - 1], q[n]>>]
  <2> DEFINE Folds(A, B) ==
        \A b \in A : \A g \in [A \X B -> A] : \A z \in Seq(B) :
           \E f \in [0 .. Len(z) -> A] :
              f[0] = b /\ \A n \in 1 .. Len(z) : f[n] = g[<<f[n - 1], z[n]>>]
  <2>1. \A A, B : Folds(A, B)
    BY FoldExists
  <2>2. Folds(Seq(Intervals), Nat)
    <3> HIDE DEF Folds
    <3> QED
      BY <2>1
  <2> QED
    BY <1>1, <1>2, <2>2 DEF m
<1>5. \A n \in 1 .. m : f[n] = Extend(f[n - 1], q[n])
  <2> SUFFICES ASSUME NEW n \in 1 .. m
               PROVE  f[n] = Extend(f[n - 1], q[n])
    OBVIOUS
  <2>1. f[n - 1] \in Seq(Intervals) /\ q[n] \in Nat
    BY <1>1
  <2> QED
    BY <1>3, <1>4, <2>1
<1>6. f = [n \in 0 .. m |-> IF n = 0 THEN base ELSE Extend(f[n - 1], q[n])]
  <2>1. \A n \in 0 .. m : f[n] = IF n = 0 THEN base ELSE Extend(f[n - 1], q[n])
    <3>1. \A n \in 0 .. m : n = 0 \/ n \in 1 .. m
      BY <1>1
    <3> QED
      BY <1>4, <1>5, <3>1
  <2> QED
    BY <2>1
<1>7. u = CHOOSE g : g = [n \in 0 .. m |-> IF n = 0 THEN base ELSE Extend(g[n - 1], q[n])]
  BY DEF Runs, base, m
<1>8. u = [n \in 0 .. m |-> IF n = 0 THEN base ELSE Extend(u[n - 1], q[n])]
  BY <1>6, <1>7
<1>9. \A n \in 0 .. m : u[n] = IF n = 0 THEN base ELSE Extend(u[n - 1], q[n])
  BY <1>8
<1>10. \A n \in 0 .. m : u[n] \in Seq(Intervals)
  <2> DEFINE T == {n \in 0 .. m : u[n] \in Seq(Intervals)}
  <2>1. 0 \in T
    BY <1>1, <1>9
  <2>2. ASSUME NEW n \in 1 .. m, n - 1 \in T
        PROVE  n \in T
    <3>1. u[n] = Extend(u[n - 1], q[n]) /\ n \in 0 .. m
      BY <1>1, <1>9
    <3>2. u[n - 1] \in Seq(Intervals) /\ q[n] \in Nat
      BY <1>1, <2>2
    <3>3. Extend(u[n - 1], q[n]) \in Seq(Intervals)
      BY <3>2, ExtendFields
    <3>4. u[n] = Extend(u[n - 1], q[n])
      BY <1>1, <3>1
    <3> QED
      BY <3>1, <3>3, <3>4
  <2>3. \A n \in 0 .. m : n \in T
    <3> HIDE DEF T
    <3> QED
      BY <1>1, <2>1, <2>2, UpTo
  <2> QED
    BY <2>3
<1> QED
  <2>1. u \in [0 .. m -> Seq(Intervals)]
    BY <1>8, <1>10
  <2>2. u[0] = base /\ \A n \in 1 .. m : u[n] = Extend(u[n - 1], q[n])
    BY <1>1, <1>9
  <2> QED
    BY <2>1, <2>2 DEF base, m

(* An instant is within the TTL of a record. *)
Seen(O, t) == \E o \in O : o <= t /\ t < o + TTL
Covers(i, t) == i.start <= t /\ t < i.end

(* Runs of the first n times: they are apart, in order, the last of them   *)
(* ends a TTL after the last time, and they cover what the times make      *)
(* alive.                                                                  *)
RunsAre(r, times, n) ==
    /\ \A i \in 1 .. Len(r) : r[i].start < r[i].end
    /\ \A i, j \in 1 .. Len(r) : i < j => r[i].end < r[j].start
    /\ n > 0 => /\ Len(r) > 0
                /\ r[Len(r)].start <= times[n] /\ r[Len(r)].end = times[n] + TTL
    /\ n = 0 => Len(r) = 0
    /\ \A t \in Nat :
         (\E i \in 1 .. Len(r) : Covers(r[i], t)) <=> Seen({times[k] : k \in 1 .. n}, t)

LEMMA ExtendKeeps ==
  ASSUME NEW times \in Seq(Nat), NEW n \in 1 .. Len(times),
         \A i, j \in 1 .. Len(times) : i < j => times[i] < times[j],
         NEW runs \in Seq(Intervals), RunsAre(runs, times, n - 1),
         NEW r, r = Extend(runs, times[n])
  PROVE  RunsAre(r, times, n)
<1> DEFINE m == Len(runs)
           x == times[n]
           P == {times[k] : k \in 1 .. n - 1}
           Q == {times[k] : k \in 1 .. n}
<1>1. /\ TTL \in Nat /\ TTL > 0 /\ m \in Nat /\ n \in Nat /\ n > 0
      /\ \A k \in 1 .. n : times[k] \in Nat
  BY TTLFields
<1>2. /\ \A i \in 1 .. m : runs[i].start \in Nat /\ runs[i].end \in Nat
                           /\ runs[i].start < runs[i].end
      /\ \A i, j \in 1 .. m : i < j => runs[i].end < runs[j].start
      /\ n - 1 > 0 => m > 0 /\ runs[m].start <= times[n - 1] /\ runs[m].end = times[n - 1] + TTL
      /\ n - 1 = 0 => m = 0
      /\ \A t \in Nat : (\E i \in 1 .. m : Covers(runs[i], t)) <=> Seen(P, t)
  <2>1. \A i \in 1 .. m : runs[i].start \in Nat /\ runs[i].end \in Nat
    <3>1. \A i \in 1 .. m : runs[i] \in Intervals
      OBVIOUS
    <3> QED
      BY <3>1 DEF Intervals
  <2> QED
    BY <2>1 DEF RunsAre
<1>3. n - 1 > 0 => times[n - 1] < x /\ times[n - 1] \in Nat
  BY <1>1
<1>4. x \in Nat /\ \A t \in Nat : Seen(Q, t) <=> Seen(P, t) \/ (x <= t /\ t < x + TTL)
  <2>1. Q = P \cup {x}
    <3>1. \A k \in 1 .. n : k = n \/ k \in 1 .. n - 1
      BY <1>1
    <3>2. n \in 1 .. n /\ \A k \in 1 .. n - 1 : k \in 1 .. n
      BY <1>1
    <3> QED
      BY <3>1, <3>2
  <2> HIDE DEF P, Q, x
  <2>2. \A t \in Nat : Seen(Q, t) <=> Seen(P, t) \/ (x <= t /\ t < x + TTL)
    BY <2>1 DEF Seen
  <2> QED
    BY <1>1, <2>2 DEF x
<1>5. /\ r \in Seq(Intervals)
      /\ \/ /\ m > 0 /\ x <= runs[m].end /\ Len(r) = m
            /\ \A i \in 1 .. m : i # m => r[i] = runs[i]
            /\ r[m].start = runs[m].start /\ r[m].end = x + TTL
         \/ /\ m > 0 => x > runs[m].end
            /\ Len(r) = m + 1
            /\ \A i \in 1 .. m : r[i] = runs[i]
            /\ r[m + 1].start = x /\ r[m + 1].end = x + TTL
  BY <1>1, ExtendFields, SMTT(30)
<1> HIDE DEF m, P, Q, x
<1>6. CASE /\ m > 0 /\ x <= runs[m].end /\ Len(r) = m
           /\ \A i \in 1 .. m : i # m => r[i] = runs[i]
           /\ r[m].start = runs[m].start /\ r[m].end = x + TTL
  <2>1. m \in 1 .. m /\ n - 1 > 0 /\ runs[m].end < x + TTL /\ runs[m].start < x
        /\ runs[m].start \in Nat /\ runs[m].end \in Nat
    BY <1>1, <1>2, <1>3, <1>4, <1>6, SMTT(30)
  <2>2. \A i \in 1 .. m : r[i].start = runs[i].start /\ (i # m => r[i].end = runs[i].end)
    BY <1>6
  <2>3. \A i \in 1 .. m : r[i].start < r[i].end
    <3>1. r[m].start < r[m].end
      <4>1. r[m].start = runs[m].start /\ r[m].end = x + TTL /\ x \in Nat /\ TTL \in Nat
        BY <1>1, <1>4, <1>6
      <4>2. x < x + TTL
        BY <1>1, <4>1
      <4> QED
        BY <2>1, <4>1, <4>2
    <3>2. \A i \in 1 .. m : i # m => r[i].start < r[i].end
      BY <1>2, <2>2
    <3> QED
      BY <3>1, <3>2
  <2>4. \A i, j \in 1 .. m : i < j => r[i].end < r[j].start
    <3>1. \A i, j \in 1 .. m : i < j => i # m
      BY <1>1
    <3> QED
      BY <1>2, <2>2, <3>1
  <2>5. ASSUME NEW t \in Nat
        PROVE  (\E i \in 1 .. m : Covers(r[i], t)) <=> Seen(Q, t)
    <3>1. ASSUME NEW i \in 1 .. m, Covers(r[i], t), i # m
          PROVE  Seen(Q, t)
      BY <1>2, <1>4, <1>6, <3>1
    <3>2. ASSUME Covers(r[m], t)
          PROVE  Seen(Q, t)
      <4>1. runs[m].start <= t /\ t < x + TTL
        BY <1>6, <3>2 DEF Covers
      <4>2. CASE t < runs[m].end
        BY <1>2, <1>4, <2>1, <4>1, <4>2 DEF Covers
      <4>3. CASE ~ (t < runs[m].end)
        BY <1>4, <1>6, <2>1, <4>1, <4>3
      <4> QED
        BY <4>2, <4>3
    <3>3. ASSUME Seen(P, t)
          PROVE  \E i \in 1 .. m : Covers(r[i], t)
      <4>1. PICK i \in 1 .. m : Covers(runs[i], t)
        BY <1>2, <3>3
      <4>2. runs[i].end \in Nat /\ runs[i].end <= r[i].end
        <5>1. CASE i = m
          BY <1>1, <1>4, <1>6, <2>1, <5>1
        <5>2. CASE i # m
          BY <1>2, <2>2, <5>2
        <5> QED
          BY <5>1, <5>2
      <4>3. r[i].end \in Nat
        <5>1. x + TTL \in Nat
          BY <1>1, <1>4
        <5> QED
          BY <1>2, <1>6, <2>2, <5>1
      <4>4. r[i].start <= t /\ t < runs[i].end
        BY <2>2, <4>1 DEF Covers
      <4>5. t < r[i].end
        BY <4>2, <4>3, <4>4
      <4> QED
        BY <4>4, <4>5 DEF Covers
    <3>4. ASSUME x <= t, t < x + TTL
          PROVE  Covers(r[m], t)
      BY <1>4, <1>6, <2>1, <3>4 DEF Covers
    <3> QED
      BY <1>4, <2>1, <3>1, <3>2, <3>3, <3>4
  <2>6. /\ Len(r) = m /\ m > 0 /\ n # 0
        /\ r[m].start <= x /\ r[m].end = x + TTL
    BY <1>1, <1>4, <1>6, <2>1
  <2> QED
    BY <2>3, <2>4, <2>5, <2>6 DEF RunsAre, Q, x
<1>7. CASE /\ m > 0 => x > runs[m].end
           /\ Len(r) = m + 1
           /\ \A i \in 1 .. m : r[i] = runs[i]
           /\ r[m + 1].start = x /\ r[m + 1].end = x + TTL
  <2>1. \A i \in 1 .. m + 1 : i = m + 1 \/ i \in 1 .. m
    BY <1>1
  <2>2. ASSUME NEW i \in 1 .. m
        PROVE  runs[i].end < x
    <3>1. m \in 1 .. m /\ runs[m].end \in Nat /\ runs[m].start \in Nat /\ runs[i].end \in Nat
      BY <1>1, <1>2
    <3>2. runs[m].end < x /\ (i = m \/ i < m)
      BY <1>1, <1>4, <1>7, <3>1
    <3>3. i < m => runs[i].end < runs[m].start /\ runs[m].start < runs[m].end
      BY <1>2, <3>1
    <3> QED
      BY <1>4, <3>1, <3>2, <3>3
  <2>3. \A i \in 1 .. m + 1 : r[i].start < r[i].end
    <3>1. r[m + 1].start < r[m + 1].end
      BY <1>1, <1>4, <1>7
    <3>2. \A i \in 1 .. m : r[i].start < r[i].end
      BY <1>2, <1>7
    <3> QED
      BY <2>1, <3>1, <3>2
  <2>4. \A i, j \in 1 .. m + 1 : i < j => r[i].end < r[j].start
    <3> SUFFICES ASSUME NEW i \in 1 .. m + 1, NEW j \in 1 .. m + 1, i < j
                 PROVE  r[i].end < r[j].start
      OBVIOUS
    <3>1. i \in 1 .. m
      BY <1>1
    <3>2. CASE j = m + 1
      BY <1>7, <2>2, <3>1, <3>2
    <3>3. CASE j \in 1 .. m
      BY <1>2, <1>7, <3>1, <3>3
    <3> QED
      BY <2>1, <3>2, <3>3
  <2>5. ASSUME NEW t \in Nat
        PROVE  (\E i \in 1 .. m + 1 : Covers(r[i], t)) <=> Seen(Q, t)
    <3>1. Covers(r[m + 1], t) <=> x <= t /\ t < x + TTL
      BY <1>7 DEF Covers
    <3>2. \A i \in 1 .. m : Covers(r[i], t) <=> Covers(runs[i], t)
      BY <1>7
    <3>3. m + 1 \in 1 .. m + 1 /\ \A i \in 1 .. m : i \in 1 .. m + 1
      BY <1>1
    <3> QED
      BY <1>2, <1>4, <2>1, <3>1, <3>2, <3>3
  <2>6. Len(r) = m + 1 /\ m + 1 > 0 /\ n > 0 /\ n # 0 /\ x <= x
    BY <1>1, <1>4, <1>7
  <2> QED
    BY <1>7, <2>3, <2>4, <2>5, <2>6 DEF RunsAre, Q, x
<1> QED
  BY <1>5, <1>6, <1>7

(* The intervals of a session are apart and cover what its records make    *)
(* alive.                                                                  *)
LEMMA IntervalsCover ==
  ASSUME NEW O \in SUBSET Time, NEW I, I = ContiguousIntervals(O)
  PROVE  /\ I \in SUBSET Intervals /\ IsFiniteSet(I)
         /\ \A i \in I : i.start < i.end
         /\ \A i, j \in I : i = j \/ i.end < j.start \/ j.end < i.start
         /\ \A t \in Nat : (\E i \in I : Covers(i, t)) <=> Seen(O, t)
<1> DEFINE times == Sorted(O, Earlier)
           m == Len(times)
           u == Runs(times)
           r == u[m]
<1>1. /\ times \in Seq(Nat) /\ m \in Nat
      /\ \A i, j \in 1 .. m : i < j => times[i] < times[j]
      /\ \A i \in 1 .. m : times[i] \in O
      /\ \A t \in O : \E n \in 1 .. m : times[n] = t
  BY SortedTimes
<1>2. /\ u \in [0 .. m -> Seq(Intervals)] /\ u[0] = <<>>
      /\ \A n \in 1 .. m : u[n] = Extend(u[n - 1], times[n])
  BY <1>1, RunsSteps
<1>3. I = ToSet(r)
  BY DEF ContiguousIntervals
<1> HIDE DEF m, u, times
<1>4. RunsAre(u[0], times, 0)
  <2>1. Len(u[0]) = 0 /\ 1 .. 0 = {}
    BY <1>2
  <2>2. \A t \in Nat : ~ Seen({times[k] : k \in 1 .. 0}, t)
    BY <2>1 DEF Seen
  <2> QED
    BY <2>1, <2>2 DEF RunsAre
<1>5. \A n \in 0 .. m : RunsAre(u[n], times, n)
  <2> DEFINE T == {n \in 0 .. m : RunsAre(u[n], times, n)}
  <2>1. 0 \in T
    BY <1>1, <1>4
  <2>2. ASSUME NEW n \in 1 .. m, n - 1 \in T
        PROVE  n \in T
    <3>1. u[n - 1] \in Seq(Intervals) /\ RunsAre(u[n - 1], times, n - 1)
      BY <1>1, <1>2, <2>2
    <3>2. u[n] = Extend(u[n - 1], times[n]) /\ n \in 0 .. m /\ m = Len(times)
      BY <1>1, <1>2 DEF m
    <3>3. RunsAre(u[n], times, n)
      BY <1>1, <3>1, <3>2, ExtendKeeps
    <3> QED
      BY <3>2, <3>3
  <2>3. \A n \in 0 .. m : n \in T
    <3> HIDE DEF T
    <3> QED
      BY <1>1, <2>1, <2>2, UpTo
  <2> QED
    BY <2>3
<1>6. r \in Seq(Intervals) /\ RunsAre(r, times, m)
  BY <1>1, <1>2, <1>5
<1> DEFINE L == Len(r)
<1>7. L \in Nat /\ I = {r[i] : i \in 1 .. L} /\ \A i \in 1 .. L : r[i] \in Intervals
  BY <1>3, <1>6 DEF ToSet
<1> HIDE DEF r
<1>8. IsFiniteSet(I)
  <2> DEFINE f == [i \in 1 .. L |-> r[i]]
  <2>1. f \in Surjection(1 .. L, I)
    BY <1>7 DEF Surjection
  <2>2. IsFiniteSet(1 .. L)
    BY <1>7, FS_Interval
  <2> QED
    BY <2>1, <2>2, FS_Surjection
<1>9. O = {times[k] : k \in 1 .. m}
  BY <1>1
<1>10. \A i, j \in 1 .. L : i < j => r[i].end < r[j].start
  BY <1>6 DEF RunsAre
<1>11. \A i, j \in 1 .. L : i = j \/ i < j \/ j < i
  BY <1>7
<1>12. \A i, j \in I : i = j \/ i.end < j.start \/ j.end < i.start
  BY <1>7, <1>10, <1>11
<1> HIDE DEF L
<1>13. /\ \A i \in 1 .. L : r[i].start < r[i].end
       /\ \A t \in Nat : (\E i \in 1 .. L : Covers(r[i], t)) <=> Seen({times[k] : k \in 1 .. m}, t)
  BY <1>6 DEF RunsAre, L
<1> QED
  BY <1>7, <1>8, <1>9, <1>12, <1>13


-----------------------------------------------------------------------------
(* What the files read so far have left. *)

SessionIntervals ==
    /\ intervals \in SUBSET [file : Files, start : Nat, end : Nat] /\ IsFiniteSet(intervals)
    /\ \A i \in intervals :
          /\ i.file <= Len(content)
          /\ Since <= i.start /\ i.start <= Until /\ i.start < i.end
    /\ \A i, j \in intervals :
          i.file = j.file => i = j \/ i.end < j.start \/ j.end < i.start
    /\ \A f \in 1 .. Len(content), t \in Since .. Until :
          (\E i \in intervals : i.file = f /\ Covers(i, t)) <=> Seen(content[f].observed, t)

SessionSamples ==
    /\ samples \in SUBSET Samples
    /\ \A s \in samples :
          /\ s.file <= Len(content) /\ s.at \in content[s.file].observed
          /\ s.at \in Since .. Until

Contained == content \in Seq(Contents) /\ Len(content) <= Len(HarnessOf)

(* What a file can say. *)
LEMMA ContentFields ==
  ASSUME NEW c \in Contents
  PROVE  /\ c.observed \in SUBSET Time /\ c.spoken \subseteq c.observed
         /\ c.modified \in Nat /\ \A o \in c.observed : o <= c.modified
         /\ c.kind # "fine" => c.observed = {}
  BY SimulationAssumption DEF Contents, Time

(* Files are numbered in the order they are read. *)
LEMMA FilesAre == /\ Len(HarnessOf) \in Nat /\ Files = 1 .. Len(HarnessOf)
                  /\ \A f \in Files : HarnessOf[f] \in Harnesses
  BY SimulationAssumption DEF Files

(* The intervals of one file, cut to the period. *)
Clip(f, i) == [file |-> f, start |-> Latest(i.start, Since), end |-> i.end]

LEMMA ClippedCover ==
  ASSUME NEW f \in Files, NEW c \in Contents,
         NEW N, N = {Clip(f, i) : i \in Overlapping(c)}
  PROVE  /\ N \in SUBSET [file : Files, start : Nat, end : Nat] /\ IsFiniteSet(N)
         /\ \A n \in N : n.file = f /\ Since <= n.start /\ n.start <= Until /\ n.start < n.end
         /\ \A n, k \in N : n = k \/ n.end < k.start \/ k.end < n.start
         /\ \A t \in Since .. Until : (\E n \in N : Covers(n, t)) <=> Seen(c.observed, t)
<1> DEFINE I == ContiguousIntervals(c.observed)
           O == Overlapping(c)
<1>1. /\ Since \in Nat /\ Until \in Nat /\ Since <= Until
      /\ \A t \in Since .. Until : t \in Nat
  BY TTLFields
<1>2. /\ I \in SUBSET Intervals /\ IsFiniteSet(I)
      /\ \A i \in I : i.start < i.end
      /\ \A i, j \in I : i = j \/ i.end < j.start \/ j.end < i.start
      /\ \A t \in Nat : (\E i \in I : Covers(i, t)) <=> Seen(c.observed, t)
  BY ContentFields, IntervalsCover
<1>3. O = {i \in I : i.end > Since /\ i.start <= Until}
  BY DEF Overlapping
<1>4. \A i \in I : i.start \in Nat /\ i.end \in Nat
  BY <1>2 DEF Intervals
<1> HIDE DEF I
<1>5. IsFiniteSet(O)
  BY <1>2, <1>3, FS_Subset
<1>6. \A i \in O : i \in I /\ i.end > Since /\ i.start <= Until
  BY <1>3
<1> HIDE DEF O
<1>7. ASSUME NEW i \in O
      PROVE  /\ Clip(f, i) \in [file : Files, start : Nat, end : Nat]
             /\ Clip(f, i).file = f /\ Clip(f, i).end = i.end
             /\ i.start <= Clip(f, i).start /\ Since <= Clip(f, i).start
             /\ Clip(f, i).start <= Until /\ Clip(f, i).start < i.end
             /\ \A t \in Since .. Until : i.start <= t => Clip(f, i).start <= t
  <2>1. /\ i.start \in Nat /\ i.end \in Nat /\ i.end > Since /\ i.start <= Until
        /\ i.start < i.end
    BY <1>2, <1>4, <1>6
  <2>2. Latest(i.start, Since) = i.start \/ Latest(i.start, Since) = Since
    BY DEF Latest
  <2>3. Latest(i.start, Since) >= i.start /\ Latest(i.start, Since) >= Since
    BY <1>1, <2>1 DEF Latest
  <2> DEFINE s == Latest(i.start, Since)
  <2>4. s \in Nat /\ s <= Until /\ s < i.end /\ i.start <= s /\ Since <= s
    BY <1>1, <2>1, <2>2, <2>3
  <2>5. \A t \in Since .. Until : i.start <= t => s <= t
    BY <1>1, <2>2
  <2>6. Clip(f, i) = [file |-> f, start |-> s, end |-> i.end]
    BY DEF Clip
  <2> HIDE DEF s
  <2> QED
    BY <2>1, <2>4, <2>5, <2>6
<1>8. N = {Clip(f, i) : i \in O}
  BY DEF O
<1>9. IsFiniteSet(N)
  <2> DEFINE g == [i \in O |-> Clip(f, i)]
  <2>1. g \in Surjection(O, N)
    BY <1>8 DEF Surjection
  <2> QED
    BY <1>5, <2>1, FS_Surjection
<1>10. \A n \in N : /\ n \in [file : Files, start : Nat, end : Nat]
                    /\ n.file = f /\ Since <= n.start /\ n.start <= Until /\ n.start < n.end
  BY <1>7, <1>8
<1>11. \A n, k \in N : n = k \/ n.end < k.start \/ k.end < n.start
  <2> SUFFICES ASSUME NEW i \in O, NEW j \in O
               PROVE  \/ Clip(f, i) = Clip(f, j)
                      \/ Clip(f, i).end < Clip(f, j).start
                      \/ Clip(f, j).end < Clip(f, i).start
    BY <1>8
  <2>1. i = j \/ i.end < j.start \/ j.end < i.start
    BY <1>2, <1>6
  <2>2. /\ i.end \in Nat /\ j.end \in Nat /\ i.start \in Nat /\ j.start \in Nat
    BY <1>4, <1>6
  <2>3. /\ Clip(f, i).start \in Nat /\ Clip(f, j).start \in Nat
        /\ Clip(f, i).end = i.end /\ Clip(f, j).end = j.end
        /\ i.start <= Clip(f, i).start /\ j.start <= Clip(f, j).start
    BY <1>7
  <2> QED
    BY <2>1, <2>2, <2>3
<1>12. ASSUME NEW t \in Since .. Until
       PROVE  (\E n \in N : Covers(n, t)) <=> Seen(c.observed, t)
  <2>1. ASSUME NEW i \in O, Covers(Clip(f, i), t)
        PROVE  Covers(i, t) /\ i \in I
    <3>1. /\ i \in I /\ i.start \in Nat /\ i.start <= Clip(f, i).start
          /\ Clip(f, i).start \in Nat /\ Clip(f, i).end = i.end
      BY <1>4, <1>6, <1>7
    <3>2. Clip(f, i).start <= t /\ t < i.end /\ t \in Nat
      BY <1>1, <2>1, <3>1 DEF Covers
    <3> QED
      BY <3>1, <3>2 DEF Covers
  <2>2. ASSUME NEW i \in I, Covers(i, t)
        PROVE  i \in O /\ Covers(Clip(f, i), t)
    <3>1. i.start <= t /\ t < i.end /\ i.start \in Nat /\ i.end \in Nat /\ t \in Nat
      BY <1>1, <1>4, <2>2 DEF Covers
    <3>2. i.end > Since /\ i.start <= Until
      BY <1>1, <3>1
    <3>3. i \in O
      BY <1>3, <3>2
    <3>4. Clip(f, i).start <= t /\ Clip(f, i).end = i.end
      BY <1>7, <3>1, <3>3
    <3> QED
      BY <3>1, <3>3, <3>4 DEF Covers
  <2> QED
    BY <1>1, <1>2, <1>8, <2>1, <2>2
<1> QED
  BY <1>9, <1>10, <1>11, <1>12

(* A file adds its intervals to those of the others. *)
LEMMA AddedFile ==
  ASSUME SessionIntervals, Contained, Len(content) < Len(HarnessOf),
         NEW c \in Contents, content' = Append(content, c),
         NEW N, intervals' = intervals \cup N,
         N \in SUBSET [file : Files, start : Nat, end : Nat], IsFiniteSet(N),
         \A n \in N : /\ n.file = Len(content) + 1
                      /\ Since <= n.start /\ n.start <= Until /\ n.start < n.end,
         \A n, k \in N : n = k \/ n.end < k.start \/ k.end < n.start,
         \A t \in Since .. Until : (\E n \in N : Covers(n, t)) <=> Seen(c.observed, t)
  PROVE  SessionIntervals' /\ Contained'
<1> DEFINE l == Len(content)
<1>1. /\ l \in Nat /\ Len(content') = l + 1 /\ content' \in Seq(Contents)
      /\ content'[l + 1] = c /\ \A f \in 1 .. l : content'[f] = content[f]
  BY AppendProperties DEF Contained
<1>2. Contained'
  BY <1>1, FilesAre DEF Contained
<1>3. \A i \in intervals : i.file <= l /\ i.file \in Nat
  BY FilesAre DEF SessionIntervals
<1> HIDE DEF l
<1>4. /\ intervals' \in SUBSET [file : Files, start : Nat, end : Nat]
      /\ IsFiniteSet(intervals')
  BY FS_Union DEF SessionIntervals
<1>5. \A i \in intervals' :
         /\ i.file <= Len(content')
         /\ Since <= i.start /\ i.start <= Until /\ i.start < i.end
  BY <1>1, <1>3 DEF SessionIntervals, l
<1>6. \A i \in N : i.file = l + 1
  BY DEF l
<1>7. \A i, j \in intervals' :
         i.file = j.file => i = j \/ i.end < j.start \/ j.end < i.start
  <2>1. \A i \in intervals, n \in N : i.file # n.file
    BY <1>1, <1>3, <1>6
  <2> QED
    BY <2>1 DEF SessionIntervals
<1>8. ASSUME NEW f \in 1 .. l + 1, NEW t \in Since .. Until
      PROVE  (\E i \in intervals' : i.file = f /\ Covers(i, t)) <=> Seen(content'[f].observed, t)
  <2>1. CASE f = l + 1
    <3>1. \A i \in intervals : i.file # f
      BY <1>1, <1>3, <2>1
    <3>2. content'[f].observed = c.observed
      BY <1>1, <2>1
    <3> QED
      BY <1>6, <2>1, <3>1, <3>2
  <2>2. CASE f # l + 1
    <3>1. f \in 1 .. l /\ content'[f] = content[f] /\ \A n \in N : n.file # f
      BY <1>1, <1>6, <2>2
    <3>2. (\E i \in intervals : i.file = f /\ Covers(i, t)) <=> Seen(content[f].observed, t)
      BY <3>1 DEF SessionIntervals, l
    <3> QED
      BY <3>1, <3>2
  <2> QED
    BY <2>1, <2>2
<1> QED
  BY <1>1, <1>2, <1>4, <1>5, <1>7, <1>8 DEF SessionIntervals

LEMMA ReadFileKeeps ==
  ASSUME SessionIntervals, SessionSamples, Contained, ReadFile
  PROVE  SessionIntervals' /\ SessionSamples' /\ Contained'
<1> DEFINE f == Len(content) + 1
<1>1. Len(content) \in Nat /\ Len(content) < Len(HarnessOf) /\ f \in Files /\ f \in Nat
  BY FilesAre DEF ReadFile, Contained
<1>2. PICK c \in Contents :
         /\ content' = Append(content, c)
         /\ \/ /\ ~ CouldOverlap(c)
               /\ UNCHANGED <<intervals, samples>>
            \/ /\ CouldOverlap(c) /\ (c.kind = "malformed" \/ c.observed = {})
               /\ UNCHANGED <<intervals, samples>>
            \/ /\ CouldOverlap(c) /\ c.kind = "fine" /\ c.observed # {}
               /\ Overlapping(c) = {}
               /\ UNCHANGED <<intervals, samples>>
            \/ /\ CouldOverlap(c) /\ Overlapping(c) # {}
               /\ intervals' = intervals \cup {Clip(f, i) : i \in Overlapping(c)}
               /\ samples' = samples \cup
                     {[file |-> f, at |-> t] : t \in c.spoken \cap Since .. Until}
  BY DEF ReadFile, Clip
<1>3. /\ c.observed \in SUBSET Time /\ c.spoken \subseteq c.observed
      /\ c.modified \in Nat /\ \A o \in c.observed : o <= c.modified
      /\ c.kind # "fine" => c.observed = {}
  BY ContentFields
<1>4. /\ TTL \in Nat /\ Since \in Nat /\ Until \in Nat
      /\ \A o \in Time : o \in Nat
  BY TTLFields, SimulationAssumption DEF Time
<1>5. /\ content'[f] = c /\ Len(content') = f
      /\ \A k \in 1 .. Len(content) : content'[k] = content[k]
  BY <1>1, <1>2, AppendProperties DEF Contained
<1> DEFINE New == {Clip(f, i) : i \in Overlapping(c)}
<1>6. /\ New \in SUBSET [file : Files, start : Nat, end : Nat] /\ IsFiniteSet(New)
      /\ \A n \in New : n.file = f /\ Since <= n.start /\ n.start <= Until /\ n.start < n.end
      /\ \A n, k \in New : n = k \/ n.end < k.start \/ k.end < n.start
      /\ \A t \in Since .. Until : (\E n \in New : Covers(n, t)) <=> Seen(c.observed, t)
  BY <1>1, ClippedCover
<1>7. ASSUME UNCHANGED intervals, \A t \in Since .. Until : ~ Seen(c.observed, t)
      PROVE  SessionIntervals' /\ Contained'
  <2>1. intervals' = intervals \cup {} /\ IsFiniteSet({})
    BY <1>7, FS_EmptySet
  <2> QED
    BY <1>1, <1>2, <1>7, <2>1, AddedFile
<1>8. SessionIntervals' /\ Contained'
  <2>1. CASE ~ CouldOverlap(c) /\ UNCHANGED <<intervals, samples>>
    <3>1. ASSUME NEW t \in Since .. Until, NEW o \in c.observed, t < o + TTL
          PROVE  FALSE
      <4>1. c.kind # "unstatable"
        BY <1>3, <3>1
      <4>2. ~ (c.modified + TTL >= Since)
        BY <2>1, <4>1 DEF CouldOverlap
      <4> QED
        BY <1>3, <1>4, <3>1, <4>2
    <3>2. \A t \in Since .. Until : ~ Seen(c.observed, t)
      BY <3>1 DEF Seen
    <3> QED
      BY <1>7, <2>1, <3>2
  <2>2. CASE (c.kind = "malformed" \/ c.observed = {}) /\ UNCHANGED <<intervals, samples>>
    <3>1. \A t \in Since .. Until : ~ Seen(c.observed, t)
      BY <1>3, <2>2 DEF Seen
    <3> QED
      BY <1>7, <2>2, <3>1
  <2>3. CASE Overlapping(c) = {} /\ UNCHANGED <<intervals, samples>>
    <3>1. \A t \in Since .. Until : ~ Seen(c.observed, t)
      BY <1>6, <2>3
    <3> QED
      BY <1>7, <2>3, <3>1
  <2>4. CASE intervals' = intervals \cup New
    <3> HIDE DEF New
    <3> QED
      BY <1>1, <1>2, <1>6, <2>4, AddedFile
  <2> QED
    BY <1>2, <2>1, <2>2, <2>3, <2>4
<1>9. SessionSamples'
  <2> DEFINE S == {[file |-> f, at |-> t] : t \in c.spoken \cap Since .. Until}
  <2>1. \A s \in S : /\ s \in Samples /\ s.file = f /\ s.at \in c.observed
                     /\ s.at \in Since .. Until
    BY <1>1, <1>3 DEF Samples
  <2>2. samples' \subseteq samples \cup S
    BY <1>2
  <2>3. \A s \in samples : /\ s \in Samples /\ s.file \in 1 .. Len(content)
                           /\ s.at \in content[s.file].observed /\ s.at \in Since .. Until
    <3>1. \A s \in Samples : s.file \in Files
      BY DEF Samples
    <3>2. \A k \in Files : k \in Nat /\ k >= 1
      BY FilesAre
    <3> QED
      BY <1>1, <3>1, <3>2 DEF SessionSamples
  <2> HIDE DEF S
  <2>4. \A s \in samples' : s \in Samples /\ s.at \in Since .. Until
    BY <2>1, <2>2, <2>3
  <2>5. \A s \in samples' : s.file <= Len(content') /\ s.at \in content'[s.file].observed
    BY <1>1, <1>5, <2>1, <2>2, <2>3
  <2> QED
    BY <2>4, <2>5 DEF SessionSamples
<1> QED
  BY <1>8, <1>9


-----------------------------------------------------------------------------
(* The timeline. *)

Active(h, t) == {i \in Of(h) : Covers(i, t)}
Agents(t) == Cardinality(AliveAt("codex", t)) + Cardinality(AliveAt("pi", t))

IntervalsInPeriod ==
    /\ intervals \in SUBSET [file : Files, start : Nat, end : Nat] /\ IsFiniteSet(intervals)
    /\ \A i \in intervals : Since <= i.start /\ i.start <= Until /\ i.start < i.end

(* The timeline changes exactly where an interval starts, or ends within   *)
(* the period, and counts the intervals under way.                         *)
LEMMA ChartCounts ==
  ASSUME IntervalsInPeriod
  PROVE  /\ DOMAIN Chart \subseteq Since .. Until
         /\ \A i \in intervals : i.start \in DOMAIN Chart
         /\ \A i \in intervals : i.end <= Until => i.end \in DOMAIN Chart
         /\ \A at \in DOMAIN Chart, h \in Harnesses :
               Chart[at][h] = Cardinality(Active(h, at))
<1> DEFINE ended(i) == i.end <= Until
           changes == {i.start : i \in intervals} \cup {i.end : i \in {j \in intervals : ended(j)}}
           D == changes \cup (IF changes = {} THEN {} ELSE {Until})
           started(h, at) == {i \in Of(h) : i.start <= at}
           over(h, at) == {i \in Of(h) : ended(i) /\ i.end <= at}
<1>1. Chart = [at \in D |-> [h \in Harnesses |->
                 Cardinality(started(h, at)) - Cardinality(over(h, at))]]
  BY DEF Chart
<1>2. Since \in Nat /\ Until \in Nat /\ Since <= Until
  BY TTLFields
<1>3. \A i \in intervals :
         /\ i.start \in Nat /\ i.end \in Nat
         /\ Since <= i.start /\ i.start <= Until /\ i.start < i.end
  BY DEF IntervalsInPeriod
<1>4. changes \subseteq Since .. Until
  BY <1>2, <1>3
<1>5. D \subseteq Since .. Until
  BY <1>2, <1>4
<1>6. \A i \in intervals : i.start \in D /\ (i.end <= Until => i.end \in D)
  OBVIOUS
<1>7. ASSUME NEW at \in D, NEW h \in Harnesses
      PROVE  Cardinality(started(h, at)) - Cardinality(over(h, at)) = Cardinality(Active(h, at))
  <2>1. at \in Nat /\ at <= Until
    BY <1>2, <1>5
  <2>2. Of(h) \in SUBSET intervals /\ IsFiniteSet(Of(h))
    <3>1. Of(h) \in SUBSET intervals
      BY DEF Of
    <3> QED
      BY <3>1, FS_Subset DEF IntervalsInPeriod
  <2>3. \A i \in Of(h) : i.end <= at => i.start <= at /\ ended(i)
    BY <1>2, <1>3, <2>1, <2>2
  <2>4. over(h, at) \subseteq started(h, at)
    BY <2>3
  <2>5. Active(h, at) = started(h, at) \ over(h, at)
    <3>1. \A i \in Of(h) : at < i.end <=> ~ (i.end <= at)
      BY <1>3, <2>1, <2>2
    <3> QED
      BY <2>3, <3>1 DEF Active, Covers
  <2>6. started(h, at) \cap over(h, at) = over(h, at)
    BY <2>4
  <2>7. IsFiniteSet(started(h, at)) /\ IsFiniteSet(over(h, at))
    BY <2>2, FS_Subset
  <2> HIDE DEF started, over
  <2> QED
    BY <2>5, <2>6, <2>7, FS_Difference
<1> HIDE DEF D, started, over
<1> QED
  BY <1>1, <1>5, <1>6, <1>7

(* A file is alive exactly when one of its intervals is under way, and then*)
(* it is one.                                                              *)
LEMMA ActiveIsAlive ==
  ASSUME SessionIntervals, Contained, Len(content) = Len(HarnessOf),
         NEW t \in Since .. Until, NEW h \in Harnesses
  PROVE  /\ IsFiniteSet(AliveAt(h, t)) /\ AliveAt(h, t) \in SUBSET Files
         /\ Cardinality(AliveAt(h, t)) = Cardinality(Active(h, t))
         /\ Cardinality(AliveAt(h, t)) \in Nat
         /\ AliveAt(h, t) = {} <=> Active(h, t) = {}
         /\ AliveAt(h, t) = {} <=> Cardinality(AliveAt(h, t)) = 0
<1> DEFINE A == Active(h, t)
           L == AliveAt(h, t)
           f == [i \in A |-> i.file]
<1>1. t \in Nat /\ Files = 1 .. Len(content)
  BY TTLFields, FilesAre
<1>2. \A i \in A : /\ i \in intervals /\ HarnessOf[i.file] = h /\ Covers(i, t)
                   /\ i.file \in Files /\ i.start \in Nat /\ i.end \in Nat
  BY DEF Active, Of, SessionIntervals
<1>3. \A k \in Files :
         (\E i \in intervals : i.file = k /\ Covers(i, t)) <=> Seen(content[k].observed, t)
  BY <1>1 DEF SessionIntervals
<1>4. \A k \in Files : k \in L <=> HarnessOf[k] = h /\ Seen(content[k].observed, t)
  BY DEF AliveAt, Seen
<1>5. L \in SUBSET Files
  BY DEF AliveAt
<1>6. \A i \in A : i.file \in L
  BY <1>2, <1>3, <1>4
<1>7. \A k \in L : \E i \in A : i.file = k
  BY <1>3, <1>4, <1>5 DEF Active, Of
<1>8. ASSUME NEW i \in A, NEW j \in A, i.file = j.file
      PROVE  i = j
  <2>1. i = j \/ i.end < j.start \/ j.end < i.start
    BY <1>2, <1>8 DEF SessionIntervals
  <2>2. i.start <= t /\ t < i.end /\ j.start <= t /\ t < j.end
    BY <1>2 DEF Covers
  <2>3. i.start \in Nat /\ i.end \in Nat /\ j.start \in Nat /\ j.end \in Nat
    BY <1>2
  <2> QED
    BY <1>1, <2>1, <2>2, <2>3
<1>9. IsFiniteSet(A)
  <2>1. A \in SUBSET intervals /\ IsFiniteSet(intervals)
    BY <1>2 DEF SessionIntervals
  <2> QED
    BY <2>1, FS_Subset
<1> HIDE DEF A, L
<1>10. f \in Bijection(A, L)
  BY <1>6, <1>7, <1>8 DEF Bijection, Injection, Surjection, IsInjective
<1>11. IsFiniteSet(L) /\ Cardinality(L) = Cardinality(A)
  BY <1>9, <1>10, FS_Bijection DEF ExistsBijection
<1>12. L = {} <=> A = {}
  BY <1>6, <1>7
<1>13. Cardinality(L) \in Nat /\ (Cardinality(L) = 0 <=> L = {})
  BY <1>11, FS_CardinalityType, FS_EmptySet
<1> QED
  BY <1>5, <1>11, <1>12, <1>13 DEF A, L

(* Between two changes nothing changes. *)
LEMMA NothingBetween ==
  ASSUME IntervalsInPeriod, NEW t \in Since .. Until,
         NEW past, past = {u \in DOMAIN Chart : u <= t}
  PROVE  /\ past = {} => \A h \in Harnesses : Active(h, t) = {}
         /\ past # {} => /\ Max(past) \in DOMAIN Chart /\ Max(past) \in Since .. Until
                         /\ Max(past) <= t
                         /\ \A h \in Harnesses : Active(h, Max(past)) = Active(h, t)
         /\ t \in DOMAIN Chart => Max(past) = t /\ past # {}
<1>1. /\ Since \in Nat /\ Until \in Nat /\ t \in Nat
      /\ DOMAIN Chart \subseteq Since .. Until
      /\ \A i \in intervals : i.start \in DOMAIN Chart
      /\ \A i \in intervals : i.end <= Until => i.end \in DOMAIN Chart
  BY TTLFields, ChartCounts
<1>2. \A i \in intervals : i.start \in Nat /\ i.end \in Nat
  BY DEF IntervalsInPeriod
<1>3. \A h \in Harnesses : \A i \in Of(h) : i \in intervals
  BY DEF Of
<1>4. \A i \in intervals : /\ i.start <= t => i.start \in past
                           /\ i.end <= t => i.end \in past
  <2>1. \A i \in intervals : i.end <= t => i.end <= Until
    BY <1>1, <1>2
  <2> QED
    BY <1>1, <2>1
<1>5. ASSUME past = {}, NEW h \in Harnesses
      PROVE  Active(h, t) = {}
  BY <1>3, <1>4, <1>5 DEF Active, Covers
<1>6. ASSUME past # {}
      PROVE  /\ Max(past) \in past /\ \A u \in past : u <= Max(past)
             /\ Max(past) \in DOMAIN Chart /\ Max(past) \in Since .. Until
             /\ Max(past) \in Nat /\ Max(past) <= t
  <2>1. past \in SUBSET (0 .. t) /\ past \subseteq Since .. Until
    BY <1>1
  <2>2. Max(past) \in past /\ \A u \in past : u <= Max(past)
    BY <1>1, <1>6, <2>1, MaximumExists
  <2> QED
    BY <1>1, <2>1, <2>2
<1>7. ASSUME past # {}, NEW h \in Harnesses
      PROVE  Active(h, Max(past)) = Active(h, t)
  <2> DEFINE m == Max(past)
  <2>1. m \in Nat /\ m <= t /\ \A u \in past : u <= m
    BY <1>6, <1>7
  <2> HIDE DEF m
  <2>2. ASSUME NEW i \in intervals
        PROVE  Covers(i, m) <=> Covers(i, t)
    <3>1. i.start <= m <=> i.start <= t
      BY <1>1, <1>2, <1>4, <2>1
    <3>2. m < i.end <=> t < i.end
      <4>1. i.end <= t => i.end <= m
        BY <1>4, <2>1
      <4> QED
        BY <1>1, <1>2, <2>1, <4>1
    <3> QED
      BY <3>1, <3>2 DEF Covers
  <2>3. Active(h, m) = Active(h, t)
    BY <1>3, <2>2 DEF Active
  <2> QED
    BY <2>3 DEF m
<1>8. ASSUME t \in DOMAIN Chart
      PROVE  Max(past) = t /\ past # {}
  <2>1. t \in past
    BY <1>1, <1>8
  <2>2. t <= Max(past) /\ Max(past) <= t /\ Max(past) \in Nat
    BY <1>6, <2>1
  <2> QED
    BY <1>1, <2>1, <2>2
<1> QED
  BY <1>5, <1>6, <1>7, <1>8

-----------------------------------------------------------------------------
(* What the timeline says at each instant. *)

Drawn ==
    step # "read" =>
        /\ Len(content) = Len(HarnessOf) /\ timeline = Chart

(* The latest change up to t, and the agents of then and of t. *)
LEMMA TimelineSays ==
  ASSUME SessionIntervals, Contained, Drawn, step # "read", NEW t \in Since .. Until,
         NEW past, past = {u \in DOMAIN timeline : u <= t}
  PROVE  /\ DOMAIN timeline \subseteq Since .. Until
         /\ past = {} => \A h \in Harnesses : Cardinality(AliveAt(h, t)) = 0
         /\ past # {} => /\ Max(past) \in DOMAIN timeline
                         /\ \A h \in Harnesses :
                               timeline[Max(past)][h] = Cardinality(AliveAt(h, t))
                         /\ Total(timeline, Max(past)) = Agents(t)
         /\ t \in DOMAIN timeline => Max(past) = t /\ past # {}
         /\ Agents(t) \in Nat
         /\ past = {} => Agents(t) = 0
<1>1. IntervalsInPeriod /\ Len(content) = Len(HarnessOf) /\ timeline = Chart
  BY DEF SessionIntervals, IntervalsInPeriod, Drawn
<1>2. /\ DOMAIN Chart \subseteq Since .. Until
      /\ \A at \in DOMAIN Chart, h \in Harnesses : Chart[at][h] = Cardinality(Active(h, at))
  BY <1>1, ChartCounts
<1>3. past = {u \in DOMAIN Chart : u <= t}
  BY <1>1
<1>4. /\ past = {} => \A h \in Harnesses : Active(h, t) = {}
      /\ past # {} => /\ Max(past) \in DOMAIN Chart
                      /\ \A h \in Harnesses : Active(h, Max(past)) = Active(h, t)
      /\ t \in DOMAIN Chart => Max(past) = t /\ past # {}
  BY <1>1, <1>3, NothingBetween
<1>5. \A h \in Harnesses :
         /\ Cardinality(AliveAt(h, t)) = Cardinality(Active(h, t))
         /\ Cardinality(AliveAt(h, t)) \in Nat
         /\ Active(h, t) = {} <=> Cardinality(AliveAt(h, t)) = 0
  BY <1>1, ActiveIsAlive
<1>6. past # {} => \A h \in Harnesses : Chart[Max(past)][h] = Cardinality(AliveAt(h, t))
  BY <1>2, <1>4, <1>5
<1>7. "codex" \in Harnesses /\ "pi" \in Harnesses
  BY DEF Harnesses
<1>8. past # {} => Total(Chart, Max(past)) = Agents(t)
  BY <1>6, <1>7 DEF Total, Agents
<1>9. Agents(t) \in Nat /\ (past = {} => Agents(t) = 0)
  BY <1>4, <1>5, <1>7 DEF Agents
<1> QED
  BY <1>1, <1>2, <1>4, <1>5, <1>6, <1>8, <1>9

LEMMA TimelineFollows ==
  ASSUME SessionIntervals, Contained, Drawn
  PROVE  TimelineIsExact
<1> SUFFICES ASSUME step # "read"
             PROVE  TimelineIsExact
  BY DEF TimelineIsExact
<1> DEFINE past(t) == {u \in DOMAIN timeline : u <= t}
           totals == {Total(timeline, at) : at \in DOMAIN timeline}
           agents == {Agents(t) : t \in Since .. Until}
<1>1. Since \in Nat /\ Until \in Nat /\ Since <= Until
  BY TTLFields
<1>2. ASSUME NEW t \in Since .. Until, NEW h \in Harnesses
      PROVE  Cardinality(AliveAt(h, t)) = IF past(t) = {} THEN 0 ELSE timeline[Max(past(t))][h]
  BY TimelineSays
<1>3. ASSUME NEW t \in Since .. Until
      PROVE  /\ Agents(t) \in Nat
             /\ Agents(t) = 0 \/ Agents(t) \in totals
  <2>1. CASE past(t) = {}
    BY <2>1, TimelineSays
  <2>2. CASE past(t) # {}
    BY <2>2, TimelineSays
  <2> QED
    BY <2>1, <2>2
<1>4. ASSUME NEW at \in DOMAIN timeline
      PROVE  at \in Since .. Until /\ Total(timeline, at) = Agents(at)
  <2>1. at \in Since .. Until
    <3>1. Since \in Since .. Until
      BY <1>1
    <3> QED
      BY <3>1, TimelineSays
  <2> QED
    BY <2>1, TimelineSays
<1>5. agents \in SUBSET Nat /\ totals \subseteq agents /\ agents \subseteq {0} \cup totals
  BY <1>3, <1>4
<1>6. PICK m \in agents : \A n \in agents : n <= m
  <2> DEFINE b == Cardinality(Files) + Cardinality(Files)
  <2>1. IsFiniteSet(Files) /\ Cardinality(Files) \in Nat
    BY FilesAre, FS_Interval, FS_CardinalityType
  <2>2. ASSUME NEW t \in Since .. Until, NEW h \in Harnesses
        PROVE  Cardinality(AliveAt(h, t)) \in Nat /\ Cardinality(AliveAt(h, t)) <= Cardinality(Files)
    <3>1. AliveAt(h, t) \in SUBSET Files /\ Cardinality(AliveAt(h, t)) \in Nat
      BY ActiveIsAlive DEF Drawn
    <3> QED
      BY <2>1, <3>1, FS_Subset
  <2>3. \A t \in Since .. Until : Agents(t) \in 0 .. b
    <3>1. "codex" \in Harnesses /\ "pi" \in Harnesses
      BY DEF Harnesses
    <3>2. \A t \in Since .. Until :
             /\ Cardinality(AliveAt("codex", t)) \in 0 .. Cardinality(Files)
             /\ Cardinality(AliveAt("pi", t)) \in 0 .. Cardinality(Files)
      BY <2>1, <2>2, <3>1
    <3> QED
      BY <2>1, <3>2 DEF Agents
  <2>4. agents \in SUBSET (0 .. b) /\ agents # {} /\ b \in Nat
    <3>1. Since \in Since .. Until
      BY <1>1
    <3> QED
      BY <2>1, <2>3, <3>1
  <2> HIDE DEF agents, b
  <2>5. Max(agents) \in agents /\ \A n \in agents : n <= Max(agents)
    BY <2>4, MaximumExists
  <2> QED
    BY <2>5
<1> HIDE DEF agents, totals
<1>7. Max(agents) = m
  BY <1>5, <1>6, MaximumIs
<1>8. Max({0} \cup totals) = m
  <2>1. m \in Nat /\ {0} \cup totals \in SUBSET Nat
    BY <1>5, <1>6
  <2>2. m \in {0} \cup totals /\ \A n \in {0} \cup totals : n <= m
    BY <1>5, <1>6, <2>1
  <2> QED
    BY <2>1, <2>2, MaximumIs
<1>9. Peak = Max(agents)
  BY <1>7, <1>8 DEF Peak, totals
<1> QED
  BY <1>2, <1>9 DEF TimelineIsExact, agents, Agents


-----------------------------------------------------------------------------
(* The replay. *)

Alive(t) == UNION {AliveAt(h, t) : h \in Harnesses}

(* The moments a replay can show, and those it has shown or will show. *)
Moments ==
    IF mode = "candid" THEN Sorted(samples, Before)
                       ELSE [i \in DOMAIN Points(timeline) |-> [at |-> Points(timeline)[i]]]
Shown == Len(examples)
Left == Len(queue)
Failed(s) == {i \in 1 .. Len(s) : s[i].status = "error"}
Errors == Failed(examples)
Verdicts == counters.admitted + counters.fallbacks

Entries == [file : Nat, at : Time]
Outcomes == [at : Time, count : Nat, status : {"error", "written"}]

(* done has been replayed and left has not, of the newest bound of moments. *)
Aligned(done, left, moments, bound) ==
    /\ done \in Seq(Outcomes) /\ left \in Seq(Entries)
    /\ Len(done) + Len(left) = Min({bound, Len(moments)}) /\ Len(moments) \in Nat
    /\ \A i \in 1 .. Len(left) : left[i].at = moments[Len(moments) - Len(left) + i].at
    /\ \A i \in 1 .. Len(done) :
          done[i].at = moments[Len(moments) - Len(done) - Len(left) + i].at

(* It shows as many agents as were alive, and some were. *)
Told(e) == e.count = Cardinality(Alive(e.at)) /\ e.count > 0

Replaying ==
    /\ Aligned(examples, queue, Moments, maxExamples)
    /\ \A i \in 1 .. Shown : Told(examples[i])

Counting ==
    /\ counters \in [attempted : Nat, admitted : Nat, fallbacks : Nat, errors : Nat]
    /\ counters.errors = Cardinality(Errors)
    /\ mode = "candid" =>
         /\ counters.attempted = Shown + Left
         /\ step \in {"stage1", "done"} =>
              Verdicts <= Shown /\ Shown <= Verdicts + counters.errors
         /\ step = "stage2" =>
              /\ Left > 0
              /\ Verdicts <= Shown + 1 /\ Shown + 1 <= Verdicts + counters.errors

Modes ==
    /\ step \in {"read", "stage1", "stage2", "done"}
    /\ mode \in {"candid", "generic"} /\ maxExamples \in Nat
    /\ mode = "generic" => step # "stage1"
    /\ step = "done" => Left = 0
    /\ step = "read" =>
         /\ examples = <<>>
         /\ counters = [attempted |-> 0, admitted |-> 0, fallbacks |-> 0, errors |-> 0]

SimInv ==
    /\ SessionIntervals /\ SessionSamples /\ Contained /\ Drawn
    /\ Modes /\ (step # "read" => Replaying /\ Counting)

-----------------------------------------------------------------------------
(* Moments *)

(* The agents alive are counted by harness. *)
LEMMA AgentsAlive ==
  ASSUME SessionIntervals, Contained, Len(content) = Len(HarnessOf),
         NEW t \in Since .. Until
  PROVE  /\ Cardinality(Alive(t)) = Agents(t) /\ Agents(t) \in Nat
         /\ Alive(t) # {} => Agents(t) > 0
<1> DEFINE A == AliveAt("codex", t)
           B == AliveAt("pi", t)
<1>1. "codex" \in Harnesses /\ "pi" \in Harnesses
      /\ \A h \in Harnesses : h = "codex" \/ h = "pi"
  BY DEF Harnesses
<1>2. Alive(t) = A \cup B
  BY <1>1 DEF Alive
<1>3. A \cap B = {}
  BY DEF AliveAt
<1>4. IsFiniteSet(A) /\ IsFiniteSet(B) /\ Cardinality(A) \in Nat /\ Cardinality(B) \in Nat
      /\ (A = {} <=> Cardinality(A) = 0) /\ (B = {} <=> Cardinality(B) = 0)
  BY <1>1, ActiveIsAlive
<1>5. Agents(t) = Cardinality(A) + Cardinality(B)
  BY DEF Agents
<1> HIDE DEF A, B
<1>6. Cardinality(Alive(t)) = Cardinality(A) + Cardinality(B) - Cardinality(A \cap B)
  BY <1>2, <1>4, FS_Union
<1>7. Cardinality(A \cap B) = 0
  BY <1>3, FS_EmptySet
<1> QED
  BY <1>2, <1>4, <1>5, <1>6, <1>7

(* The sorted samples are samples. *)
LEMMA SortedSamples ==
  ASSUME SessionSamples, NEW s, s = Sorted(samples, Before)
  PROVE  /\ s \in Seq(samples) /\ Len(s) \in Nat
         /\ \A i \in 1 .. Len(s) : s[i] \in samples
<1>1. \A x \in Samples : x.at \in Nat /\ x.file \in Nat
                         /\ x = [file |-> x.file, at |-> x.at]
  BY FilesAre, SimulationAssumption DEF Samples, Time
<1>2. samples \in SUBSET Samples
  BY DEF SessionSamples
<1>3. IsFiniteSet(Samples)
  <2> DEFINE g == [p \in Files \X Time |-> [file |-> p[1], at |-> p[2]]]
  <2>1. IsFiniteSet(Files) /\ IsFiniteSet(Time)
    BY FilesAre, SimulationAssumption, FS_Interval DEF Time
  <2>2. IsFiniteSet(Files \X Time)
    BY <2>1, FS_Product
  <2>3. g \in [Files \X Time -> Samples]
    BY DEF Samples
  <2>4. \A x \in Samples : \E p \in Files \X Time : g[p] = x
    <3> SUFFICES ASSUME NEW x \in Samples
                 PROVE  \E p \in Files \X Time : g[p] = x
      OBVIOUS
    <3>1. <<x.file, x.at>> \in Files \X Time /\ x = [file |-> x.file, at |-> x.at]
      BY DEF Samples
    <3> QED
      BY <3>1
  <2>5. g \in Surjection(Files \X Time, Samples)
    BY <2>3, <2>4 DEF Surjection
  <2> QED
    BY <2>2, <2>5, FS_Surjection
<1>4. IsFiniteSet(samples)
  BY <1>2, <1>3, FS_Subset
<1>5. \A x, y \in samples : <<x, y>> \in Before <=>
         x.at < y.at \/ (x.at = y.at /\ x.file < y.file)
  BY <1>2 DEF Before
<1>6. StrictOrder(samples, Before)
  <2>1. \A x \in samples : <<x, x>> \notin Before
    BY <1>1, <1>2, <1>5
  <2>2. \A x, y, z \in samples : <<x, y>> \in Before /\ <<y, z>> \in Before => <<x, z>> \in Before
    BY <1>1, <1>2, <1>5
  <2>3. \A x, y \in samples : x = y \/ <<x, y>> \in Before \/ <<y, x>> \in Before
    <3> SUFFICES ASSUME NEW x \in samples, NEW y \in samples,
                        <<x, y>> \notin Before, <<y, x>> \notin Before
                 PROVE  x = y
      OBVIOUS
    <3>1. x.at \in Nat /\ y.at \in Nat /\ x.file \in Nat /\ y.file \in Nat
      BY <1>1, <1>2
    <3>2. x.at = y.at /\ x.file = y.file
      BY <1>5, <3>1
    <3>3. x = [file |-> x.file, at |-> x.at] /\ y = [file |-> y.file, at |-> y.at]
      BY <1>1, <1>2
    <3> QED
      BY <3>2, <3>3
  <2> QED
    BY <2>1, <2>2, <2>3 DEF StrictOrder
<1>7. s \in Seq(samples) /\ Len(s) \in Nat
  BY <1>4, <1>6, SortedIsSorted
<1> QED
  BY <1>7

(* Every moment lies in the period and finds somebody alive. *)
LEMMA MomentsAlive ==
  ASSUME SessionIntervals, SessionSamples, Contained, Drawn, step # "read",
         mode \in {"candid", "generic"}
  PROVE  /\ Len(Moments) \in Nat
         /\ \A i \in 1 .. Len(Moments) :
               /\ Moments[i].at \in Since .. Until /\ Moments[i].at \in Time
               /\ Alive(Moments[i].at) # {}
<1>1. /\ Len(content) = Len(HarnessOf) /\ TTL \in Nat /\ TTL > 0
      /\ \A t \in Time : t \in Nat
  BY TTLFields, SimulationAssumption DEF Drawn, Time
<1>2. CASE mode = "candid"
  <2> DEFINE s == Sorted(samples, Before)
  <2>1. Moments = s
    BY <1>2 DEF Moments
  <2>2. Len(s) \in Nat /\ \A i \in 1 .. Len(s) : s[i] \in samples
    BY SortedSamples
  <2>3. ASSUME NEW x \in samples
        PROVE  x.at \in Since .. Until /\ x.at \in Time /\ Alive(x.at) # {}
    <3>1. /\ x.at \in Since .. Until /\ x.at \in Time /\ x.file \in Files
          /\ x.at \in content[x.file].observed /\ x.at \in Nat
      BY <1>1 DEF SessionSamples, Samples
    <3>2. HarnessOf[x.file] \in Harnesses
      BY <3>1, FilesAre
    <3>3. x.file \in AliveAt(HarnessOf[x.file], x.at)
      <4>1. x.at <= x.at /\ x.at < x.at + TTL
        BY <1>1, <3>1
      <4> QED
        BY <3>1, <4>1 DEF AliveAt
    <3> QED
      BY <3>1, <3>2, <3>3 DEF Alive
  <2> HIDE DEF s
  <2> QED
    BY <2>1, <2>2, <2>3
<1>3. CASE mode = "generic"
  <2> DEFINE P == {at \in DOMAIN timeline : Total(timeline, at) > 0}
             p == Sorted(P, Earlier)
             b == [i \in DOMAIN p |-> [at |-> p[i]]]
  <2>1. Moments = b
    BY <1>3 DEF Moments, Points
  <2>2. \A at \in DOMAIN timeline : at \in Since .. Until /\ at \in Time
    <3>1. IntervalsInPeriod /\ timeline = Chart
      BY DEF SessionIntervals, IntervalsInPeriod, Drawn
    <3>2. \A at \in DOMAIN timeline : at \in Since .. Until
      BY <3>1, ChartCounts
    <3>3. \A t \in Since .. Until : t \in Time
      BY SimulationAssumption DEF Time
    <3> QED
      BY <3>2, <3>3
  <2>3. P \in SUBSET Time
    BY <2>2
  <2>4. /\ p \in Seq(P) /\ Len(p) \in Nat /\ \A i \in 1 .. Len(p) : p[i] \in P
    BY <2>3, SortedTimes
  <2>5. ASSUME NEW at \in P
        PROVE  at \in Since .. Until /\ at \in Time /\ Alive(at) # {}
    <3>1. at \in Since .. Until /\ at \in Time
      BY <2>2
    <3>2. Total(timeline, at) = Agents(at)
      BY <3>1, TimelineSays
    <3>3. Agents(at) # 0 /\ Cardinality(Alive(at)) = Agents(at)
      BY <1>1, <3>1, <3>2, AgentsAlive
    <3> QED
      BY <3>1, <3>3, FS_EmptySet
  <2> HIDE DEF P, p
  <2>6. DOMAIN p = 1 .. Len(p) /\ Len(b) = Len(p)
        /\ \A i \in 1 .. Len(p) : b[i].at = p[i]
    BY <2>4
  <2> HIDE DEF b
  <2> QED
    BY <2>1, <2>4, <2>5, <2>6
<1> QED
  BY <1>2, <1>3


-----------------------------------------------------------------------------
(* The invariant *)

(* The lesser of two numbers. *)
LEMMA MinimumIs ==
  ASSUME NEW a \in Nat, NEW b \in Nat
  PROVE  Min({a, b}) = IF a <= b THEN a ELSE b
<1> DEFINE m == IF a <= b THEN a ELSE b
<1>1. m \in {a, b} /\ \A y \in {a, b} : m =< y
  OBVIOUS
<1>2. Min({a, b}) \in {a, b} /\ \A y \in {a, b} : Min({a, b}) =< y
  BY <1>1 DEF Min
<1> QED
  BY <1>1, <1>2

(* r is the end of s, at most n elements long. *)
IsNewest(S, s, n, r) ==
    /\ r \in Seq(S) /\ Len(r) = Min({n, Len(s)}) /\ Len(r) \in Nat
    /\ \A i \in 1 .. Len(r) : r[i] = s[Len(s) - Len(r) + i]

(* s[-n:], and nothing for n = 0. *)
LEMMA NewestAre ==
  ASSUME NEW S, NEW s \in Seq(S), NEW n \in Nat, NEW r, r = Newest(s, n)
  PROVE  IsNewest(S, s, n, r)
<1> DEFINE m == IF n >= Len(s) THEN 1 ELSE Len(s) - n + 1
           k == IF n >= Len(s) THEN Len(s) ELSE n
<1>1. /\ Len(s) \in Nat /\ m \in 1 .. Len(s) + 1 /\ k = Len(s) - m + 1 /\ k \in Nat
      /\ \A i \in m .. Len(s) : s[i] \in S
  OBVIOUS
<1>2. r = SubSeq(s, m, Len(s))
  BY DEF Newest
<1>3. k = Min({n, Len(s)})
  BY <1>1, MinimumIs
<1> HIDE DEF m, k
<1>4. /\ r \in Seq(S) /\ Len(r) = IF m <= Len(s) THEN Len(s) - m + 1 ELSE 0
      /\ \A i \in 1 .. Len(s) - m + 1 : r[i] = s[m + i - 1]
  BY <1>1, <1>2, SubSeqProperties
<1>5. Len(r) = k
  BY <1>1, <1>4
<1>6. \A i \in 1 .. k : m + i - 1 = Len(s) - k + i
  BY <1>1
<1> QED
  BY <1>1, <1>3, <1>4, <1>5, <1>6 DEF IsNewest

(* The head of what is left is a moment, and replaying it keeps the rest. *)
LEMMA AlignedStep ==
  ASSUME NEW d, NEW l, NEW M, NEW b \in Nat, Aligned(d, l, M, b), l # <<>>,
         NEW x \in Outcomes, x.at = Head(l).at
  PROVE  /\ Aligned(Append(d, x), Tail(l), M, b)
         /\ Len(Append(d, x)) = Len(d) + 1 /\ Len(Tail(l)) = Len(l) - 1
         /\ \A i \in 1 .. Len(d) : Append(d, x)[i] = d[i]
         /\ Append(d, x)[Len(d) + 1] = x
<1>1. /\ d \in Seq(Outcomes) /\ l \in Seq(Entries) /\ Len(M) \in Nat
      /\ Len(d) + Len(l) = Min({b, Len(M)})
      /\ \A i \in 1 .. Len(l) : l[i].at = M[Len(M) - Len(l) + i].at
      /\ \A i \in 1 .. Len(d) : d[i].at = M[Len(M) - Len(d) - Len(l) + i].at
  BY DEF Aligned
<1> DEFINE n == Len(d)
           q == Len(l)
           N == Len(M)
           e == Append(d, x)
           r == Tail(l)
<1>2. n \in Nat /\ q \in Nat /\ q > 0 /\ N \in Nat
  BY <1>1, EmptySeq, LenProperties
<1>3. /\ e \in Seq(Outcomes) /\ Len(e) = n + 1
      /\ e[n + 1] = x /\ \A i \in 1 .. n : e[i] = d[i]
  BY <1>1, AppendProperties
<1>4. /\ r \in Seq(Entries) /\ Len(r) = q - 1
      /\ \A i \in 1 .. q - 1 : r[i] = l[i + 1]
      /\ Head(l) = l[1]
  BY <1>1, HeadTailProperties
<1>5. /\ n + q = Min({b, N})
      /\ \A i \in 1 .. q : l[i].at = M[N - q + i].at
      /\ \A i \in 1 .. n : d[i].at = M[N - n - q + i].at
  BY <1>1
<1> HIDE DEF n, q, N, e, r
<1>6. (n + 1) + (q - 1) = Min({b, N})
  BY <1>2, <1>5
<1>7. \A i \in 1 .. q - 1 : r[i].at = M[N - (q - 1) + i].at
  <2> SUFFICES ASSUME NEW i \in 1 .. q - 1
               PROVE  r[i].at = M[N - (q - 1) + i].at
    OBVIOUS
  <2>1. i + 1 \in 1 .. q /\ N - q + (i + 1) = N - (q - 1) + i
    BY <1>2
  <2>2. l[i + 1].at = M[N - q + (i + 1)].at
    BY <1>5, <2>1
  <2> QED
    BY <1>4, <2>1, <2>2
<1>8. \A i \in 1 .. n + 1 : e[i].at = M[N - (n + 1) - (q - 1) + i].at
  <2> SUFFICES ASSUME NEW i \in 1 .. n + 1
               PROVE  e[i].at = M[N - (n + 1) - (q - 1) + i].at
    OBVIOUS
  <2>1. N - (n + 1) - (q - 1) + i = N - n - q + i
    BY <1>2
  <2>2. CASE i = n + 1
    <3>1. N - n - q + i = N - q + 1 /\ 1 \in 1 .. q
      BY <1>2, <2>2
    <3>2. l[1].at = M[N - q + 1].at
      BY <1>5, <3>1
    <3> QED
      BY <1>3, <1>4, <2>1, <2>2, <3>1, <3>2
  <2>3. CASE i # n + 1
    <3>1. i \in 1 .. n
      BY <1>2, <2>3
    <3> QED
      BY <1>3, <1>5, <2>1, <3>1
  <2> QED
    BY <2>2, <2>3
<1>9. Aligned(e, r, M, b)
  <2>1. Len(M) \in Nat /\ Len(M) = N
    BY <1>2 DEF N
  <2> QED
    BY <1>3, <1>4, <1>6, <1>7, <1>8, <2>1 DEF Aligned
<1> QED
  BY <1>3, <1>4, <1>9 DEF n, q, e, r

(* The moment at the head of what is left. *)
LEMMA AlignedHead ==
  ASSUME NEW d, NEW l, NEW M, NEW b \in Nat, Aligned(d, l, M, b), l # <<>>
  PROVE  /\ Len(d) \in Nat /\ Len(l) \in Nat /\ Len(l) > 0
         /\ Head(l) \in Entries
         /\ \E k \in 1 .. Len(M) : Head(l).at = M[k].at
<1>1. /\ d \in Seq(Outcomes) /\ l \in Seq(Entries) /\ Len(M) \in Nat
      /\ Len(d) + Len(l) = Min({b, Len(M)})
      /\ \A i \in 1 .. Len(l) : l[i].at = M[Len(M) - Len(l) + i].at
  BY DEF Aligned
<1>2. Len(d) \in Nat /\ Len(l) \in Nat /\ Len(l) > 0
  BY <1>1, EmptySeq, LenProperties
<1>3. Head(l) = l[1] /\ 1 \in 1 .. Len(l) /\ l[1] \in Entries
  BY <1>1, <1>2
<1>4. Len(l) <= Len(M)
  BY <1>1, <1>2, MinimumIs
<1>5. Len(M) - Len(l) + 1 \in 1 .. Len(M)
  BY <1>1, <1>2, <1>4
<1> QED
  BY <1>1, <1>2, <1>3, <1>5

(* An example more adds its place to the errors exactly if it is one. *)
LEMMA ErrorsStep ==
  ASSUME NEW d \in Seq(Outcomes), NEW x \in Outcomes, NEW e \in Seq(Outcomes),
         Len(e) = Len(d) + 1, e[Len(d) + 1] = x, \A i \in 1 .. Len(d) : e[i] = d[i]
  PROVE  /\ Cardinality(Failed(d)) \in Nat
         /\ x.status = "error" => Cardinality(Failed(e)) = Cardinality(Failed(d)) + 1
         /\ x.status # "error" => Cardinality(Failed(e)) = Cardinality(Failed(d))
<1> DEFINE n == Len(d)
           E == Failed(d)
           F == Failed(e)
<1>1. n \in Nat
  OBVIOUS
<1>2. /\ Len(e) = n + 1 /\ e[n + 1] = x /\ \A i \in 1 .. n : e[i] = d[i]
      /\ E = {i \in 1 .. n : d[i].status = "error"}
  BY DEF Failed
<1>3. F = {i \in 1 .. n + 1 : e[i].status = "error"}
  BY <1>2 DEF Failed
<1> HIDE DEF n, E, F
<1>4. IsFiniteSet(E) /\ Cardinality(E) \in Nat
  <2>1. IsFiniteSet(1 .. n)
    BY <1>1, FS_Interval
  <2>2. E \in SUBSET (1 .. n)
    BY <1>2
  <2> QED
    BY <2>1, <2>2, FS_Subset, FS_CardinalityType
<1>5. \A i : i \in 1 .. n + 1 <=> (i \in 1 .. n \/ i = n + 1)
  BY <1>1
<1>6. n + 1 \notin 1 .. n
  BY <1>1
<1>7. n + 1 \notin E
  BY <1>2, <1>6
<1>8. CASE x.status = "error"
  <2>1. F = E \cup {n + 1}
    BY <1>2, <1>3, <1>5, <1>8
  <2> QED
    BY <1>4, <1>7, <1>8, <2>1, FS_AddElement DEF E, F
<1>9. CASE x.status # "error"
  <2>1. F = E
    BY <1>2, <1>3, <1>5, <1>9
  <2> QED
    BY <1>4, <1>9, <2>1 DEF E, F
<1> QED
  BY <1>4, <1>8, <1>9 DEF E, F

(* What was parsed stays true while it stays as it is. *)
LEMMA ParsedStays ==
  ASSUME UNCHANGED parsed
  PROVE  /\ SessionIntervals => SessionIntervals'
         /\ SessionSamples => SessionSamples'
         /\ Contained => Contained'
         /\ Chart' = Chart
         /\ \A t : Alive(t)' = Alive(t)
  BY DEF parsed, SessionIntervals, SessionSamples, Contained, Chart, Of, Alive, AliveAt

LEMMA InitSimInv == Init => SimInv
<1> SUFFICES ASSUME Init
             PROVE  SimInv
  OBVIOUS
<1>1. <<>> \in Seq(Contents) /\ Len(<<>>) = 0 /\ IsFiniteSet({}) /\ 1 .. 0 = {}
  BY FS_EmptySet
<1>2. SessionIntervals
  BY <1>1 DEF Init, SessionIntervals
<1>3. SessionSamples
  BY DEF Init, SessionSamples
<1>4. Contained
  BY <1>1, FilesAre DEF Init, Contained
<1>5. Modes
  BY SimulationAssumption DEF Init, Modes
<1> QED
  BY <1>2, <1>3, <1>4, <1>5 DEF Init, SimInv, Drawn

LEMMA ReadKeeps == SimInv /\ ReadFile => SimInv'
<1> SUFFICES ASSUME SimInv, ReadFile
             PROVE  SimInv'
  OBVIOUS
<1>1. SessionIntervals' /\ SessionSamples' /\ Contained'
  BY ReadFileKeeps DEF SimInv
<1>2. step' = "read" /\ Modes'
  BY DEF SimInv, Modes, ReadFile, Left
<1> QED
  BY <1>1, <1>2 DEF SimInv, Drawn

LEMMA DrawKeeps == SimInv /\ Draw => SimInv'
<1> SUFFICES ASSUME SimInv, Draw
             PROVE  SimInv'
  OBVIOUS
<1>1. UNCHANGED parsed /\ mode' = mode /\ maxExamples' = maxExamples /\ examples' = examples
      /\ timeline' = Chart /\ step = "read" /\ Len(content) = Len(HarnessOf)
  BY DEF Draw
<1>2. SessionIntervals' /\ SessionSamples' /\ Contained' /\ Chart' = Chart
  BY <1>1, ParsedStays DEF SimInv
<1>3. /\ examples = <<>> /\ mode \in {"candid", "generic"} /\ maxExamples \in Nat
      /\ counters = [attempted |-> 0, admitted |-> 0, fallbacks |-> 0, errors |-> 0]
  BY <1>1 DEF SimInv, Modes
<1>4. step' \in {"stage1", "stage2"} /\ (step' = "stage1" <=> mode = "candid")
  BY <1>3 DEF Draw
<1>5. Drawn'
  BY <1>1, <1>2 DEF Drawn, parsed
<1>6. Modes'
  BY <1>1, <1>3, <1>4 DEF Modes
<1>8. /\ queue' \in Seq(Entries) /\ Len(queue') \in Nat
      /\ Len(queue') = Min({maxExamples, Len(Moments')}) /\ Len(Moments') \in Nat
      /\ \A i \in 1 .. Len(queue') : queue'[i].at = Moments'[Len(Moments') - Len(queue') + i].at
  <2>1. CASE mode = "candid"
    <3> DEFINE s == Sorted(samples, Before)
    <3>1. Moments' = s /\ queue' = Newest(s, maxExamples)
      BY <1>1, <2>1 DEF Moments, Draw, parsed
    <3>2. s \in Seq(samples) /\ Len(s) \in Nat
      BY SortedSamples DEF SimInv
    <3> HIDE DEF s
    <3>3. /\ queue' \in Seq(samples) /\ Len(queue') \in Nat
          /\ Len(queue') = Min({maxExamples, Len(s)})
          /\ \A i \in 1 .. Len(queue') : queue'[i] = s[Len(s) - Len(queue') + i]
      <4>1. \A S : \A z \in Seq(S), n \in Nat : IsNewest(S, z, n, Newest(z, n))
        BY NewestAre
      <4>2. IsNewest(samples, s, maxExamples, queue')
        BY <1>3, <3>1, <3>2, <4>1
      <4> QED
        BY <4>2 DEF IsNewest
    <3>4. \A x \in samples : x \in Entries
      <4>1. Files \subseteq Nat
        BY FilesAre
      <4> QED
        BY <4>1 DEF SimInv, SessionSamples, Samples, Entries
    <3>5. queue' \in Seq(Entries)
      BY <3>3, <3>4
    <3> QED
      BY <3>1, <3>2, <3>3, <3>5
  <2>2. CASE mode = "generic"
    <3> DEFINE p == Points(Chart)
               N == Newest(p, maxExamples)
               M == Moments'
    <3>1. queue' = [i \in 1 .. Len(N) |-> [file |-> 0, at |-> N[i]]]
      BY <1>3, <2>2 DEF Draw
    <3>2. M = [i \in DOMAIN p |-> [at |-> p[i]]]
      BY <1>1, <2>2 DEF Moments
    <3>3. p \in Seq(Time)
      <4> DEFINE P == {at \in DOMAIN Chart : Total(Chart, at) > 0}
      <4>1. DOMAIN Chart \subseteq Since .. Until
        <5>1. IntervalsInPeriod
          BY DEF SimInv, SessionIntervals, IntervalsInPeriod
        <5> QED
          BY <5>1, ChartCounts
      <4>2. \A t \in Since .. Until : t \in Time
        BY SimulationAssumption DEF Time
      <4>3. P \in SUBSET Time
        BY <4>1, <4>2
      <4>4. p = Sorted(P, Earlier)
        BY DEF Points
      <4> HIDE DEF P, p
      <4>5. p \in Seq(P)
        BY <4>3, <4>4, SortedTimes
      <4> QED
        BY <4>3, <4>5
    <3> HIDE DEF p
    <3>4. /\ N \in Seq(Time) /\ Len(N) = Min({maxExamples, Len(p)}) /\ Len(N) \in Nat
          /\ \A i \in 1 .. Len(N) : N[i] = p[Len(p) - Len(N) + i]
      <4>1. \A S : \A z \in Seq(S), n \in Nat : IsNewest(S, z, n, Newest(z, n))
        BY NewestAre
      <4>2. IsNewest(Time, p, maxExamples, Newest(p, maxExamples))
        BY <1>3, <3>3, <4>1
      <4> QED
        BY <4>2 DEF IsNewest
    <3>5. Len(p) \in Nat /\ DOMAIN p = 1 .. Len(p)
      BY <3>3
    <3> HIDE DEF N, M
    <3>6. Len(M) = Len(p) /\ \A i \in 1 .. Len(p) : M[i].at = p[i]
      BY <3>2, <3>5
    <3>7. /\ queue' \in Seq(Entries) /\ Len(queue') = Len(N)
          /\ \A i \in 1 .. Len(N) : queue'[i].at = N[i]
      <4>1. \A i \in 1 .. Len(N) : N[i] \in Time
        BY <3>4
      <4>2. \A i \in 1 .. Len(N) : [file |-> 0, at |-> N[i]] \in Entries
        BY <4>1 DEF Entries
      <4>3. queue' \in [1 .. Len(N) -> Entries]
        BY <3>1, <4>2
      <4>4. queue' \in Seq(Entries) /\ Len(queue') = Len(N)
        <5> DEFINE k == Len(N)
        <5>1. k \in Nat /\ queue' \in [1 .. k -> Entries]
          BY <3>4, <4>3
        <5> HIDE DEF k
        <5>2. queue' \in Seq(Entries) /\ Len(queue') = k
          BY <5>1
        <5> QED
          BY <5>2 DEF k
      <4> QED
        BY <3>1, <4>4
    <3>8. Len(N) <= Len(p)
      BY <1>3, <3>4, <3>5, MinimumIs
    <3>9. \A i \in 1 .. Len(N) : Len(p) - Len(N) + i \in 1 .. Len(p)
      BY <3>4, <3>5, <3>8
    <3> QED
      BY <3>4, <3>5, <3>6, <3>7, <3>9 DEF M
  <2> QED
    BY <1>3, <2>1, <2>2
<1>9. Shown' = 0 /\ Errors' = {} /\ Left' = Len(queue')
  <2>1. examples' = <<>> /\ Len(<<>>) = 0 /\ 1 .. 0 = {}
    BY <1>1, <1>3
  <2> QED
    BY <2>1 DEF Shown, Errors, Failed, Left
<1>10. Replaying'
  <2>1. examples' = <<>> /\ <<>> \in Seq(Outcomes) /\ Len(<<>>) = 0 /\ 1 .. 0 = {}
    BY <1>1, <1>3
  <2>2. 0 + Len(queue') = Min({maxExamples, Len(Moments')})
    BY <1>8
  <2>3. Aligned(<<>>, queue', Moments', maxExamples)
    BY <1>8, <2>1, <2>2 DEF Aligned
  <2>4. Aligned(examples, queue, Moments, maxExamples)'
    BY <1>1, <2>1, <2>3
  <2> QED
    BY <1>9, <2>1, <2>4 DEF Replaying
<1>11. Counting'
  <2>1. Cardinality(Errors') = 0
    BY <1>9, FS_EmptySet
  <2>2. CASE mode = "candid"
    <3>1. counters' = [counters EXCEPT !.attempted = Len(queue')] /\ step' = "stage1"
      BY <2>2 DEF Draw
    <3>2. counters' = [attempted |-> Len(queue'), admitted |-> 0, fallbacks |-> 0, errors |-> 0]
      BY <1>3, <3>1
    <3> QED
      <4>1. /\ counters'.attempted = Len(queue') /\ counters'.errors = 0 /\ Verdicts' = 0
            /\ counters' \in [attempted : Nat, admitted : Nat, fallbacks : Nat, errors : Nat]
        BY <1>8, <3>2 DEF Verdicts
      <4>2. Shown' + Left' = Len(queue') /\ Verdicts' + counters'.errors = 0
        BY <1>8, <1>9, <4>1
      <4>3. /\ Verdicts' <= Shown' /\ Shown' <= Verdicts' + counters'.errors
            /\ counters'.attempted = Shown' + Left'
            /\ counters'.errors = Cardinality(Errors') /\ step' # "stage2"
        <5>1. Verdicts' <= Shown' /\ Shown' <= Verdicts' + counters'.errors
          BY <1>9, <4>1
        <5>2. counters'.attempted = Shown' + Left'
          BY <4>1, <4>2
        <5>3. counters'.errors = Cardinality(Errors')
          BY <2>1, <4>1
        <5>4. step' # "stage2"
          BY <3>1
        <5> QED
          BY <5>1, <5>2, <5>3, <5>4
      <4> QED
        BY <4>1, <4>3 DEF Counting
  <2>3. CASE mode = "generic"
    <3>1. counters' = counters /\ mode' # "candid"
      BY <1>1, <2>3 DEF Draw
    <3> QED
      BY <1>3, <2>1, <3>1 DEF Counting
  <2> QED
    BY <1>3, <2>2, <2>3
<1> QED
  BY <1>2, <1>5, <1>6, <1>10, <1>11 DEF SimInv


(* One example more: the head of the queue with the agents of its moment. *)
LEMMA AggregateIsAlive ==
  ASSUME SessionIntervals, SessionSamples, Contained, Drawn, step # "read",
         mode \in {"candid", "generic"}, NEW i \in 1 .. Len(Moments)
  PROVE  /\ AggregateAt(Moments[i].at) = Cardinality(Alive(Moments[i].at))
         /\ AggregateAt(Moments[i].at) \in Nat /\ AggregateAt(Moments[i].at) > 0
<1> DEFINE at == Moments[i].at
           past == {t \in DOMAIN timeline : t <= at}
<1>1. at \in Since .. Until /\ Alive(at) # {}
  BY MomentsAlive
<1> HIDE DEF at
<1>2. Cardinality(Alive(at)) = Agents(at) /\ Agents(at) \in Nat /\ Agents(at) > 0
  BY <1>1, AgentsAlive DEF Drawn
<1>3. /\ past = {} => Agents(at) = 0
      /\ past # {} => Total(timeline, Max(past)) = Agents(at)
  BY <1>1, TimelineSays
<1>4. past # {} /\ Total(timeline, Max(past)) = Agents(at)
  BY <1>2, <1>3
<1>5. AggregateAt(at) = IF past = {} \/ Total(timeline, Max(past)) < 1
                          THEN 1 ELSE Total(timeline, Max(past))
  BY DEF AggregateAt
<1>6. AggregateAt(at) = Agents(at)
  BY <1>2, <1>4, <1>5
<1> QED
  BY <1>2, <1>6 DEF at

(* One example more, whatever its status. *)
LEMMA ReplayedKeeps ==
  ASSUME SimInv, step \in {"stage1", "stage2"}, queue # <<>>,
         NEW status, status = "error" \/ status = "written", Replayed(status),
         UNCHANGED <<mode, maxExamples, parsed, timeline>>
  PROVE  /\ Replaying' /\ Drawn' /\ Modes'
         /\ SessionIntervals' /\ SessionSamples' /\ Contained'
         /\ Shown \in Nat /\ Left \in Nat /\ Left > 0
         /\ Shown' = Shown + 1 /\ Left' = Left - 1
         /\ Cardinality(Errors) \in Nat
         /\ status = "written" => Cardinality(Errors') = Cardinality(Errors)
         /\ status = "error" => Cardinality(Errors') = Cardinality(Errors) + 1
<1>1. /\ Replaying /\ Modes /\ Drawn /\ SessionIntervals /\ SessionSamples /\ Contained
      /\ mode \in {"candid", "generic"} /\ step # "read" /\ maxExamples \in Nat
  BY DEF SimInv, Modes
<1>2. /\ step' = (IF mode = "candid" THEN "stage1" ELSE "stage2")
      /\ queue' = Tail(queue)
  BY DEF Replayed
<1>3. /\ SessionIntervals' /\ SessionSamples' /\ Contained' /\ Chart' = Chart
      /\ \A t : Alive(t)' = Alive(t)
  BY <1>1, ParsedStays
<1>4. Drawn'
  BY <1>1, <1>3 DEF Drawn, parsed
<1>5. Modes'
  BY <1>1, <1>2 DEF Modes
<1>6. Moments' = Moments
  BY DEF Moments, Points, Total, parsed
<1> DEFINE x == [at |-> Head(queue).at, count |-> AggregateAt(Head(queue).at), status |-> status]
<1>7. Aligned(examples, queue, Moments, maxExamples)
  BY <1>1 DEF Replaying
<1>8. /\ Shown \in Nat /\ Left \in Nat /\ Left > 0 /\ Head(queue) \in Entries
      /\ \E k \in 1 .. Len(Moments) : Head(queue).at = Moments[k].at
  BY <1>1, <1>7, AlignedHead DEF Shown, Left
<1>9. x \in Outcomes /\ Told(x) /\ x.at = Head(queue).at /\ x.status = status
  <2> DEFINE at == Head(queue).at
  <2>1. at \in Time
    BY <1>8 DEF Entries
  <2>2. \A i \in 1 .. Len(Moments) :
           LET t == Moments[i].at
           IN  AggregateAt(t) = Cardinality(Alive(t)) /\ AggregateAt(t) \in Nat /\ AggregateAt(t) > 0
    BY <1>1, AggregateIsAlive
  <2>3. AggregateAt(at) = Cardinality(Alive(at)) /\ AggregateAt(at) \in Nat /\ AggregateAt(at) > 0
    BY <1>8, <2>2
  <2>4. x = [at |-> at, count |-> AggregateAt(at), status |-> status]
    OBVIOUS
  <2> HIDE DEF x, at
  <2>5. x.at = at /\ x.count = AggregateAt(at) /\ x.status = status
    BY <2>4
  <2>6. x \in Outcomes
    BY <2>1, <2>3, <2>4 DEF Outcomes
  <2> QED
    BY <2>3, <2>5, <2>6 DEF Told, at
<1>10. examples' = Append(examples, x)
  BY DEF Replayed
<1> HIDE DEF x
<1>11. /\ Aligned(examples', queue', Moments, maxExamples)
       /\ Len(examples') = Shown + 1 /\ Len(queue') = Left - 1
       /\ \A i \in 1 .. Shown : examples'[i] = examples[i]
       /\ examples'[Shown + 1] = x
  BY <1>1, <1>2, <1>7, <1>9, <1>10, AlignedStep DEF Shown, Left
<1>12. Shown' = Shown + 1 /\ Left' = Left - 1
  BY <1>11 DEF Shown, Left
<1>13. \A e : Told(e)' <=> Told(e)
  BY <1>3 DEF Told
<1>14. \A i \in 1 .. Shown + 1 : Told(examples'[i])
  <2> SUFFICES ASSUME NEW i \in 1 .. Shown + 1
               PROVE  Told(examples'[i])
    OBVIOUS
  <2>1. CASE i = Shown + 1
    BY <1>9, <1>11, <2>1
  <2>2. CASE i # Shown + 1
    <3>1. i \in 1 .. Shown
      BY <1>8, <2>2
    <3>2. Told(examples[i])
      BY <1>1, <3>1 DEF Replaying
    <3> QED
      BY <1>11, <3>1, <3>2
  <2> QED
    BY <2>1, <2>2
<1>15. Replaying'
  <2>1. Aligned(examples, queue, Moments, maxExamples)'
    BY <1>6, <1>11
  <2>2. \A i \in 1 .. Shown' : Told(examples[i])'
    BY <1>3, <1>12, <1>14 DEF Told
  <2> QED
    BY <2>1, <2>2 DEF Replaying
<1>16. /\ Cardinality(Errors) \in Nat
       /\ status = "written" => Cardinality(Errors') = Cardinality(Errors)
       /\ status = "error" => Cardinality(Errors') = Cardinality(Errors) + 1
  <2>1. examples \in Seq(Outcomes) /\ examples' \in Seq(Outcomes)
    BY <1>7, <1>11 DEF Aligned
  <2>2. /\ Cardinality(Errors) \in Nat
        /\ x.status = "error" => Cardinality(Errors') = Cardinality(Errors) + 1
        /\ x.status # "error" => Cardinality(Errors') = Cardinality(Errors)
    BY <1>9, <1>11, <2>1, ErrorsStep DEF Shown, Errors
  <2> QED
    BY <1>9, <2>2
<1> QED
  BY <1>3, <1>4, <1>5, <1>8, <1>12, <1>15, <1>16


LEMMA StageOneFailsKeeps == SimInv /\ StageOneFails => SimInv'
<1> SUFFICES ASSUME SimInv, StageOneFails
             PROVE  SimInv'
  OBVIOUS
<1>1. /\ step = "stage1" /\ mode = "candid" /\ queue # <<>> /\ Counting
      /\ mode' = mode /\ step' = "stage1"
      /\ counters' = [counters EXCEPT !.errors = @ + 1]
      /\ Replayed("error") /\ UNCHANGED <<mode, maxExamples, parsed, timeline>>
  BY DEF StageOneFails, SimInv, Modes, Replayed
<1>2. /\ Replaying' /\ Drawn' /\ Modes' /\ SessionIntervals' /\ SessionSamples' /\ Contained'
      /\ Shown \in Nat /\ Left \in Nat /\ Left > 0
      /\ Shown' = Shown + 1 /\ Left' = Left - 1
      /\ Cardinality(Errors) \in Nat /\ Cardinality(Errors') = Cardinality(Errors) + 1
  BY <1>1, ReplayedKeeps
<1>3. /\ counters \in [attempted : Nat, admitted : Nat, fallbacks : Nat, errors : Nat]
      /\ counters.errors = Cardinality(Errors) /\ counters.attempted = Shown + Left
      /\ Verdicts <= Shown /\ Shown <= Verdicts + counters.errors
  BY <1>1 DEF Counting
<1>4. /\ counters' \in [attempted : Nat, admitted : Nat, fallbacks : Nat, errors : Nat]
      /\ counters'.errors = counters.errors + 1 /\ counters'.attempted = counters.attempted
      /\ Verdicts' = Verdicts /\ Verdicts \in Nat /\ counters.errors \in Nat
  BY <1>1, <1>3 DEF Verdicts
<1>5. /\ counters'.errors = Cardinality(Errors') /\ counters'.attempted = Shown' + Left'
      /\ Verdicts' <= Shown' /\ Shown' <= Verdicts' + counters'.errors
  BY <1>2, <1>3, <1>4
<1>6. Counting'
  BY <1>1, <1>4, <1>5 DEF Counting
<1> QED
  BY <1>2, <1>6 DEF SimInv

LEMMA StageOneDecidesKeeps == SimInv /\ StageOneDecides => SimInv'
<1> SUFFICES ASSUME SimInv, StageOneDecides
             PROVE  SimInv'
  OBVIOUS
<1>1. /\ step = "stage1" /\ mode = "candid" /\ queue # <<>> /\ Counting /\ Replaying
      /\ mode' = mode /\ maxExamples' = maxExamples /\ step' = "stage2"
      /\ \/ counters' = [counters EXCEPT !.fallbacks = @ + 1]
         \/ counters' = [counters EXCEPT !.admitted = @ + 1]
      /\ UNCHANGED parsed /\ timeline' = timeline /\ queue' = queue /\ examples' = examples
  BY DEF StageOneDecides, SimInv, Modes
<1>2. /\ SessionIntervals' /\ SessionSamples' /\ Contained' /\ Chart' = Chart
      /\ \A t : Alive(t)' = Alive(t)
  BY <1>1, ParsedStays DEF SimInv
<1>3. Drawn'
  BY <1>1, <1>2 DEF SimInv, Drawn, parsed
<1>4. Modes'
  BY <1>1 DEF SimInv, Modes
<1>5. Moments' = Moments /\ Shown' = Shown /\ Left' = Left /\ Errors' = Errors
  BY <1>1 DEF Moments, Points, Total, parsed, Shown, Left, Errors
<1>6. Replaying'
  <2>1. Aligned(examples, queue, Moments, maxExamples)'
    BY <1>1, <1>5 DEF Replaying
  <2>2. \A i \in 1 .. Shown' : Told(examples[i])'
    BY <1>1, <1>2, <1>5 DEF Replaying, Told
  <2> QED
    BY <2>1, <2>2 DEF Replaying
<1>7. Shown \in Nat /\ Left \in Nat /\ Left > 0
  <2>1. Aligned(examples, queue, Moments, maxExamples) /\ maxExamples \in Nat
    BY <1>1 DEF Replaying, SimInv, Modes
  <2> QED
    BY <1>1, <2>1, AlignedHead DEF Shown, Left
<1>8. /\ counters \in [attempted : Nat, admitted : Nat, fallbacks : Nat, errors : Nat]
      /\ counters.errors = Cardinality(Errors) /\ counters.attempted = Shown + Left
      /\ Verdicts <= Shown /\ Shown <= Verdicts + counters.errors
  BY <1>1 DEF Counting
<1>9. /\ counters' \in [attempted : Nat, admitted : Nat, fallbacks : Nat, errors : Nat]
      /\ counters'.errors = counters.errors /\ counters'.attempted = counters.attempted
      /\ Verdicts' = Verdicts + 1 /\ Verdicts \in Nat /\ counters.errors \in Nat
  BY <1>1, <1>8 DEF Verdicts
<1>10. /\ counters'.errors = Cardinality(Errors') /\ counters'.attempted = Shown' + Left'
       /\ Left' > 0
       /\ Verdicts' <= Shown' + 1 /\ Shown' + 1 <= Verdicts' + counters'.errors
  BY <1>5, <1>7, <1>8, <1>9
<1>11. Counting'
  BY <1>1, <1>9, <1>10 DEF Counting
<1> QED
  BY <1>2, <1>3, <1>4, <1>6, <1>11 DEF SimInv

(* Stage two ends an example with a status, counted if it is an error. *)
LEMMA GenerationKeeps == SimInv /\ (Generates \/ GenerationFails) => SimInv'
<1> SUFFICES ASSUME SimInv, Generates \/ GenerationFails
             PROVE  SimInv'
  OBVIOUS
<1>1. /\ step = "stage2" /\ queue # <<>> /\ Counting
      /\ mode \in {"candid", "generic"} /\ mode' = mode
      /\ mode = "candid" => step' = "stage1"
      /\ UNCHANGED <<mode, maxExamples, parsed, timeline>>
  BY DEF Generates, GenerationFails, SimInv, Modes, Replayed
<1>2. \/ Replayed("written") /\ counters' = counters
      \/ Replayed("error") /\ counters' = [counters EXCEPT !.errors = @ + 1]
  BY DEF Generates, GenerationFails
<1>3. /\ Replaying' /\ Drawn' /\ Modes' /\ SessionIntervals' /\ SessionSamples' /\ Contained'
      /\ Shown \in Nat /\ Left \in Nat /\ Left > 0
      /\ Shown' = Shown + 1 /\ Left' = Left - 1 /\ Cardinality(Errors) \in Nat
      /\ \/ counters' = counters /\ Cardinality(Errors') = Cardinality(Errors)
         \/ /\ counters' = [counters EXCEPT !.errors = @ + 1]
            /\ Cardinality(Errors') = Cardinality(Errors) + 1
  BY <1>1, <1>2, ReplayedKeeps
<1>4. /\ counters \in [attempted : Nat, admitted : Nat, fallbacks : Nat, errors : Nat]
      /\ counters.errors = Cardinality(Errors)
      /\ mode = "candid" => /\ counters.attempted = Shown + Left
                            /\ Verdicts <= Shown + 1
                            /\ Shown + 1 <= Verdicts + counters.errors
  BY <1>1 DEF Counting
<1>5. /\ counters' \in [attempted : Nat, admitted : Nat, fallbacks : Nat, errors : Nat]
      /\ counters'.attempted = counters.attempted
      /\ Verdicts' = Verdicts /\ Verdicts \in Nat /\ counters.errors \in Nat
      /\ counters'.errors = Cardinality(Errors') /\ counters'.errors >= counters.errors
  <2>1. CASE counters' = counters /\ Cardinality(Errors') = Cardinality(Errors)
    BY <1>4, <2>1 DEF Verdicts
  <2>2. CASE /\ counters' = [counters EXCEPT !.errors = @ + 1]
             /\ Cardinality(Errors') = Cardinality(Errors) + 1
    BY <1>4, <2>2 DEF Verdicts
  <2> QED
    BY <1>3, <2>1, <2>2
<1>6. mode' = "candid" =>
        /\ counters'.attempted = Shown' + Left' /\ step' = "stage1"
        /\ Verdicts' <= Shown' /\ Shown' <= Verdicts' + counters'.errors
  <2> SUFFICES ASSUME mode' = "candid"
               PROVE  /\ counters'.attempted = Shown' + Left' /\ step' = "stage1"
                      /\ Verdicts' <= Shown' /\ Shown' <= Verdicts' + counters'.errors
    OBVIOUS
  <2>1. /\ mode = "candid" /\ step' = "stage1"
        /\ counters.attempted = Shown + Left /\ Verdicts <= Shown + 1
        /\ Shown + 1 <= Verdicts + counters.errors
        /\ counters'.errors \in Nat
    BY <1>1, <1>4, <1>5
  <2> QED
    BY <1>3, <1>5, <2>1
<1>7. Counting'
  <2>1. mode' = "candid" => step' # "stage2"
    BY <1>6
  <2> QED
    BY <1>5, <1>6, <2>1 DEF Counting
<1> QED
  BY <1>3, <1>7 DEF SimInv

LEMMA ReportKeeps == SimInv /\ Report => SimInv'
<1> SUFFICES ASSUME SimInv, Report
             PROVE  SimInv'
  OBVIOUS
<1>1. /\ step \in {"stage1", "stage2"} /\ queue = <<>> /\ Counting /\ Replaying
      /\ mode' = mode /\ maxExamples' = maxExamples /\ step' = "done" /\ counters' = counters
      /\ UNCHANGED parsed /\ timeline' = timeline /\ queue' = queue /\ examples' = examples
  BY DEF Report, SimInv
<1>2. /\ SessionIntervals' /\ SessionSamples' /\ Contained' /\ Chart' = Chart
      /\ \A t : Alive(t)' = Alive(t)
  BY <1>1, ParsedStays DEF SimInv
<1>3. Drawn'
  BY <1>1, <1>2 DEF SimInv, Drawn, parsed
<1>4. Left = 0
  BY <1>1 DEF Left
<1>5. Moments' = Moments /\ Shown' = Shown /\ Left' = Left /\ Errors' = Errors
      /\ Verdicts' = Verdicts
  BY <1>1 DEF Moments, Points, Total, parsed, Shown, Left, Errors, Verdicts
<1>6. Modes'
  BY <1>1, <1>4, <1>5 DEF SimInv, Modes
<1>7. Replaying'
  <2>1. Aligned(examples, queue, Moments, maxExamples)'
    BY <1>1, <1>5 DEF Replaying
  <2>2. \A i \in 1 .. Shown' : Told(examples[i])'
    BY <1>1, <1>2, <1>5 DEF Replaying, Told
  <2> QED
    BY <2>1, <2>2 DEF Replaying
<1>8. step = "stage2" => mode # "candid"
  BY <1>1, <1>4 DEF Counting
<1>9. Counting'
  BY <1>1, <1>5, <1>8 DEF Counting
<1> QED
  BY <1>2, <1>3, <1>6, <1>7, <1>9 DEF SimInv

LEMMA StuttersKeeps == SimInv /\ UNCHANGED vars => SimInv'
<1> SUFFICES ASSUME SimInv, UNCHANGED vars
             PROVE  SimInv'
  OBVIOUS
<1>1. /\ UNCHANGED parsed /\ step' = step /\ mode' = mode /\ maxExamples' = maxExamples
      /\ timeline' = timeline /\ queue' = queue /\ examples' = examples
      /\ counters' = counters
  BY DEF vars
<1>2. /\ SessionIntervals' /\ SessionSamples' /\ Contained' /\ Chart' = Chart
      /\ \A t : Alive(t)' = Alive(t)
  BY <1>1, ParsedStays DEF SimInv
<1>3. Drawn'
  BY <1>1, <1>2 DEF SimInv, Drawn, parsed
<1>4. Moments' = Moments /\ Shown' = Shown /\ Left' = Left /\ Errors' = Errors
      /\ Verdicts' = Verdicts
  BY <1>1 DEF Moments, Points, Total, parsed, Shown, Left, Errors, Verdicts
<1>5. Modes'
  BY <1>1, <1>4 DEF SimInv, Modes
<1>6. ASSUME step # "read" PROVE Replaying' /\ Counting'
  <2>1. Replaying /\ Counting
    BY <1>6 DEF SimInv
  <2>2. Aligned(examples, queue, Moments, maxExamples)'
    BY <1>1, <1>4, <2>1 DEF Replaying
  <2>3. \A i \in 1 .. Shown' : Told(examples[i])'
    BY <1>1, <1>2, <1>4, <2>1 DEF Replaying, Told
  <2>4. Counting'
    BY <1>1, <1>4, <2>1 DEF Counting
  <2> QED
    BY <2>2, <2>3, <2>4 DEF Replaying
<1> QED
  BY <1>1, <1>2, <1>3, <1>5, <1>6 DEF SimInv

(* The invariant holds throughout. *)
LEMMA SpecSimInv == Spec => []SimInv
<1>1. SimInv /\ [Next]_vars => SimInv'
  BY ReadKeeps, DrawKeeps, StageOneFailsKeeps, StageOneDecidesKeeps, GenerationKeeps,
     ReportKeeps, StuttersKeeps DEF Next
<1> QED
  BY InitSimInv, <1>1, PTL DEF Spec

-----------------------------------------------------------------------------
(* Whatever the session files say, in any number and whenever they were    *)
(* last written, the timeline shows at every instant of the period exactly *)
(* the agents alive then, and its peak is their maximum                    *)
(* (history_simulation.py:63, 75-85, 380-391, 410-415, 451-481).           *)
THEOREM SimulationTimelineIsExact == Spec => []TimelineIsExact
<1>1. SimInv => TimelineIsExact
  BY TimelineFollows DEF SimInv
<1> QED
  BY <1>1, SpecSimInv, PTL

(* A finished replay, with any failures on the way, has the newest moments *)
(* and no others, each with the agents alive then, and its counters add up *)
(* (history_simulation.py:90-94, 146-215, 225, 289-307).                   *)
THEOREM SimulationExamplesAreTrue == Spec => []ExamplesAreTrue
<1>1. SimInv => ExamplesAreTrue
  <2> SUFFICES ASSUME SimInv, step = "done"
               PROVE  /\ Shown = Min({maxExamples, Len(Moments)})
                      /\ \A i \in 1 .. Shown :
                           /\ examples[i].at = Moments[Len(Moments) - Shown + i].at
                           /\ examples[i].count = Cardinality(Alive(examples[i].at))
                           /\ examples[i].count > 0
                      /\ counters.errors = Cardinality(Errors)
                      /\ mode = "candid" =>
                           /\ counters.attempted = Shown
                           /\ Verdicts <= Shown
                           /\ Shown <= Verdicts + counters.errors
    BY DEF ExamplesAreTrue, Shown, Moments, Alive, Errors, Failed, Verdicts
  <2>1. Replaying /\ Counting /\ Left = 0
    BY DEF SimInv, Modes
  <2>2. /\ Shown \in Nat /\ Len(Moments) \in Nat
        /\ Shown + Left = Min({maxExamples, Len(Moments)})
        /\ \A i \in 1 .. Shown :
              examples[i].at = Moments[Len(Moments) - Shown - Left + i].at
        /\ \A i \in 1 .. Shown : Told(examples[i])
    BY <2>1, LenProperties DEF Replaying, Aligned, Shown, Left
  <2>3. Shown + Left = Shown /\ Len(Moments) - Shown - Left = Len(Moments) - Shown
    BY <2>1, <2>2
  <2>4. mode = "candid" => /\ counters.attempted = Shown
                           /\ Verdicts <= Shown
                           /\ Shown <= Verdicts + counters.errors
    BY <2>1, <2>3 DEF Counting
  <2>5. counters.errors = Cardinality(Errors)
    BY <2>1 DEF Counting
  <2> QED
    BY <2>2, <2>3, <2>4, <2>5 DEF Told
<1> QED
  BY <1>1, SpecSimInv, PTL

=============================================================================
