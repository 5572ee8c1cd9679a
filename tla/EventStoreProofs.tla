-------------------------- MODULE EventStoreProofs --------------------------
(***************************************************************************)
(* What the lifecycle log promises, for any sessions, hook processes and   *)
(* bounds: what its two reductions compute of every log, and what          *)
(* completions settle in whatever order the hooks append.                  *)
(***************************************************************************)
EXTENDS EventStore, FiniteSetTheorems, SequenceTheorems, WellFoundedInduction, TLAPS

-----------------------------------------------------------------------------
(* Induction over the places of a sequence, for sets of numbers. *)

LEMMA NatSetHasMinimum ==
  ASSUME NEW T \in SUBSET Nat, T # {}
  PROVE  \E m \in T : \A n \in T : m <= n
<1>1. PICK x \in T : \A y \in T : ~ (<<y, x>> \in OpToRel(<, Nat))
  BY WFMin, NatLessThanWellFounded
<1>2. \A y \in T : <<y, x>> \in Nat \X Nat
  OBVIOUS
<1>3. \A y \in T : ~ (y < x)
  BY <1>1, <1>2 DEF OpToRel
<1> QED
  BY <1>3

LEMMA UpTo ==
  ASSUME NEW m \in Nat, NEW T, 0 \in T,
         \A n \in 1 .. m : n - 1 \in T => n \in T
  PROVE  \A n \in 0 .. m : n \in T
<1> SUFFICES ASSUME NEW x \in 0 .. m, x \notin T
             PROVE  FALSE
  OBVIOUS
<1> DEFINE F == {n \in 0 .. m : n \notin T}
<1>1. F \in SUBSET Nat /\ F # {}
  OBVIOUS
<1>2. PICK n \in F : \A k \in F : n <= k
  BY <1>1, NatSetHasMinimum
<1>3. n \in 1 .. m /\ n - 1 \in 0 .. m /\ n - 1 \notin F
  BY <1>2
<1> QED
  BY <1>2, <1>3

(* A fold over a sequence, given by its step, is a function. *)
LEMMA FoldExists ==
  ASSUME NEW A, NEW B, NEW base \in A, NEW step \in [A \X B -> A], NEW q \in Seq(B)
  PROVE  \E f \in [0 .. Len(q) -> A] :
            /\ f[0] = base
            /\ \A n \in 1 .. Len(q) : f[n] = step[<<f[n - 1], q[n]>>]
<1> DEFINE m == Len(q)
           Good(f, n) == /\ f \in [0 .. n -> A] /\ f[0] = base
                         /\ \A k \in 1 .. n : f[k] = step[<<f[k - 1], q[k]>>]
           T == {n \in 0 .. m : \E f : Good(f, n)}
<1>1. m \in Nat /\ \A n \in 1 .. m : q[n] \in B
  BY LenProperties
<1> HIDE DEF m
<1>2. 0 \in T
  <2> DEFINE f == [k \in 0 .. 0 |-> base]
  <2>1. Good(f, 0)
    OBVIOUS
  <2> HIDE DEF f
  <2>2. 0 \in 0 .. m
    BY <1>1
  <2> QED
    BY <2>1, <2>2
<1>3. ASSUME NEW n \in 1 .. m, n - 1 \in T
      PROVE  n \in T
  <2>1. PICK f : Good(f, n - 1)
    BY <1>3
  <2> DEFINE g == [k \in 0 .. n |-> IF k = n THEN step[<<f[n - 1], q[n]>>] ELSE f[k]]
  <2>2. step[<<f[n - 1], q[n]>>] \in A
    <3>1. f[n - 1] \in A /\ q[n] \in B
      BY <1>1, <2>1
    <3> QED
      BY <3>1
  <2>3. g \in [0 .. n -> A] /\ g[0] = base
    <3>1. \A k \in 0 .. n : k # n => k \in 0 .. n - 1
      BY <1>1
    <3>2. \A k \in 0 .. n - 1 : f[k] \in A
      BY <2>1
    <3>3. 0 \in 0 .. n /\ 0 # n /\ f[0] = base
      BY <1>1, <2>1
    <3> QED
      BY <2>2, <3>1, <3>2, <3>3
  <2>4. ASSUME NEW k \in 1 .. n
        PROVE  g[k] = step[<<g[k - 1], q[k]>>]
    <3>1. k - 1 \in 0 .. n /\ k - 1 # n /\ g[k - 1] = f[k - 1]
      BY <1>1
    <3>2. CASE k = n
      BY <3>1, <3>2
    <3>3. CASE k # n
      <4>1. k \in 1 .. n - 1 /\ k \in 0 .. n
        BY <1>1, <3>3
      <4>2. f[k] = step[<<f[k - 1], q[k]>>]
        BY <2>1, <4>1
      <4> QED
        BY <3>1, <3>3, <4>1, <4>2
    <3> QED
      BY <3>2, <3>3
  <2>5. Good(g, n)
    BY <2>3, <2>4
  <2>6. n \in 0 .. m
    BY <1>1
  <2> QED
    BY <2>5, <2>6
<1>4. m \in T
  <2>1. \A n \in 0 .. m : n \in T
    BY <1>1, <1>2, <1>3, UpTo
  <2> HIDE DEF T
  <2>2. m \in 0 .. m
    BY <1>1
  <2> QED
    BY <2>1, <2>2
<1> QED
  BY <1>4 DEF m

-----------------------------------------------------------------------------
(* completion_turn_token *)

Pendings == [Sessions -> Seq(Tokens)]

LEMMA RecordFields ==
  ASSUME NEW r \in Records
  PROVE  /\ r.session \in Sessions /\ r.event \in Events /\ r.at \in Nat
         /\ r.at \in 0 .. MaxClock
         /\ r.expires \in Nat /\ r.hint \in Hints \cup {None}
         /\ Token(r) \in Tokens /\ Token(r) = <<r.session, r.at>>
<1> QED
  BY EventStoreAssumption DEF Records, Token, Tokens

(* What Observe does to the turns of the record's session. *)
LEMMA ObserveFields ==
  ASSUME NEW p \in Pendings, NEW r \in Records
  PROVE  /\ Observe(p, r) \in Pendings
         /\ \A s \in Sessions : s # r.session => Observe(p, r)[s] = p[s]
         /\ r.event \in Starts \cup Stops => Observe(p, r)[r.session] = << >>
         /\ r.event \in Turns => Observe(p, r)[r.session] = Append(p[r.session], Token(r))
         /\ r.event \in Beats => Observe(p, r)[r.session] = p[r.session]
         /\ r.event \in Completions =>
               Observe(p, r)[r.session] =
                  IF p[r.session] = << >> THEN << >> ELSE Tail(p[r.session])
<1> DEFINE s == r.session
           was == p[s]
           is == CASE r.event \in Starts \cup Stops -> << >>
                   [] r.event \in Turns -> Append(was, Token(r))
                   [] r.event \in Completions /\ was # << >> -> Tail(was)
                   [] OTHER -> was
<1>1. s \in Sessions /\ Token(r) \in Tokens /\ was \in Seq(Tokens)
  BY RecordFields DEF Pendings
<1>2. Observe(p, r) = [p EXCEPT ![s] = is]
  BY DEF Observe
<1>3. is \in Seq(Tokens)
  <2>1. << >> \in Seq(Tokens) /\ Append(was, Token(r)) \in Seq(Tokens)
    BY <1>1
  <2>2. was # << >> => Tail(was) \in Seq(Tokens)
    BY <1>1
  <2> HIDE DEF was
  <2> QED
    BY <1>1, <2>1, <2>2
<1>4. /\ r.event \in Starts \cup Stops => is = << >>
      /\ r.event \in Turns => is = Append(was, Token(r))
      /\ r.event \in Beats => is = was
      /\ r.event \in Completions => is = IF was = << >> THEN << >> ELSE Tail(was)
  BY DEF Starts, Stops, Turns, Beats, Completions
<1> HIDE DEF is
<1> QED
  BY <1>1, <1>2, <1>3, <1>4 DEF Pendings

LEMMA UnmatchedSteps ==
  ASSUME NEW q \in Seq(Records), NEW u, u = Unmatched(q)
  PROVE  /\ u \in [0 .. Len(q) -> Pendings]
         /\ u[0] = [s \in Sessions |-> << >>]
         /\ \A n \in 1 .. Len(q) : u[n] = Observe(u[n - 1], q[n])
<1> DEFINE base == [s \in Sessions |-> << >>]
           step == [x \in Pendings \X Records |-> Observe(x[1], x[2])]
           m == Len(q)
<1>1. base \in Pendings /\ m \in Nat /\ \A n \in 1 .. m : q[n] \in Records
  <2>1. << >> \in Seq(Tokens)
    OBVIOUS
  <2> QED
    BY <2>1, LenProperties DEF Pendings
<1>2. step \in [Pendings \X Records -> Pendings]
  BY ObserveFields
<1>3. \A p \in Pendings, r \in Records : step[<<p, r>>] = Observe(p, r)
  OBVIOUS
<1> HIDE DEF base, step, m
<1>4. PICK f \in [0 .. m -> Pendings] :
         /\ f[0] = base
         /\ \A n \in 1 .. m : f[n] = step[<<f[n - 1], q[n]>>]
    <2> DEFINE Folds(A, B) ==
        \A b \in A : \A st \in [A \X B -> A] : \A z \in Seq(B) :
           \E f \in [0 .. Len(z) -> A] :
              f[0] = b /\ \A n \in 1 .. Len(z) : f[n] = st[<<f[n - 1], z[n]>>]
  <2>1. \A A, B : Folds(A, B)
    BY FoldExists
  <2>2. Folds(Pendings, Records)
    <3> HIDE DEF Folds
    <3> QED
      BY <2>1
  <2> QED
    BY <1>1, <1>2, <2>2 DEF m
<1>5. \A n \in 1 .. m : f[n] = Observe(f[n - 1], q[n])
  <2> SUFFICES ASSUME NEW n \in 1 .. m
               PROVE  f[n] = Observe(f[n - 1], q[n])
    OBVIOUS
  <2>1. f[n - 1] \in Pendings /\ q[n] \in Records
    BY <1>1
  <2> QED
    BY <1>3, <1>4, <2>1
<1>6. f = [n \in 0 .. m |-> IF n = 0 THEN base ELSE Observe(f[n - 1], q[n])]
  <2>1. \A n \in 0 .. m : f[n] = IF n = 0 THEN base ELSE Observe(f[n - 1], q[n])
    <3>1. \A n \in 0 .. m : n = 0 \/ n \in 1 .. m
      BY <1>1
    <3> QED
      BY <1>4, <1>5, <3>1
  <2> QED
    BY <2>1
<1>7. u = CHOOSE g : g = [n \in 0 .. m |-> IF n = 0 THEN base ELSE Observe(g[n - 1], q[n])]
  BY DEF Unmatched, base, m
<1>8. u = [n \in 0 .. m |-> IF n = 0 THEN base ELSE Observe(u[n - 1], q[n])]
  BY <1>6, <1>7
<1>9. \A n \in 0 .. m : u[n] = IF n = 0 THEN base ELSE Observe(u[n - 1], q[n])
  BY <1>8
<1>10. \A n \in 0 .. m : u[n] \in Pendings
  <2> DEFINE T == {n \in 0 .. m : u[n] \in Pendings}
  <2>1. 0 \in T
    BY <1>1, <1>9
  <2>2. ASSUME NEW n \in 1 .. m, n - 1 \in T
        PROVE  n \in T
    <3>1. u[n] = Observe(u[n - 1], q[n]) /\ n \in 0 .. m
      BY <1>1, <1>9
    <3> QED
      BY <1>1, <2>2, <3>1, ObserveFields
  <2>3. \A n \in 0 .. m : n \in T
    <3> HIDE DEF T
    <3> QED
      BY <1>1, <2>1, <2>2, UpTo
  <2> QED
    BY <2>3
<1> QED
  <2>1. u \in [0 .. m -> Pendings]
    BY <1>8, <1>10
  <2>2. u[0] = base /\ \A n \in 1 .. m : u[n] = Observe(u[n - 1], q[n])
    BY <1>1, <1>9
  <2> QED
    BY <2>1, <2>2 DEF base, m

(* An append leaves what was pending at the earlier places. *)
LEMMA AppendedRecord ==
  ASSUME NEW q \in Seq(Records), NEW x \in Records, NEW z, z = Append(q, x)
  PROVE  /\ z \in Seq(Records) /\ Len(q) \in Nat /\ Len(z) = Len(q) + 1
         /\ \A n \in 1 .. Len(q) : z[n] = q[n] /\ q[n] \in Records
         /\ z[Len(q) + 1] = x
         /\ \A n \in 1 .. Len(z) : n \in 1 .. Len(q) \/ n = Len(q) + 1
<1> QED
  OBVIOUS

LEMMA UnmatchedPrefix ==
  ASSUME NEW q \in Seq(Records), NEW x \in Records, NEW z, z = Append(q, x)
  PROVE  /\ \A n \in 0 .. Len(q) : Unmatched(z)[n] = Unmatched(q)[n]
         /\ Unmatched(z)[Len(q) + 1] = Observe(Unmatched(q)[Len(q)], x)
<1> DEFINE u == Unmatched(q)
           w == Unmatched(z)
           m == Len(q)
<1>1. /\ z \in Seq(Records) /\ m \in Nat /\ Len(z) = m + 1
      /\ \A n \in 1 .. m : z[n] = q[n]
      /\ z[m + 1] = x
  BY AppendedRecord
<1>2. /\ u[0] = [s \in Sessions |-> << >>]
      /\ \A n \in 1 .. m : u[n] = Observe(u[n - 1], q[n])
  BY UnmatchedSteps
<1>3. /\ w[0] = [s \in Sessions |-> << >>]
      /\ \A n \in 1 .. m + 1 : w[n] = Observe(w[n - 1], z[n])
  <2>1. /\ w[0] = [s \in Sessions |-> << >>]
        /\ \A n \in 1 .. Len(z) : w[n] = Observe(w[n - 1], z[n])
    BY <1>1, UnmatchedSteps
  <2> QED
    BY <1>1, <2>1
<1> HIDE DEF u, w, m
<1>4. \A n \in 0 .. m : w[n] = u[n]
  <2> DEFINE T == {n \in 0 .. m : w[n] = u[n]}
  <2>1. 0 \in T
    BY <1>1, <1>2, <1>3
  <2>2. ASSUME NEW n \in 1 .. m, n - 1 \in T
        PROVE  n \in T
    <3>1. n \in 1 .. m + 1 /\ n \in 0 .. m /\ w[n - 1] = u[n - 1]
      BY <1>1, <2>2
    <3>2. w[n] = Observe(w[n - 1], z[n]) /\ u[n] = Observe(u[n - 1], q[n]) /\ z[n] = q[n]
      BY <1>1, <1>2, <1>3, <3>1
    <3> QED
      BY <3>1, <3>2
  <2>3. \A n \in 0 .. m : n \in T
    <3> HIDE DEF T
    <3> QED
      BY <1>1, <2>1, <2>2, UpTo
  <2> QED
    BY <2>3
<1>5. w[m + 1] = Observe(u[m], x)
  <2>1. m + 1 \in 1 .. m + 1 /\ m + 1 - 1 = m /\ m \in 0 .. m
    BY <1>1
  <2> QED
    BY <1>1, <1>3, <1>4, <2>1
<1> QED
  BY <1>4, <1>5 DEF u, w, m

(* What a completion pairs with is decided when it reaches the log. *)
LEMMA PairingAppended ==
  ASSUME NEW q \in Seq(Records), NEW x \in Records, NEW z, z = Append(q, x),
         \A n \in 1 .. Len(q) : q[n] # x
  PROVE  /\ \A n \in 1 .. Len(q) :
               CompletionTurnToken(z, q[n]) = CompletionTurnToken(q, q[n])
         /\ CompletionTurnToken(z, x) =
               LET p == Unmatched(q)[Len(q)][x.session]
               IN  IF p = << >> THEN None ELSE Head(p)
<1> DEFINE u == Unmatched(q)
           w == Unmatched(z)
           m == Len(q)
           P(c) == {n \in 1 .. m : q[n] = c /\ u[n - 1][c.session] # << >>}
           Z(c) == {n \in 1 .. m + 1 : z[n] = c /\ w[n - 1][c.session] # << >>}
<1>1. /\ z \in Seq(Records) /\ m \in Nat /\ Len(z) = m + 1
      /\ \A n \in 1 .. m : z[n] = q[n]
      /\ z[m + 1] = x
  BY AppendedRecord
<1>2. \A n \in 0 .. m : w[n] = u[n]
  BY UnmatchedPrefix
<1>3. /\ \A c : CompletionTurnToken(q, c) =
            IF P(c) = {} THEN None ELSE Head(u[(CHOOSE n \in P(c) : TRUE) - 1][c.session])
      /\ \A c : CompletionTurnToken(z, c) =
            IF Z(c) = {} THEN None ELSE Head(w[(CHOOSE n \in Z(c) : TRUE) - 1][c.session])
  <2>1. DOMAIN q = 1 .. m /\ DOMAIN z = 1 .. m + 1
    BY <1>1
  <2> QED
    BY <2>1 DEF CompletionTurnToken
<1> HIDE DEF u, w, m
<1>4. ASSUME NEW i \in 1 .. m
      PROVE  CompletionTurnToken(z, q[i]) = CompletionTurnToken(q, q[i])
  <2> DEFINE c == q[i]
  <2>1. c # x
    BY DEF m
  <2> HIDE DEF c
  <2>2. Z(c) = P(c)
    <3>1. \A n \in 1 .. m + 1 : n \in 1 .. m \/ n = m + 1
      BY <1>1
    <3>2. \A n \in 1 .. m : n \in 1 .. m + 1 /\ n - 1 \in 0 .. m
      BY <1>1
    <3> QED
      BY <1>1, <1>2, <2>1, <3>1, <3>2
  <2>3. CASE P(c) = {}
    BY <1>3, <2>2, <2>3 DEF c
  <2>4. CASE P(c) # {}
    <3> DEFINE n == CHOOSE n \in P(c) : TRUE
    <3>1. n \in P(c)
      BY <2>4
    <3>2. n - 1 \in 0 .. m
      BY <1>1, <3>1
    <3>3. /\ CompletionTurnToken(q, c) = Head(u[n - 1][c.session])
          /\ CompletionTurnToken(z, c) = Head(w[n - 1][c.session])
      BY <1>3, <2>2, <2>4, ZenonT(30)
    <3> QED
      BY <1>2, <3>2, <3>3 DEF c
  <2> QED
    BY <2>3, <2>4
<1>5. CompletionTurnToken(z, x) =
         IF u[m][x.session] = << >> THEN None ELSE Head(u[m][x.session])
  <2>1. m + 1 \in 1 .. m + 1 /\ m + 1 - 1 = m /\ m \in 0 .. m
    BY <1>1
  <2>2. Z(x) = IF u[m][x.session] = << >> THEN {} ELSE {m + 1}
    <3>1. \A n \in 1 .. m + 1 : n \in 1 .. m \/ n = m + 1
      BY <1>1
    <3>2. \A n \in 1 .. m : z[n] # x
      BY <1>1 DEF m
    <3> QED
      BY <1>1, <1>2, <2>1, <3>1, <3>2
  <2>3. CASE u[m][x.session] = << >>
    BY <1>3, <2>2, <2>3
  <2>4. CASE u[m][x.session] # << >>
    <3> DEFINE k == CHOOSE n \in Z(x) : TRUE
    <3>1. k = m + 1
      BY <2>2, <2>4
    <3>2. CompletionTurnToken(z, x) = Head(w[k - 1][x.session])
      BY <1>3, <2>2, <2>4
    <3> HIDE DEF k
    <3>3. k - 1 = m
      BY <1>1, <3>1
    <3> QED
      BY <1>2, <2>1, <2>4, <3>2, <3>3
  <2> QED
    BY <2>3, <2>4
<1> QED
  BY <1>4, <1>5 DEF u, m

LEMMA PairingIsToken ==
  ASSUME NEW q \in Seq(Records), NEW c \in Records, CompletionTurnToken(q, c) # None
  PROVE  CompletionTurnToken(q, c) \in Tokens
<1> DEFINE u == Unmatched(q)
           m == Len(q)
           P == {n \in 1 .. m : q[n] = c /\ u[n - 1][c.session] # << >>}
           k == CHOOSE n \in P : TRUE
<1>1. m \in Nat /\ DOMAIN q = 1 .. m /\ c.session \in Sessions
  BY RecordFields
<1>2. CompletionTurnToken(q, c) = Head(u[k - 1][c.session]) /\ P # {}
  BY <1>1 DEF CompletionTurnToken
<1>3. k \in P
  BY <1>2
<1>4. u \in [0 .. m -> Pendings]
  BY UnmatchedSteps
<1> HIDE DEF u, m, k
<1>5. k - 1 \in 0 .. m /\ u[k - 1][c.session] # << >>
  BY <1>1, <1>3
<1>6. u[k - 1][c.session] \in Seq(Tokens)
  <2>1. u[k - 1] \in Pendings
    BY <1>4, <1>5
  <2> QED
    BY <1>1, <2>1 DEF Pendings
<1>7. Head(u[k - 1][c.session]) \in Tokens
  <2> DEFINE p == u[k - 1][c.session]
  <2>1. p \in Seq(Tokens) /\ p # << >>
    BY <1>5, <1>6
  <2> HIDE DEF p
  <2>2. Head(p) \in Tokens
    BY <2>1
  <2> QED
    BY <2>2 DEF p
<1> QED
  BY <1>2, <1>7

-----------------------------------------------------------------------------
(* active_sessions: the sorted records, whatever the order of the log. *)

Before(q, j) == {i \in 1 .. Len(q) : Precedes(q, i, j)}

LEMMA RankIsCount ==
  ASSUME NEW q \in Seq(Records), NEW j \in 1 .. Len(q)
  PROVE  /\ Rank(q, j) = Cardinality(Before(q, j))
         /\ IsFiniteSet(Before(q, j))
         /\ Rank(q, j) \in 0 .. Len(q) - 1
<1>1. Len(q) \in Nat /\ DOMAIN q = 1 .. Len(q)
  OBVIOUS
<1>2. Rank(q, j) = Cardinality(Before(q, j))
  BY <1>1 DEF Rank, Before
<1>3. IsFiniteSet(1 .. Len(q)) /\ Cardinality(1 .. Len(q)) = Len(q)
  BY <1>1, FS_Interval
<1>4. j \notin Before(q, j) /\ Before(q, j) \subseteq (1 .. Len(q)) \ {j}
  <2>1. q[j] \in Records
    BY <1>1
  <2>2. q[j].at \in Nat
    BY <2>1, RecordFields
  <2>3. ~ Precedes(q, j, j)
    BY <1>1, <2>2 DEF Precedes
  <2> QED
    BY <2>3 DEF Before
<1>5. /\ IsFiniteSet((1 .. Len(q)) \ {j})
      /\ Cardinality((1 .. Len(q)) \ {j}) = Len(q) - 1
  BY <1>3, FS_RemoveElement
<1>6. IsFiniteSet(Before(q, j)) /\ Cardinality(Before(q, j)) <= Len(q) - 1
  BY <1>4, <1>5, FS_Subset
<1>7. Cardinality(Before(q, j)) \in Nat
  BY <1>6, FS_CardinalityType
<1> QED
  BY <1>1, <1>2, <1>6, <1>7

LEMMA RankOrders ==
  ASSUME NEW q \in Seq(Records), NEW j \in 1 .. Len(q), NEW k \in 1 .. Len(q)
  PROVE  /\ Precedes(q, j, k) \/ Precedes(q, k, j) \/ j = k
         /\ Precedes(q, j, k) => Rank(q, j) < Rank(q, k)
<1>1. Len(q) \in Nat /\ \A i \in 1 .. Len(q) : q[i] \in Records
  OBVIOUS
<1>2. \A i \in 1 .. Len(q) : q[i].at \in Nat
  BY <1>1, RecordFields
<1>3. Precedes(q, j, k) \/ Precedes(q, k, j) \/ j = k
  BY <1>1, <1>2 DEF Precedes
<1>4. ASSUME Precedes(q, j, k)
      PROVE  Rank(q, j) < Rank(q, k)
  <2>1. Before(q, j) \subseteq Before(q, k)
    <3> SUFFICES ASSUME NEW i \in 1 .. Len(q), Precedes(q, i, j)
                 PROVE  Precedes(q, i, k)
      BY DEF Before
    <3> QED
      BY <1>1, <1>2, <1>4 DEF Precedes
  <2>2. j \in Before(q, k) /\ j \notin Before(q, j)
    <3>1. ~ Precedes(q, j, j)
      BY <1>1, <1>2 DEF Precedes
    <3> QED
      BY <1>4, <3>1 DEF Before
  <2>3. Rank(q, j) \in Nat /\ Rank(q, k) \in Nat
    BY <1>1, RankIsCount
  <2>4. /\ Rank(q, j) = Cardinality(Before(q, j)) /\ Rank(q, k) = Cardinality(Before(q, k))
        /\ IsFiniteSet(Before(q, k))
    BY RankIsCount
  <2>5. /\ Cardinality(Before(q, j)) <= Cardinality(Before(q, k))
        /\ Cardinality(Before(q, k)) # Cardinality(Before(q, j))
    BY <2>1, <2>2, <2>4, FS_Subset
  <2> QED
    BY <2>3, <2>4, <2>5
<1> QED
  BY <1>3, <1>4

LEMMA RankIsPlace ==
  ASSUME NEW q \in Seq(Records), NEW n \in 1 .. Len(q)
  PROVE  \E j \in 1 .. Len(q) : Rank(q, j) = n - 1
<1> DEFINE S == 1 .. Len(q)
           f == [j \in S |-> Rank(q, j) + 1]
<1>1. Len(q) \in Nat
  OBVIOUS
<1>2. \A j \in S : Rank(q, j) \in 0 .. Len(q) - 1
  BY RankIsCount
<1>3. f \in [S -> S]
  BY <1>1, <1>2
<1>4. \A j, k \in S : Rank(q, j) = Rank(q, k) => j = k
  <2> SUFFICES ASSUME NEW j \in S, NEW k \in S, Rank(q, j) = Rank(q, k)
               PROVE  j = k
    OBVIOUS
  <2>1. Rank(q, j) \in Nat
    BY <1>1, <1>2
  <2> QED
    BY <2>1, RankOrders
<1>5. \A j, k \in S : f[j] = f[k] => j = k
  <2>1. \A j, k \in S : Rank(q, j) + 1 = Rank(q, k) + 1 => Rank(q, j) = Rank(q, k)
    BY <1>1, <1>2
  <2> QED
    BY <1>4, <2>1
<1>6. f \in Injection(S, S)
  BY <1>3, <1>5 DEF Injection, IsInjective
<1>7. IsFiniteSet(S)
  BY <1>1, FS_Interval
<1>8. f \in Surjection(S, S)
  BY <1>6, <1>7, FS_Injection
<1>9. PICK j \in S : f[j] = n
  BY <1>8 DEF Surjection
<1> QED
  BY <1>1, <1>2, <1>9

(* The records stand in the order of their stamps, each of the log once.   *)
SortOf(b, q) ==
    /\ b \in Seq(Records) /\ Len(b) = Len(q)
    /\ \A n, m \in 1 .. Len(q) : n < m => b[n].at < b[m].at
    /\ \A r : (\E n \in 1 .. Len(q) : b[n] = r) <=> (\E j \in 1 .. Len(q) : q[j] = r)

LEMMA SortedRecords ==
  ASSUME NEW q \in Seq(Records),
         \A i, j \in 1 .. Len(q) : q[i].at = q[j].at => i = j
  PROVE  SortOf(ByTime(q), q)
<1> DEFINE b == ByTime(q)
<1> DEFINE L == Len(q)
           place(n) == CHOOSE j \in 1 .. L : Rank(q, j) = n - 1
<1>1. L \in Nat /\ DOMAIN q = 1 .. L /\ \A i \in 1 .. L : q[i] \in Records
  OBVIOUS
<1>2. b = [n \in 1 .. L |-> q[place(n)]]
  BY <1>1 DEF ByTime
<1>3. \A n \in 1 .. L : place(n) \in 1 .. L /\ Rank(q, place(n)) = n - 1
  BY RankIsPlace
<1>4. \A j \in 1 .. L : Rank(q, j) \in 0 .. L - 1
  BY RankIsCount
<1>5. \A j, k \in 1 .. L : /\ Precedes(q, j, k) \/ Precedes(q, k, j) \/ j = k
                           /\ Precedes(q, j, k) => Rank(q, j) < Rank(q, k)
  BY RankOrders
<1>6. \A i, j \in 1 .. L : q[i].at = q[j].at => i = j
  OBVIOUS
<1>7. \A i \in 1 .. L : q[i].at \in Nat
  BY <1>1, RecordFields
<1> HIDE DEF L, place, b
<1>8. b \in [1 .. L -> Records] /\ \A n \in 1 .. L : b[n] = q[place(n)]
  BY <1>1, <1>2, <1>3
<1>9. b \in Seq(Records) /\ Len(b) = L
  BY <1>1, <1>8
<1>10. ASSUME NEW n \in 1 .. L, NEW m \in 1 .. L, n < m
       PROVE  b[n].at < b[m].at
  <2> DEFINE j == place(n)
             k == place(m)
  <2>1. j \in 1 .. L /\ k \in 1 .. L /\ Rank(q, j) = n - 1 /\ Rank(q, k) = m - 1
    BY <1>3
  <2> HIDE DEF j, k
  <2>2. Rank(q, j) < Rank(q, k) /\ ~ (Rank(q, k) < Rank(q, j)) /\ j # k
    BY <1>1, <1>10, <2>1
  <2>3. Precedes(q, j, k)
    BY <1>5, <2>1, <2>2
  <2>4. q[j].at < q[k].at
    BY <1>6, <2>1, <2>2, <2>3 DEF Precedes
  <2> QED
    BY <1>8, <2>4 DEF j, k
<1>11. ASSUME NEW j \in 1 .. L
       PROVE  \E n \in 1 .. L : b[n] = q[j]
  <2> DEFINE n == Rank(q, j) + 1
  <2>1. n \in 1 .. L /\ n - 1 = Rank(q, j)
    BY <1>1, <1>4
  <2> HIDE DEF n
  <2>2. place(n) \in 1 .. L /\ Rank(q, place(n)) = Rank(q, j) /\ Rank(q, j) \in Nat
    <3>1. place(n) \in 1 .. L /\ Rank(q, place(n)) = n - 1
      BY <1>3, <2>1
    <3> QED
      BY <1>1, <1>4, <2>1, <3>1
  <2>3. place(n) = j
    BY <1>5, <2>2
  <2> QED
    BY <1>8, <2>1, <2>3
<1>12. \A n \in 1 .. L : \E j \in 1 .. L : q[j] = b[n]
  BY <1>3, <1>8
<1>13. \A r : (\E n \in 1 .. L : b[n] = r) <=> (\E j \in 1 .. L : q[j] = r)
  <2> TAKE r
  <2>1. ASSUME NEW n \in 1 .. L, b[n] = r
        PROVE  \E j \in 1 .. L : q[j] = r
    BY <1>12, <2>1
  <2>2. ASSUME NEW j \in 1 .. L, q[j] = r
        PROVE  \E n \in 1 .. L : b[n] = r
    BY <1>11, <2>2
  <2> QED
    BY <2>1, <2>2
<1> QED
  BY <1>9, <1>10, <1>13 DEF L, SortOf, b

-----------------------------------------------------------------------------
(* What the reduction of a log makes of each session. *)

Entries == [record : Records \cup {None}, hint : Hints \cup {None}, turn : Tokens \cup {None}]
Reduced == [Sessions -> Entries]

LEMMA ReduceFields ==
  ASSUME NEW p \in Reduced, NEW r \in Records
  PROVE  /\ Reduce(p, r) \in Reduced
         /\ \A s \in Sessions : s # r.session => Reduce(p, r)[s] = p[s]
         /\ Reduce(p, r)[r.session] =
               [record |-> r, hint |-> NextHint(r, p[r.session].hint),
                turn |-> NextTurn(r, p[r.session].turn)]
<1> DEFINE s == r.session
           is == [record |-> r, hint |-> NextHint(r, p[s].hint), turn |-> NextTurn(r, p[s].turn)]
<1>1. s \in Sessions /\ r.hint \in Hints \cup {None} /\ Token(r) \in Tokens
  BY RecordFields
<1>2. p[s] \in Entries
  BY <1>1 DEF Reduced
<1>3. p[s].hint \in Hints \cup {None} /\ p[s].turn \in Tokens \cup {None}
  BY <1>2 DEF Entries
<1>4. is \in Entries
  BY <1>1, <1>3 DEF Entries, NextHint, NextTurn
<1>5. Reduce(p, r) = [p EXCEPT ![s] = is]
  BY DEF Reduce
<1> HIDE DEF is
<1>6. Reduce(p, r) \in Reduced /\ Reduce(p, r)[s] = is
      /\ \A z \in Sessions : z # s => Reduce(p, r)[z] = p[z]
  BY <1>1, <1>4, <1>5 DEF Reduced
<1> QED
  BY <1>6 DEF is

LEMMA ReductionSteps ==
  ASSUME NEW q \in Seq(Records), NEW u, u = Reductions(q)
  PROVE  /\ u \in [0 .. Len(q) -> Reduced]
         /\ u[0] = [s \in Sessions |-> Absent]
         /\ \A n \in 1 .. Len(q) : u[n] = Reduce(u[n - 1], q[n])
<1> DEFINE base == [s \in Sessions |-> Absent]
           step == [x \in Reduced \X Records |-> Reduce(x[1], x[2])]
           m == Len(q)
<1>1. base \in Reduced /\ m \in Nat /\ \A n \in 1 .. m : q[n] \in Records
  <2>1. Absent \in Entries
    BY DEF Absent, Entries
  <2> QED
    BY <2>1, LenProperties DEF Reduced
<1>2. step \in [Reduced \X Records -> Reduced]
  BY ReduceFields
<1>3. \A p \in Reduced, r \in Records : step[<<p, r>>] = Reduce(p, r)
  OBVIOUS
<1> HIDE DEF base, step, m
<1>4. PICK f \in [0 .. m -> Reduced] :
         /\ f[0] = base
         /\ \A n \in 1 .. m : f[n] = step[<<f[n - 1], q[n]>>]
  <2> DEFINE Folds(A, B) ==
        \A b \in A : \A st \in [A \X B -> A] : \A z \in Seq(B) :
           \E f \in [0 .. Len(z) -> A] :
              f[0] = b /\ \A n \in 1 .. Len(z) : f[n] = st[<<f[n - 1], z[n]>>]
  <2>1. \A A, B : Folds(A, B)
    BY FoldExists
  <2>2. Folds(Reduced, Records)
    <3> HIDE DEF Folds
    <3> QED
      BY <2>1
  <2> QED
    BY <1>1, <1>2, <2>2 DEF m
<1>5. \A n \in 1 .. m : f[n] = Reduce(f[n - 1], q[n])
  <2> SUFFICES ASSUME NEW n \in 1 .. m
               PROVE  f[n] = Reduce(f[n - 1], q[n])
    OBVIOUS
  <2>1. f[n - 1] \in Reduced /\ q[n] \in Records
    BY <1>1
  <2> QED
    BY <1>3, <1>4, <2>1
<1>6. f = [n \in 0 .. m |-> IF n = 0 THEN base ELSE Reduce(f[n - 1], q[n])]
  <2>1. \A n \in 0 .. m : f[n] = IF n = 0 THEN base ELSE Reduce(f[n - 1], q[n])
    <3>1. \A n \in 0 .. m : n = 0 \/ n \in 1 .. m
      BY <1>1
    <3> QED
      BY <1>4, <1>5, <3>1
  <2> QED
    BY <2>1
<1>7. u = CHOOSE g : g = [n \in 0 .. m |-> IF n = 0 THEN base ELSE Reduce(g[n - 1], q[n])]
  BY DEF Reductions, base, m
<1>8. u = [n \in 0 .. m |-> IF n = 0 THEN base ELSE Reduce(u[n - 1], q[n])]
  BY <1>6, <1>7
<1>9. \A n \in 0 .. m : u[n] = IF n = 0 THEN base ELSE Reduce(u[n - 1], q[n])
  BY <1>8
<1>10. \A n \in 0 .. m : u[n] \in Reduced
  <2> DEFINE T == {n \in 0 .. m : u[n] \in Reduced}
  <2>1. 0 \in T
    BY <1>1, <1>9
  <2>2. ASSUME NEW n \in 1 .. m, n - 1 \in T
        PROVE  n \in T
    <3>1. u[n] = Reduce(u[n - 1], q[n]) /\ n \in 0 .. m
      BY <1>1, <1>9
    <3> QED
      BY <1>1, <2>2, <3>1, ReduceFields
  <2>3. \A n \in 0 .. m : n \in T
    <3> HIDE DEF T
    <3> QED
      BY <1>1, <2>1, <2>2, UpTo
  <2> QED
    BY <2>3
<1> QED
  <2>1. u \in [0 .. m -> Reduced]
    BY <1>8, <1>10
  <2>2. u[0] = base /\ \A n \in 1 .. m : u[n] = Reduce(u[n - 1], q[n])
    BY <1>1, <1>9
  <2> QED
    BY <2>1, <2>2 DEF base, m

(* The same of a set of records, said without their order.                 *)
TurnIn(R) ==
    LET T == {r \in R : r.event \in Starts \cup Stops \cup Turns}
    IN  IF T # {} /\ Newest(T).event \in Turns THEN Token(Newest(T)) ELSE None
HintIn(R) ==
    LET H == {r \in R : r.event \in Starts \cup Turns \/ r.hint # None}
    IN  IF H # {} THEN Newest(H).hint ELSE None
EntryIn(R) ==
    [record |-> IF R = {} THEN None ELSE Newest(R), hint |-> HintIn(R), turn |-> TurnIn(R)]

LEMMA NewestIsLast ==
  ASSUME NEW R \in SUBSET Records, NEW x \in R, \A r \in R : r = x \/ r.at < x.at
  PROVE  Newest(R) = x
<1>1. \A r \in R : r.at \in Nat
  BY RecordFields
<1>2. \A r \in R : r.at <= x.at
  BY <1>1
<1>3. \A y \in R : (\A r \in R : r.at <= y.at) => y = x
  BY <1>1
<1> QED
  BY <1>2, <1>3 DEF Newest

LEMMA EntryAdded ==
  ASSUME NEW R \in SUBSET Records, NEW x \in Records, \A r \in R : r.at < x.at
  PROVE  EntryIn(R \cup {x}) =
            [record |-> x, hint |-> NextHint(x, EntryIn(R).hint),
             turn |-> NextTurn(x, EntryIn(R).turn)]
<1>1. \A S \in SUBSET R : Newest(S \cup {x}) = x
  <2> SUFFICES ASSUME NEW S \in SUBSET R
               PROVE  Newest(S \cup {x}) = x
    OBVIOUS
  <2> QED
    BY NewestIsLast
<1>2. TurnIn(R \cup {x}) = NextTurn(x, TurnIn(R))
  <2> DEFINE Sorts(S) == {r \in S : r.event \in Starts \cup Stops \cup Turns}
  <2>1. CASE x.event \in Starts \cup Stops \cup Turns
    <3>1. Sorts(R \cup {x}) = Sorts(R) \cup {x}
      BY <2>1
    <3>2. Newest(Sorts(R) \cup {x}) = x
      BY <1>1
    <3>3. x.event \notin Turns => x.event \in Starts \cup Stops
      BY <2>1
    <3>4. TurnIn(R \cup {x}) = IF x.event \in Turns THEN Token(x) ELSE None
      BY <3>1, <3>2 DEF TurnIn
    <3> QED
      BY <3>3, <3>4 DEF NextTurn
  <2>2. CASE x.event \notin Starts \cup Stops \cup Turns
    <3>1. Sorts(R \cup {x}) = Sorts(R)
      BY <2>2
    <3>2. TurnIn(R \cup {x}) = TurnIn(R)
      BY <3>1 DEF TurnIn
    <3> QED
      BY <2>2, <3>2 DEF NextTurn
  <2> QED
    BY <2>1, <2>2
<1>3. HintIn(R \cup {x}) = NextHint(x, HintIn(R))
  <2> DEFINE Sorts(S) == {r \in S : r.event \in Starts \cup Turns \/ r.hint # None}
  <2>1. CASE x.event \in Starts \cup Turns \/ x.hint # None
    <3>1. Sorts(R \cup {x}) = Sorts(R) \cup {x}
      BY <2>1
    <3>2. Newest(Sorts(R) \cup {x}) = x
      BY <1>1
    <3>3. HintIn(R \cup {x}) = x.hint
      BY <3>1, <3>2 DEF HintIn
    <3> QED
      BY <2>1, <3>3 DEF NextHint
  <2>2. CASE ~ (x.event \in Starts \cup Turns \/ x.hint # None)
    <3>1. Sorts(R \cup {x}) = Sorts(R)
      BY <2>2
    <3>2. HintIn(R \cup {x}) = HintIn(R)
      BY <3>1 DEF HintIn
    <3> QED
      BY <2>2, <3>2 DEF NextHint
  <2> QED
    BY <2>1, <2>2
<1>4. Newest(R \cup {x}) = x /\ R \cup {x} # {}
  BY <1>1
<1> QED
  BY <1>2, <1>3, <1>4 DEF EntryIn

HasLast(R) == \E n \in R : \A r \in R : r = n \/ r.at < n.at

InPlaces(b, n, s) == {r \in Records : r.session = s /\ \E i \in 1 .. n : b[i] = r}
RecordsOf(q, s) == {r \in Range(q) : r.session = s}

LEMMA ReductionsAreNewest ==
  ASSUME NEW b \in Seq(Records), NEW u, u = Reductions(b),
         \A n, m \in 1 .. Len(b) : n < m => b[n].at < b[m].at
  PROVE  \A n \in 0 .. Len(b) : \A s \in Sessions :
            /\ u[n][s] = EntryIn(InPlaces(b, n, s))
            /\ InPlaces(b, n, s) # {} => HasLast(InPlaces(b, n, s))
<1> DEFINE m == Len(b)
           Holds(n) == \A s \in Sessions :
              /\ u[n][s] = EntryIn(InPlaces(b, n, s))
              /\ InPlaces(b, n, s) # {} => HasLast(InPlaces(b, n, s))
           T == {n \in 0 .. m : Holds(n)}
<1>1. /\ u \in [0 .. m -> Reduced]
      /\ u[0] = [s \in Sessions |-> Absent]
      /\ \A n \in 1 .. m : u[n] = Reduce(u[n - 1], b[n])
  BY ReductionSteps
<1>2. m \in Nat /\ \A n \in 1 .. m : b[n] \in Records
  OBVIOUS
<1>3. \A n, k \in 1 .. m : n < k => b[n].at < b[k].at
  OBVIOUS
<1> HIDE DEF m
<1>4. 0 \in T
  <2>1. \A s \in Sessions : InPlaces(b, 0, s) = {}
    <3>1. 1 .. 0 = {}
      OBVIOUS
    <3> QED
      BY <3>1 DEF InPlaces
  <2>2. EntryIn({}) = Absent
    BY DEF EntryIn, HintIn, TurnIn, Absent
  <2>3. Holds(0)
    BY <1>1, <2>1, <2>2
  <2> QED
    BY <1>2, <2>3
<1>5. ASSUME NEW n \in 1 .. m, n - 1 \in T
      PROVE  n \in T
  <2> DEFINE x == b[n]
             R(s) == InPlaces(b, n - 1, s)
  <2>1. /\ x \in Records /\ n - 1 \in 0 .. m /\ n \in 0 .. m
        /\ \A i \in 1 .. n : i \in 1 .. n - 1 \/ i = n
        /\ \A i \in 1 .. n - 1 : i \in 1 .. n /\ i \in 1 .. m /\ i < n
        /\ n \in 1 .. n
    BY <1>2
  <2>2. u[n - 1] \in Reduced /\ u[n] = Reduce(u[n - 1], x)
    BY <1>1, <2>1
  <2>3. Holds(n - 1)
    BY <1>5
  <2> SUFFICES ASSUME NEW s \in Sessions
               PROVE  /\ u[n][s] = EntryIn(InPlaces(b, n, s))
                      /\ InPlaces(b, n, s) # {} => HasLast(InPlaces(b, n, s))
    BY <2>1
  <2>4. /\ u[n - 1][s] = EntryIn(R(s))
        /\ R(s) # {} => HasLast(R(s))
    BY <2>3
  <2>5. CASE s = x.session
    <3>1. InPlaces(b, n, s) = R(s) \cup {x}
      BY <2>1, <2>5 DEF InPlaces
    <3>2. \A r \in R(s) : r.at < x.at
      BY <1>3, <2>1 DEF InPlaces
    <3>3. R(s) \in SUBSET Records
      BY DEF InPlaces
    <3>4. u[n][s] = [record |-> x, hint |-> NextHint(x, u[n - 1][s].hint),
                     turn |-> NextTurn(x, u[n - 1][s].turn)]
      BY <2>1, <2>2, <2>5, ReduceFields
    <3> HIDE DEF R, x
    <3>5. EntryIn(R(s) \cup {x}) =
             [record |-> x, hint |-> NextHint(x, EntryIn(R(s)).hint),
              turn |-> NextTurn(x, EntryIn(R(s)).turn)]
      BY <2>1, <3>2, <3>3, EntryAdded
    <3>6. HasLast(R(s) \cup {x})
      BY <3>2 DEF HasLast
    <3> QED
      BY <2>4, <3>1, <3>4, <3>5, <3>6
  <2>6. CASE s # x.session
    <3>1. InPlaces(b, n, s) = R(s)
      BY <2>1, <2>6 DEF InPlaces
    <3>2. u[n][s] = u[n - 1][s]
      <4> DEFINE v == u[n - 1]
      <4>1. v \in Reduced /\ x \in Records /\ u[n] = Reduce(v, x)
        BY <2>1, <2>2
      <4> HIDE DEF v, x
      <4>2. Reduce(v, x)[s] = v[s]
        BY <2>6, <4>1, ReduceFields
      <4> QED
        BY <4>1, <4>2 DEF v
    <3> QED
      BY <2>4, <3>1, <3>2
  <2> QED
    BY <2>5, <2>6
<1>6. \A n \in 0 .. m : n \in T
  <2> HIDE DEF T
  <2> QED
    BY <1>2, <1>4, <1>5, UpTo
<1> QED
  BY <1>6 DEF m

(* Whatever the order of the log, a session's entry is that of its newest. *)
LEMMA LatestIsNewest ==
  ASSUME NEW q \in Seq(Records),
         \A i, j \in 1 .. Len(q) : q[i].at = q[j].at => i = j,
         NEW s \in Sessions
  PROVE  /\ Latest(q)[s] = EntryIn(RecordsOf(q, s))
         /\ RecordsOf(q, s) # {} => HasLast(RecordsOf(q, s))
         /\ RecordsOf(q, s) \subseteq Records
<1> DEFINE b == ByTime(q)
           m == Len(q)
<1>0. b = ByTime(q) /\ m = Len(q) /\ m \in Nat
  OBVIOUS
<1> HIDE DEF b, m
<1>1. /\ b \in Seq(Records) /\ Len(b) = m
      /\ \A n, k \in 1 .. m : n < k => b[n].at < b[k].at
      /\ \A r : (\E n \in 1 .. m : b[n] = r) <=> (\E j \in 1 .. m : q[j] = r)
  <2>1. SortOf(ByTime(q), q)
    BY SortedRecords
  <2> QED
    BY <1>0, <2>1 DEF SortOf
<1>2. Range(q) = {q[j] : j \in 1 .. m} /\ Range(q) \subseteq Records
  BY <1>0 DEF Range
<1>3. InPlaces(b, m, s) = RecordsOf(q, s)
  <2>1. \A r : r \in Range(q) <=> \E j \in 1 .. m : q[j] = r
    BY <1>2
  <2>2. \A r : r \in Range(q) <=> \E n \in 1 .. m : b[n] = r
    BY <1>1, <2>1
  <2> QED
    BY <1>2, <2>2 DEF InPlaces, RecordsOf
<1>4. /\ Reductions(b)[m][s] = EntryIn(InPlaces(b, m, s))
      /\ InPlaces(b, m, s) # {} => HasLast(InPlaces(b, m, s))
  <2>1. m \in 0 .. Len(b) /\ \A n, k \in 1 .. Len(b) : n < k => b[n].at < b[k].at
    BY <1>0, <1>1
  <2> QED
    BY <1>1, <2>1, ReductionsAreNewest
<1>5. Latest(q) = Reductions(b)[m]
  BY <1>0 DEF Latest
<1>6. RecordsOf(q, s) \subseteq Records
  BY <1>2 DEF RecordsOf
<1> QED
  BY <1>3, <1>4, <1>5, <1>6

-----------------------------------------------------------------------------
(* The inductive invariant.  No two records share a stamp, a record is in  *)
(* the log or on its way to it, and the pairing goes by what the log holds *)
(* when a completion reaches it: the rest describes how the turns that no  *)
(* completion has taken, and those taken, change from append to append.    *)

Pending == Unmatched(log)[Len(log)]
Paired(c) == CompletionTurnToken(log, c)
IsTurn(r) == r.event \in Turns
IsCompletion(r) == r.event \in Completions
IsBoundary(r) == r.event \in Starts \cup Stops
IsMark(r) == r.event \notin Beats

(* Every stamp is the time of one process. *)
Stamped ==
    /\ \A i, j \in 1 .. Len(log) : log[i].at = log[j].at => i = j
    /\ \A i \in 1 .. Len(log) : log[i].at < clock
    /\ \A h \in Hooks : hooks[h] # Free => hooks[h].record.at < clock
    /\ \A h \in Hooks : Waiting(h) =>
          \A i \in 1 .. Len(log) : log[i].at # hooks[h].record.at
    /\ \A h, k \in Hooks :
          Waiting(h) /\ Waiting(k) /\ hooks[h].record.at = hooks[k].record.at => h = k
    /\ \A h \in Hooks : hooks[h] # Free /\ hooks[h].pc = "appended" =>
          \E i \in 1 .. Len(log) : log[i] = hooks[h].record

(* The turn at place i of the log q is session s's, and s neither started    *)
(* nor stopped from there to place j.                                      *)
TurnBefore(q, i, j, s, token) ==
    /\ q[i].session = s /\ IsTurn(q[i]) /\ Token(q[i]) = token
    /\ \A k \in i .. j : q[k].session = s => ~ IsBoundary(q[k])

(* What is pending was put in the log by this incarnation, and is not      *)
(* pending twice.                                                          *)
PendingTurns ==
    \A s \in Sessions :
        /\ \A n \in 1 .. Len(Pending[s]) :
              \E i \in 1 .. Len(log) : TurnBefore(log, i, Len(log), s, Pending[s][n])
        /\ \A n, m \in 1 .. Len(Pending[s]) : Pending[s][n] = Pending[s][m] => n = m

(* What a completion took came before it, and is no longer pending. *)
PairedTurns ==
    \A j \in 1 .. Len(log) :
        IsCompletion(log[j]) /\ Paired(log[j]) # None =>
            /\ \E i \in 1 .. j - 1 : TurnBefore(log, i, j, log[j].session, Paired(log[j]))
            /\ \A s \in Sessions : \A n \in 1 .. Len(Pending[s]) : Pending[s][n] # Paired(log[j])

PairedOnce ==
    \A i, j \in 1 .. Len(log) :
        /\ IsCompletion(log[i]) /\ IsCompletion(log[j])
        /\ Paired(log[i]) # None /\ Paired(log[i]) = Paired(log[j])
        => i = j

PairingInv == PendingTurns /\ PairedTurns /\ PairedOnce

(* A turn is settled by the completion that is paired with it. *)
Settlements ==
    \A d \in settled :
        /\ \E j \in 1 .. Len(log) : log[j] = d.completion
        /\ IsCompletion(d.completion)
        /\ d.turn = Paired(d.completion) /\ d.turn # None

(* The marks of a session: in the log, or waiting to be appended. *)
LogMarks(s) == {r \in Range(log) : r.session = s /\ IsMark(r)}
WaitingMarks(s) ==
    {r \in Records : r.session = s /\ \E h \in Hooks : Marks(h) /\ hooks[h].record = r}
AllMarks(s) == LogMarks(s) \cup WaitingMarks(s)

(* A turn of M that no mark of M follows; one that some mark follows. *)
LastTurn(M, t) == t \in M /\ IsTurn(t) /\ \A r \in M : r.at <= t.at
TurnsEnded(M) == \A t \in M : IsTurn(t) => \E r \in M : t.at < r.at /\ ~ IsTurn(r)

InOrder(s) == \A r \in LogMarks(s), w \in WaitingMarks(s) : r.at < w.at
Alternate(s) ==
    \A t, u \in AllMarks(s) :
        IsTurn(t) /\ IsTurn(u) /\ t.at < u.at =>
            \E r \in AllMarks(s) : t.at < r.at /\ r.at < u.at /\ ~ IsTurn(r)
OpenTurn(s) ==
    IF open[s] = None THEN TurnsEnded(AllMarks(s))
    ELSE \E t \in AllMarks(s) : LastTurn(AllMarks(s), t) /\ open[s] = Token(t)
PendingTurn(s) ==
    \/ Pending[s] = << >> /\ TurnsEnded(LogMarks(s))
    \/ \E t \in LogMarks(s) : LastTurn(LogMarks(s), t) /\ Pending[s] = <<Token(t)>>
CompletesTurn(s) ==
    \A h \in Hooks :
        Marks(h) /\ hooks[h].record.session = s /\ IsCompletion(hooks[h].record) =>
            \E t \in AllMarks(s) :
                /\ IsTurn(t) /\ hooks[h].of = Token(t) /\ t.at < hooks[h].record.at
                /\ \A r \in AllMarks(s) : r.at <= t.at \/ hooks[h].record.at <= r.at
CompletedTurn(s) ==
    \A h \in Hooks :
        /\ hooks[h] # Free /\ hooks[h].pc = "appended"
        /\ hooks[h].record.session = s /\ IsCompletion(hooks[h].record)
        => Paired(hooks[h].record) = hooks[h].of

(* While a session is orderly, its marks reach the log in the order of     *)
(* their stamps, turns and ends alternate, at most one turn is pending.    *)
OrderlyAt(s) ==
    /\ InOrder(s) /\ Alternate(s) /\ OpenTurn(s) /\ PendingTurn(s)
    /\ CompletesTurn(s) /\ CompletedTurn(s)
Orderly == \A s \in Sessions \ disturbed : OrderlyAt(s)

StoreInv ==
    /\ TypeOK /\ Stamped /\ PairingInv /\ Settlements
    /\ Orderly /\ OrderlyTurnsSettleThemselves

-----------------------------------------------------------------------------
(* The steps, by what they do to the log and the hooks. *)

Stamps(h, r, of) ==
    /\ hooks[h] = Free /\ clock < MaxClock /\ r.at = clock
    /\ hooks' = [hooks EXCEPT ![h] = [pc |-> "stamped", of |-> of, record |-> r]]
    /\ clock' = clock + 1
    /\ UNCHANGED <<log, broken, settled, shortWrites>>

Leaves(h) ==
    /\ hooks[h] # Free
    /\ hooks' = [hooks EXCEPT ![h] = Free]
    /\ UNCHANGED <<log, open, clock>>

Rests ==
    /\ UNCHANGED <<log, hooks, settled>>
    /\ clock' \in {clock, clock + 1} /\ clock' <= MaxClock

LEMMA StampStamps ==
  ASSUME TypeOK, NEW h \in Hooks, NEW s \in Sessions, NEW e \in Events,
         NEW hint \in Hints \cup {None}, Stamp(h, s, e, hint)
  PROVE  \E r \in Records :
            /\ Stamps(h, r, open[s])
            /\ r.session = s /\ r.event = e /\ r.at = clock /\ r.hint = hint
<1> DEFINE r == [session |-> s, event |-> e, at |-> clock, expires |-> clock + TTL, hint |-> hint]
<1>1. clock \in 0 .. MaxClock /\ clock + TTL \in Nat
  BY EventStoreAssumption DEF TypeOK
<1>2. r \in Records
  BY <1>1 DEF Records
<1>3. Stamps(h, r, open[s])
  BY DEF Stamp, Stamps
<1> QED
  BY <1>2, <1>3

LEMMA AgentStepStamps ==
  ASSUME TypeOK, NEW h \in Hooks, NEW s \in Sessions,
         \/ AgentStarts(h, s) \/ AgentStops(h, s) \/ AgentBeats(h, s)
         \/ AgentTakesInput(h, s) \/ AgentCompletes(h, s)
  PROVE  \E r \in Records :
            /\ Stamps(h, r, open[s]) /\ r.session = s
            /\ \/ /\ IsBoundary(r) /\ open' = [open EXCEPT ![s] = None]
                  /\ disturbed' = disturbed
               \/ ~ IsMark(r) /\ open' = open /\ disturbed' = disturbed
               \/ /\ IsTurn(r) /\ open' = [open EXCEPT ![s] = <<s, clock>>]
                  /\ disturbed' = disturbed \cup {x \in {s} : open[s] # None}
               \/ /\ IsCompletion(r) /\ open[s] # None /\ open' = [open EXCEPT ![s] = None]
                  /\ disturbed' = disturbed
<1> USE DEF Events, Starts, Turns, Beats, Completions, Stops, IsBoundary, IsTurn, IsMark,
            IsCompletion
<1>1. None \in Hints \cup {None}
  OBVIOUS
<1>2. CASE AgentStarts(h, s)
  BY <1>1, <1>2, StampStamps DEF AgentStarts
<1>3. CASE AgentStops(h, s)
  BY <1>1, <1>3, StampStamps DEF AgentStops
<1>4. CASE AgentBeats(h, s)
  <2>1. PICK hint \in Hints \cup {None} : Stamp(h, s, "beat", hint)
    BY <1>4 DEF AgentBeats
  <2>2. open' = open /\ disturbed' = disturbed
    BY <1>4 DEF AgentBeats
  <2> QED
    BY <2>1, <2>2, StampStamps
<1>5. CASE AgentTakesInput(h, s)
  <2>1. PICK hint \in Hints \cup {None} : Stamp(h, s, "turn", hint)
    BY <1>5 DEF AgentTakesInput
  <2>2. /\ open' = [open EXCEPT ![s] = <<s, clock>>]
        /\ disturbed' = disturbed \cup {x \in {s} : open[s] # None}
    BY <1>5 DEF AgentTakesInput
  <2> QED
    BY <2>1, <2>2, StampStamps
<1>6. CASE AgentCompletes(h, s)
  BY <1>1, <1>6, StampStamps DEF AgentCompletes
<1> QED
  BY <1>2, <1>3, <1>4, <1>5, <1>6

LEMMA StoreTypeStep ==
  ASSUME TypeOK, [Next]_vars
  PROVE  TypeOK'
<1>1. ASSUME NEW h \in Hooks, NEW s \in Sessions,
             \/ AgentStarts(h, s) \/ AgentStops(h, s) \/ AgentBeats(h, s)
             \/ AgentTakesInput(h, s) \/ AgentCompletes(h, s)
      PROVE  TypeOK'
  <2>1. PICK r \in Records : Stamps(h, r, open[s])
    BY <1>1, AgentStepStamps
  <2>2. clock \in 0 .. MaxClock /\ clock' \in 0 .. MaxClock
    BY <2>1, EventStoreAssumption DEF TypeOK, Stamps
  <2>3. hooks' \in [Hooks -> {Free} \cup Running]
    <3>1. [pc |-> "stamped", of |-> open[s], record |-> r] \in Running
      BY DEF TypeOK, Running
    <3> QED
      BY <2>1, <3>1 DEF Stamps, TypeOK
  <2>4. <<s, clock>> \in Tokens
    BY <2>2 DEF Tokens
  <2>5. open' \in [Sessions -> Tokens \cup {None}] /\ disturbed' \subseteq Sessions
    <3>1. \/ open' = open \/ open' = [open EXCEPT ![s] = None]
          \/ open' = [open EXCEPT ![s] = <<s, clock>>]
      BY <1>1 DEF AgentStarts, AgentStops, AgentBeats, AgentTakesInput, AgentCompletes
    <3>2. disturbed' \subseteq disturbed \cup {s}
      BY <1>1 DEF AgentStarts, AgentStops, AgentBeats, AgentTakesInput, AgentCompletes
    <3> QED
      BY <2>4, <3>1, <3>2 DEF TypeOK
  <2> QED
    BY <2>1, <2>2, <2>3, <2>5 DEF Stamps, TypeOK
<1>2. ASSUME NEW h \in Hooks, hooks[h].pc = "stamped" \/ hooks[h].pc = "appended" \/ hooks[h] # Free
      PROVE  /\ hooks[h] \in Running /\ hooks[h].record \in Records
             /\ [hooks EXCEPT ![h] = Free] \in [Hooks -> {Free} \cup Running]
             /\ [hooks EXCEPT ![h].pc = "appended"] \in [Hooks -> {Free} \cup Running]
  <2>1. hooks[h] \in Running
    BY <1>2 DEF TypeOK, Free
  <2>2. hooks[h].record \in Records /\ [hooks[h] EXCEPT !.pc = "appended"] \in Running
    BY <2>1 DEF Running
  <2> QED
    BY <2>1, <2>2 DEF TypeOK
<1>3. ASSUME NEW h \in Hooks, AppendRecord(h)
      PROVE  TypeOK'
  <2>1. hooks[h].record \in Records /\ hooks' \in [Hooks -> {Free} \cup Running]
    BY <1>2, <1>3 DEF AppendRecord
  <2>2. log' \in Seq(Records) /\ Len(log') = Len(log) + 1 /\ Len(log) \in Nat
    BY <1>3, <2>1 DEF AppendRecord, TypeOK
  <2>3. Len(log') <= MaxRecords
    BY <1>3, <2>2, EventStoreAssumption DEF AppendRecord
  <2>4. disturbed' \subseteq Sessions
    BY <1>3 DEF AppendRecord, TypeOK, Overtakes, LosesMark
  <2> QED
    BY <1>3, <2>1, <2>2, <2>3, <2>4 DEF AppendRecord, TypeOK
<1>4. ASSUME NEW h \in Hooks, AppendShort(h)
      PROVE  TypeOK'
  <2>1. hooks' \in [Hooks -> {Free} \cup Running]
    BY <1>2, <1>4 DEF AppendShort
  <2>2. shortWrites' \in 0 .. MaxShortWrites
    BY <1>4, EventStoreAssumption DEF AppendShort, TypeOK
  <2>3. disturbed' \subseteq Sessions
    BY <1>4 DEF AppendShort, TypeOK, LosesMark
  <2> QED
    BY <1>4, <2>1, <2>2, <2>3 DEF AppendShort, TypeOK
<1>5. ASSUME NEW h \in Hooks, Settle(h)
      PROVE  TypeOK'
  <2>1. hooks[h] \in Running /\ hooks' \in [Hooks -> {Free} \cup Running]
    BY <1>2, <1>5 DEF Settle
  <2>2. hooks[h].record \in Records /\ hooks[h].of \in Tokens \cup {None}
    BY <2>1 DEF Running
  <2> DEFINE r == hooks[h].record
             d == [completion |-> r, of |-> hooks[h].of, turn |-> CompletionTurnToken(log, r)]
  <2>3. settled' = settled \/ (CompletionTurnToken(log, r) # None /\ settled' = settled \cup {d})
    BY <1>5 DEF Settle
  <2>4. CompletionTurnToken(log, r) # None => CompletionTurnToken(log, r) \in Tokens
    BY <2>2, PairingIsToken DEF TypeOK
  <2>5. settled' \subseteq [completion : Records, turn : Tokens, of : Tokens \cup {None}]
    BY <2>2, <2>3, <2>4 DEF TypeOK
  <2> QED
    BY <1>5, <2>1, <2>5 DEF Settle, TypeOK
<1>6. ASSUME NEW h \in Hooks, Kill(h)
      PROVE  TypeOK'
  <2>1. hooks' \in [Hooks -> {Free} \cup Running]
    BY <1>2, <1>6 DEF Kill
  <2>2. disturbed' \subseteq Sessions
    BY <1>6 DEF Kill, TypeOK, LosesMark
  <2> QED
    BY <1>6, <2>1, <2>2 DEF Kill, TypeOK
<1>7. ASSUME NEW s \in Sessions, AgentInterrupted(s)
      PROVE  TypeOK'
  BY <1>7 DEF AgentInterrupted, TypeOK
<1>8. CASE Tick
  BY <1>8, EventStoreAssumption DEF Tick, TypeOK
<1>9. CASE UNCHANGED vars
  BY <1>9 DEF vars, TypeOK
<1> QED
  BY <1>1, <1>3, <1>4, <1>5, <1>6, <1>7, <1>8, <1>9 DEF Next, HookStep

AgentForm(h, s, r) ==
    /\ Stamps(h, r, open[s]) /\ r.session = s
    /\ \/ /\ IsBoundary(r) /\ open' = [open EXCEPT ![s] = None]
          /\ disturbed' = disturbed
       \/ ~ IsMark(r) /\ open' = open /\ disturbed' = disturbed
       \/ /\ IsTurn(r) /\ open' = [open EXCEPT ![s] = <<s, clock>>]
          /\ disturbed' = disturbed \cup {x \in {s} : open[s] # None}
       \/ /\ IsCompletion(r) /\ open[s] # None /\ open' = [open EXCEPT ![s] = None]
          /\ disturbed' = disturbed

LEMMA StoreStepForms ==
  ASSUME TypeOK, [Next]_vars
  PROVE  \/ \E h \in Hooks, s \in Sessions, r \in Records : AgentForm(h, s, r)
         \/ \E h \in Hooks : hooks[h] \in Running /\ AppendRecord(h)
         \/ \E h \in Hooks : /\ Leaves(h) /\ settled' = settled
                             /\ disturbed' = disturbed \cup LosesMark(h)
         \/ \E h \in Hooks : hooks[h] \in Running /\ Leaves(h) /\ Settle(h)
         \/ \E s \in Sessions : Rests /\ AgentInterrupted(s)
         \/ Rests /\ open' = open /\ disturbed' = disturbed
<1>1. ASSUME NEW h \in Hooks, NEW s \in Sessions,
             \/ AgentStarts(h, s) \/ AgentStops(h, s) \/ AgentBeats(h, s)
             \/ AgentTakesInput(h, s) \/ AgentCompletes(h, s)
      PROVE  \E r \in Records : AgentForm(h, s, r)
  BY <1>1, AgentStepStamps DEF AgentForm
<1>2. ASSUME NEW h \in Hooks, hooks[h].pc = "stamped" \/ hooks[h].pc = "appended"
      PROVE  hooks[h] # Free /\ hooks[h] \in Running
  BY <1>2 DEF TypeOK, Free
<1>3. ASSUME NEW h \in Hooks, HookStep(h)
      PROVE  \/ hooks[h] \in Running /\ AppendRecord(h)
             \/ /\ Leaves(h) /\ settled' = settled
                /\ disturbed' = disturbed \cup LosesMark(h)
             \/ hooks[h] \in Running /\ Leaves(h) /\ Settle(h)
  <2>1. CASE AppendRecord(h)
    BY <1>2, <2>1 DEF AppendRecord
  <2>2. CASE AppendShort(h)
    BY <1>2, <2>2 DEF AppendShort, Leaves
  <2>3. CASE Settle(h)
    BY <1>2, <2>3 DEF Settle, Leaves
  <2>4. CASE Kill(h)
    BY <2>4 DEF Kill, Leaves
  <2> QED
    BY <1>3, <2>1, <2>2, <2>3, <2>4 DEF HookStep
<1>4. ASSUME NEW s \in Sessions, AgentInterrupted(s)
      PROVE  Rests
  BY <1>4 DEF AgentInterrupted, Rests, TypeOK
<1>5. CASE Tick
  <2>1. Rests
    BY <1>5, EventStoreAssumption DEF Tick, Rests, TypeOK
  <2> QED
    BY <1>5, <2>1 DEF Tick
<1>6. CASE UNCHANGED vars
  <2>1. Rests
    BY <1>6 DEF vars, Rests, TypeOK
  <2> QED
    BY <1>6, <2>1 DEF vars
<1> QED
  BY <1>1, <1>3, <1>4, <1>5, <1>6 DEF Next

LEMMA StoreNumbers ==
  ASSUME TypeOK
  PROVE  /\ clock \in Nat /\ Len(log) \in Nat
         /\ \A i \in 1 .. Len(log) : log[i] \in Records /\ log[i].at \in Nat
         /\ \A h \in Hooks : hooks[h] # Free => hooks[h] \in Running
         /\ \A h \in Hooks : hooks[h] \in Running =>
               hooks[h] # Free /\ hooks[h].record \in Records /\ hooks[h].record.at \in Nat
<1>1. clock \in Nat /\ Len(log) \in Nat /\ \A i \in 1 .. Len(log) : log[i] \in Records
  BY EventStoreAssumption DEF TypeOK
<1>2. \A h \in Hooks : hooks[h] # Free => hooks[h] \in Running
  BY DEF TypeOK
<1>3. \A h \in Hooks : hooks[h] \in Running => hooks[h] # Free /\ hooks[h].record \in Records
  BY DEF Running, Free
<1> QED
  BY <1>1, <1>2, <1>3, RecordFields

(* The record a hook appends is new to the log, and to every other hook. *)
LEMMA AppendForm ==
  ASSUME TypeOK, Stamped, NEW h \in Hooks, hooks[h] \in Running, AppendRecord(h)
  PROVE  LET x == hooks[h].record
         IN  /\ x \in Records /\ log' = Append(log, x) /\ Waiting(h)
             /\ \A i \in 1 .. Len(log) : log[i] # x /\ log[i].at # x.at
             /\ hooks' = [hooks EXCEPT ![h].pc = "appended"]
             /\ hooks'[h].pc = "appended" /\ hooks'[h] # Free
             /\ hooks'[h].record = x /\ hooks'[h].of = hooks[h].of
             /\ \A k \in Hooks : k # h => hooks'[k] = hooks[k]
<1>1. hooks[h] # Free /\ hooks[h].record \in Records
  BY StoreNumbers
<1>2. Waiting(h)
  BY <1>1 DEF AppendRecord, Waiting
<1>3. hooks \in [Hooks -> {Free} \cup Running]
  BY DEF TypeOK
<1>4. /\ hooks' = [hooks EXCEPT ![h].pc = "appended"]
      /\ hooks'[h] = [hooks[h] EXCEPT !.pc = "appended"]
      /\ \A k \in Hooks : k # h => hooks'[k] = hooks[k]
  BY <1>3 DEF AppendRecord
<1>5. /\ hooks'[h].pc = "appended" /\ hooks'[h] # Free
      /\ hooks'[h].record = hooks[h].record /\ hooks'[h].of = hooks[h].of
  BY <1>4 DEF Running, Free
<1>6. \A i \in 1 .. Len(log) : log[i].at # hooks[h].record.at
  BY <1>2 DEF Stamped
<1> QED
  BY <1>1, <1>2, <1>4, <1>5, <1>6 DEF AppendRecord

LEMMA StampedStep ==
  ASSUME TypeOK, Stamped, [Next]_vars
  PROVE  Stamped'
<1>n. /\ clock \in Nat /\ Len(log) \in Nat
      /\ \A i \in 1 .. Len(log) : log[i] \in Records /\ log[i].at \in Nat
      /\ \A h \in Hooks : hooks[h] # Free => hooks[h] \in Running
      /\ \A h \in Hooks : hooks[h] # Free => hooks[h].record.at \in Nat
  BY StoreNumbers
<1>f. hooks \in [Hooks -> {Free} \cup Running]
  BY DEF TypeOK
<1>1. ASSUME NEW h \in Hooks, NEW s \in Sessions, NEW r \in Records, AgentForm(h, s, r)
      PROVE  Stamped'
  <2>1. /\ log' = log /\ clock' = clock + 1 /\ r.at = clock
        /\ hooks[h] = Free
        /\ hooks'[h] = [pc |-> "stamped", of |-> open[s], record |-> r]
        /\ \A k \in Hooks : k # h => hooks'[k] = hooks[k]
    BY <1>1, <1>f DEF AgentForm, Stamps
  <2>2. hooks'[h] # Free /\ hooks'[h].pc = "stamped" /\ hooks'[h].record.at = clock
    BY <2>1 DEF Free
  <2>3. \A i \in 1 .. Len(log) : log[i].at < clock' /\ log[i].at # clock
    BY <1>n, <2>1 DEF Stamped
  <2>4. \A k \in Hooks : hooks[k] # Free =>
           hooks[k].record.at < clock' /\ hooks[k].record.at # clock
    BY <1>n, <2>1 DEF Stamped
  <2>5. \A k \in Hooks : hooks'[k] # Free => hooks'[k].record.at < clock'
    BY <1>n, <2>1, <2>2, <2>4
  <2>6. \A k \in Hooks : Waiting(k)' =>
           \A i \in 1 .. Len(log) : log[i].at # hooks'[k].record.at
    BY <2>1, <2>2, <2>3 DEF Stamped, Waiting
  <2>7. \A j, k \in Hooks :
           Waiting(j)' /\ Waiting(k)' /\ hooks'[j].record.at = hooks'[k].record.at => j = k
    BY <2>1, <2>2, <2>4 DEF Stamped, Waiting
  <2>8. \A k \in Hooks : hooks'[k] # Free /\ hooks'[k].pc = "appended" =>
           \E i \in 1 .. Len(log) : log[i] = hooks'[k].record
    BY <2>1, <2>2 DEF Stamped
  <2> QED
    BY <2>1, <2>3, <2>5, <2>6, <2>7, <2>8 DEF Stamped
<1>2. ASSUME NEW h \in Hooks, hooks[h] \in Running, AppendRecord(h)
      PROVE  Stamped'
  <2> DEFINE x == hooks[h].record
  <2>1. /\ x \in Records /\ log' = Append(log, x) /\ Waiting(h)
        /\ \A i \in 1 .. Len(log) : log[i].at # x.at
        /\ hooks'[h].pc = "appended" /\ hooks'[h] # Free
        /\ hooks'[h].record = x
        /\ \A k \in Hooks : k # h => hooks'[k] = hooks[k]
    BY <1>2, AppendForm
  <2>2. clock' = clock /\ x.at < clock
    BY <1>2, <2>1 DEF AppendRecord, Stamped, Waiting
  <2> HIDE DEF x
  <2>3. /\ Len(log') = Len(log) + 1 /\ log'[Len(log) + 1] = x
        /\ \A i \in 1 .. Len(log) : log'[i] = log[i]
        /\ \A i \in 1 .. Len(log') : i \in 1 .. Len(log) \/ i = Len(log) + 1
        /\ Len(log) + 1 \in 1 .. Len(log')
        /\ \A i \in 1 .. Len(log) : i \in 1 .. Len(log')
    <3>1. /\ Len(log') = Len(log) + 1 /\ log'[Len(log) + 1] = x
          /\ \A i \in 1 .. Len(log) : log'[i] = log[i]
      BY <2>1, AppendedRecord DEF TypeOK
    <3> QED
      BY <1>n, <3>1
  <2>4. \A i, j \in 1 .. Len(log') : log'[i].at = log'[j].at => i = j
    BY <2>1, <2>3 DEF Stamped
  <2>5. \A i \in 1 .. Len(log') : log'[i].at < clock'
    BY <2>2, <2>3 DEF Stamped
  <2>6. \A k \in Hooks : hooks'[k] # Free => hooks'[k].record.at < clock'
    BY <2>1, <2>2 DEF Stamped
  <2>7. \A k \in Hooks : Waiting(k)' => k # h /\ Waiting(k) /\ hooks'[k] = hooks[k]
    BY <2>1 DEF Waiting
  <2>8. \A k \in Hooks : Waiting(k)' =>
           \A i \in 1 .. Len(log') : log'[i].at # hooks'[k].record.at
    <3>1. \A k \in Hooks : Waiting(k) /\ k # h => hooks[k].record.at # x.at
      BY <2>1 DEF Stamped, x
    <3> QED
      BY <2>3, <2>7, <3>1 DEF Stamped
  <2>9. \A j, k \in Hooks :
           Waiting(j)' /\ Waiting(k)' /\ hooks'[j].record.at = hooks'[k].record.at => j = k
    BY <2>7 DEF Stamped
  <2>10. \A k \in Hooks : hooks'[k] # Free /\ hooks'[k].pc = "appended" =>
           \E i \in 1 .. Len(log') : log'[i] = hooks'[k].record
    BY <2>1, <2>3 DEF Stamped
  <2> QED
    BY <2>4, <2>5, <2>6, <2>8, <2>9, <2>10 DEF Stamped
<1>3. ASSUME NEW h \in Hooks, Leaves(h)
      PROVE  Stamped'
  <2>1. /\ log' = log /\ clock' = clock /\ hooks'[h] = Free
        /\ \A k \in Hooks : k # h => hooks'[k] = hooks[k]
    BY <1>3, <1>f DEF Leaves
  <2>2. \A k \in Hooks : Waiting(k)' => Waiting(k) /\ hooks'[k] = hooks[k]
    BY <2>1 DEF Waiting
  <2>3. \A k \in Hooks : hooks'[k] # Free => hooks'[k] = hooks[k]
    BY <2>1
  <2> QED
    BY <2>1, <2>2, <2>3 DEF Stamped
<1>4. CASE Rests
  <2>1. log' = log /\ hooks' = hooks /\ clock' \in {clock, clock + 1}
    BY <1>4 DEF Rests
  <2>2. \A k \in Hooks : Waiting(k)' <=> Waiting(k)
    BY <2>1 DEF Waiting
  <2>3. \A y \in Nat : y < clock => y < clock'
    BY <1>n, <2>1
  <2>4. \A i \in 1 .. Len(log') : log'[i].at < clock'
    BY <1>n, <2>1, <2>3 DEF Stamped
  <2>5. \A k \in Hooks : hooks'[k] # Free => hooks'[k].record.at < clock'
    BY <1>n, <2>1, <2>3 DEF Stamped
  <2> QED
    BY <2>1, <2>2, <2>4, <2>5 DEF Stamped
<1> QED
  BY <1>1, <1>2, <1>3, <1>4, StoreStepForms

-----------------------------------------------------------------------------
(* What an append pairs, and what it leaves pending. *)

LEMMA PendingType ==
  ASSUME TypeOK
  PROVE  /\ Pending \in Pendings
         /\ \A s \in Sessions : Pending[s] \in Seq(Tokens) /\ Len(Pending[s]) \in Nat
<1>1. Unmatched(log) \in [0 .. Len(log) -> Pendings] /\ Len(log) \in 0 .. Len(log)
  BY UnmatchedSteps DEF TypeOK
<1>2. Pending \in Pendings
  BY <1>1 DEF Pending
<1>3. \A s \in Sessions : Pending[s] \in Seq(Tokens)
  BY <1>2 DEF Pendings
<1> QED
  BY <1>2, <1>3

LEMMA AppendPairs ==
  ASSUME TypeOK, Stamped, NEW h \in Hooks, hooks[h] \in Running, AppendRecord(h),
         NEW x, x = hooks[h].record, NEW L, L = Len(log)
  PROVE  /\ x \in Records /\ x.session \in Sessions /\ L \in Nat
         /\ Len(log') = L + 1 /\ log'[L + 1] = x
         /\ \A i \in 1 .. L : /\ log'[i] = log[i] /\ log[i] \in Records
                              /\ log[i] # x /\ log[i].at # x.at
         /\ \A i \in 1 .. L + 1 : i \in 1 .. L \/ i = L + 1
         /\ Pending' = Observe(Pending, x)
         /\ \A i \in 1 .. L :
               CompletionTurnToken(log', log[i]) = CompletionTurnToken(log, log[i])
         /\ CompletionTurnToken(log', x) =
               IF Pending[x.session] = << >> THEN None ELSE Head(Pending[x.session])
<1>1. /\ x \in Records /\ log' = Append(log, x)
      /\ \A i \in 1 .. Len(log) : log[i] # x /\ log[i].at # x.at
  BY AppendForm
<1>2. log \in Seq(Records)
  BY DEF TypeOK
<1>3. /\ L \in Nat /\ Len(log') = L + 1 /\ log'[L + 1] = x
      /\ \A i \in 1 .. L : log'[i] = log[i] /\ log[i] \in Records
  BY <1>1, <1>2, AppendedRecord
<1>4. Pending' = Observe(Pending, x)
  <2>1. Unmatched(log')[L + 1] = Observe(Unmatched(log)[L], x)
    BY <1>1, <1>2, UnmatchedPrefix
  <2> QED
    BY <1>3, <2>1 DEF Pending
<1>5. /\ \A i \in 1 .. L :
            CompletionTurnToken(log', log[i]) = CompletionTurnToken(log, log[i])
      /\ CompletionTurnToken(log', x) =
            IF Pending[x.session] = << >> THEN None ELSE Head(Pending[x.session])
  <2>1. \A i \in 1 .. Len(log) : log[i] # x
    BY <1>1
  <2> QED
    BY <1>1, <1>2, <2>1, PairingAppended DEF Pending
<1>6. x.session \in Sessions
  BY <1>1, RecordFields
<1>7. \A i \in 1 .. L + 1 : i \in 1 .. L \/ i = L + 1
  BY <1>3
<1> QED
  BY <1>1, <1>3, <1>4, <1>5, <1>6, <1>7

(* What stands between a turn and a later place is not changed by an       *)
(* append, and a record that is no boundary of its session extends it.     *)
LEMMA TurnBeforeAppend ==
  ASSUME TypeOK, Stamped, NEW h \in Hooks, hooks[h] \in Running, AppendRecord(h),
         NEW x, x = hooks[h].record, NEW L, L = Len(log),
         NEW i \in 1 .. L, NEW j \in 1 .. L, NEW s \in Sessions, NEW token,
         TurnBefore(log, i, j, s, token)
  PROVE  /\ TurnBefore(log', i, j, s, token)
         /\ j = L /\ (x.session = s => ~ IsBoundary(x)) =>
               TurnBefore(log', i, L + 1, s, token)
<1>1. /\ L \in Nat /\ log'[L + 1] = x
      /\ \A k \in 1 .. L : log'[k] = log[k]
  BY AppendPairs
<1>2. \A k \in i .. j : k \in 1 .. L
  BY <1>1
<1>3. log[i].session = s /\ IsTurn(log[i]) /\ Token(log[i]) = token
  BY DEF TurnBefore
<1>4. \A k \in i .. j : log[k].session = s => ~ IsBoundary(log[k])
  BY DEF TurnBefore
<1>5. TurnBefore(log', i, j, s, token)
  BY <1>1, <1>2, <1>3, <1>4 DEF TurnBefore
<1>6. ASSUME j = L, x.session = s => ~ IsBoundary(x)
      PROVE  TurnBefore(log', i, L + 1, s, token)
  <2>1. \A k \in i .. L + 1 : k \in i .. j \/ k = L + 1
    BY <1>1, <1>6
  <2>2. \A k \in i .. L + 1 : log'[k].session = s => ~ IsBoundary(log'[k])
    BY <1>1, <1>2, <1>4, <1>6, <2>1
  <2> QED
    BY <1>1, <1>3, <2>2 DEF TurnBefore
<1> QED
  BY <1>5, <1>6

LEMMA PendingAppend ==
  ASSUME TypeOK, NEW x \in Records, NEW s \in Sessions,
         \A n, m \in 1 .. Len(Pending[s]) : Pending[s][n] = Pending[s][m] => n = m,
         \A n \in 1 .. Len(Pending[s]) : Pending[s][n] # Token(x),
         NEW p, p = Observe(Pending, x)[s]
  PROVE  /\ \A n \in 1 .. Len(p) :
               \/ /\ \E m \in 1 .. Len(Pending[s]) : p[n] = Pending[s][m]
                  /\ x.session = s => ~ IsBoundary(x)
               \/ IsTurn(x) /\ x.session = s /\ p[n] = Token(x)
         /\ \A n, m \in 1 .. Len(p) : p[n] = p[m] => n = m
         /\ x.session = s /\ IsCompletion(x) /\ Pending[s] # << >> =>
               \A n \in 1 .. Len(p) : p[n] # Head(Pending[s])
<1> USE DEF IsTurn, IsBoundary, IsCompletion
<1> DEFINE was == Pending[s]
<1>1. was \in Seq(Tokens) /\ Len(was) \in Nat /\ Token(x) \in Tokens /\ x.session \in Sessions
  BY PendingType, RecordFields
<1>2. /\ \A n, m \in 1 .. Len(was) : was[n] = was[m] => n = m
      /\ \A n \in 1 .. Len(was) : was[n] # Token(x)
  OBVIOUS
<1>3. /\ s # x.session => p = was
      /\ s = x.session /\ x.event \in Starts \cup Stops => p = << >>
      /\ s = x.session /\ x.event \in Turns => p = Append(was, Token(x))
      /\ s = x.session /\ x.event \in Beats => p = was
      /\ s = x.session /\ x.event \in Completions =>
            p = IF was = << >> THEN << >> ELSE Tail(was)
  BY PendingType, ObserveFields
<1>4. x.event \in Events /\ (x.event \in Beats \cup Turns \cup Completions => x.event \notin Starts \cup Stops)
  BY RecordFields DEF Starts, Stops, Turns, Beats, Completions
<1> HIDE DEF was
<1>5. CASE s # x.session \/ (s = x.session /\ x.event \in Beats)
  <2>1. p = was
    BY <1>3, <1>5
  <2>2. ~ (s = x.session /\ x.event \in Completions)
    BY <1>5 DEF Beats, Completions
  <2> QED
    BY <1>2, <1>4, <1>5, <2>1, <2>2 DEF was
<1>6. CASE s = x.session /\ x.event \in Starts \cup Stops
  <2>1. Len(p) = 0
    BY <1>3, <1>6
  <2>2. 1 .. Len(p) = {}
    BY <2>1
  <2> QED
    BY <2>2
<1>7. CASE s = x.session /\ x.event \in Turns
  <2>1. /\ Len(p) = Len(was) + 1 /\ p[Len(was) + 1] = Token(x)
        /\ \A n \in 1 .. Len(was) : p[n] = was[n]
    BY <1>1, <1>3, <1>7
  <2>2. \A n \in 1 .. Len(p) : n \in 1 .. Len(was) \/ n = Len(was) + 1
    BY <1>1, <2>1
  <2>3. x.event \notin Completions
    BY <1>7 DEF Turns, Completions
  <2> QED
    BY <1>2, <1>4, <1>7, <2>1, <2>2, <2>3 DEF was
<1>8. CASE s = x.session /\ x.event \in Completions
  <2>1. CASE was = << >>
    <3>1. Len(p) = 0
      BY <1>3, <1>8, <2>1
    <3>2. 1 .. Len(p) = {}
      BY <3>1
    <3> QED
      BY <3>2
  <2>2. CASE was # << >>
    <3>1. /\ Len(p) = Len(was) - 1 /\ Len(p) \in Nat
          /\ \A n \in 1 .. Len(p) : p[n] = was[n + 1]
          /\ Head(was) = was[1] /\ 1 \in 1 .. Len(was)
      <4>1. p = Tail(was)
        BY <1>3, <1>8, <2>2
      <4> QED
        BY <1>1, <2>2, <4>1
    <3>2. \A n \in 1 .. Len(p) : n + 1 \in 1 .. Len(was) /\ n + 1 # 1
      BY <1>1, <3>1
    <3>3. \A n, m \in 1 .. Len(p) : p[n] = p[m] => n = m
      <4>1. \A n, m \in 1 .. Len(p) : p[n] = p[m] => n + 1 = m + 1
        BY <1>2, <3>1, <3>2
      <4>2. \A n, m \in 1 .. Len(p) : n + 1 = m + 1 => n = m
        BY <3>1
      <4> QED
        BY <4>1, <4>2
    <3>4. \A n \in 1 .. Len(p) : p[n] # Head(was)
      BY <1>2, <3>1, <3>2
    <3>5. \A n \in 1 .. Len(p) : \E m \in 1 .. Len(was) : p[n] = was[m]
      BY <3>1, <3>2
    <3> QED
      BY <1>4, <1>8, <3>3, <3>4, <3>5 DEF was
  <2> QED
    BY <2>1, <2>2
<1> QED
  BY <1>4, <1>5, <1>6, <1>7, <1>8 DEF Events

LEMMA PairingStep ==
  ASSUME TypeOK, Stamped, PairingInv, NEW h \in Hooks, hooks[h] \in Running, AppendRecord(h)
  PROVE  PairingInv'
<1> DEFINE x == hooks[h].record
           L == Len(log)
<1>1. /\ x \in Records /\ x.session \in Sessions /\ L \in Nat
      /\ Len(log') = L + 1 /\ log'[L + 1] = x
      /\ \A i \in 1 .. L : /\ log'[i] = log[i] /\ log[i] \in Records
                           /\ log[i] # x /\ log[i].at # x.at
      /\ \A i \in 1 .. L + 1 : i \in 1 .. L \/ i = L + 1
      /\ Pending' = Observe(Pending, x)
      /\ \A i \in 1 .. L :
            CompletionTurnToken(log', log[i]) = CompletionTurnToken(log, log[i])
      /\ CompletionTurnToken(log', x) =
            IF Pending[x.session] = << >> THEN None ELSE Head(Pending[x.session])
  BY AppendPairs
<1>2. \A i, j \in 1 .. L : \A s \in Sessions : \A token :
         TurnBefore(log, i, j, s, token) =>
            /\ TurnBefore(log', i, j, s, token)
            /\ j = L /\ (x.session = s => ~ IsBoundary(x)) => TurnBefore(log', i, L + 1, s, token)
  BY TurnBeforeAppend
<1>3. \A s \in Sessions :
         /\ \A n \in 1 .. Len(Pending[s]) :
               \E i \in 1 .. L : TurnBefore(log, i, L, s, Pending[s][n])
         /\ \A n, m \in 1 .. Len(Pending[s]) : Pending[s][n] = Pending[s][m] => n = m
  BY DEF PairingInv, PendingTurns
<1>4. \A j \in 1 .. L :
         IsCompletion(log[j]) /\ CompletionTurnToken(log, log[j]) # None =>
            /\ \E i \in 1 .. j - 1 :
                  TurnBefore(log, i, j, log[j].session, CompletionTurnToken(log, log[j]))
            /\ \A s \in Sessions : \A n \in 1 .. Len(Pending[s]) :
                  Pending[s][n] # CompletionTurnToken(log, log[j])
  BY DEF PairingInv, PairedTurns, Paired
<1>5. \A i, j \in 1 .. L :
         /\ IsCompletion(log[i]) /\ IsCompletion(log[j])
         /\ CompletionTurnToken(log, log[i]) # None
         /\ CompletionTurnToken(log, log[i]) = CompletionTurnToken(log, log[j])
         => i = j
  BY DEF PairingInv, PairedOnce, Paired
<1> HIDE DEF x, L
<1>6. \A i \in 1 .. L, j \in 1 .. L, s \in Sessions, token \in {Token(x)} :
         ~ TurnBefore(log, i, j, s, token)
  BY <1>1 DEF TurnBefore, Token
<1>7. \A s \in Sessions : \A n \in 1 .. Len(Pending[s]) : Pending[s][n] # Token(x)
  <2> SUFFICES ASSUME NEW s \in Sessions, NEW n \in 1 .. Len(Pending[s])
               PROVE  Pending[s][n] # Token(x)
    OBVIOUS
  <2>1. PICK i \in 1 .. L : TurnBefore(log, i, L, s, Pending[s][n])
    BY <1>3
  <2>2. L \in 1 .. L
    BY <1>1, <2>1
  <2> QED
    BY <1>6, <2>1, <2>2
<1>8. \A s \in Sessions :
         /\ \A n \in 1 .. Len(Pending'[s]) :
               \/ /\ \E m \in 1 .. Len(Pending[s]) : Pending'[s][n] = Pending[s][m]
                  /\ x.session = s => ~ IsBoundary(x)
               \/ IsTurn(x) /\ x.session = s /\ Pending'[s][n] = Token(x)
         /\ \A n, m \in 1 .. Len(Pending'[s]) : Pending'[s][n] = Pending'[s][m] => n = m
         /\ x.session = s /\ IsCompletion(x) /\ Pending[s] # << >> =>
               \A n \in 1 .. Len(Pending'[s]) : Pending'[s][n] # Head(Pending[s])
  <2> SUFFICES ASSUME NEW s \in Sessions
               PROVE  /\ \A n \in 1 .. Len(Pending'[s]) :
                            \/ /\ \E m \in 1 .. Len(Pending[s]) : Pending'[s][n] = Pending[s][m]
                               /\ x.session = s => ~ IsBoundary(x)
                            \/ IsTurn(x) /\ x.session = s /\ Pending'[s][n] = Token(x)
                      /\ \A n, m \in 1 .. Len(Pending'[s]) : Pending'[s][n] = Pending'[s][m] => n = m
                      /\ x.session = s /\ IsCompletion(x) /\ Pending[s] # << >> =>
                            \A n \in 1 .. Len(Pending'[s]) : Pending'[s][n] # Head(Pending[s])
    OBVIOUS
  <2> DEFINE p == Pending'[s]
  <2>1. p = Observe(Pending, x)[s]
    BY <1>1
  <2> HIDE DEF p
  <2>2. /\ \A n \in 1 .. Len(p) :
               \/ /\ \E m \in 1 .. Len(Pending[s]) : p[n] = Pending[s][m]
                  /\ x.session = s => ~ IsBoundary(x)
               \/ IsTurn(x) /\ x.session = s /\ p[n] = Token(x)
        /\ \A n, m \in 1 .. Len(p) : p[n] = p[m] => n = m
        /\ x.session = s /\ IsCompletion(x) /\ Pending[s] # << >> =>
               \A n \in 1 .. Len(p) : p[n] # Head(Pending[s])
    BY <1>1, <1>3, <1>7, <2>1, PendingAppend
  <2> QED
    BY <2>2 DEF p
<1>9. PendingTurns'
  <2>1. ASSUME NEW s \in Sessions, NEW n \in 1 .. Len(Pending'[s])
        PROVE  \E i \in 1 .. L + 1 : TurnBefore(log', i, L + 1, s, Pending'[s][n])
    <3>1. CASE /\ \E m \in 1 .. Len(Pending[s]) : Pending'[s][n] = Pending[s][m]
               /\ x.session = s => ~ IsBoundary(x)
      <4>1. PICK m \in 1 .. Len(Pending[s]) : Pending'[s][n] = Pending[s][m]
        BY <3>1
      <4>2. PICK i \in 1 .. L : TurnBefore(log, i, L, s, Pending[s][m])
        BY <1>3
      <4>3. i \in 1 .. L + 1 /\ L \in 1 .. L
        BY <1>1, <4>2
      <4>4. TurnBefore(log', i, L + 1, s, Pending[s][m])
        BY <1>2, <3>1, <4>2, <4>3
      <4> QED
        BY <4>1, <4>3, <4>4
    <3>2. CASE IsTurn(x) /\ x.session = s /\ Pending'[s][n] = Token(x)
      <4>1. L + 1 \in 1 .. L + 1 /\ \A k \in L + 1 .. L + 1 : k = L + 1
        BY <1>1
      <4>2. ~ IsBoundary(x)
        BY <3>2 DEF IsTurn, IsBoundary, Turns, Starts, Stops
      <4>3. TurnBefore(log', L + 1, L + 1, s, Pending'[s][n])
        BY <1>1, <3>2, <4>1, <4>2 DEF TurnBefore
      <4> QED
        BY <4>1, <4>3
    <3> QED
      BY <1>8, <3>1, <3>2
  <2>2. \A s \in Sessions : \A n, m \in 1 .. Len(Pending'[s]) :
           Pending'[s][n] = Pending'[s][m] => n = m
    BY <1>8
  <2> QED
    BY <1>1, <2>1, <2>2 DEF PendingTurns
<1>10. ASSUME NEW j \in 1 .. L + 1, IsCompletion(log'[j]),
              CompletionTurnToken(log', log'[j]) # None
       PROVE  /\ \E i \in 1 .. j - 1 :
                    TurnBefore(log', i, j, log'[j].session, CompletionTurnToken(log', log'[j]))
              /\ \A s \in Sessions : \A n \in 1 .. Len(Pending'[s]) :
                    Pending'[s][n] # CompletionTurnToken(log', log'[j])
  <2>1. CASE j \in 1 .. L
    <3> DEFINE token == CompletionTurnToken(log, log[j])
               s0 == log[j].session
    <3>1. log'[j] = log[j] /\ CompletionTurnToken(log', log'[j]) = token
      BY <1>1, <2>1
    <3>2. IsCompletion(log[j]) /\ token # None
      BY <1>10, <3>1
    <3>3. PICK i \in 1 .. j - 1 : TurnBefore(log, i, j, s0, token)
      BY <1>4, <2>1, <3>2
    <3>4. i \in 1 .. L /\ s0 \in Sessions
      BY <1>1, <2>1, <3>3, RecordFields
    <3> HIDE DEF token, s0
    <3>5. token # Token(x)
      BY <1>6, <2>1, <3>3, <3>4
    <3>6. TurnBefore(log', i, j, s0, token)
      BY <1>2, <2>1, <3>3, <3>4
    <3>7. TurnBefore(log', i, j, log'[j].session, CompletionTurnToken(log', log'[j]))
      BY <3>1, <3>6 DEF s0
    <3>8. \A s \in Sessions : \A n \in 1 .. Len(Pending[s]) : Pending[s][n] # token
      BY <1>4, <2>1, <3>2 DEF token
    <3>9. \A s \in Sessions : \A n \in 1 .. Len(Pending'[s]) : Pending'[s][n] # token
      BY <1>8, <3>5, <3>8
    <3> QED
      BY <3>1, <3>7, <3>9
  <2>2. CASE j = L + 1
    <3> DEFINE p == Pending[x.session]
    <3>1. log'[j] = x /\ IsCompletion(x) /\ p # << >>
          /\ CompletionTurnToken(log', log'[j]) = Head(p)
      BY <1>1, <1>10, <2>2
    <3>2. p \in Seq(Tokens) /\ Len(p) \in Nat
      BY <1>1, PendingType
    <3> HIDE DEF p
    <3>3. Head(p) = p[1] /\ 1 \in 1 .. Len(p)
      BY <3>1, <3>2
    <3>4. PICK i \in 1 .. L : TurnBefore(log, i, L, x.session, p[1])
      BY <1>1, <1>3, <3>3 DEF p
    <3>5. ~ IsBoundary(x)
      BY <3>1 DEF IsCompletion, IsBoundary, Completions, Starts, Stops
    <3>6. i \in 1 .. j - 1 /\ L \in 1 .. L
      BY <1>1, <2>2, <3>4
    <3>7. TurnBefore(log', i, L + 1, x.session, p[1])
      BY <1>1, <1>2, <3>4, <3>5, <3>6
    <3>8. TurnBefore(log', i, j, log'[j].session, CompletionTurnToken(log', log'[j]))
      BY <2>2, <3>1, <3>3, <3>7
    <3>9. ASSUME NEW s \in Sessions, NEW n \in 1 .. Len(Pending'[s])
          PROVE  Pending'[s][n] # Head(p)
      <4>1. CASE s = x.session
        BY <1>8, <3>1, <4>1 DEF p
      <4>2. CASE s # x.session
        <5>1. PICK m \in 1 .. Len(Pending[s]) : Pending'[s][n] = Pending[s][m]
          BY <1>8, <4>2
        <5>2. PICK k \in 1 .. L : TurnBefore(log, k, L, s, Pending[s][m])
          BY <1>3
        <5>3. Pending[s][m] = Token(log[k]) /\ log[k].session = s
          BY <5>2 DEF TurnBefore
        <5>4. p[1] = Token(log[i]) /\ log[i].session = x.session
          BY <3>4 DEF TurnBefore
        <5> QED
          BY <3>3, <4>2, <5>1, <5>3, <5>4 DEF Token
      <4> QED
        BY <4>1, <4>2
    <3> QED
      BY <3>1, <3>6, <3>8, <3>9
  <2> QED
    BY <1>1, <2>1, <2>2
<1>11. PairedTurns'
  BY <1>1, <1>10 DEF PairedTurns, Paired
<1>12. ASSUME NEW i \in 1 .. L, IsCompletion(log[i]), IsCompletion(x),
              CompletionTurnToken(log', log[i]) # None
       PROVE  CompletionTurnToken(log', log[i]) # CompletionTurnToken(log', x)
  <2> DEFINE p == Pending[x.session]
  <2>1. CompletionTurnToken(log', log[i]) = CompletionTurnToken(log, log[i])
    BY <1>1
  <2>2. \A n \in 1 .. Len(p) : p[n] # CompletionTurnToken(log, log[i])
    BY <1>1, <1>4, <1>12, <2>1
  <2>3. p \in Seq(Tokens) /\ Len(p) \in Nat
    BY <1>1, PendingType
  <2>4. CompletionTurnToken(log', x) = IF p = << >> THEN None ELSE Head(p)
    BY <1>1
  <2> HIDE DEF p
  <2>5. p # << >> => Head(p) = p[1] /\ 1 \in 1 .. Len(p)
    BY <2>3
  <2> QED
    BY <1>12, <2>1, <2>2, <2>4, <2>5
<1>13. PairedOnce'
  <2> SUFFICES ASSUME NEW i \in 1 .. L + 1, NEW j \in 1 .. L + 1,
                      IsCompletion(log'[i]), IsCompletion(log'[j]),
                      CompletionTurnToken(log', log'[i]) # None,
                      CompletionTurnToken(log', log'[i]) = CompletionTurnToken(log', log'[j])
               PROVE  i = j
    BY <1>1 DEF PairedOnce, Paired, IsCompletion
  <2>1. CASE i \in 1 .. L /\ j \in 1 .. L
    BY <1>1, <1>5, <2>1
  <2>2. CASE i \in 1 .. L /\ j = L + 1
    BY <1>1, <1>12, <2>2
  <2>3. CASE i = L + 1 /\ j \in 1 .. L
    BY <1>1, <1>12, <2>3
  <2> QED
    BY <1>1, <2>1, <2>2, <2>3
<1> QED
  BY <1>9, <1>11, <1>13 DEF PairingInv

LEMMA SettlementsStep ==
  ASSUME TypeOK, Stamped, Settlements, [Next]_vars
  PROVE  Settlements'
<1>1. CASE log' = log /\ settled' = settled
  BY <1>1 DEF Settlements, Paired
<1>2. ASSUME NEW h \in Hooks, hooks[h] \in Running, AppendRecord(h)
      PROVE  Settlements'
  <2> DEFINE L == Len(log)
  <2>1. /\ L \in Nat /\ Len(log') = L + 1
        /\ \A i \in 1 .. L : log'[i] = log[i]
        /\ \A i \in 1 .. L :
              CompletionTurnToken(log', log[i]) = CompletionTurnToken(log, log[i])
    BY <1>2, AppendPairs
  <2>2. settled' = settled
    BY <1>2 DEF AppendRecord
  <2> HIDE DEF L
  <2>3. ASSUME NEW d \in settled
        PROVE  /\ \E j \in 1 .. L + 1 : log'[j] = d.completion
               /\ d.turn = CompletionTurnToken(log', d.completion)
    <3>1. PICK j \in 1 .. L : log[j] = d.completion
      BY DEF Settlements, L
    <3>2. d.turn = CompletionTurnToken(log, d.completion)
      BY DEF Settlements, Paired
    <3>3. j \in 1 .. L + 1
      BY <2>1
    <3> QED
      BY <2>1, <3>1, <3>2, <3>3
  <2>4. \A d \in settled : IsCompletion(d.completion) /\ d.turn # None
    BY DEF Settlements
  <2> QED
    BY <2>1, <2>2, <2>3, <2>4 DEF Settlements, Paired
<1>3. ASSUME NEW h \in Hooks, hooks[h] \in Running, Settle(h)
      PROVE  Settlements'
  <2> DEFINE r == hooks[h].record
             d == [completion |-> r, of |-> hooks[h].of, turn |-> CompletionTurnToken(log, r)]
  <2>1. log' = log
    BY <1>3 DEF Settle
  <2>2. \/ settled' = settled
        \/ /\ r.event \in Completions /\ CompletionTurnToken(log, r) # None
           /\ settled' = settled \cup {d}
    BY <1>3 DEF Settle
  <2>3. \E j \in 1 .. Len(log) : log[j] = r
    <3>1. hooks[h] # Free /\ hooks[h].pc = "appended"
      BY <1>3, StoreNumbers DEF Settle
    <3> QED
      BY <3>1 DEF Stamped
  <2>4. d.completion = r /\ d.turn = CompletionTurnToken(log, r)
    OBVIOUS
  <2> HIDE DEF d, r
  <2>5. \A e \in settled' :
           /\ \E j \in 1 .. Len(log) : log[j] = e.completion
           /\ IsCompletion(e.completion)
           /\ e.turn = CompletionTurnToken(log, e.completion) /\ e.turn # None
    BY <2>2, <2>3, <2>4 DEF Settlements, Paired, IsCompletion
  <2> QED
    BY <2>1, <2>5 DEF Settlements, Paired
<1> QED
  <2>1. ASSUME NEW h \in Hooks, NEW s \in Sessions, NEW r \in Records, AgentForm(h, s, r)
        PROVE  log' = log /\ settled' = settled
    BY <2>1 DEF AgentForm, Stamps
  <2>2. \A h \in Hooks : Leaves(h) => log' = log
    BY DEF Leaves
  <2>3. Rests => log' = log /\ settled' = settled
    BY DEF Rests
  <2> QED
    BY <1>1, <1>2, <1>3, <2>1, <2>2, <2>3, StoreStepForms

LEMMA SettlementsAreSound ==
  ASSUME TypeOK, Stamped, PairingInv, Settlements
  PROVE  SettlementIsSound
<1>1. SettledOnce
  <2> SUFFICES ASSUME NEW d \in settled, NEW e \in settled, d.turn = e.turn
               PROVE  d.completion = e.completion
    BY DEF SettledOnce
  <2>1. PICK i \in 1 .. Len(log) : log[i] = d.completion
    BY DEF Settlements
  <2>2. PICK j \in 1 .. Len(log) : log[j] = e.completion
    BY DEF Settlements
  <2>3. i = j
    BY <2>1, <2>2 DEF Settlements, PairingInv, PairedOnce
  <2> QED
    BY <2>1, <2>2, <2>3
<1>2. ASSUME NEW d \in settled
      PROVE  LET t == TurnIndex(d.turn)
                 c == IndexOf(d.completion)
             IN  /\ t < c
                 /\ log[t].session = d.completion.session
                 /\ \A i \in Between(t, c) :
                       log[i].session = d.completion.session =>
                           log[i].event \notin Starts \cup Stops
  <2>1. PICK j \in 1 .. Len(log) : log[j] = d.completion
    BY DEF Settlements
  <2>2. IsCompletion(log[j]) /\ d.turn = Paired(log[j]) /\ d.turn # None
    BY <2>1 DEF Settlements
  <2>3. PICK i \in 1 .. j - 1 : TurnBefore(log, i, j, log[j].session, d.turn)
    BY <2>2 DEF PairingInv, PairedTurns
  <2>4. i \in 1 .. Len(log) /\ i < j
    BY <2>3, StoreNumbers
  <2>5. /\ log[i].session = log[j].session /\ IsTurn(log[i]) /\ Token(log[i]) = d.turn
        /\ \A k \in i .. j : log[k].session = log[j].session => ~ IsBoundary(log[k])
    BY <2>3 DEF TurnBefore
  <2>6. IndexOf(d.completion) = j
    <3>1. \A k \in 1 .. Len(log) : log[k] = d.completion => k = j
      BY <2>1 DEF Stamped
    <3> QED
      BY <2>1, <3>1 DEF IndexOf
  <2>7. TurnIndex(d.turn) = i
    <3>1. \A k \in 1 .. Len(log) : Token(log[k]) = d.turn => k = i
      BY <2>4, <2>5 DEF Stamped, Token
    <3>2. log[i].event \in Turns
      BY <2>5 DEF IsTurn
    <3> QED
      BY <2>4, <2>5, <3>1, <3>2 DEF TurnIndex
  <2>8. \A k \in Between(i, j) :
           log[k].session = log[j].session => log[k].event \notin Starts \cup Stops
    <3>1. \A k \in Between(i, j) : k \in i .. j
      BY <2>4, StoreNumbers DEF Between
    <3> QED
      BY <2>5, <3>1 DEF IsBoundary
  <2> QED
    BY <2>1, <2>4, <2>5, <2>6, <2>7, <2>8
<1>3. SettledInIncarnation
  BY <1>2 DEF SettledInIncarnation
<1> QED
  BY <1>1, <1>3 DEF SettlementIsSound

-----------------------------------------------------------------------------
(* What the marks of a session are after each step. *)

LEMMA MarksAreStamped ==
  ASSUME TypeOK, Stamped, NEW s \in Sessions
  PROVE  /\ \A r \in AllMarks(s) :
               /\ r \in Records /\ r.at \in Nat /\ r.at < clock
               /\ r.session = s /\ IsMark(r)
         /\ \A h \in Hooks : Marks(h) =>
               /\ hooks[h] \in Running /\ hooks[h].record \in Records
               /\ hooks[h].record.at \in Nat /\ hooks[h].record.at < clock
               /\ IsMark(hooks[h].record)
         /\ \A h \in Hooks : Marks(h) /\ hooks[h].record.session = s =>
               hooks[h].record \in WaitingMarks(s)
         /\ \A r \in WaitingMarks(s) :
               \E h \in Hooks : Marks(h) /\ hooks[h].record = r
         /\ LogMarks(s) \subseteq AllMarks(s) /\ WaitingMarks(s) \subseteq AllMarks(s)
<1>1. \A r \in LogMarks(s) : \E i \in 1 .. Len(log) : log[i] = r
  BY DEF LogMarks, Range, TypeOK
<1>2. \A h \in Hooks : Marks(h) =>
         /\ hooks[h] \in Running /\ hooks[h].record \in Records
         /\ hooks[h].record.at \in Nat /\ hooks[h].record.at < clock
         /\ IsMark(hooks[h].record)
  BY StoreNumbers DEF Marks, Waiting, Stamped, IsMark
<1>3. \A r \in LogMarks(s) :
         /\ r \in Records /\ r.at \in Nat /\ r.at < clock
         /\ r.session = s /\ IsMark(r)
  BY <1>1, StoreNumbers DEF Stamped, LogMarks
<1>4. \A r \in WaitingMarks(s) :
         /\ r \in Records /\ r.at \in Nat /\ r.at < clock
         /\ r.session = s /\ IsMark(r)
  BY <1>2 DEF WaitingMarks
<1>5. \A h \in Hooks : Marks(h) /\ hooks[h].record.session = s =>
         hooks[h].record \in WaitingMarks(s)
  BY <1>2 DEF WaitingMarks
<1> QED
  BY <1>2, <1>3, <1>4, <1>5 DEF AllMarks, WaitingMarks

(* The record, if it is a mark of the session. *)
MarkOf(r, s) == {y \in {r} : y.session = s /\ IsMark(y)}

(* A hook that stamps a mark is one more that waits. *)
LEMMA StampMarks ==
  ASSUME TypeOK, Stamped, NEW h \in Hooks, NEW s \in Sessions, NEW r \in Records,
         AgentForm(h, s, r), NEW z \in Sessions
  PROVE  /\ LogMarks(z)' = LogMarks(z)
         /\ WaitingMarks(z)' = WaitingMarks(z) \cup MarkOf(r, z)
         /\ AllMarks(z)' = AllMarks(z) \cup MarkOf(r, z)
<1> DEFINE N == MarkOf(r, z)
<1>0. N = {y \in {r} : y.session = z /\ IsMark(y)}
  BY DEF MarkOf
<1> HIDE DEF N
<1>1. /\ log' = log /\ hooks[h] = Free
      /\ hooks'[h] = [pc |-> "stamped", of |-> open[s], record |-> r]
      /\ \A k \in Hooks : k # h => hooks'[k] = hooks[k]
      /\ r.session = s
  BY DEF AgentForm, Stamps, TypeOK
<1>2. hooks'[h] # Free /\ hooks'[h].pc = "stamped" /\ hooks'[h].record = r
  BY <1>1 DEF Free
<1>3. Marks(h)' <=> IsMark(r)
  BY <1>2 DEF Marks, Waiting, IsMark
<1>4. \A k \in Hooks : k # h => (Marks(k)' <=> Marks(k))
  BY <1>1 DEF Marks, Waiting
<1>5. ~ Marks(h)
  BY <1>1 DEF Marks, Waiting
<1>6. WaitingMarks(z)' = WaitingMarks(z) \cup N
  <2>1. ASSUME NEW y \in Records, y.session = z
        PROVE  (\E k \in Hooks : Marks(k)' /\ hooks'[k].record = y) <=>
                  \/ \E k \in Hooks : Marks(k) /\ hooks[k].record = y
                  \/ y \in N
    <3>1. ASSUME NEW k \in Hooks, Marks(k)', hooks'[k].record = y
          PROVE  (\E j \in Hooks : Marks(j) /\ hooks[j].record = y) \/ y \in N
      BY <1>0, <1>1, <1>2, <1>3, <1>4, <2>1, <3>1
    <3>2. ASSUME NEW k \in Hooks, Marks(k), hooks[k].record = y
          PROVE  Marks(k)' /\ hooks'[k].record = y
      BY <1>1, <1>4, <1>5, <3>2
    <3>3. ASSUME y \in N
          PROVE  Marks(h)' /\ hooks'[h].record = y
      BY <1>0, <1>2, <1>3, <3>3
    <3> QED
      BY <3>1, <3>2, <3>3
  <2>2. \A y \in N : y \in Records /\ y.session = z
    BY <1>0
  <2> QED
    BY <2>1, <2>2 DEF WaitingMarks
<1>7. LogMarks(z)' = LogMarks(z)
  BY <1>1 DEF LogMarks
<1> QED
  BY <1>6, <1>7 DEF AllMarks, N

(* An appended mark no longer waits; it is a mark of the log. *)
LEMMA AppendMarks ==
  ASSUME TypeOK, Stamped, NEW h \in Hooks, hooks[h] \in Running, AppendRecord(h),
         NEW x, x = hooks[h].record, NEW z \in Sessions
  PROVE  /\ LogMarks(z)' = LogMarks(z) \cup MarkOf(x, z)
         /\ WaitingMarks(z)' = WaitingMarks(z) \ MarkOf(x, z)
         /\ MarkOf(x, z) \subseteq WaitingMarks(z)
         /\ AllMarks(z)' = AllMarks(z)
         /\ \A k \in Hooks : Marks(k)' => Marks(k) /\ k # h /\ hooks'[k] = hooks[k]
<1> DEFINE N == MarkOf(x, z)
<1>0. N = {y \in {x} : y.session = z /\ IsMark(y)}
  BY DEF MarkOf
<1> HIDE DEF N
<1>1. /\ x \in Records /\ log' = Append(log, x) /\ Waiting(h)
      /\ hooks'[h].pc = "appended" /\ hooks'[h] # Free
      /\ \A k \in Hooks : k # h => hooks'[k] = hooks[k]
  BY AppendForm
<1>2. LogMarks(z)' = LogMarks(z) \cup N
  <2>1. Range(log') = Range(log) \cup {x}
    <3>1. log \in Seq(Records)
      BY DEF TypeOK
    <3>2. /\ Len(log) \in Nat /\ DOMAIN log' = 1 .. Len(log) + 1 /\ DOMAIN log = 1 .. Len(log)
          /\ \A n \in 1 .. Len(log) : log'[n] = log[n]
          /\ log'[Len(log) + 1] = x
      BY <1>1, <3>1
    <3>3. /\ \A n \in 1 .. Len(log) + 1 : n \in 1 .. Len(log) \/ n = Len(log) + 1
          /\ \A n \in 1 .. Len(log) : n \in 1 .. Len(log) + 1
          /\ Len(log) + 1 \in 1 .. Len(log) + 1
      BY <3>2
    <3> QED
      BY <3>2, <3>3 DEF Range
  <2> QED
    BY <1>0, <2>1 DEF LogMarks
<1>3. \A k \in Hooks : Marks(k)' => Marks(k) /\ k # h /\ hooks'[k] = hooks[k]
  BY <1>1 DEF Marks, Waiting
<1>4. \A k \in Hooks : Marks(k) /\ k # h => Marks(k)' /\ hooks'[k] = hooks[k]
  BY <1>1 DEF Marks, Waiting
<1>5. \A k \in Hooks : Marks(k) /\ k # h => hooks[k].record # x
  BY <1>1 DEF Marks, Stamped
<1>6. IsMark(x) <=> Marks(h)
  BY <1>1 DEF Marks, IsMark
<1>7. N \subseteq WaitingMarks(z)
  BY <1>0, <1>1, <1>6 DEF WaitingMarks
<1>8. WaitingMarks(z)' = WaitingMarks(z) \ N
  <2>1. ASSUME NEW y \in Records, y.session = z
        PROVE  (\E k \in Hooks : Marks(k)' /\ hooks'[k].record = y) <=>
                  (\E k \in Hooks : Marks(k) /\ hooks[k].record = y) /\ y \notin N
    <3>1. ASSUME NEW k \in Hooks, Marks(k)', hooks'[k].record = y
          PROVE  Marks(k) /\ hooks[k].record = y /\ y \notin N
      BY <1>0, <1>3, <1>5, <3>1
    <3>2. ASSUME NEW k \in Hooks, Marks(k), hooks[k].record = y, y \notin N
          PROVE  Marks(k)' /\ hooks'[k].record = y
      <4>1. k # h
        BY <1>0, <1>6, <2>1, <3>2
      <4> QED
        BY <1>4, <3>2, <4>1
    <3> QED
      BY <3>1, <3>2
  <2> QED
    BY <2>1 DEF WaitingMarks
<1> QED
  BY <1>2, <1>3, <1>7, <1>8 DEF AllMarks, N

(* A hook that is done, or lost without a mark of s, takes no mark of s.   *)
LEMMA LeaveMarks ==
  ASSUME TypeOK, NEW h \in Hooks, Leaves(h), NEW z \in Sessions, z \notin LosesMark(h)
  PROVE  /\ LogMarks(z)' = LogMarks(z) /\ WaitingMarks(z)' = WaitingMarks(z)
         /\ AllMarks(z)' = AllMarks(z)
         /\ \A k \in Hooks : hooks'[k] # Free => hooks'[k] = hooks[k]
<1>1. /\ log' = log /\ hooks'[h] = Free
      /\ \A k \in Hooks : k # h => hooks'[k] = hooks[k]
  BY DEF Leaves, TypeOK
<1>2. \A k \in Hooks : Marks(k)' => Marks(k) /\ hooks'[k] = hooks[k]
  BY <1>1 DEF Marks, Waiting
<1>3. \A k \in Hooks : Marks(k) /\ hooks[k].record.session = z => Marks(k)' /\ hooks'[k] = hooks[k]
  BY <1>1 DEF Marks, Waiting, LosesMark
<1>4. WaitingMarks(z)' = WaitingMarks(z)
  BY <1>2, <1>3 DEF WaitingMarks
<1> QED
  BY <1>1, <1>4 DEF LogMarks, AllMarks

-----------------------------------------------------------------------------
(* An orderly session stays orderly, or is disturbed. *)

LEMMA OrderlyStamp ==
  ASSUME TypeOK, Stamped, NEW h \in Hooks, NEW s \in Sessions, NEW r \in Records,
         AgentForm(h, s, r), NEW z \in Sessions, OrderlyAt(z),
         z = s /\ IsTurn(r) => open[s] = None
  PROVE  OrderlyAt(z)'
<1> DEFINE N == MarkOf(r, z)
           M == AllMarks(z)
<1>1. /\ LogMarks(z)' = LogMarks(z)
      /\ WaitingMarks(z)' = WaitingMarks(z) \cup N
      /\ AllMarks(z)' = M \cup N
  BY StampMarks
<1>2. /\ log' = log /\ hooks[h] = Free /\ r.at = clock /\ clock \in Nat
      /\ hooks'[h] = [pc |-> "stamped", of |-> open[s], record |-> r]
      /\ \A k \in Hooks : k # h => hooks'[k] = hooks[k]
      /\ r.session = s
  BY StoreNumbers DEF AgentForm, Stamps, TypeOK
<1>3. /\ \A y \in M : y.at \in Nat /\ y.at < clock
      /\ LogMarks(z) \subseteq M /\ WaitingMarks(z) \subseteq M
  BY MarksAreStamped
<1>4. /\ \A y \in N : y = r /\ z = s /\ IsMark(r) /\ y.at = clock
      /\ z = s /\ IsMark(r) => r \in N
  BY <1>2 DEF MarkOf
<1>5. OpenTurn(z) /\ InOrder(z) /\ Alternate(z) /\ PendingTurn(z) /\ CompletesTurn(z) /\ CompletedTurn(z)
  BY DEF OrderlyAt
<1> HIDE DEF N, M
<1>6. InOrder(z)'
  <2>1. \A y \in LogMarks(z), w \in N : y.at < w.at
    BY <1>3, <1>4
  <2> QED
    BY <1>1, <1>5, <2>1 DEF InOrder
<1>7. Alternate(z)'
  <2> SUFFICES ASSUME NEW t \in M \cup N, NEW u \in M \cup N,
                      IsTurn(t), IsTurn(u), t.at < u.at
               PROVE  \E y \in M \cup N : t.at < y.at /\ y.at < u.at /\ ~ IsTurn(y)
    BY <1>1 DEF Alternate, IsTurn
  <2>1. t \in M
    <3>1. t \in N => ~ (t.at < u.at)
      BY <1>2, <1>3, <1>4
    <3> QED
      BY <3>1
  <2>2. CASE u \in M
    BY <1>5, <2>1, <2>2 DEF Alternate, M
  <2>3. CASE u \in N
    <3>1. TurnsEnded(M)
      BY <1>4, <1>5, <2>3 DEF OpenTurn, M
    <3>2. PICK y \in M : t.at < y.at /\ ~ IsTurn(y)
      BY <2>1, <3>1 DEF TurnsEnded
    <3>3. y.at < u.at
      BY <1>3, <1>4, <2>3
    <3> QED
      BY <3>2, <3>3
  <2> QED
    BY <2>2, <2>3
<1>8. ASSUME z = s, IsMark(r), ~ IsTurn(r)
      PROVE  TurnsEnded(M \cup N)
  <2>1. r \in N
    BY <1>4, <1>8
  <2>2. \A t \in M \cup N : IsTurn(t) => t \in M
    BY <1>4, <1>8
  <2>3. \A t \in M : t.at < r.at
    BY <1>2, <1>3
  <2> QED
    BY <1>8, <2>1, <2>2, <2>3 DEF TurnsEnded
<1>9. OpenTurn(z)'
  <2>1. CASE z # s \/ ~ IsMark(r)
    <3>1. open'[z] = open[z]
      <4>1. IsBoundary(r) \/ IsTurn(r) \/ IsCompletion(r) => IsMark(r)
        BY DEF IsBoundary, IsTurn, IsCompletion, IsMark, Starts, Stops, Turns, Completions, Beats
      <4> QED
        BY <2>1, <4>1 DEF AgentForm, TypeOK
    <3>2. N = {}
      BY <1>4, <2>1
    <3>3. AllMarks(z)' = AllMarks(z)
      BY <1>1, <3>2 DEF M
    <3> QED
      BY <1>5, <3>1, <3>3 DEF OpenTurn
  <2>2. CASE z = s /\ IsMark(r) /\ ~ IsTurn(r)
    <3>1. open'[z] = None
      BY <2>2 DEF AgentForm, TypeOK
    <3> QED
      BY <1>1, <1>8, <2>2, <3>1 DEF OpenTurn
  <2>3. CASE z = s /\ IsTurn(r)
    <3>1. IsMark(r) /\ ~ IsBoundary(r) /\ ~ IsCompletion(r)
      BY <2>3 DEF IsBoundary, IsTurn, IsCompletion, IsMark, Starts, Stops, Turns, Completions, Beats
    <3>2. open'[z] = <<s, clock>>
      BY <2>3, <3>1 DEF AgentForm, TypeOK
    <3>3. open'[z] = Token(r) /\ open'[z] # None
      BY <1>2, <3>2, NoneAssumption, RecordFields
    <3>4. r \in N
      BY <1>4, <2>3, <3>1
    <3>5. \A y \in M \cup N : y.at <= r.at
      BY <1>2, <1>3, <1>4
    <3>6. LastTurn(M \cup N, r)
      BY <2>3, <3>4, <3>5 DEF LastTurn
    <3>7. r \in M \cup N
      BY <3>4
    <3> QED
      BY <1>1, <3>3, <3>6, <3>7 DEF OpenTurn
  <2> QED
    BY <2>1, <2>2, <2>3
<1>10. PendingTurn(z)'
  <2>1. Pending' = Pending
    BY <1>2 DEF Pending
  <2> QED
    BY <1>1, <1>5, <2>1 DEF PendingTurn
<1>11. CompletesTurn(z)'
  <2> SUFFICES ASSUME NEW k \in Hooks, Marks(k)', hooks'[k].record.session = z,
                      IsCompletion(hooks'[k].record)
               PROVE  \E t \in M \cup N :
                        /\ IsTurn(t) /\ hooks'[k].of = Token(t)
                        /\ t.at < hooks'[k].record.at
                        /\ \A y \in M \cup N :
                              y.at <= t.at \/ hooks'[k].record.at <= y.at
    BY <1>1 DEF CompletesTurn, IsCompletion
  <2>1. CASE k # h
    <3>1. hooks'[k] = hooks[k] /\ Marks(k)
      BY <1>2, <2>1 DEF Marks, Waiting
    <3>2. PICK t \in M :
             /\ IsTurn(t) /\ hooks[k].of = Token(t) /\ t.at < hooks[k].record.at
             /\ \A y \in M : y.at <= t.at \/ hooks[k].record.at <= y.at
      BY <1>5, <3>1 DEF CompletesTurn, M
    <3>3. hooks[k].record.at \in Nat /\ hooks[k].record.at < clock
      BY <3>1, MarksAreStamped
    <3>4. \A y \in N : hooks[k].record.at <= y.at
      BY <1>2, <1>4, <3>3
    <3> QED
      BY <3>1, <3>2, <3>4
  <2>2. CASE k = h
    <3>1. hooks'[k].record = r /\ hooks'[k].of = open[s] /\ z = s /\ IsCompletion(r)
      BY <1>2, <2>2
    <3>2. open[s] # None
      <4>1. ~ IsBoundary(r) /\ IsMark(r) /\ ~ IsTurn(r)
        BY <3>1 DEF IsBoundary, IsTurn, IsCompletion, IsMark, Starts, Stops, Turns, Completions, Beats
      <4> QED
        BY <4>1 DEF AgentForm
    <3>3. PICK t \in M : LastTurn(M, t) /\ open[s] = Token(t)
      BY <1>5, <3>1, <3>2 DEF OpenTurn, M
    <3>4. t.at < r.at
      BY <1>2, <1>3, <3>3
    <3>5. \A y \in M \cup N : y.at <= t.at \/ r.at <= y.at
      BY <1>2, <1>4, <3>3 DEF LastTurn
    <3> QED
      BY <3>1, <3>3, <3>4, <3>5 DEF LastTurn
  <2> QED
    BY <2>1, <2>2
<1>12. CompletedTurn(z)'
  <2>1. \A k \in Hooks : hooks'[k] # Free /\ hooks'[k].pc = "appended" => hooks'[k] = hooks[k]
    BY <1>2
  <2>2. \A c : CompletionTurnToken(log', c) = CompletionTurnToken(log, c)
    BY <1>2
  <2> QED
    BY <1>5, <2>1, <2>2 DEF CompletedTurn, Paired, IsCompletion
<1> QED
  BY <1>6, <1>7, <1>9, <1>10, <1>11, <1>12 DEF OrderlyAt

LEMMA OrderlyLeave ==
  ASSUME TypeOK, NEW h \in Hooks, Leaves(h), NEW z \in Sessions, OrderlyAt(z),
         z \notin LosesMark(h)
  PROVE  OrderlyAt(z)'
<1>1. /\ LogMarks(z)' = LogMarks(z) /\ WaitingMarks(z)' = WaitingMarks(z)
      /\ AllMarks(z)' = AllMarks(z)
      /\ \A k \in Hooks : hooks'[k] # Free => hooks'[k] = hooks[k]
  BY LeaveMarks
<1>2. log' = log /\ open' = open
  BY DEF Leaves
<1>3. Pending' = Pending /\ \A c : CompletionTurnToken(log', c) = CompletionTurnToken(log, c)
  BY <1>2 DEF Pending
<1>4. InOrder(z)' /\ Alternate(z)' /\ OpenTurn(z)' /\ PendingTurn(z)'
  BY <1>1, <1>2, <1>3 DEF OrderlyAt, InOrder, Alternate, OpenTurn, PendingTurn, IsTurn
<1>5. \A k \in Hooks : Marks(k)' => Marks(k) /\ hooks'[k] = hooks[k]
  BY <1>1 DEF Marks, Waiting
<1>6. CompletesTurn(z)'
  BY <1>1, <1>5 DEF OrderlyAt, CompletesTurn, IsTurn, IsCompletion
<1>7. CompletedTurn(z)'
  BY <1>1, <1>3 DEF OrderlyAt, CompletedTurn, Paired, IsCompletion
<1> QED
  BY <1>4, <1>6, <1>7 DEF OrderlyAt

LEMMA OrderlyRest ==
  ASSUME Rests, NEW z \in Sessions, OrderlyAt(z), open'[z] = open[z]
  PROVE  OrderlyAt(z)'
<1>1. log' = log /\ hooks' = hooks
  BY DEF Rests
<1>2. /\ LogMarks(z)' = LogMarks(z) /\ WaitingMarks(z)' = WaitingMarks(z)
      /\ AllMarks(z)' = AllMarks(z)
  BY <1>1 DEF LogMarks, WaitingMarks, AllMarks, Marks, Waiting
<1>3. Pending' = Pending /\ \A c : CompletionTurnToken(log', c) = CompletionTurnToken(log, c)
  BY <1>1 DEF Pending
<1>4. InOrder(z)' /\ Alternate(z)' /\ OpenTurn(z)' /\ PendingTurn(z)'
  BY <1>2, <1>3 DEF OrderlyAt, InOrder, Alternate, OpenTurn, PendingTurn, IsTurn
<1>5. CompletesTurn(z)'
  BY <1>1, <1>2 DEF OrderlyAt, CompletesTurn, IsTurn, IsCompletion, Marks, Waiting
<1>6. CompletedTurn(z)'
  BY <1>1, <1>3 DEF OrderlyAt, CompletedTurn, Paired, IsCompletion
<1> QED
  BY <1>4, <1>5, <1>6 DEF OrderlyAt

LEMMA OrderlyAppend ==
  ASSUME TypeOK, Stamped, NEW h \in Hooks, hooks[h] \in Running, AppendRecord(h),
         NEW z \in Sessions, OrderlyAt(z), z \notin Overtakes(h)
  PROVE  OrderlyAt(z)'
<1> DEFINE x == hooks[h].record
           N == MarkOf(x, z)
           L == LogMarks(z)
           W == WaitingMarks(z)
           M == AllMarks(z)
           p == Pending[z]
<1>1. /\ LogMarks(z)' = L \cup N /\ WaitingMarks(z)' = W \ N /\ N \subseteq W
      /\ AllMarks(z)' = M
      /\ \A k \in Hooks : Marks(k)' => Marks(k) /\ k # h /\ hooks'[k] = hooks[k]
  BY AppendMarks
<1>2. /\ x \in Records /\ x.session \in Sessions
      /\ Pending' = Observe(Pending, x)
      /\ \A i \in 1 .. Len(log) : log[i] # x /\
            CompletionTurnToken(log', log[i]) = CompletionTurnToken(log, log[i])
      /\ CompletionTurnToken(log', x) =
            IF Pending[x.session] = << >> THEN None ELSE Head(Pending[x.session])
  BY AppendPairs, ZenonT(30)
<1>3. /\ Waiting(h) /\ x.at \in Nat
      /\ hooks'[h].record = x /\ hooks'[h].of = hooks[h].of
      /\ \A k \in Hooks : k # h => hooks'[k] = hooks[k]
      /\ open' = open
  BY AppendForm, StoreNumbers DEF AppendRecord
<1>4. /\ \A y \in M : y.at \in Nat
      /\ M = L \cup W
      /\ \A y \in W : \E k \in Hooks : Marks(k) /\ hooks[k].record = y
      /\ \A y \in W : y.session = z
  BY MarksAreStamped DEF AllMarks
<1>5. OpenTurn(z) /\ InOrder(z) /\ Alternate(z) /\ PendingTurn(z) /\ CompletesTurn(z) /\ CompletedTurn(z)
  BY DEF OrderlyAt
<1>6. ASSUME z = x.session, IsMark(x)
      PROVE  /\ Marks(h) /\ x \in W /\ N = {x}
             /\ \A w \in W : w = x \/ x.at < w.at
             /\ \A y \in L : y.at < x.at
  <2>1. Marks(h) /\ x \in W /\ N = {x}
    BY <1>1, <1>3, <1>6 DEF Marks, IsMark, MarkOf
  <2>2. ASSUME NEW w \in W
        PROVE  w = x \/ x.at < w.at
    <3>1. PICK k \in Hooks : Marks(k) /\ hooks[k].record = w
      BY <1>4
    <3>2. ~ (w.at < x.at)
      BY <1>4, <1>6, <2>1, <2>2, <3>1 DEF Overtakes, LosesMark
    <3>3. w.at = x.at => k = h
      BY <1>3, <3>1 DEF Stamped, Marks
    <3>4. w.at \in Nat
      BY <1>4
    <3> QED
      BY <1>3, <3>1, <3>2, <3>3, <3>4
  <2>3. \A y \in L : y.at < x.at
    BY <1>5, <2>1 DEF InOrder
  <2> QED
    BY <2>1, <2>2, <2>3
<1>7. ~ (z = x.session /\ IsMark(x)) => N = {}
  BY DEF MarkOf
<1>8. InOrder(z)'
  <2>1. CASE z = x.session /\ IsMark(x)
    <3>1. \A y \in L \cup N, w \in W \ N : y.at < w.at
      BY <1>5, <1>6, <2>1 DEF InOrder
    <3> QED
      BY <1>1, <3>1 DEF InOrder
  <2>2. CASE ~ (z = x.session /\ IsMark(x))
    BY <1>1, <1>5, <1>7, <2>2 DEF InOrder
  <2> QED
    BY <2>1, <2>2
<1>9. Alternate(z)' /\ OpenTurn(z)'
  BY <1>1, <1>3, <1>5 DEF Alternate, OpenTurn, IsTurn
<1>10. PendingTurn(z)'
  <2>1. /\ z # x.session => Pending'[z] = p
        /\ z = x.session /\ IsBoundary(x) => Pending'[z] = << >>
        /\ z = x.session /\ IsTurn(x) => Pending'[z] = Append(p, Token(x))
        /\ z = x.session /\ ~ IsMark(x) => Pending'[z] = p
        /\ z = x.session /\ IsCompletion(x) =>
              Pending'[z] = IF p = << >> THEN << >> ELSE Tail(p)
    BY <1>2, PendingType, ObserveFields, SMTT(30) DEF IsBoundary, IsTurn, IsMark, IsCompletion
  <2>2. IsBoundary(x) \/ IsTurn(x) \/ ~ IsMark(x) \/ IsCompletion(x)
    BY <1>2, RecordFields DEF IsBoundary, IsTurn, IsMark, IsCompletion, Events
  <2>3. p \in Seq(Tokens)
    BY PendingType
  <2>4. CASE z # x.session \/ ~ IsMark(x)
    <3>1. N = {} /\ Pending'[z] = p
      BY <1>7, <2>1, <2>4
    <3>2. LogMarks(z)' = LogMarks(z)
      BY <1>1, <3>1
    <3> QED
      BY <1>5, <3>1, <3>2 DEF PendingTurn
  <2>5. CASE z = x.session /\ IsMark(x)
    <3>1. /\ Marks(h) /\ x \in W /\ N = {x} /\ LogMarks(z)' = L \cup {x}
          /\ \A w \in W : w = x \/ x.at < w.at
          /\ \A y \in L : y.at < x.at
      BY <1>1, <1>6, <2>5
    <3>2. (p = << >> /\ TurnsEnded(L)) \/ \E t \in L : LastTurn(L, t) /\ p = <<Token(t)>>
      BY <1>5 DEF PendingTurn
    <3> HIDE DEF p, L, W, M, N, x
    <3>3. CASE IsBoundary(x) \/ IsCompletion(x)
      <4>1. ~ IsTurn(x)
        BY <3>3 DEF IsBoundary, IsCompletion, IsTurn, Turns, Starts, Stops, Completions
      <4>2. Pending'[z] = << >>
        <5>1. p = << >> \/ Len(p) = 1
          BY <3>2
        <5>2. p # << >> => Tail(p) = << >>
          <6>1. p # << >> => Tail(p) \in Seq(Tokens) /\ Len(Tail(p)) = 0
            BY <2>3, <5>1
          <6> QED
            BY <6>1, EmptySeq
        <5> QED
          BY <2>1, <2>5, <3>3, <5>2
      <4>3. TurnsEnded(L \cup {x})
        BY <3>1, <4>1 DEF TurnsEnded
      <4> QED
        BY <3>1, <4>2, <4>3 DEF PendingTurn
    <3>4. CASE IsTurn(x)
      <4>1. p = << >>
        <5> SUFFICES ASSUME NEW t \in L, LastTurn(L, t)
                     PROVE  FALSE
          BY <3>2
        <5>1. t \in M /\ x \in M /\ IsTurn(t) /\ t.at < x.at
          BY <1>4, <3>1 DEF LastTurn
        <5>2. PICK y \in M : t.at < y.at /\ y.at < x.at /\ ~ IsTurn(y)
          BY <1>5, <3>4, <5>1 DEF Alternate, M
        <5>3. y \notin W
          BY <1>3, <1>4, <3>1, <5>2
        <5>4. y \in L => y.at <= t.at
          BY DEF LastTurn
        <5> QED
          BY <1>4, <5>1, <5>2, <5>3, <5>4
      <4>2. Pending'[z] = <<Token(x)>>
        <5>1. Pending'[z] = Append(p, Token(x))
          BY <2>1, <2>5, <3>4
        <5> QED
          BY <4>1, <5>1
      <4>3. LastTurn(L \cup {x}, x)
        <5>1. x.at \in Nat
          BY <1>3 DEF x
        <5>2. \A y \in L \cup {x} : y.at <= x.at
          BY <1>4, <3>1, <5>1
        <5> QED
          BY <3>4, <5>2 DEF LastTurn
      <4> QED
        BY <3>1, <4>2, <4>3 DEF PendingTurn
    <3> QED
      BY <2>2, <2>5, <3>3, <3>4
  <2> QED
    BY <2>4, <2>5
<1>11. CompletesTurn(z)'
  BY <1>1, <1>5 DEF CompletesTurn, IsTurn, IsCompletion
<1>12. ASSUME z = x.session, IsCompletion(x)
       PROVE  CompletionTurnToken(log', x) = hooks[h].of
  <2>1. IsMark(x)
    BY <1>12 DEF IsCompletion, IsMark, Completions, Beats
  <2>2. /\ Marks(h) /\ x \in W
        /\ \A w \in W : w = x \/ x.at < w.at
        /\ \A y \in L : y.at < x.at
    BY <1>6, <1>12, <2>1
  <2>3. PICK t \in M :
           /\ IsTurn(t) /\ hooks[h].of = Token(t) /\ t.at < x.at
           /\ \A r \in M : r.at <= t.at \/ x.at <= r.at
    BY <1>5, <1>12, <2>2 DEF CompletesTurn
  <2>4. (p = << >> /\ TurnsEnded(L)) \/ \E u \in L : LastTurn(L, u) /\ p = <<Token(u)>>
    BY <1>5 DEF PendingTurn
  <2>5. CompletionTurnToken(log', x) = IF p = << >> THEN None ELSE Head(p)
    BY <1>2, <1>12
  <2>6. x.at \in Nat
    BY <1>3
  <2> HIDE DEF p, L, W, M, N, x
  <2>7. t \in L
    BY <1>4, <2>2, <2>3, <2>6
  <2>8. \A y \in L : y.at <= t.at
    BY <1>4, <2>2, <2>3, <2>6
  <2>9. ~ TurnsEnded(L)
    BY <1>4, <2>3, <2>7, <2>8 DEF TurnsEnded
  <2>10. PICK u \in L : LastTurn(L, u) /\ p = <<Token(u)>>
    BY <2>4, <2>9
  <2>11. u.at = t.at
    BY <1>4, <2>7, <2>8, <2>10 DEF LastTurn
  <2>12. Token(u) = Token(t)
    <3>1. \A y \in M : y.session = z
      BY MarksAreStamped DEF M
    <3> QED
      BY <1>4, <2>7, <2>10, <2>11, <3>1 DEF Token
  <2>13. p # << >> /\ Head(p) = Token(u)
    BY <2>10
  <2> QED
    BY <2>3, <2>5, <2>12, <2>13
<1>13. CompletedTurn(z)'
  <2> SUFFICES ASSUME NEW k \in Hooks, hooks'[k] # Free, hooks'[k].pc = "appended",
                      hooks'[k].record.session = z, IsCompletion(hooks'[k].record)
               PROVE  CompletionTurnToken(log', hooks'[k].record) = hooks'[k].of
    BY DEF CompletedTurn, Paired, IsCompletion
  <2>1. CASE k = h
    BY <1>3, <1>12, <2>1
  <2>2. CASE k # h
    <3>1. hooks'[k] = hooks[k]
      BY <1>3, <2>2
    <3>2. PICK i \in 1 .. Len(log) : log[i] = hooks[k].record
      BY <3>1 DEF Stamped
    <3>3. CompletionTurnToken(log, hooks[k].record) = hooks[k].of
      BY <1>5, <3>1 DEF CompletedTurn, Paired
    <3> QED
      BY <1>2, <3>1, <3>2, <3>3
  <2> QED
    BY <2>1, <2>2
<1> QED
  BY <1>8, <1>9, <1>10, <1>11, <1>13 DEF OrderlyAt

-----------------------------------------------------------------------------
(* Which sessions are active. *)

LiveIn(R, now) == R # {} /\ Newest(R).event \notin Stops /\ Newest(R).expires > now

LEMMA LatestOfLog ==
  ASSUME TypeOK, Stamped, NEW s \in Sessions, NEW now
  PROVE  /\ Latest(log)[s].hint = HintOf(s) /\ Latest(log)[s].turn = TurnOf(s)
         /\ IsLive(Latest(log)[s], now) <=> LiveIn(Of(s), now)
         /\ Of(s) \subseteq Records
<1>1. log \in Seq(Records) /\ \A i, j \in 1 .. Len(log) : log[i].at = log[j].at => i = j
  BY DEF TypeOK, Stamped
<1>2. RecordsOf(log, s) = Of(s)
  BY DEF RecordsOf, Of
<1>3. /\ Latest(log)[s] = EntryIn(Of(s))
      /\ Of(s) # {} => HasLast(Of(s))
      /\ Of(s) \subseteq Records
  BY <1>1, <1>2, LatestIsNewest
<1>4. EntryIn(Of(s)).hint = HintOf(s) /\ EntryIn(Of(s)).turn = TurnOf(s)
  BY DEF EntryIn, HintIn, TurnIn, HintOf, TurnOf
<1>5. EntryIn(Of(s)).record = IF Of(s) = {} THEN None ELSE Newest(Of(s))
  BY DEF EntryIn
<1>6. Of(s) # {} => Newest(Of(s)) # None
  BY <1>3, NewestIsLast, NoneAssumption DEF HasLast
<1>7. IsLive(EntryIn(Of(s)), now) <=> LiveIn(Of(s), now)
  BY <1>5, <1>6 DEF IsLive, LiveIn
<1> QED
  BY <1>3, <1>4, <1>7

LEMMA ReductionsAreExact ==
  ASSUME TypeOK, Stamped
  PROVE  ReductionIsExact
<1>1. \A s \in Sessions : IsLive(Latest(log)[s], clock) <=>
         /\ Of(s) # {} /\ Newest(Of(s)).event \notin Stops
         /\ Newest(Of(s)).expires > clock
  BY LatestOfLog DEF LiveIn
<1>2. \A s \in Sessions : Latest(log)[s].hint = HintOf(s) /\ Latest(log)[s].turn = TurnOf(s)
  BY LatestOfLog
<1> DEFINE Live == {t \in Sessions : IsLive(Latest(log)[t], clock)}
           Lives == {t \in Sessions : /\ Of(t) # {}
                                      /\ Newest(Of(t)).event \notin Stops
                                      /\ Newest(Of(t)).expires > clock}
<1>3. Live = Lives /\ Live \subseteq Sessions
  BY <1>1
<1>4. ActiveSessions(log, clock) =
         {[session |-> s, hint |-> Latest(log)[s].hint, turn |-> Latest(log)[s].turn] : s \in Live}
  BY DEF ActiveSessions
<1> HIDE DEF Live, Lives
<1>5. {[session |-> s, hint |-> Latest(log)[s].hint, turn |-> Latest(log)[s].turn] : s \in Live}
         = {[session |-> s, hint |-> HintOf(s), turn |-> TurnOf(s)] : s \in Lives}
  BY <1>2, <1>3
<1> QED
  BY <1>4, <1>5 DEF ReductionIsExact, Lives

LEMMA ActiveIsLive ==
  ASSUME NEW q \in Seq(Records),
         \A i, j \in 1 .. Len(q) : q[i].at = q[j].at => i = j,
         NEW now, NEW s
  PROVE  s \in Active(q, now) <=> s \in Sessions /\ LiveIn(RecordsOf(q, s), now)
<1> DEFINE Live == {t \in Sessions : IsLive(Latest(q)[t], now)}
           entry(t) == [session |-> t, hint |-> Latest(q)[t].hint, turn |-> Latest(q)[t].turn]
<1>1. ActiveSessions(q, now) = {entry(t) : t \in Live}
  BY DEF ActiveSessions
<1>2. \A t : entry(t).session = t
  OBVIOUS
<1> HIDE DEF Live, entry
<1>3. Active(q, now) = Live
  BY <1>1, <1>2 DEF Active
<1>4. ASSUME s \in Sessions
      PROVE  IsLive(Latest(q)[s], now) <=> LiveIn(RecordsOf(q, s), now)
  <2> DEFINE R == RecordsOf(q, s)
  <2>1. /\ Latest(q)[s] = EntryIn(R)
        /\ R # {} => HasLast(R)
        /\ R \subseteq Records
    BY <1>4, LatestIsNewest
  <2> HIDE DEF R
  <2>2. EntryIn(R).record = IF R = {} THEN None ELSE Newest(R)
    BY DEF EntryIn
  <2>3. R # {} => Newest(R) # None
    BY <2>1, NewestIsLast, NoneAssumption DEF HasLast
  <2> QED
    BY <2>1, <2>2, <2>3 DEF IsLive, LiveIn, R
<1> QED
  BY <1>3, <1>4 DEF Live

(* A record that is not the newest of its session changes nothing about it.*)
LEMMA NewestStays ==
  ASSUME NEW R \in SUBSET Records, NEW x \in Records, NEW r \in R, x.at < r.at,
         HasLast(R \cup {x})
  PROVE  Newest(R) = Newest(R \cup {x})
<1> PICK n \in R \cup {x} : \A a \in R \cup {x} : a = n \/ a.at < n.at
  BY DEF HasLast
<1>1. \A a \in R \cup {x} : a.at \in Nat
  BY RecordFields
<1>2. n # x
  BY <1>1
<1>3. Newest(R) = n
  BY <1>2, NewestIsLast
<1>4. Newest(R \cup {x}) = n
  BY NewestIsLast
<1> QED
  BY <1>3, <1>4

LEMMA AppendDoesNotRevive ==
  ASSUME TypeOK, Stamped, [Next]_vars, log' # log
  PROVE  \A s \in Active(log', clock') \ Active(log, clock) :
            \A r \in Of(s) : log'[Len(log')].session = s /\ r.at < log'[Len(log')].at
<1>1. PICK h \in Hooks : hooks[h] \in Running /\ AppendRecord(h)
  <2>1. ASSUME NEW h \in Hooks, NEW s \in Sessions, NEW r \in Records, AgentForm(h, s, r)
        PROVE  log' = log
    BY <2>1 DEF AgentForm, Stamps
  <2>2. \A h \in Hooks : Leaves(h) => log' = log
    BY DEF Leaves
  <2>3. Rests => log' = log
    BY DEF Rests
  <2> QED
    BY <2>1, <2>2, <2>3, StoreStepForms
<1> DEFINE x == hooks[h].record
<1>2. /\ x \in Records /\ Len(log) \in Nat
      /\ Len(log') = Len(log) + 1 /\ log'[Len(log) + 1] = x
      /\ \A i \in 1 .. Len(log) : log'[i] = log[i] /\ log[i] \in Records /\ log[i].at # x.at
  BY <1>1, AppendPairs
<1>3. clock' = clock
  BY <1>1 DEF AppendRecord
<1> HIDE DEF x
<1>4. /\ log \in Seq(Records) /\ log' \in Seq(Records)
      /\ \A i, j \in 1 .. Len(log) : log[i].at = log[j].at => i = j
      /\ \A i, j \in 1 .. Len(log') : log'[i].at = log'[j].at => i = j
  BY StoreTypeStep, StampedStep DEF TypeOK, Stamped
<1>5. \A s : /\ s \in Active(log, clock) <=> s \in Sessions /\ LiveIn(RecordsOf(log, s), clock)
             /\ s \in Active(log', clock) <=> s \in Sessions /\ LiveIn(RecordsOf(log', s), clock)
  BY <1>4, ActiveIsLive
<1>6. \A s : RecordsOf(log', s) = RecordsOf(log, s) \cup {y \in {x} : y.session = s}
  <2>1. \A y : y \in Range(log) <=> \E i \in 1 .. Len(log) : log[i] = y
    BY <1>4 DEF Range
  <2>2. \A y : y \in Range(log') <=> \E i \in 1 .. Len(log) + 1 : log'[i] = y
    BY <1>2, <1>4 DEF Range
  <2>3. /\ \A i \in 1 .. Len(log) + 1 : i \in 1 .. Len(log) \/ i = Len(log) + 1
        /\ \A i \in 1 .. Len(log) : i \in 1 .. Len(log) + 1
        /\ Len(log) + 1 \in 1 .. Len(log) + 1
    BY <1>2
  <2>4. Range(log') = Range(log) \cup {x}
    <3>1. \A y \in Range(log) : y \in Range(log')
      BY <1>2, <2>1, <2>2, <2>3
    <3>2. \A y \in Range(log') : y \in Range(log) \/ y = x
      BY <1>2, <2>1, <2>2, <2>3
    <3>3. x \in Range(log')
      BY <1>2, <2>2, <2>3
    <3> QED
      BY <3>1, <3>2, <3>3
  <2> QED
    BY <2>4 DEF RecordsOf
<1>7. ASSUME NEW s, s \in Active(log', clock), s \notin Active(log, clock), NEW r \in RecordsOf(log, s)
      PROVE  x.session = s /\ r.at < x.at
  <2> DEFINE R == RecordsOf(log, s)
             Q == RecordsOf(log', s)
  <2>1. s \in Sessions /\ LiveIn(Q, clock) /\ ~ LiveIn(R, clock)
    BY <1>5, <1>7
  <2>2. x.session = s /\ Q = R \cup {x}
    <3>1. Q # R
      BY <2>1
    <3> QED
      BY <1>6, <3>1
  <2>3. \A y \in R : \E i \in 1 .. Len(log) : log[i] = y
    BY <1>4 DEF RecordsOf, Range
  <2>4. /\ R \subseteq Records /\ \A y \in R : y.at # x.at
    BY <1>2, <1>4, <2>3
  <2>5. HasLast(Q)
    BY <1>4, <2>1, <2>2, LatestIsNewest
  <2>6. ASSUME x.at < r.at
        PROVE  FALSE
    <3>1. Newest(R) = Newest(Q)
      <4> HIDE DEF R, Q
      <4>1. r \in R
        BY <1>7 DEF R
      <4> QED
        BY <1>2, <2>2, <2>4, <2>5, <2>6, <4>1, NewestStays
    <3>2. R # {}
      BY <1>7
    <3> QED
      BY <2>1, <3>1, <3>2 DEF LiveIn
  <2>7. r.at \in Nat /\ x.at \in Nat /\ r.at # x.at
    BY <1>2, <1>7, <2>4, RecordFields
  <2> QED
    BY <2>2, <2>6, <2>7
<1> QED
  BY <1>2, <1>3, <1>7 DEF Of, RecordsOf

LEMMA OrderlyStep ==
  ASSUME TypeOK, Stamped, Settlements, Orderly, OrderlyTurnsSettleThemselves, [Next]_vars
  PROVE  Orderly' /\ OrderlyTurnsSettleThemselves'
<1>1. ASSUME NEW h \in Hooks, NEW s \in Sessions, NEW r \in Records, AgentForm(h, s, r)
      PROVE  Orderly' /\ OrderlyTurnsSettleThemselves'
  <2>1. settled' = settled /\ disturbed \subseteq disturbed'
    BY <1>1 DEF AgentForm, Stamps
  <2>2. IsTurn(r) => ~ IsBoundary(r) /\ IsMark(r) /\ ~ IsCompletion(r)
    BY DEF IsBoundary, IsTurn, IsCompletion, IsMark, Starts, Stops, Turns, Completions, Beats
  <2>3. s \notin disturbed' /\ IsTurn(r) => open[s] = None
    BY <1>1, <2>2 DEF AgentForm
  <2>4. ASSUME NEW z \in Sessions \ disturbed'
        PROVE  OrderlyAt(z)'
    BY <1>1, <2>1, <2>3, OrderlyStamp DEF Orderly
  <2> QED
    BY <2>1, <2>4 DEF Orderly, OrderlyTurnsSettleThemselves
<1>2. ASSUME NEW h \in Hooks, hooks[h] \in Running, AppendRecord(h)
      PROVE  Orderly' /\ OrderlyTurnsSettleThemselves'
  <2>1. settled' = settled /\ disturbed' = disturbed \cup Overtakes(h)
    BY <1>2 DEF AppendRecord
  <2>2. ASSUME NEW z \in Sessions \ disturbed'
        PROVE  OrderlyAt(z)'
    BY <1>2, <2>1, OrderlyAppend DEF Orderly
  <2> QED
    BY <2>1, <2>2 DEF Orderly, OrderlyTurnsSettleThemselves
<1>3. ASSUME NEW h \in Hooks, Leaves(h), disturbed' = disturbed \cup LosesMark(h)
      PROVE  Orderly'
  <2>1. ASSUME NEW z \in Sessions \ disturbed'
        PROVE  OrderlyAt(z)'
    BY <1>3, OrderlyLeave DEF Orderly
  <2> QED
    BY <2>1 DEF Orderly
<1>4. ASSUME NEW h \in Hooks, Leaves(h), disturbed' = disturbed \cup LosesMark(h),
             settled' = settled
      PROVE  Orderly' /\ OrderlyTurnsSettleThemselves'
  BY <1>3, <1>4 DEF OrderlyTurnsSettleThemselves
<1>5. ASSUME NEW h \in Hooks, hooks[h] \in Running, Leaves(h), Settle(h)
      PROVE  Orderly' /\ OrderlyTurnsSettleThemselves'
  <2>1. hooks[h].pc = "appended" /\ hooks[h] # Free /\ disturbed' = disturbed
    BY <1>5 DEF Settle, Leaves
  <2>2. LosesMark(h) = {}
    BY <2>1 DEF LosesMark, Marks, Waiting
  <2>3. Orderly'
    BY <1>3, <1>5, <2>1, <2>2
  <2> DEFINE r == hooks[h].record
             d == [completion |-> r, of |-> hooks[h].of, turn |-> CompletionTurnToken(log, r)]
  <2>4. settled' = settled \/ (r.event \in Completions /\ settled' = settled \cup {d})
    BY <1>5 DEF Settle
  <2>5. r.session \in Sessions
    BY <1>5, StoreNumbers, RecordFields
  <2>6. r.event \in Completions /\ r.session \notin disturbed => d.turn = d.of
    <3>1. r.session \notin disturbed => CompletedTurn(r.session)
      BY <2>5 DEF Orderly, OrderlyAt
    <3> QED
      BY <2>1, <3>1 DEF CompletedTurn, Paired, IsCompletion
  <2>7. d.completion = r
    OBVIOUS
  <2> HIDE DEF d, r
  <2>8. OrderlyTurnsSettleThemselves'
    BY <2>1, <2>4, <2>6, <2>7 DEF OrderlyTurnsSettleThemselves
  <2> QED
    BY <2>3, <2>8
<1>6. ASSUME Rests, disturbed \subseteq disturbed',
             \A z \in Sessions \ disturbed' : open'[z] = open[z]
      PROVE  Orderly' /\ OrderlyTurnsSettleThemselves'
  <2>1. ASSUME NEW z \in Sessions \ disturbed'
        PROVE  OrderlyAt(z)'
    BY <1>6, OrderlyRest DEF Orderly
  <2>2. settled' = settled
    BY <1>6 DEF Rests
  <2> QED
    BY <1>6, <2>1, <2>2 DEF Orderly, OrderlyTurnsSettleThemselves
<1>7. ASSUME NEW s \in Sessions, Rests, AgentInterrupted(s)
      PROVE  Orderly' /\ OrderlyTurnsSettleThemselves'
  <2>1. /\ disturbed' = disturbed \cup {s}
        /\ \A z \in Sessions \ disturbed' : open'[z] = open[z]
    BY <1>7 DEF AgentInterrupted, TypeOK
  <2> QED
    BY <1>6, <1>7, <2>1
<1>8. ASSUME Rests, open' = open, disturbed' = disturbed
      PROVE  Orderly' /\ OrderlyTurnsSettleThemselves'
  BY <1>6, <1>8
<1> QED
  BY <1>1, <1>2, <1>4, <1>5, <1>7, <1>8, StoreStepForms

-----------------------------------------------------------------------------
(* The inductive invariant holds initially, and every step preserves it. *)

LEMMA StoreInvInit ==
  ASSUME Init
  PROVE  StoreInv
<1>1. log = << >> /\ Len(log) = 0 /\ 1 .. Len(log) = {} /\ Range(log) = {}
  BY DEF Init, Range
<1>2. /\ settled = {} /\ disturbed = {} /\ clock = 0 /\ broken = FALSE /\ shortWrites = 0
      /\ hooks = [h \in Hooks |-> Free] /\ open = [s \in Sessions |-> None]
  BY DEF Init
<1>3. TypeOK
  <2>1. log \in Seq(Records) /\ Len(log) <= MaxRecords
    BY <1>1, EventStoreAssumption
  <2>2. /\ hooks \in [Hooks -> {Free} \cup Running]
        /\ open \in [Sessions -> Tokens \cup {None}]
        /\ broken \in BOOLEAN
    BY <1>2
  <2>3. shortWrites \in 0 .. MaxShortWrites /\ clock \in 0 .. MaxClock
    BY <1>2, EventStoreAssumption
  <2> QED
    BY <1>2, <2>1, <2>2, <2>3 DEF TypeOK
<1>4. Stamped
  BY <1>1, <1>2 DEF Stamped, Waiting
<1>5. Pending = [s \in Sessions |-> << >>]
  BY <1>1, <1>3, UnmatchedSteps DEF Pending, TypeOK
<1>6. PairingInv
  <2>1. \A s \in Sessions : Pending[s] = << >> /\ 1 .. Len(Pending[s]) = {}
    BY <1>5
  <2> QED
    BY <1>1, <2>1 DEF PairingInv, PendingTurns, PairedTurns, PairedOnce
<1>7. \A h \in Hooks : hooks[h] = Free /\ ~ Marks(h)
  BY <1>2 DEF Marks, Waiting
<1>8. ASSUME NEW s \in Sessions
      PROVE  OrderlyAt(s)
  <2>1. LogMarks(s) = {} /\ WaitingMarks(s) = {} /\ AllMarks(s) = {}
    BY <1>1, <1>7 DEF LogMarks, WaitingMarks, AllMarks
  <2>2. TurnsEnded(AllMarks(s)) /\ TurnsEnded(LogMarks(s))
    BY <2>1 DEF TurnsEnded
  <2>3. OpenTurn(s) /\ PendingTurn(s)
    BY <1>2, <1>5, <2>2 DEF OpenTurn, PendingTurn
  <2>4. InOrder(s) /\ Alternate(s) /\ CompletesTurn(s) /\ CompletedTurn(s)
    BY <1>7, <2>1 DEF InOrder, Alternate, CompletesTurn, CompletedTurn
  <2> QED
    BY <2>3, <2>4 DEF OrderlyAt
<1>9. Settlements /\ Orderly /\ OrderlyTurnsSettleThemselves
  BY <1>2, <1>8 DEF Settlements, Orderly, OrderlyTurnsSettleThemselves
<1> QED
  BY <1>3, <1>4, <1>6, <1>9 DEF StoreInv

LEMMA StoreInvStep ==
  ASSUME StoreInv, [Next]_vars
  PROVE  StoreInv'
<1>1. TypeOK /\ Stamped /\ PairingInv /\ Settlements /\ Orderly /\ OrderlyTurnsSettleThemselves
  BY DEF StoreInv
<1>2. TypeOK' /\ Stamped' /\ Settlements'
  BY <1>1, StoreTypeStep, StampedStep, SettlementsStep
<1>3. Orderly' /\ OrderlyTurnsSettleThemselves'
  BY <1>1, OrderlyStep
<1>4. PairingInv'
  <2>1. ASSUME log' = log
        PROVE  PairingInv'
    BY <1>1, <2>1 DEF PairingInv, PendingTurns, PairedTurns, PairedOnce, Pending, Paired
  <2>2. ASSUME NEW h \in Hooks, NEW s \in Sessions, NEW r \in Records, AgentForm(h, s, r)
        PROVE  log' = log
    BY <2>2 DEF AgentForm, Stamps
  <2>3. \A h \in Hooks : Leaves(h) => log' = log
    BY DEF Leaves
  <2>4. Rests => log' = log
    BY DEF Rests
  <2> QED
    BY <1>1, <2>1, <2>2, <2>3, <2>4, PairingStep, StoreStepForms
<1> QED
  BY <1>2, <1>3, <1>4 DEF StoreInv

(* The store's state keeps its shape: what the hooks append are records,   *)
(* and what they settle are tokens of turns (store.py:17-62).              *)
THEOREM StoreTypeCorrect == Spec => []TypeOK
<1>1. TypeOK /\ [Next]_vars => TypeOK'
  BY StoreTypeStep
<1>2. Init => TypeOK
  BY StoreInvInit DEF StoreInv
<1> QED
  BY <1>1, <1>2, PTL DEF Spec

LEMMA StoreInvAlways == Spec => []StoreInv
<1>1. Init => StoreInv
  BY StoreInvInit
<1>2. StoreInv /\ [Next]_vars => StoreInv'
  BY StoreInvStep
<1> QED
  BY <1>1, <1>2, PTL DEF Spec

(* Two completions never settle one turn, and a completion settles only a  *)
(* turn that its session's incarnation put in the log before it, in        *)
(* whatever order any number of hooks append (store.py:64-96).             *)
THEOREM StoreSettlementIsSound == Spec => []SettlementIsSound
<1>1. StoreInv => SettlementIsSound
  BY SettlementsAreSound DEF StoreInv
<1> QED
  BY <1>1, StoreInvAlways, PTL

(* First in, first out settles the very turn the agent completed, as long  *)
(* as the session's turns are orderly (store.py:91-93).                    *)
THEOREM StoreOrderlyTurnsSettleThemselves == Spec => []OrderlyTurnsSettleThemselves
<1>1. StoreInv => OrderlyTurnsSettleThemselves
  BY DEF StoreInv
<1> QED
  BY <1>1, StoreInvAlways, PTL

(* active_sessions of a log, in whatever order it was appended, is what    *)
(* the newest stamps say: a session's entry, turn and hint                 *)
(* (store.py:130-188).                                                     *)
THEOREM StoreReductionIsExact == Spec => []ReductionIsExact
<1>1. StoreInv => ReductionIsExact
  BY ReductionsAreExact DEF StoreInv
<1> QED
  BY <1>1, StoreInvAlways, PTL

(* An append makes a session active only by a record newer than everything *)
(* the log held about it (store.py:148).                                   *)
THEOREM StoreNoResurrection == Spec => NoResurrection
<1> DEFINE Fresh ==
      log' # log =>
        \A s \in Active(log', clock') \ Active(log, clock) :
          \A r \in Of(s) :
            log'[Len(log')].session = s /\ r.at < log'[Len(log')].at
<1>1. StoreInv /\ [Next]_vars => [Fresh]_vars
  BY AppendDoesNotRevive DEF StoreInv
<1> QED
  BY <1>1, StoreInvAlways, PTL DEF Spec, NoResurrection

=============================================================================
