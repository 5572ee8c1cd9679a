---------------------------- MODULE ContextProofs ----------------------------
(***************************************************************************)
(* What the way of a context packet promises, for every set of turns,      *)
(* every number of daemons and every limit: the queue, alone and in the    *)
(* pipeline; the pipeline and the window it feeds; and the socket that the *)
(* daemons share, which is a specification of its own.                     *)
(***************************************************************************)
EXTENDS ContextPipeline, ContextSocket, FiniteSetTheorems,
        SequenceTheorems, WellFoundedInduction, TLAPS

-----------------------------------------------------------------------------
(* The queue, alone and in the pipeline: a step of the pipeline is a step  *)
(* of its queue, leaves the queue alone, or discards it with the daemon.   *)

(* Arrival numbers tell jobs apart and are all spent. *)
Numbered ==
    /\ \A j \in jobs : j.arrival < arrivals
    /\ \A j, k \in jobs : j.arrival = k.arrival => j = k

QInv ==
    /\ QueueTypeOK /\ IsFiniteSet(jobs)
    /\ Bounded /\ OneJobPerTurn /\ RejectedNotQueued /\ Numbered

-----------------------------------------------------------------------------
LEMMA NatSetHasMinimum ==
  ASSUME NEW T \in SUBSET Nat, T # {}
  PROVE  \E m \in T : \A n \in T : m <= n
<1>1. PICK x \in T : \A y \in T : ~ (<<y, x>> \in OpToRel(<, Nat))
  BY WFMin, NatLessThanWellFounded
<1>2. \A y \in T : <<y, x>> \in Nat \X Nat
  OBVIOUS
<1>3. \A y \in T : ~ (y < x)
  BY <1>1, <1>2 DEF OpToRel
<1> QED
  BY <1>3

(* The left end of a deque that is not empty is one of its jobs. *)
LEMMA OldestIsFirst ==
  ASSUME NEW S \in SUBSET Jobs, S # {}
  PROVE  Oldest(S) \in S /\ \A k \in S : Oldest(S).arrival <= k.arrival
<1> DEFINE T == {j.arrival : j \in S}
<1>1. T \in SUBSET Nat /\ T # {}
  BY DEF Jobs
<1>2. PICK m \in T : \A n \in T : m <= n
  BY <1>1, NatSetHasMinimum
<1>3. PICK j \in S : j.arrival = m
  OBVIOUS
<1>4. \A k \in S : j.arrival <= k.arrival
  BY <1>2, <1>3
<1> QED
  BY <1>4 DEF Oldest

(* Making room never drops more than the queue has, nor leaves it full. *)
LEMMA RoomIsMade ==
  ASSUME QInv, NEW t \in Turns, NEW phase \in Phases, HasRoom(t, phase)
  PROVE  /\ IsFiniteSet(Replaced(t) \ Evicted(t))
         /\ Cardinality(Replaced(t) \ Evicted(t)) \in Nat
         /\ Cardinality(Replaced(t) \ Evicted(t)) < Limit
         /\ Evicted(t) \subseteq ProvisionalIn(jobs)
<1> USE DEF QInv, QueueTypeOK, Bounded
<1>1. Replaced(t) \in SUBSET jobs
  BY DEF Replaced, Others
<1>2. /\ IsFiniteSet(Replaced(t))
      /\ Cardinality(Replaced(t)) <= Cardinality(jobs)
  BY <1>1, FS_Subset
<1>3. Cardinality(jobs) \in Nat /\ Cardinality(Replaced(t)) \in Nat
  BY <1>2, FS_CardinalityType
<1>4. CASE ~Full(t)
  <2>1. Evicted(t) = {} /\ Replaced(t) \ Evicted(t) = Replaced(t)
    BY <1>4 DEF Evicted
  <2> QED
    BY <1>2, <1>3, <1>4, <2>1, LimitAssumption DEF Full
<1>5. CASE Full(t)
  <2> DEFINE P == ProvisionalIn(Replaced(t))
  <2>1. P \in SUBSET Jobs /\ P # {}
    BY <1>1, <1>5 DEF HasRoom, ProvisionalIn
  <2>2. Oldest(P) \in P
    BY <2>1, OldestIsFirst
  <2>3. Evicted(t) = {Oldest(P)}
    BY <1>5 DEF Evicted
  <2>4. Oldest(P) \in Replaced(t) /\ Oldest(P) \in ProvisionalIn(jobs)
    BY <2>2, <1>1 DEF ProvisionalIn
  <2>5. /\ IsFiniteSet(Replaced(t) \ {Oldest(P)})
        /\ Cardinality(Replaced(t) \ {Oldest(P)}) = Cardinality(Replaced(t)) - 1
    BY <1>2, <2>4, FS_RemoveElement
  <2>6. Cardinality(Replaced(t) \ {Oldest(P)}) \in Nat
    BY <2>5, FS_CardinalityType
  <2> QED
    BY <1>2, <1>3, <2>3, <2>4, <2>5, <2>6, LimitAssumption
<1> QED
  BY <1>4, <1>5

(* The queue can only be full of other turns' work when it has none of t. *)
LEMMA RefusedIsUnchanged ==
  ASSUME QInv, NEW t \in Turns, NEW phase \in Phases, SubmitNoRoom(t, phase)
  PROVE  jobs' = jobs
<1>1. jobs' = Replaced(t) /\ ~HasRoom(t, phase)
  BY DEF SubmitNoRoom
<1>2. Replaced(t) \in SUBSET jobs /\ IsFiniteSet(jobs)
  BY DEF QInv, Replaced, Others
<1>3. /\ Cardinality(Replaced(t)) <= Cardinality(jobs)
      /\ Cardinality(Replaced(t)) = Cardinality(jobs) => Replaced(t) = jobs
      /\ IsFiniteSet(Replaced(t))
  BY <1>2, FS_Subset
<1>4. Cardinality(Replaced(t)) \in Nat /\ Cardinality(jobs) \in Nat
  BY <1>2, <1>3, FS_CardinalityType
<1>5. Cardinality(Replaced(t)) >= Limit /\ Cardinality(jobs) <= Limit
  BY <1>1 DEF QInv, Bounded, HasRoom, Full
<1> QED
  BY <1>1, <1>3, <1>4, <1>5, LimitAssumption

(* The remembered rejections stay bounded and gain at most the new one. *)
LEMMA RememberedIsBounded ==
  ASSUME QueueTypeOK, Len(rejections) <= Limit, NEW t \in Turns,
         rejections' = Remembered(t)
  PROVE  /\ rejections' \in Seq(Turns)
         /\ Len(rejections') <= Limit
         /\ \A i, k \in DOMAIN rejections' :
               rejections'[i] = rejections'[k] => i = k
         /\ RejectedTurns' \subseteq RejectedTurns \cup {t}
<1> USE LimitAssumption DEF QueueTypeOK, RejectedTurns
<1>1. CASE t \in RejectedTurns
  BY <1>1 DEF Remembered
<1>2. CASE t \notin RejectedTurns /\ Len(rejections) < Limit
  <2>1. rejections' = Append(rejections, t)
    BY <1>2 DEF Remembered
  <2> QED
    BY <1>2, <2>1
<1>3. CASE t \notin RejectedTurns /\ ~(Len(rejections) < Limit)
  <2>1. rejections' = Append(Tail(rejections), t) /\ Len(rejections) = Limit
    BY <1>3 DEF Remembered
  <2>2. /\ Tail(rejections) \in Seq(Turns)
        /\ Len(Tail(rejections)) = Limit - 1
        /\ \A i \in 1 .. Limit - 1 : Tail(rejections)[i] = rejections[i + 1]
    BY <2>1
  <2>3. Len(rejections') = Limit /\ rejections' \in Seq(Turns)
    BY <2>1, <2>2
  <2>4. \A i \in 1 .. Limit :
           rejections'[i] = IF i = Limit THEN t ELSE rejections[i + 1]
    BY <2>1, <2>2
  <2>5. DOMAIN rejections' = 1 .. Limit /\ DOMAIN rejections = 1 .. Limit
    BY <2>1, <2>3
  <2>6. \A i, k \in DOMAIN rejections' :
           rejections'[i] = rejections'[k] => i = k
    <3> SUFFICES ASSUME NEW i \in 1 .. Limit, NEW k \in 1 .. Limit,
                        rejections'[i] = rejections'[k]
                 PROVE  i = k
      BY <2>5
    <3>1. \A n \in 1 .. Limit - 1 : n + 1 \in DOMAIN rejections /\ rejections[n + 1] # t
      BY <1>3, <2>1, <2>5
    <3>2. i = Limit <=> k = Limit
      BY <2>4, <3>1
    <3>3. CASE i # Limit
      BY <2>4, <3>1, <3>2, <3>3
    <3> QED
      BY <3>2, <3>3
  <2>7. RejectedTurns' \subseteq RejectedTurns \cup {t}
    BY <2>3, <2>4, <2>5
  <2> QED
    BY <2>3, <2>6, <2>7, SMTT(30)
<1> QED
  BY <1>1, <1>2, <1>3

-----------------------------------------------------------------------------
LEMMA QInitEstablishes == QueueInit => QInv
  BY FS_EmptySet, LimitAssumption
  DEF QueueInit, QInv, QueueTypeOK, Bounded, OneJobPerTurn, RejectedNotQueued,
      Numbered, ProvisionalIn

LEMMA QNextPreserves == QInv /\ [QueueNext]_queueVars => QInv'
<1> SUFFICES ASSUME QInv, [QueueNext]_queueVars
             PROVE  QInv'
  OBVIOUS
<1> USE DEF QInv
(* Whatever only removes jobs and keeps the rest is harmless. *)
<1>1. ASSUME jobs' \in SUBSET jobs, rejections' = rejections, arrivals' = arrivals
      PROVE  QInv'
  <2>1. IsFiniteSet(jobs') /\ Cardinality(jobs') <= Cardinality(jobs)
    BY <1>1, FS_Subset
  <2>2. Cardinality(jobs') \in Nat /\ Cardinality(jobs) \in Nat
    BY <2>1, FS_CardinalityType
  <2>3. Bounded'
    BY <1>1, <2>1, <2>2, LimitAssumption DEF Bounded
  <2>4. QueueTypeOK' /\ OneJobPerTurn' /\ Numbered' /\ RejectedNotQueued'
    BY <1>1 DEF QueueTypeOK, OneJobPerTurn, Numbered, RejectedNotQueued,
                ProvisionalIn, RejectedTurns
  <2> QED
    BY <2>1, <2>3, <2>4
<1>2. ASSUME NEW t \in Turns, NEW phase \in Phases, SubmitAccepted(t, phase)
      PROVE  QInv'
  <2> DEFINE base == Replaced(t) \ Evicted(t)
             new == [turn |-> t, phase |-> phase, arrival |-> arrivals]
  <2>1. /\ ~TooLate(t, phase) /\ HasRoom(t, phase)
        /\ jobs' = base \cup {new}
        /\ arrivals' = arrivals + 1 /\ rejections' = rejections
    BY <1>2 DEF SubmitAccepted
  <2>2. /\ IsFiniteSet(base) /\ Cardinality(base) \in Nat
        /\ Cardinality(base) < Limit
    BY <2>1, RoomIsMade
  <2>3. base \subseteq jobs /\ \A j \in base : j.turn # t
    BY DEF Replaced, Others
  <2>4. new \in Jobs
    BY DEF Jobs, QueueTypeOK
  <2>5. QueueTypeOK'
    BY <2>1, <2>3, <2>4 DEF QueueTypeOK
  <2>6. IsFiniteSet(jobs') /\ Bounded'
    <3> HIDE DEF base, new
    <3>1. /\ IsFiniteSet(base \cup {new})
          /\ \/ Cardinality(base \cup {new}) = Cardinality(base)
             \/ Cardinality(base \cup {new}) = Cardinality(base) + 1
      BY ONLY <2>2, FS_AddElement
    <3>2. Cardinality(base \cup {new}) \in Nat
      BY <3>1, FS_CardinalityType
    <3> QED
      BY <2>1, <2>2, <3>1, <3>2, LimitAssumption DEF Bounded
  <2>7. OneJobPerTurn'
    BY <2>1, <2>3 DEF OneJobPerTurn
  <2>8. RejectedNotQueued'
    <3>1. RejectedTurns' = RejectedTurns
      BY <2>1 DEF RejectedTurns
    <3>2. phase = "provisional" => t \notin RejectedTurns
      BY <2>1 DEF TooLate
    <3> QED
      BY <2>1, <2>3, <3>1, <3>2 DEF RejectedNotQueued, ProvisionalIn
  <2>9. Numbered'
    <3>1. \A j \in jobs : j.arrival \in Nat
      BY DEF QueueTypeOK, Jobs
    <3> QED
      BY <2>1, <2>3, <3>1 DEF Numbered, QueueTypeOK
  <2> QED
    BY <2>5, <2>6, <2>7, <2>8, <2>9
<1>3. ASSUME NEW t \in Turns, SuppressProvisional(t)
      PROVE  QInv'
  <2> DEFINE rest == jobs \ ProvisionalIn(OfTurn(t))
  <2>1. jobs' = rest /\ rejections' = Remembered(t) /\ arrivals' = arrivals
    BY <1>3 DEF SuppressProvisional
  <2>2. /\ rejections' \in Seq(Turns) /\ Len(rejections') <= Limit
        /\ \A i, k \in DOMAIN rejections' :
              rejections'[i] = rejections'[k] => i = k
        /\ RejectedTurns' \subseteq RejectedTurns \cup {t}
    BY <2>1, RememberedIsBounded DEF Bounded
  <2>3. rest \in SUBSET jobs
    OBVIOUS
  <2>4. IsFiniteSet(rest) /\ Cardinality(rest) <= Cardinality(jobs)
    BY <2>3, FS_Subset
  <2>5. Cardinality(rest) \in Nat /\ Cardinality(jobs) \in Nat
    BY <2>4, FS_CardinalityType
  <2>6. IsFiniteSet(jobs') /\ Bounded'
    BY <2>1, <2>2, <2>4, <2>5, LimitAssumption DEF Bounded
  <2>7. QueueTypeOK' /\ OneJobPerTurn' /\ Numbered'
    BY <2>1, <2>2, <2>3 DEF QueueTypeOK, OneJobPerTurn, Numbered
  <2>8. RejectedNotQueued'
    BY <2>1, <2>2 DEF RejectedNotQueued, ProvisionalIn, OfTurn
  <2> QED
    BY <2>6, <2>7, <2>8
<1>4. ASSUME NEW t \in Turns, NEW phase \in Phases,
             SubmitTooLate(t, phase) \/ SubmitNoRoom(t, phase)
      PROVE  QInv'
  BY <1>1, <1>4 DEF SubmitTooLate, SubmitNoRoom, Replaced, Others, queueVars
<1>5. CASE Take
  BY <1>1, <1>5 DEF Take
<1>6. CASE UNCHANGED queueVars
  BY <1>1, <1>6 DEF queueVars
<1> QED
  BY <1>2, <1>3, <1>4, <1>5, <1>6 DEF QueueNext, Submit

LEMMA QInductive == QueueSpec => []QInv
  BY QInitEstablishes, QNextPreserves, PTL DEF QueueSpec

-----------------------------------------------------------------------------
(* The fields of the queue keep their types (context.py:31-35). *)
THEOREM QueueTypeCorrect == QueueSpec => []QueueTypeOK
<1>1. QInv => QueueTypeOK
  BY DEF QInv
<1> QED
  BY <1>1, QInductive, PTL

(* A step of the queue costs no turn its settled work. *)
LEMMA StepSettledStays ==
  ASSUME QInv, QueueNext
  PROVE  SettledStays
<1>1. ASSUME NEW j \in SettledIn(jobs) \ jobs'
      PROVE  \/ jobs' = jobs \ {j} /\ j = Oldest(jobs)
             \/ \E k \in SettledIn(jobs') : k.turn = j.turn
  <2> USE DEF SettledIn, ProvisionalIn, OfTurn, Others, Replaced
  <2>1. ASSUME NEW t \in Turns, NEW phase \in Phases, SubmitAccepted(t, phase)
        PROVE  \E k \in SettledIn(jobs') : k.turn = j.turn
    <3> DEFINE new == [turn |-> t, phase |-> phase, arrival |-> arrivals]
    <3>1. new \in jobs' /\ ~TooLate(t, phase) /\ HasRoom(t, phase)
          /\ jobs' = (Replaced(t) \ Evicted(t)) \cup {new}
      BY <2>1 DEF SubmitAccepted
    <3>2. Evicted(t) \subseteq ProvisionalIn(jobs)
      BY <1>1, <3>1, RoomIsMade
    <3>3. j.turn = t
      BY <3>1, <3>2
    <3>4. phase = "settled"
      BY <3>1, <3>3 DEF TooLate, Phases
    <3>5. new \in SettledIn(jobs') /\ new.turn = j.turn
      BY <3>1, <3>3, <3>4
    <3> QED
      BY ONLY <3>5
  <2>2. ASSUME NEW t \in Turns, NEW phase \in Phases, SubmitNoRoom(t, phase)
        PROVE  FALSE
    BY <1>1, <2>2, RefusedIsUnchanged
  <2>3. ASSUME NEW t \in Turns, NEW phase \in Phases, SubmitTooLate(t, phase)
        PROVE  FALSE
    BY <2>3 DEF SubmitTooLate, queueVars
  <2>4. ASSUME NEW t \in Turns, SuppressProvisional(t)
        PROVE  FALSE
    BY <2>4 DEF SuppressProvisional
  <2>5. CASE Take
    BY <2>5 DEF Take
  <2> QED
    BY <2>1, <2>2, <2>3, <2>4, <2>5 DEF QueueNext, Submit
<1> QED
  BY <1>1 DEF SettledStays

LEMMA StepKeepsItsWork ==
  ASSUME QInv, [QueueNext]_queueVars
  PROVE  [~Discarded' => SettledStays /\ RefusalLosesNothing]_queueVars
<1>1. QueueNext => SettledStays
  BY StepSettledStays
<1>2. RefusalLosesNothing
  BY RefusedIsUnchanged DEF RefusalLosesNothing
<1> QED
  BY <1>1, <1>2

(* The queue alone is bounded, has one job per turn, and nothing that a    *)
(* remembered rejection has overtaken (context.py:43-95).                  *)
THEOREM QueueIsSound == QueueSpec => []QueueSound
<1>1. QInv => QueueSound
  BY DEF QInv, QueueSound
<1> QED
  BY <1>1, QInductive, PTL

(* Its steps cost no turn its settled work, and a refusal costs nothing    *)
(* (context.py:58-75).                                                     *)
THEOREM QueueLosesNothing == QueueSpec => QueueKeepsItsWork
  BY StepKeepsItsWork, QInductive, PTL DEF QueueSpec, QueueKeepsItsWork

-----------------------------------------------------------------------------
(* Only work of known turns is on the wire and in stage one. *)
TypeOfJob == wire \in Seq(Packets) /\ (job # NoJob => job \in Jobs)

(* What a step of the pipeline is to its queue. *)
LEMMA StepOfTheQueue ==
  ASSUME [Next]_vars, TypeOfJob
  PROVE  [QueueNext]_queueVars \/ (Discarded' /\ UNCHANGED arrivals)
<1> USE DEF QueueNext
<1>1. ASSUME NEW t \in Turns, NEW phase \in Phases, Deliver(t, phase)
      PROVE  UNCHANGED queueVars
  BY <1>1 DEF Deliver
<1>2. CASE Drain
  <2>1. Head(wire) \in Packets
    BY <1>2 DEF Drain, TypeOfJob
  <2>2. Head(wire).turn \in Turns /\ Head(wire).phase \in Phases
    BY <2>1 DEF Packets
  <2>3. Submit(Head(wire).turn, Head(wire).phase)
    BY <1>2 DEF Drain
  <2> QED
    BY <2>2, <2>3
<1>3. CASE TakeJob
  BY <1>3 DEF TakeJob
<1>4. CASE Admit \/ RejectProvisional \/ Fail
  BY <1>4 DEF Admit, RejectProvisional, Fail
<1>5. CASE RejectSettled \/ RejectSettledNotRemoved
  BY <1>5 DEF RejectSettled, RejectSettledNotRemoved, TypeOfJob, Jobs
<1>6. CASE Stop
  BY <1>6 DEF Stop, Discarded
<1>7. CASE Start
  BY <1>7 DEF Start
<1>8. CASE UNCHANGED vars
  BY <1>8 DEF vars
<1> QED
  BY <1>1, <1>2, <1>3, <1>4, <1>5, <1>6, <1>7, <1>8 DEF Next, Reduce

LEMMA QueueInPipeline ==
  ASSUME QInv, TypeOfJob, [Next]_vars
  PROVE  QInv'
<1>1. CASE [QueueNext]_queueVars
  BY <1>1, QNextPreserves
<1>2. CASE Discarded' /\ UNCHANGED arrivals
  BY <1>2, FS_EmptySet, LimitAssumption
  DEF QInv, Discarded, QueueTypeOK, Bounded, OneJobPerTurn, RejectedNotQueued,
      Numbered, ProvisionalIn, RejectedTurns
<1> QED
  BY <1>1, <1>2, StepOfTheQueue

-----------------------------------------------------------------------------
(* The window's operators. *)

(* Nothing is in a saved window but what was there and what was saved, and *)
(* a completion goes only by the cut.                                      *)
LEMMA SavedWindow ==
  ASSUME NEW w, IsWindow(w), NEW a \in Activities
  PROVE  /\ IsWindow(Saved(w, a))
         /\ \A i \in DOMAIN Saved(w, a) :
               Saved(w, a)[i] = a \/ \E k \in DOMAIN w : Saved(w, a)[i] = w[k]
         /\ \A i \in DOMAIN w : w[i].phase = "settled" =>
               \/ IsSettledIn(Saved(w, a), w[i].turn)
               \/ i = 1 /\ Len(w) = WindowLimit
<1> USE WindowLimitAssumption
<1>1. /\ w \in Seq(Activities) /\ Len(w) \in Nat /\ Len(w) <= WindowLimit
      /\ DOMAIN w = 1 .. Len(w)
      /\ \A i, k \in DOMAIN w : w[i].turn = w[k].turn => i = k
  BY DEF IsWindow
<1> DEFINE n == Len(w)
<1>n. n \in Nat /\ n <= WindowLimit
  BY <1>1
<1>2. CASE a.phase = "provisional" /\ IsSettledIn(w, a.turn)
  <2>1. Saved(w, a) = w
    BY <1>2 DEF Saved
  <2> QED
    BY <2>1 DEF IsSettledIn, PlaceOf
<1>3. CASE ~(a.phase = "provisional" /\ IsSettledIn(w, a.turn)) /\ InWindow(w, a.turn)
  <2> DEFINE v == [i \in DOMAIN w |-> IF w[i].turn = a.turn THEN a ELSE w[i]]
  <2>1. v \in Seq(Activities) /\ Len(v) = Len(w) /\ DOMAIN v = DOMAIN w
    BY <1>1
  <2>2. Saved(w, a) = v
    <3>1. Upserted(w, a) = v
      BY <1>3 DEF Upserted
    <3>2. Saved(w, a) = Kept(v)
      BY <1>3, <3>1 DEF Saved
    <3> HIDE DEF v
    <3> QED
      BY <1>1, <2>1, <3>2 DEF Kept
  <2>3. \A i \in DOMAIN w : v[i].turn = w[i].turn /\ (v[i] = a \/ v[i] = w[i])
    BY <2>1
  <2>4. a.phase \in {"provisional", "settled"}
    BY DEF Activities, WindowPhases
  <2>5. \A i \in DOMAIN w : w[i].phase = "settled" => v[i].phase = "settled"
    BY <1>3, <2>1, <2>4 DEF IsSettledIn, PlaceOf
  <2> HIDE DEF v
  <2>6. IsWindow(v)
    BY <1>1, <2>1, <2>3 DEF IsWindow
  <2>7. \A i \in DOMAIN w : w[i].phase = "settled" => IsSettledIn(v, w[i].turn)
    BY <2>1, <2>3, <2>5 DEF IsSettledIn, PlaceOf
  <2> QED
    BY <2>1, <2>2, <2>3, <2>6, <2>7
<1>4. CASE ~(a.phase = "provisional" /\ IsSettledIn(w, a.turn)) /\ ~InWindow(w, a.turn)
  <2> DEFINE v == Append(w, a)
  <2>1. /\ v \in Seq(Activities) /\ Len(v) = Len(w) + 1 /\ DOMAIN v = 1 .. Len(w) + 1
        /\ \A i \in 1 .. Len(w) : v[i] = w[i]
        /\ v[Len(w) + 1] = a
    BY <1>1
  <2>2. Saved(w, a) = Kept(v)
    BY <1>4 DEF Saved, Upserted
  <2> HIDE DEF v
  <2>3. \A i, k \in 1 .. Len(w) + 1 : v[i].turn = v[k].turn => i = k
    BY <1>1, <1>4, <2>1 DEF InWindow, PlaceOf
  <2>4. CASE Len(w) < WindowLimit
    <3>1. Saved(w, a) = v
      BY <1>1, <2>1, <2>2, <2>4 DEF Kept
    <3>2. IsWindow(v)
      BY <1>1, <2>1, <2>3, <2>4 DEF IsWindow
    <3>3. \A i \in DOMAIN v : v[i] = a \/ \E k \in DOMAIN w : v[i] = w[k]
      BY <1>1, <2>1
    <3>4. \A i \in DOMAIN w : i \in DOMAIN v /\ v[i] = w[i]
      BY <1>1, <2>1
    <3> QED
      BY <3>1, <3>2, <3>3, <3>4 DEF IsSettledIn, PlaceOf
  <2>5. CASE Len(w) = WindowLimit
    <3> DEFINE u == SubSeq(v, 2, Len(v))
    <3>1. Saved(w, a) = u
      <4>1. Len(v) > WindowLimit /\ Len(v) - WindowLimit + 1 = 2
        BY <2>1, <2>5
      <4> QED
        BY <2>2, <4>1 DEF Kept
    <3>2. /\ u \in Seq(Activities) /\ Len(u) = Len(w) /\ DOMAIN u = 1 .. Len(w)
          /\ \A i \in 1 .. Len(w) : u[i] = v[i + 1]
      BY <1>1, <2>1, <2>5
    <3> HIDE DEF u
    <3>3. IsWindow(u)
      BY <1>1, <2>3, <2>5, <3>2 DEF IsWindow
    <3>4. \A i \in DOMAIN u : u[i] = a \/ \E k \in DOMAIN w : u[i] = w[k]
      <4>1. ASSUME NEW i \in 1 .. Len(w), i # Len(w)
            PROVE  i + 1 \in 1 .. Len(w) /\ u[i] = w[i + 1]
        <5>1. i + 1 \in 1 .. Len(w)
          <6> HIDE DEF n
          <6>1. i \in 1 .. n /\ i # n
            BY <4>1 DEF n
          <6>2. i + 1 \in 1 .. n
            BY <1>n, <6>1
          <6> QED
            BY <6>2 DEF n
        <5> QED
          BY <2>1, <3>2, <5>1
      <4>2. Len(w) \in 1 .. Len(w) /\ u[Len(w)] = a
        BY <1>1, <2>1, <2>5, <3>2
      <4> QED
        BY <1>1, <3>2, <4>1, <4>2
    <3>5. \A i \in DOMAIN w : i # 1 => i - 1 \in DOMAIN u /\ u[i - 1] = w[i]
      BY <1>1, <2>1, <3>2
    <3> QED
      BY <2>5, <3>1, <3>3, <3>4, <3>5 DEF IsSettledIn, PlaceOf
  <2>6. n < WindowLimit \/ n = WindowLimit
    <3> HIDE DEF n
    <3> QED
      BY <1>n
  <2> QED
    BY <2>4, <2>5, <2>6
<1> QED
  BY <1>2, <1>3, <1>4

(* What RemoveAt of the community modules returns. *)
LEMMA RemoveAtProperties ==
  ASSUME NEW S, NEW s \in Seq(S), NEW p \in 1 .. Len(s)
  PROVE  /\ RemoveAt(s, p) \in Seq(S)
         /\ Len(RemoveAt(s, p)) = Len(s) - 1
         /\ \A i \in 1 .. Len(s) - 1 :
               RemoveAt(s, p)[i] = IF i < p THEN s[i] ELSE s[i + 1]
<1> DEFINE n == Len(s)
           before == SubSeq(s, 1, p - 1)
           after == SubSeq(s, p + 1, n)
           r == RemoveAt(s, p)
<1>1. n \in Nat /\ p \in 1 .. n /\ p \in Int /\ n \in Int /\ \A i \in 1 .. n : s[i] \in S
  BY LenProperties
<1> HIDE DEF n
<1>2. /\ before \in Seq(S) /\ Len(before) = p - 1
      /\ \A i \in 1 .. p - 1 : before[i] = s[i]
  <2>1. \A i \in 1 .. p - 1 : i \in 1 .. n
    BY <1>1
  <2>2. 1 \in Int /\ p - 1 \in Int /\ p - 1 - 1 + 1 = p - 1 /\ \A i \in Int : 1 + i - 1 = i
    BY <1>1
  <2> QED
    BY <1>1, <2>1, <2>2, SubSeqProperties
<1>3. /\ after \in Seq(S) /\ Len(after) = n - p
      /\ \A i \in 1 .. n - p : after[i] = s[p + i]
  <2>1. \A i \in p + 1 .. n : i \in 1 .. n
    BY <1>1
  <2>2. /\ p + 1 \in Int /\ n - (p + 1) + 1 = n - p
        /\ \A i \in Int : (p + 1) + i - 1 = p + i
    BY <1>1
  <2> QED
    BY <1>1, <2>1, <2>2, SubSeqProperties
<1>4. r = before \o after
  BY DEF RemoveAt, n
<1> HIDE DEF before, after, r
<1>5. /\ r \in Seq(S) /\ Len(r) = Len(before) + Len(after)
      /\ \A i \in 1 .. Len(before) + Len(after) :
            r[i] = IF i <= Len(before) THEN before[i] ELSE after[i - Len(before)]
  BY <1>2, <1>3, <1>4, ConcatProperties
<1>6. ASSUME NEW i \in 1 .. n - 1
      PROVE  r[i] = IF i < p THEN s[i] ELSE s[i + 1]
  <2>1. i \in 1 .. (p - 1) + (n - p)
    BY <1>1
  <2>2. r[i] = IF i <= p - 1 THEN before[i] ELSE after[i - (p - 1)]
    BY <1>2, <1>3, <1>5, <2>1
  <2>3. CASE i < p
    <3>1. i \in 1 .. p - 1 /\ i <= p - 1
      BY <1>1, <2>3
    <3> QED
      BY <1>2, <2>2, <2>3, <3>1
  <2>4. CASE ~(i < p)
    <3>1. /\ i - (p - 1) \in 1 .. n - p /\ ~(i <= p - 1)
          /\ p + (i - (p - 1)) = i + 1
      BY <1>1, <2>4
    <3> QED
      BY <1>3, <2>2, <2>4, <3>1
  <2> QED
    BY <2>3, <2>4
<1>7. Len(r) = n - 1
  BY <1>1, <1>2, <1>3, <1>5
<1> QED
  BY <1>5, <1>6, <1>7 DEF n, r

(* A removal takes out the turn's entry, and nothing else. *)
LEMMA RemovedWindow ==
  ASSUME NEW w, IsWindow(w), NEW t
  PROVE  /\ IsWindow(Removed(w, t))
         /\ \A i \in DOMAIN Removed(w, t) :
               \E k \in DOMAIN w : Removed(w, t)[i] = w[k] /\ w[k].turn # t
         /\ \A i \in DOMAIN w : w[i].turn # t =>
               \E k \in DOMAIN Removed(w, t) : Removed(w, t)[k] = w[i]
<1> DEFINE n == Len(w)
<1>1. /\ w \in Seq(Activities) /\ n \in Nat /\ n <= WindowLimit
      /\ DOMAIN w = 1 .. n
      /\ \A i, k \in 1 .. n : w[i].turn = w[k].turn => i = k
  BY DEF IsWindow
<1>2. CASE ~InWindow(w, t)
  <2>1. Removed(w, t) = w
    BY <1>2 DEF Removed
  <2> QED
    BY <1>2, <2>1 DEF InWindow, PlaceOf
<1>3. CASE InWindow(w, t)
  <2> DEFINE p == CHOOSE i \in PlaceOf(w, t) : TRUE
             r == Removed(w, t)
  <2>1. p \in 1 .. n /\ w[p].turn = t
    BY <1>1, <1>3 DEF InWindow, PlaceOf
  <2>2. r = RemoveAt(w, p)
    BY <1>3 DEF Removed
  <2> HIDE DEF p, r
  <2>3. /\ r \in Seq(Activities) /\ Len(r) = n - 1
        /\ \A i \in 1 .. n - 1 : r[i] = IF i < p THEN w[i] ELSE w[i + 1]
    BY <1>1, <2>1, <2>2, RemoveAtProperties
  <2>4. DOMAIN r = 1 .. n - 1
    BY <2>3, LenProperties
  <2> HIDE DEF n
  (* Where the entries come from and go to. *)
  <2> DEFINE at(i) == IF i < p THEN i ELSE i + 1
  <2>5. \A i \in 1 .. n - 1 : at(i) \in 1 .. n /\ at(i) # p /\ r[i] = w[at(i)]
    BY <1>1, <2>1, <2>3
  <2>6. \A i \in 1 .. n : i # p => \E k \in 1 .. n - 1 : at(k) = i
    <3> SUFFICES ASSUME NEW i \in 1 .. n, i # p
                 PROVE  \E k \in 1 .. n - 1 : at(k) = i
      OBVIOUS
    <3>1. CASE i < p
      BY <1>1, <2>1, <3>1
    <3>2. CASE i > p
      <4>1. i - 1 \in 1 .. n - 1 /\ at(i - 1) = i
        BY <1>1, <2>1, <3>2
      <4> QED
        BY <4>1
    <3> QED
      BY <1>1, <2>1, <3>1, <3>2
  <2>7. \A i \in 1 .. n : w[i].turn = t <=> i = p
    BY <1>1, <2>1
  <2>8. IsWindow(r)
    <3>1. ASSUME NEW i \in 1 .. n - 1, NEW k \in 1 .. n - 1, r[i].turn = r[k].turn
          PROVE  i = k
      <4>1. at(i) = at(k)
        BY <1>1, <2>5, <3>1
      <4> QED
        BY <1>1, <2>1, <4>1
    <3>2. n - 1 <= WindowLimit
      BY <1>1, WindowLimitAssumption
    <3> QED
      BY <2>3, <2>4, <3>1, <3>2 DEF IsWindow
  <2> HIDE DEF at
  <2>9. \A i \in DOMAIN r : \E k \in DOMAIN w : r[i] = w[k] /\ w[k].turn # t
    BY <1>1, <2>4, <2>5, <2>7
  <2>10. \A i \in DOMAIN w : w[i].turn # t => \E k \in DOMAIN r : r[k] = w[i]
    BY <1>1, <2>4, <2>5, <2>6, <2>7
  <2> QED
    BY <2>8, <2>9, <2>10 DEF r
<1> QED
  BY <1>2, <1>3

-----------------------------------------------------------------------------
(* The pipeline. *)

Settled(t) == [turn |-> t, phase |-> "settled"]
PacketOf(j) == [turn |-> j.turn, phase |-> j.phase]

(* Packets in the socket, and packets that are work of the daemon. *)
Waiting == {wire[i] : i \in DOMAIN wire}
Queued == {PacketOf(j) : j \in jobs}
Held == Queued \cup (IF job = NoJob THEN {} ELSE {PacketOf(job)})

(* A packet is in one place at a time. *)
PacketsOnce ==
    /\ Waiting \subseteq sent /\ Held \subseteq sent \ Waiting
    /\ \A i, k \in DOMAIN wire : wire[i] = wire[k] => i = k
    /\ job # NoJob => PacketOf(job) \notin Queued

(* The turn's settled source has been decided or lost: it is nowhere, and  *)
(* it is not sent again.                                                   *)
Past(t) == Settled(t) \in sent \ (Waiting \cup Held)

(* What a rejection or a completion says is final. *)
DecidedIsPast ==
    /\ \A t \in RejectedTurns : Past(t)
    /\ \A i \in DOMAIN window : window[i].phase = "settled" => Past(window[i].turn)

PipeInv ==
    /\ QInv /\ TypeOK /\ (~up => restarts < MaxRestarts)
    /\ PacketsOnce /\ DecidedIsPast /\ RejectedStaysOut

(* What submit leaves in the queue was there or has come in. *)
LEMMA SubmitBrings ==
  ASSUME NEW t, NEW phase, Submit(t, phase)
  PROVE  /\ rejections' = rejections
         /\ \A j \in jobs' : j \in jobs \/ PacketOf(j) = [turn |-> t, phase |-> phase]
  BY DEF Submit, SubmitTooLate, SubmitNoRoom, SubmitAccepted, Replaced, Others,
         queueVars, PacketOf

LEMMA PastStays ==
  ASSUME sent \subseteq sent', PacketsOnce,
         \A p \in Waiting' \cup Held' : p \in Waiting \cup Held \/ p \notin sent
  PROVE  \A t : Past(t) => Past(t)'
  BY DEF Past, Settled

(* The types, which need only the queue's invariant. *)
LEMMA PipeTypes ==
  ASSUME PipeInv, QInv', [Next]_vars
  PROVE  TypeOK' /\ (~up' => restarts' < MaxRestarts)
<1> USE WireAssumption DEF PipeInv, TypeOK
<1>1. QueueTypeOK'
  BY DEF QInv
<1>2. ASSUME NEW t \in Turns, NEW phase \in Phases, Deliver(t, phase)
      PROVE  TypeOK' /\ (~up' => restarts' < MaxRestarts)
  <2> DEFINE packet == [turn |-> t, phase |-> phase]
  <2>1. packet \in Packets
    BY DEF Packets
  <2>2. /\ sent' = sent \cup {packet}
        /\ wire' = IF up /\ Len(wire) < WireLimit THEN Append(wire, packet) ELSE wire
        /\ UNCHANGED <<jobs, rejections, arrivals, up, restarts, job, window, saves, unremoved>>
    BY <1>2 DEF Deliver, daemonVars, queueVars
  <2> HIDE DEF packet
  <2>3. wire' \in Seq(Packets) /\ Len(wire') <= WireLimit
    BY <2>1, <2>2
  <2> QED
    BY <1>1, <2>1, <2>2, <2>3
<1>3. CASE Drain
  <2>1. /\ wire # << >> /\ wire' = Tail(wire) /\ up
        /\ UNCHANGED <<up, restarts, sent, job, window, saves, unremoved>>
    BY <1>3 DEF Drain, daemonVars
  <2>2. Tail(wire) \in Seq(Packets) /\ Len(Tail(wire)) <= WireLimit
    BY <2>1
  <2> QED
    BY <1>1, <2>1, <2>2
<1>4. CASE TakeJob
  <2>1. /\ up /\ job' = Oldest(jobs) /\ jobs # {} /\ jobs \in SUBSET Jobs
        /\ UNCHANGED <<up, restarts, sent, wire, window, saves, unremoved>>
    BY <1>4 DEF TakeJob, Take, QueueTypeOK
  <2>2. job' \in Jobs
    BY <2>1, OldestIsFirst
  <2> QED
    BY <1>1, <2>1, <2>2
<1>5. CASE Reduce
  <2>1. job # NoJob /\ up /\ job \in Jobs
    BY <1>5 DEF Reduce, Admit, RejectProvisional, RejectSettled, RejectSettledNotRemoved, Fail
  <2>2. job.turn \in Turns /\ job.phase \in Phases
    BY <2>1 DEF Jobs
  <2>3. job' = NoJob /\ UNCHANGED <<up, restarts, sent, wire>>
    BY <1>5 DEF Reduce, Admit, RejectProvisional, RejectSettled, RejectSettledNotRemoved, Fail
  <2>4. saves' \in Nat /\ unremoved' \subseteq Turns
    BY <1>5, <2>2 DEF Reduce, Admit, RejectProvisional, RejectSettled, RejectSettledNotRemoved, Fail
  <2>5. IsWindow(window')
    <3>1. CASE Admit
      <4> DEFINE a == [turn |-> job.turn, phase |-> job.phase, seen |-> saves]
      <4>1. a \in Activities
        BY <2>2, TurnsAssumption DEF Activities, WindowPhases, Phases
      <4>2. window' = Saved(window, a)
        BY <3>1 DEF Admit
      <4> HIDE DEF a
      <4> QED
        BY <4>1, <4>2, SavedWindow
    <3>2. CASE RejectSettled
      BY <3>2, RemovedWindow DEF RejectSettled
    <3>3. CASE RejectProvisional \/ RejectSettledNotRemoved \/ Fail
      BY <3>3 DEF RejectProvisional, RejectSettledNotRemoved, Fail
    <3> QED
      BY <1>5, <3>1, <3>2, <3>3 DEF Reduce
  <2> QED
    BY <1>1, <2>1, <2>3, <2>4, <2>5
<1>6. CASE Stop
  <2>1. /\ up' = FALSE /\ restarts < MaxRestarts
        /\ wire' = << >> /\ job' = NoJob /\ jobs' = {} /\ rejections' = << >>
        /\ UNCHANGED <<restarts, sent, window, saves, unremoved>>
    BY <1>6 DEF Stop
  <2>2. wire' \in Seq(Packets) /\ Len(wire') <= WireLimit
    BY <2>1
  <2> QED
    BY <1>1, <2>1, <2>2
<1>7. CASE Start
  BY <1>1, <1>7 DEF Start, daemonVars, queueVars
<1>8. CASE UNCHANGED vars
  BY <1>1, <1>8 DEF vars, queueVars
<1> QED
  BY <1>2, <1>3, <1>4, <1>5, <1>6, <1>7, <1>8 DEF Next

(* Packets move from the hooks to the socket, the queue and stage one. *)
LEMMA PipePackets ==
  ASSUME PipeInv, [Next]_vars
  PROVE  /\ PacketsOnce'
         /\ sent \subseteq sent'
         /\ \A p \in Waiting' \cup Held' : p \in Waiting \cup Held \/ p \notin sent
         /\ job # NoJob => job' = job \/ PacketOf(job) \notin Waiting' \cup Held'
<1> USE DEF PipeInv, PacketsOnce
<1>0. wire \in Seq(Packets) /\ DOMAIN wire = 1 .. Len(wire) /\ Len(wire) \in Nat
  BY DEF TypeOK
<1>1. ASSUME NEW t \in Turns, NEW phase \in Phases, Deliver(t, phase)
      PROVE  /\ PacketsOnce' /\ sent \subseteq sent' /\ job' = job
             /\ \A p \in Waiting' \cup Held' : p \in Waiting \cup Held \/ p \notin sent
  <2> DEFINE packet == [turn |-> t, phase |-> phase]
  <2>1. /\ packet \notin sent /\ sent' = sent \cup {packet}
        /\ wire' = Append(wire, packet) \/ wire' = wire
        /\ UNCHANGED <<jobs, job>>
    BY <1>1 DEF Deliver, daemonVars, queueVars
  <2> HIDE DEF packet
  <2>2. Held' = Held /\ Queued' = Queued
    BY <2>1 DEF Held, Queued
  <2>3. CASE wire' = wire
    BY <2>1, <2>2, <2>3 DEF Waiting
  <2>4. CASE wire' = Append(wire, packet)
    <3>1. /\ DOMAIN wire' = 1 .. Len(wire) + 1
          /\ \A i \in 1 .. Len(wire) : wire'[i] = wire[i]
          /\ wire'[Len(wire) + 1] = packet
      BY <1>0, <2>4
    <3>2. Waiting' = Waiting \cup {packet}
      BY <1>0, <3>1 DEF Waiting
    <3>3. \A i \in 1 .. Len(wire) : wire[i] # packet
      BY <1>0, <2>1 DEF Waiting
    <3>4. \A i, k \in DOMAIN wire' : wire'[i] = wire'[k] => i = k
      BY <1>0, <3>1, <3>3
    <3> QED
      BY <2>1, <2>2, <3>2, <3>4
  <2> QED
    BY <2>1, <2>3, <2>4
<1>2. CASE Drain
  <2>1. /\ wire # << >> /\ wire' = Tail(wire) /\ job = NoJob
        /\ UNCHANGED <<sent, job>>
        /\ Submit(Head(wire).turn, Head(wire).phase)
    BY <1>2 DEF Drain, daemonVars
  <2>2. /\ DOMAIN wire' = 1 .. Len(wire) - 1 /\ Len(wire) >= 1
        /\ \A i \in 1 .. Len(wire) - 1 : wire'[i] = wire[i + 1]
        /\ Head(wire) = wire[1] /\ Head(wire) \in Packets
    BY <1>0, <2>1
  <2>3. \A i \in 1 .. Len(wire) - 1 : i + 1 \in 1 .. Len(wire) /\ i + 1 # 1
    BY <1>0
  <2>4. Waiting' \subseteq Waiting \ {Head(wire)}
    BY <1>0, <2>2, <2>3 DEF Waiting
  <2>5. Head(wire) \in Waiting
    BY <1>0, <2>2 DEF Waiting
  <2>6. Head(wire) = [turn |-> Head(wire).turn, phase |-> Head(wire).phase]
    BY <2>2 DEF Packets
  <2>7. \A j \in jobs' : j \in jobs \/ PacketOf(j) = Head(wire)
    BY <2>1, <2>6, SubmitBrings
  <2>8. Held' \subseteq Held \cup {Head(wire)}
    BY <2>1, <2>7 DEF Held, Queued
  <2>9. \A i, k \in DOMAIN wire' : wire'[i] = wire'[k] => i = k
    BY <1>0, <2>2, <2>3, SMTT(30)
  <2> QED
    BY <2>1, <2>4, <2>5, <2>8, <2>9
<1>3. CASE TakeJob
  <2>1. /\ job = NoJob /\ job' = Oldest(jobs) /\ jobs # {} /\ jobs \in SUBSET Jobs
        /\ jobs' = jobs \ {Oldest(jobs)}
        /\ UNCHANGED <<sent, wire>>
    BY <1>3 DEF TakeJob, Take, QInv, QueueTypeOK
  <2>2. Oldest(jobs) \in jobs
    BY <2>1, OldestIsFirst
  <2>3. Held' \subseteq Held
    BY <2>1, <2>2 DEF Held, Queued
  <2>4. PacketOf(job') \notin Queued'
    BY <2>1, <2>2 DEF QInv, OneJobPerTurn, Queued, PacketOf
  <2>5. Waiting' = Waiting
    BY <2>1 DEF Waiting
  <2> QED
    BY <2>1, <2>3, <2>4, <2>5
<1>4. CASE Reduce
  <2>1. /\ job # NoJob /\ job' = NoJob /\ UNCHANGED <<sent, wire>>
        /\ jobs' \subseteq jobs
    BY <1>4 DEF Reduce, Admit, RejectProvisional, RejectSettled, RejectSettledNotRemoved,
                Fail, SuppressProvisional, queueVars
  <2>2. Held' \subseteq Held \ {PacketOf(job)}
    BY <2>1 DEF Held, Queued
  <2>3. PacketOf(job) \in Held
    BY <2>1 DEF Held
  <2>4. Waiting' = Waiting
    BY <2>1 DEF Waiting
  <2> QED
    BY <2>1, <2>2, <2>3, <2>4
<1>5. CASE Stop
  <2>1. wire' = << >> /\ job' = NoJob /\ jobs' = {} /\ sent' = sent
    BY <1>5 DEF Stop
  <2>2. Waiting' = {} /\ Held' = {} /\ DOMAIN wire' = {}
    BY <2>1 DEF Waiting, Held, Queued
  <2> QED
    BY <2>1, <2>2
<1>6. CASE Start \/ UNCHANGED vars
  BY <1>6 DEF Start, daemonVars, queueVars, vars, Waiting, Held, Queued
<1> QED
  BY <1>1, <1>2, <1>3, <1>4, <1>5, <1>6 DEF Next

(* Only a settled rejection is remembered, and the turn's job with it. *)
LEMMA RejectionsGrow ==
  ASSUME PipeInv, [Next]_vars
  PROVE  \A t \in RejectedTurns' :
            \/ t \in RejectedTurns
            \/ t = job.turn /\ (RejectSettled \/ RejectSettledNotRemoved)
<1> USE DEF PipeInv
<1>1. CASE RejectSettled \/ RejectSettledNotRemoved
  <2>1. /\ job # NoJob /\ job.phase = "settled" /\ job' = NoJob
        /\ rejections' = Remembered(job.turn)
    BY <1>1 DEF RejectSettled, RejectSettledNotRemoved, SuppressProvisional
  <2>2. job.turn \in Turns
    BY <2>1 DEF TypeOK, Jobs
  <2>3. RejectedTurns' \subseteq RejectedTurns \cup {job.turn}
    BY <2>1, <2>2, RememberedIsBounded DEF QInv, Bounded
  <2> QED
    BY <1>1, <2>3
<1>2. CASE Stop
  <2>1. rejections' = << >>
    BY <1>2 DEF Stop
  <2> QED
    BY <2>1 DEF RejectedTurns
<1>3. ASSUME rejections' = rejections
      PROVE  RejectedTurns' = RejectedTurns
  BY <1>3 DEF RejectedTurns
<1>4. CASE Drain
  BY <1>3, <1>4, SubmitBrings DEF Drain
<1>5. ASSUME NEW t \in Turns, NEW phase \in Phases, Deliver(t, phase)
      PROVE  rejections' = rejections
  BY <1>5 DEF Deliver, queueVars
<1>6. CASE TakeJob \/ Admit \/ RejectProvisional \/ Fail \/ Start \/ UNCHANGED vars
  BY <1>3, <1>6 DEF TakeJob, Take, Admit, RejectProvisional, Fail, Start, queueVars, vars
<1> QED
  BY <1>1, <1>2, <1>3, <1>4, <1>5, <1>6 DEF Next, Reduce

(* What a step makes of the window. *)
LEMMA WindowChanges ==
  ASSUME PipeInv, [Next]_vars
  PROVE  \/ Admit /\ job.turn \in Turns
              /\ \E a \in Activities : /\ a.turn = job.turn /\ a.phase = job.phase
                                       /\ window' = Saved(window, a)
         \/ RejectSettled /\ window' = Removed(window, job.turn)
         \/ window' = window /\ ~Admit /\ ~RejectSettled
<1> USE DEF PipeInv
<1>1. CASE Admit
  <2>1. job.turn \in Turns /\ job.phase \in Phases /\ saves \in Nat
    BY <1>1 DEF Admit, TypeOK, Jobs
  <2> DEFINE a == [turn |-> job.turn, phase |-> job.phase, seen |-> saves]
  <2>2. a \in Activities
    BY <2>1, TurnsAssumption DEF Activities, WindowPhases, Phases
  <2>3. window' = Saved(window, a) /\ a.turn = job.turn /\ a.phase = job.phase
    BY <1>1 DEF Admit
  <2> HIDE DEF a
  <2> QED
    BY <1>1, <2>1, <2>2, <2>3
<1>2. CASE RejectSettled
  BY <1>2 DEF RejectSettled
<1>3. CASE ~Admit /\ ~RejectSettled
  <2>1. window' = window
    BY <1>3 DEF Next, Reduce, Deliver, Drain, TakeJob, RejectProvisional,
                RejectSettledNotRemoved, Fail, Stop, Start, daemonVars, vars
  <2> QED
    BY <1>3, <2>1
<1> QED
  BY <1>1, <1>2, <1>3

(* A rejected turn's packets are gone, a completed turn's too. *)
LEMMA PipeDecisions ==
  ASSUME PipeInv, [Next]_vars
  PROVE  DecidedIsPast'
<1> USE DEF PipeInv
<1>1. \A t : Past(t) => Past(t)'
  BY PipePackets, PastStays
(* A settled job that leaves stage one has been decided. *)
<1>2. ASSUME NEW t, t = job.turn, job # NoJob, job.phase = "settled", job' = NoJob
      PROVE  Past(t)'
  <2>1. PacketOf(job) = Settled(t)
    BY <1>2 DEF PacketOf, Settled
  <2>2. PacketOf(job) \in sent
    BY <1>2 DEF PacketsOnce, Held
  <2>3. PacketOf(job) \in sent' /\ PacketOf(job) \notin Waiting' \cup Held'
    BY <1>2, <2>2, PipePackets
  <2> QED
    BY <2>1, <2>3 DEF Past, Settled
<1>3. ASSUME NEW t \in RejectedTurns'
      PROVE  Past(t)'
  <2>1. CASE t \in RejectedTurns
    BY <1>1, <2>1 DEF DecidedIsPast
  <2>2. CASE t = job.turn /\ (RejectSettled \/ RejectSettledNotRemoved)
    BY <1>2, <2>2 DEF RejectSettled, RejectSettledNotRemoved
  <2> QED
    BY <2>1, <2>2, RejectionsGrow
<1>4. ASSUME NEW i \in DOMAIN window', NEW t, window'[i].turn = t,
             window'[i].phase = "settled"
      PROVE  Past(t)'
  <2>1. ASSUME NEW k \in DOMAIN window, window'[i] = window[k]
        PROVE  Past(t)'
    BY <1>1, <1>4, <2>1 DEF DecidedIsPast
  <2>2. ASSUME Admit, NEW a \in Activities, a.turn = job.turn, a.phase = job.phase,
               window' = Saved(window, a)
        PROVE  Past(t)'
    <3>1. job # NoJob /\ job' = NoJob
      BY <2>2 DEF Admit
    <3>2. CASE window'[i] = a
      <4>1. job.phase = "settled" /\ t = job.turn
        BY <1>4, <2>2, <3>2
      <4> QED
        BY <1>2, <3>1, <4>1
    <3> QED
      BY <2>1, <2>2, <3>2, SavedWindow DEF TypeOK
  <2>3. CASE window' = Removed(window, job.turn)
    BY <2>1, <2>3, RemovedWindow DEF TypeOK
  <2>4. CASE window' = window
    BY <2>1, <2>4
  <2> QED
    BY <2>2, <2>3, <2>4, WindowChanges
<1> QED
  BY <1>3, <1>4 DEF DecidedIsPast

(* No step gives a rejected turn activity, or work that could. *)
LEMMA PipeRejections ==
  ASSUME PipeInv, [Next]_vars
  PROVE  RejectedStaysOut'
<1> USE DEF PipeInv
<1>1. ASSUME NEW t \in RejectedTurns', job' # NoJob, job'.turn = t
      PROVE  job'.phase = "settled"
  <2>1. t \in RejectedTurns
    BY <1>1, RejectionsGrow DEF RejectSettled, RejectSettledNotRemoved
  <2>2. CASE job' = job
    BY <1>1, <2>1, <2>2 DEF RejectedStaysOut
  <2>3. CASE job' # job
    <3>1. TakeJob
      BY <1>1, <2>3 DEF Next, Reduce, Deliver, Drain, Admit, RejectProvisional,
              RejectSettled, RejectSettledNotRemoved, Fail, Stop, Start, daemonVars, vars
    <3>2. job' \in jobs
      <4>1. jobs # {} /\ jobs \in SUBSET Jobs /\ job' = Oldest(jobs)
        BY <3>1 DEF TakeJob, Take, QInv, QueueTypeOK
      <4> QED
        BY <4>1, OldestIsFirst
    <3>3. job'.phase # "provisional" /\ job'.phase \in Phases
      BY <1>1, <2>1, <3>2 DEF QInv, QueueTypeOK, Jobs, RejectedNotQueued, ProvisionalIn
    <3> QED
      BY <3>3 DEF Phases
  <2> QED
    BY <2>2, <2>3
<1>2. ASSUME NEW t \in RejectedTurns', InWindow(window', t)
      PROVE  t \in unremoved'
  (* Activity of the turn that was there already has been failed to remove. *)
  <2>1. ASSUME t \in RejectedTurns, InWindow(window, t), ~Admit \/ job.turn # t
        PROVE  t \in unremoved'
    <3>1. t \in unremoved
      BY <2>1 DEF RejectedStaysOut
    <3> QED
      BY <2>1, <3>1 DEF Next, Reduce, Deliver, Drain, TakeJob, Admit, RejectProvisional,
              RejectSettled, RejectSettledNotRemoved, Fail, Stop, Start, daemonVars, vars
  <2>2. ASSUME Admit, NEW a \in Activities, a.turn = job.turn, a.phase = job.phase,
               window' = Saved(window, a)
        PROVE  t \in unremoved'
    <3>1. t \in RejectedTurns /\ job # NoJob
      BY <2>2, RejectionsGrow DEF Admit, RejectSettled, RejectSettledNotRemoved, TypeOK
    <3>2. job.turn # t
      <4>1. SUFFICES ASSUME job.turn = t PROVE FALSE
        OBVIOUS
      <4>2. job.phase = "settled"
        BY <3>1, <4>1 DEF RejectedStaysOut
      <4>3. PacketOf(job) = Settled(t) /\ PacketOf(job) \in Held
        BY <3>1, <4>1, <4>2 DEF PacketOf, Settled, Held
      <4> QED
        BY <3>1, <4>3 DEF DecidedIsPast, Past
    <3>3. InWindow(window, t)
      <4>1. PICK i \in DOMAIN window' : window'[i].turn = t
        BY <1>2 DEF InWindow, PlaceOf
      <4>2. \E k \in DOMAIN window : window'[i] = window[k]
        BY <2>2, <3>2, <4>1, SavedWindow DEF TypeOK
      <4> QED
        BY <4>1, <4>2 DEF InWindow, PlaceOf
    <3> QED
      BY <2>1, <3>1, <3>2, <3>3
  <2>3. CASE RejectSettled /\ window' = Removed(window, job.turn)
    <3>1. PICK i \in DOMAIN window' : window'[i].turn = t
      BY <1>2 DEF InWindow, PlaceOf
    <3>2. PICK k \in DOMAIN window : window'[i] = window[k] /\ window[k].turn # job.turn
      BY <2>3, <3>1, RemovedWindow DEF TypeOK
    <3>3. t # job.turn /\ InWindow(window, t)
      BY <3>1, <3>2 DEF InWindow, PlaceOf
    <3> QED
      <4>1. ~Admit
        BY <2>3 DEF Admit, RejectSettled, TypeOK
      <4> QED
        BY <2>1, <3>3, RejectionsGrow
  <2>4. CASE window' = window /\ ~Admit /\ ~RejectSettled
    <3>1. CASE t \in RejectedTurns
      <4>1. InWindow(window, t)
        BY <1>2, <2>4
      <4> QED
        BY <2>1, <2>4, <3>1, <4>1
    <3>2. CASE t = job.turn /\ RejectSettledNotRemoved
      BY <3>2 DEF RejectSettledNotRemoved
    <3> QED
      BY <2>4, <3>1, <3>2, RejectionsGrow
  <2> QED
    BY <2>2, <2>3, <2>4, WindowChanges
<1> QED
  BY <1>1, <1>2 DEF RejectedStaysOut

-----------------------------------------------------------------------------
LEMMA PipeInitEstablishes == Init => PipeInv
<1> SUFFICES ASSUME Init PROVE PipeInv
  OBVIOUS
<1>1. /\ QInv /\ QueueTypeOK /\ jobs = {} /\ rejections = << >> /\ wire = << >>
      /\ window = << >> /\ job = NoJob /\ sent = {} /\ unremoved = {}
      /\ saves = 0 /\ restarts = 0 /\ up = TRUE
  BY QInitEstablishes DEF Init, QueueInit, QInv
<1>2. IsWindow(window)
  BY <1>1, WindowLimitAssumption DEF IsWindow
<1>3. wire \in Seq(Packets) /\ Len(wire) <= WireLimit
  BY <1>1, WireAssumption
<1>4. TypeOK
  BY <1>1, <1>2, <1>3, WireAssumption DEF TypeOK
<1>5. RejectedTurns = {} /\ Waiting = {} /\ Held = {} /\ DOMAIN wire = {} /\ DOMAIN window = {}
  BY <1>1 DEF RejectedTurns, Waiting, Held, Queued
<1>6. PacketsOnce /\ DecidedIsPast /\ RejectedStaysOut
  BY <1>1, <1>5 DEF PacketsOnce, DecidedIsPast, RejectedStaysOut
<1> QED
  BY <1>1, <1>4, <1>6 DEF PipeInv

LEMMA PipeNextPreserves == PipeInv /\ [Next]_vars => PipeInv'
<1> SUFFICES ASSUME PipeInv, [Next]_vars PROVE PipeInv'
  OBVIOUS
<1>1. QInv'
  BY QueueInPipeline DEF PipeInv, TypeOK, TypeOfJob
<1>2. TypeOK' /\ (~up' => restarts' < MaxRestarts)
  BY <1>1, PipeTypes
<1>3. PacketsOnce' /\ DecidedIsPast' /\ RejectedStaysOut'
  BY PipePackets, PipeDecisions, PipeRejections
<1> QED
  BY <1>1, <1>2, <1>3 DEF PipeInv

LEMMA PipeInductive == Spec => []PipeInv
  BY PipeInitEstablishes, PipeNextPreserves, PTL DEF Spec

(* The pipeline's variables keep their types; the window keeps its limit   *)
(* and one entry a turn, and a daemon that is down holds nothing.          *)
THEOREM PipelineTypeCorrect == Spec => []TypeOK
<1>1. PipeInv => TypeOK
  BY DEF PipeInv
<1> QED
  BY <1>1, PipeInductive, PTL

(* Hooks, the socket, stage one and restarts do not take its promises from *)
(* the queue: in the pipeline, too, it is bounded and in order.            *)
THEOREM PipelineQueueIsSound == Spec => []QueueSound
<1>1. PipeInv => QueueSound
  BY DEF PipeInv, QInv, QueueSound
<1> QED
  BY <1>1, PipeInductive, PTL

(* In the pipeline a queue that is not discarded with its daemon loses no  *)
(* settled work and nothing by a refusal.                                  *)
THEOREM PipelineQueueLosesNothing == Spec => QueueKeepsItsWork
<1>1. ASSUME PipeInv, [Next]_vars
      PROVE  [~Discarded' => SettledStays /\ RefusalLosesNothing]_queueVars
  BY <1>1, StepOfTheQueue, StepKeepsItsWork DEF PipeInv, TypeOK, TypeOfJob
<1> QED
  BY <1>1, PipeInductive, PTL DEF Spec, QueueKeepsItsWork

(* While the rejection of a turn is remembered, no order of packets, jobs, *)
(* failures and restarts gives the turn public activity (cli.py:249-259).  *)
THEOREM PipelineRejectedStaysOut == Spec => []RejectedStaysOut
<1>1. PipeInv => RejectedStaysOut
  BY DEF PipeInv
<1> QED
  BY <1>1, PipeInductive, PTL

(* An admitted completion leaves the window only by the limit, for any     *)
(* limits and any number of turns (generation.py:513-516).                 *)
THEOREM PipelineCompletionStays == Spec => CompletionStays
<1>1. ASSUME PipeInv, [Next]_vars, NEW i \in DOMAIN window, window[i].phase = "settled"
      PROVE  \/ IsSettledIn(window', window[i].turn)
             \/ i = 1 /\ Len(window) = WindowLimit /\ saves' # saves
  <2>1. IsWindow(window) /\ saves \in Nat
    BY <1>1 DEF PipeInv, TypeOK
  <2>2. CASE Admit /\ \E a \in Activities : window' = Saved(window, a)
    <3>1. saves' # saves
      BY <2>1, <2>2 DEF Admit
    <3> QED
      BY <1>1, <2>1, <2>2, <3>1, SavedWindow
  (* The job that was rejected cannot be of a turn that is completed. *)
  <2>3. CASE RejectSettled /\ window' = Removed(window, job.turn)
    <3>1. job # NoJob /\ job.phase = "settled"
      BY <2>3 DEF RejectSettled
    <3>2. window[i].turn # job.turn
      <4>1. SUFFICES ASSUME window[i].turn = job.turn PROVE FALSE
        OBVIOUS
      <4>2. Past(job.turn)
        BY <1>1, <4>1 DEF PipeInv, DecidedIsPast
      <4>3. PacketOf(job) = Settled(job.turn) /\ PacketOf(job) \in Held
        BY <3>1 DEF PacketOf, Settled, Held
      <4> QED
        BY <4>2, <4>3 DEF Past
    <3>3. PICK k \in DOMAIN window' : window'[k] = window[i]
      BY <1>1, <2>1, <2>3, <3>2, RemovedWindow
    <3> QED
      BY <1>1, <3>3 DEF IsSettledIn, PlaceOf
  <2>4. CASE window' = window
    BY <1>1, <2>4 DEF IsSettledIn, PlaceOf
  <2> QED
    BY <1>1, <2>2, <2>3, <2>4, WindowChanges
<1>2. ASSUME PipeInv, [Next]_vars
      PROVE  [\A i \in DOMAIN window :
                window[i].phase = "settled" =>
                   \/ IsSettledIn(window', window[i].turn)
                   \/ i = 1 /\ Len(window) = WindowLimit /\ saves' # saves]_vars
  BY <1>1, <1>2
<1> QED
  BY <1>2, PipeInductive, PTL DEF Spec, CompletionStays


-----------------------------------------------------------------------------
(* The socket that competing daemons share. *)

Holding == Opening \cup Closing \cup {"serving"}

SocketInv == SocketTypeOK /\ HolderActs /\ ServerIsReachable

-----------------------------------------------------------------------------
LEMMA SocketInitEstablishes == SocketInit => SocketInv
  BY PartiesAssumption
  DEF SocketInit, SocketInv, SocketTypeOK, HolderActs, ServerIsReachable,
      Steps, Opening, Closing

(* Only the holder of the lock can have an open socket of its own. *)
LEMMA HolderIsAlone ==
  ASSUME SocketInv, NEW d \in Daemons, step[d] \in Holding
  PROVE  /\ lock = d
         /\ \A e \in Daemons \ {d} : step[e] \notin Holding /\ e \notin open
<1>1. lock = d /\ \A e \in Daemons \ {d} : step[e] \notin Holding
  BY DEF SocketInv, HolderActs, Holding
<1> QED
  BY <1>1 DEF SocketInv, SocketTypeOK, Holding, Opening

(* What a step of a daemon has to show for the invariant. *)
LEMMA StepPreserves ==
  ASSUME SocketInv, NEW d \in Daemons, NEW s \in Steps, Goto(d, s), full' = full,
         \/ s \in Holding /\ lock' = d /\ (step[d] \in Holding \/ lock = Nobody)
         \/ s \notin Holding /\ step[d] \in Holding /\ lock' = Nobody
         \/ s \notin Holding /\ step[d] \notin Holding /\ lock' = lock,
         path' = path \/ (step[d] \in Holding /\ path' \in {d, Nobody}),
         open' \in {open, open \ {d}, open \cup {d}},
         d \in open' <=> s \in {"bound", "serving"},
         d \in open' => path' = d
  PROVE  SocketInv'
<1> USE PartiesAssumption DEF SocketInv, Goto
<1>1. /\ step' \in [Daemons -> Steps] /\ step'[d] = s
      /\ \A e \in Daemons \ {d} : step'[e] = step[e]
  BY DEF SocketTypeOK
<1>2. \A e \in Daemons \ {d} : e \in open' <=> e \in open
  OBVIOUS
<1>3. SocketTypeOK'
  <2>1. /\ lock \in Daemons \cup {Nobody} /\ path \in Daemons \cup {Foreign, Nobody}
        /\ open \subseteq Daemons \cup {Foreign} /\ full \in BOOLEAN
        /\ full => Foreign \in open
    BY DEF SocketTypeOK
  <2>2. Foreign # d
    OBVIOUS
  <2>3. /\ lock' \in Daemons \cup {Nobody} /\ path' \in Daemons \cup {Foreign, Nobody}
    BY <2>1
  <2>4. open' \subseteq Daemons \cup {Foreign} /\ (Foreign \in open' <=> Foreign \in open)
    BY <2>1, <2>2
  <2>5. full' \in BOOLEAN /\ (full' => Foreign \in open')
    BY <2>1, <2>4
  <2>6. \A e \in Daemons : e \in open' <=> step'[e] \in {"bound", "serving"}
    BY <1>1, <1>2 DEF SocketTypeOK
  <2> QED
    BY <1>1, <2>3, <2>4, <2>5, <2>6 DEF SocketTypeOK
<1>4. HolderActs'
  BY <1>1 DEF HolderActs, Holding, SocketTypeOK
(* A step that moves the path is the holder's, and nobody else is open. *)
<1>5. ServerIsReachable'
  <2>1. CASE path' = path
    BY <1>2, <2>1 DEF ServerIsReachable
  <2>2. CASE step[d] \in Holding
    BY <1>2, <2>2, HolderIsAlone DEF ServerIsReachable
  <2> QED
    BY <2>1, <2>2
<1> QED
  BY <1>3, <1>4, <1>5

LEMMA SocketNextPreserves == SocketInv /\ [SocketNext]_socketVars => SocketInv'
<1> SUFFICES ASSUME SocketInv, [SocketNext]_socketVars
             PROVE  SocketInv'
  OBVIOUS
<1> USE PartiesAssumption DEF Steps, Opening, Closing, Holding
<1>0. \A d \in Daemons : /\ d \in open <=> step[d] \in {"bound", "serving"}
                         /\ d \in open => path = d
  BY DEF SocketInv, SocketTypeOK, ServerIsReachable
<1>1. ASSUME NEW d \in Daemons, Lock(d) \/ LockRefused(d) \/ Restart(d)
      PROVE  SocketInv'
  <2>1. step[d] \in {"idle", "refused"} /\ UNCHANGED <<path, open, full>>
    BY <1>1 DEF Lock, LockRefused, Restart
  <2>2. d \notin open
    BY <1>0, <2>1
  <2>3. CASE lock = Nobody /\ lock' = d /\ Goto(d, "locked")
    BY <2>1, <2>2, <2>3, StepPreserves
  <2>4. CASE lock' = lock /\ Goto(d, "refused")
    BY <2>1, <2>2, <2>4, StepPreserves
  <2>5. CASE lock' = lock /\ Goto(d, "idle")
    BY <2>1, <2>2, <2>5, StepPreserves
  <2> QED
    BY <1>1, <2>3, <2>4, <2>5 DEF Lock, LockRefused, Restart
<1>2. ASSUME NEW d \in Daemons, Inspect(d) \/ ProbeAnswered(d) \/ ProbeUnanswered(d)
      PROVE  SocketInv'
  <2>1. step[d] \in {"locked", "probing"} /\ UNCHANGED <<open, full>>
    BY <1>2 DEF Inspect, ProbeAnswered, ProbeUnanswered
  <2>2. lock = d /\ d \notin open
    <3>1. step[d] \in Holding /\ step[d] \notin {"bound", "serving"}
      BY <2>1
    <3> QED
      BY <1>0, <3>1, HolderIsAlone
  <2>3. CASE Inspect(d)
    <3>1. PICK s \in {"binding", "probing"} : Goto(d, s)
      BY <2>3 DEF Inspect
    <3>2. UNCHANGED <<lock, path>>
      BY <2>3 DEF Inspect
    <3> QED
      BY <2>1, <2>2, <3>1, <3>2, StepPreserves
  <2>4. CASE ProbeAnswered(d)
    <3>1. Goto(d, "refused") /\ lock' = Nobody /\ path' = path
      BY <2>4 DEF ProbeAnswered
    <3> QED
      BY <2>1, <2>2, <3>1, StepPreserves
  <2>5. CASE ProbeUnanswered(d)
    <3>1. Goto(d, "binding") /\ lock' = lock /\ path' = Nobody
      BY <2>5 DEF ProbeUnanswered
    <3> QED
      BY <2>1, <2>2, <3>1, StepPreserves
  <2> QED
    BY <1>2, <2>3, <2>4, <2>5
<1>3. ASSUME NEW d \in Daemons, Bind(d) \/ Serve(d)
      PROVE  SocketInv'
  <2>1. step[d] \in {"binding", "bound"} /\ lock' = lock /\ full' = full
    BY <1>3 DEF Bind, Serve
  <2>2. lock = d
    BY <2>1, HolderIsAlone
  <2>3. CASE Bind(d)
    <3>1. Goto(d, "bound") /\ path' = d /\ open' = open \cup {d}
      BY <2>3 DEF Bind
    <3> QED
      BY <2>1, <2>2, <3>1, StepPreserves
  <2>4. CASE Serve(d)
    <3>1. Goto(d, "serving") /\ path' = path /\ open' = open /\ step[d] = "bound"
      BY <2>4 DEF Serve
    <3>2. d \in open /\ path = d
      BY <1>0, <3>1
    <3> QED
      BY <2>1, <2>2, <3>1, <3>2, StepPreserves
  <2> QED
    BY <1>3, <2>3, <2>4
<1>4. ASSUME NEW d \in Daemons, OpeningFails(d) \/ Die(d)
      PROVE  SocketInv'
  <2>1. /\ step[d] \in Holding /\ lock' = Nobody /\ open' = open \ {d}
        /\ Goto(d, "idle") /\ UNCHANGED <<path, full>>
    BY <1>4 DEF OpeningFails, Die
  <2> QED
    BY <2>1, StepPreserves
<1>5. ASSUME NEW d \in Daemons, Close(d)
      PROVE  SocketInv'
  <2>1. step[d] \in {"serving", "closing", "unlinked"} /\ full' = full
    BY <1>5 DEF Close, CloseServer, Unlink, UnlinkFails, Release
  <2>2. lock = d
    BY <2>1, HolderIsAlone
  <2>3. CASE CloseServer(d)
    <3>1. /\ Goto(d, "closing") /\ open' = open \ {d} /\ UNCHANGED <<lock, path>>
      BY <2>3 DEF CloseServer
    <3> QED
      BY <2>1, <2>2, <3>1, StepPreserves
  <2>4. CASE Unlink(d) \/ UnlinkFails(d) \/ Release(d)
    <3>1. step[d] \in {"closing", "unlinked"} /\ open' = open
      BY <2>4 DEF Unlink, UnlinkFails, Release
    <3>2. d \notin open
      BY <1>0, <3>1
    <3>3. CASE Goto(d, "unlinked") /\ lock' = lock /\ path' \in {path, Nobody}
      BY <2>1, <2>2, <3>1, <3>2, <3>3, StepPreserves
    <3>4. CASE Goto(d, "idle") /\ lock' = Nobody /\ path' = path
      BY <2>1, <2>2, <3>1, <3>2, <3>4, StepPreserves
    <3> QED
      BY <2>4, <3>3, <3>4 DEF Unlink, UnlinkFails, Release
  <2> QED
    BY <1>5, <2>3, <2>4 DEF Close
(* The foreign process can bind a free path only, which no daemon needs. *)
<1>6. CASE ForeignBinds \/ ForeignQueue \/ ForeignEnds
  <2>1. UNCHANGED <<lock, step>> /\ \A d \in Daemons : d \in open' <=> d \in open
    <3>1. Foreign \notin Daemons
      OBVIOUS
    <3> QED
      BY <1>6, <3>1 DEF ForeignBinds, ForeignQueue, ForeignEnds
  <2>2. SocketTypeOK'
    <3>1. /\ path' \in Daemons \cup {Foreign, Nobody} /\ open' \subseteq Daemons \cup {Foreign}
          /\ full' \in BOOLEAN /\ (full' => Foreign \in open')
      BY <1>6 DEF ForeignBinds, ForeignQueue, ForeignEnds, SocketInv, SocketTypeOK
    <3> QED
      BY <2>1, <3>1 DEF SocketInv, SocketTypeOK
  <2>3. ServerIsReachable'
    <3>1. CASE ForeignBinds
      <4>1. \A d \in Daemons : d \notin open
        BY <1>0, <3>1 DEF ForeignBinds
      <4> QED
        BY <2>1, <4>1 DEF ServerIsReachable
    <3>2. CASE path' = path
      BY <1>0, <2>1, <3>2 DEF ServerIsReachable
    <3> QED
      BY <1>6, <3>1, <3>2 DEF ForeignQueue, ForeignEnds
  <2> QED
    BY <2>1, <2>2, <2>3 DEF SocketInv, HolderActs
<1>7. CASE UNCHANGED socketVars
  BY <1>7 DEF socketVars, SocketInv, SocketTypeOK, HolderActs, ServerIsReachable
<1> QED
  BY <1>1, <1>2, <1>3, <1>4, <1>5, <1>6, <1>7 DEF SocketNext, Open

LEMMA SocketInductive == SocketSpec => []SocketInv
  BY SocketInitEstablishes, SocketNextPreserves, PTL DEF SocketSpec

-----------------------------------------------------------------------------
(* The lock, the path and the daemons' steps keep their types, and a       *)
(* daemon's socket is open just while it is bound (cli.py:98-121).         *)
THEOREM SocketTypeCorrect == SocketSpec => []SocketTypeOK
<1>1. SocketInv => SocketTypeOK
  BY DEF SocketInv
<1> QED
  BY <1>1, SocketInductive, PTL

(* The path is inspected, bound and torn down under the lock               *)
(* (cli.py:110-121, 608-640).                                              *)
THEOREM SocketHolderActs == SocketSpec => []HolderActs
<1>1. SocketInv => HolderActs
  BY DEF SocketInv
<1> QED
  BY <1>1, SocketInductive, PTL

(* A daemon that is bound is reached at the path, for every number of      *)
(* daemons that start, stop and die in any order, whatever their probes    *)
(* meet and whatever process without the lock binds the path in between    *)
(* (cli.py:98-121, 603-640).                                               *)
THEOREM SocketServerIsReachable == SocketSpec => []ServerIsReachable
<1>1. SocketInv => ServerIsReachable
  BY DEF SocketInv
<1> QED
  BY <1>1, SocketInductive, PTL

=============================================================================
