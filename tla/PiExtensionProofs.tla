-------------------------- MODULE PiExtensionProofs --------------------------
(***************************************************************************)
(* What Pi's extension promises, for any timeouts of which the drain's is  *)
(* the longer, and for any number of sessions and of events.               *)
(***************************************************************************)
EXTENDS PiExtension, SequenceTheorems, WellFoundedInduction, TLAPS

-----------------------------------------------------------------------------
(* The inductive invariant *)

(* The items of the chain whose turn has not come, and those still to be   *)
(* done with.                                                              *)
ItemsOf(q) == {q[i] : i \in DOMAIN q}
Waiting == ItemsOf(queue)
Pending == Waiting \cup ({chain} \ {None})

Newest(item) == item.event = "agent_end" /\ item.gen = latestAgentEndGeneration
IsShutdown(item) == item.event = "session_shutdown"

(* The shutdown handler of session s has run its hook. *)
Ended(s) == s < session \/ (s = session /\ handler \in {"stopping", "idle"})

Sorted(q) == \A i, j \in DOMAIN q : i < j => q[i].no < q[j].no

(* Numbers: every item was made before emits, in a session that has begun. *)
Numbered ==
    /\ handler # "idle" \/ emits > 0 => session > 0
    /\ handler \in {"open", "draining"} => emits + 1 <= MaxEmits + session
    /\ emits <= MaxEmits + session
    /\ latestAgentEndGeneration <= emits
    /\ \A item \in Pending \cup {c.item : c \in children} :
          /\ item.no <= emits /\ item.session <= session
          /\ item.gen <= latestAgentEndGeneration
    /\ \A s \in 1 .. MaxSessions :
          completion[s] <= emits /\ (s > session => completion[s] = 0)

(* The chain in the order of the numbers; its items are no shutdowns. *)
ChainOrder ==
    /\ Sorted(queue)
    /\ chain # None => \A w \in Waiting : chain.no < w.no
    /\ \A w \in Pending : ~IsShutdown(w)
    /\ \A c \in children, w \in Waiting : ~IsShutdown(c.item) => c.item.no < w.no
    /\ \A v, w \in Pending : Newest(v) /\ Newest(w) => v = w

(* The awaited hook is there and unsettled, the other hooks of the chain   *)
(* have been killed, and so has the awaited one when it is not active.     *)
Awaited ==
    /\ chain # None => \E c \in children : c.item = chain
    /\ \A c \in children :
          /\ c.item = chain => ~c.settled
          /\ c.item # chain /\ ~IsShutdown(c.item) => c.settled /\ c.killed
          /\ c.item = chain /\ active # chain => c.killed

(* After the drain nothing of the chain runs any more. *)
Stopped ==
    /\ handler # "open" /\ session > 0 => closing
    /\ handler \in {"stopping", "idle"} =>
          /\ \A c \in children : c.item = chain => c.killed
          /\ \A w \in Waiting : ~Newest(w)

(* While the chain drains the awaited hook times out before the drain does. *)
Draining ==
    handler = "draining" =>
        \A c \in children : c.item = chain =>
            /\ ~Newest(chain) => c.left + ShutdownDrain <= HookTimeout + drainLeft
            /\ \/ session \in spoiled
               \/ c.killed /\ drainLeft = ShutdownDrain
               \/ Newest(chain) /\ c.left + ShutdownDrain <= HookTimeout + drainLeft

(* The time the shutdown handler has taken, and may still take. *)
Clock ==
    /\ handler \in {"idle", "open"} => spent = 0
    /\ handler = "draining" => spent + drainLeft = ShutdownDrain
    /\ handler = "stopping" => spent <= ShutdownDrain + HookTimeout
    /\ \A c \in children : IsShutdown(c.item) /\ ~c.settled =>
          /\ handler = "stopping"
          /\ spent + c.left <= ShutdownDrain + HookTimeout
          /\ drainLeft + HookTimeout = ShutdownDrain + c.left

(* Shutdown hooks: one for each session that has ended. *)
Shutdowns ==
    /\ \A c \in children : IsShutdown(c.item) => Ended(c.item.session)
    /\ \A c, d \in children :
          /\ IsShutdown(c.item) /\ IsShutdown(d.item)
          /\ c.item.session = d.item.session
          => c = d
    /\ \A i \in DOMAIN records : IsShutdown(records[i]) =>
          /\ Ended(records[i].session)
          /\ \A c \in children :
                IsShutdown(c.item) /\ c.item.session = records[i].session => c.recorded

(* Nothing of an earlier session runs any more, unless it is spoiled. *)
Past ==
    \A s \in 1 .. MaxSessions : s < session /\ s \notin spoiled =>
        /\ \A w \in Waiting : w.session # s
        /\ \A c \in children : c.item.session = s /\ ~IsShutdown(c.item) => c.killed

RecordedNo(no) == \E i \in DOMAIN records : records[i].no = no

(* What is recorded comes before what may still be. *)
RecordsBehind ==
    /\ \A c \in children : c.recorded => RecordedNo(c.item.no)
    /\ \A i \in DOMAIN records : ~IsShutdown(records[i]) =>
          /\ records[i].no <= emits
          /\ \A w \in Waiting : records[i].no < w.no
          /\ \A c \in children :
                c.item = chain /\ ~c.recorded => records[i].no < chain.no

(* The newest completion of the session is recorded or still to come, and  *)
(* nobody has killed it; that of an ended session is recorded.             *)
Completions ==
    /\ session > 0 =>
          \/ completion[session] = 0 \/ session \in spoiled
          \/ RecordedNo(completion[session])
          \/ \E w \in Pending : /\ Newest(w) /\ w.session = session
                                /\ w.no = completion[session]
    /\ \A c \in children :
          /\ c.item = chain /\ Newest(chain) /\ chain.session = session
          /\ c.killed /\ ~c.recorded
          => session \in spoiled
    /\ \A s \in 1 .. MaxSessions : Ended(s) /\ s \notin spoiled =>
          completion[s] = 0 \/ RecordedNo(completion[s])

PiInv ==
    /\ TypeOK /\ Numbered /\ ChainOrder /\ Awaited /\ Stopped /\ Draining /\ Clock
    /\ Shutdowns /\ Past /\ RecordsBehind /\ Completions
    /\ RecordsInOrder /\ CompletionSurvivesShutdown
-----------------------------------------------------------------------------
(* Items and hook processes *)

LEMMA ItemFields ==
  ASSUME NEW item \in Items
  PROVE  /\ item.no \in Nat /\ item.no >= 1 /\ item.no <= MaxEmits + MaxSessions
         /\ item.session \in 1 .. MaxSessions
         /\ item.event \in EventNames
         /\ item.gen \in Nat
         /\ item # None
<1> QED
  BY PiAssumption, NoneAssumption DEF Items, Numbers

LEMMA ChildFields ==
  ASSUME NEW c \in Children
  PROVE  /\ c.item \in Items /\ c.left \in Nat /\ c.left <= HookTimeout
         /\ c.recorded \in BOOLEAN /\ c.killed \in BOOLEAN /\ c.settled \in BOOLEAN
<1> QED
  BY PiAssumption DEF Children

(* A process that the timer has given up. *)
Abandoned(c) == [Killed(c) EXCEPT !.settled = TRUE]

Recording(c) == [c EXCEPT !.recorded = TRUE]
Later(c) == [c EXCEPT !.left = @ - 1]

LEMMA SpawnedFields ==
  ASSUME NEW item \in Items
  PROVE  /\ Spawned(item) \in Children /\ Spawned(item).item = item
         /\ Spawned(item).left = HookTimeout /\ ~Spawned(item).recorded
         /\ ~Spawned(item).killed /\ ~Spawned(item).settled
<1> QED
  BY PiAssumption DEF Spawned, Children

LEMMA KilledFields ==
  ASSUME NEW c \in Children
  PROVE  /\ Killed(c) \in Children /\ Killed(c).item = c.item
         /\ Killed(c).left = c.left /\ Killed(c).recorded = c.recorded
         /\ Killed(c).killed /\ Killed(c).settled = c.settled
<1> QED
  BY DEF Killed, Children

LEMMA AbandonedFields ==
  ASSUME NEW c \in Children
  PROVE  /\ Abandoned(c) \in Children /\ Abandoned(c).item = c.item
         /\ Abandoned(c).left = c.left /\ Abandoned(c).recorded = c.recorded
         /\ Abandoned(c).killed /\ Abandoned(c).settled
<1> QED
  BY DEF Abandoned, Killed, Children

LEMMA RecordingFields ==
  ASSUME NEW c \in Children
  PROVE  /\ Recording(c) \in Children /\ Recording(c).item = c.item
         /\ Recording(c).left = c.left /\ Recording(c).recorded
         /\ Recording(c).killed = c.killed /\ Recording(c).settled = c.settled
<1> QED
  BY DEF Recording, Children

LEMMA LaterFields ==
  ASSUME NEW c \in Children, c.left > 0
  PROVE  /\ Later(c) \in Children /\ Later(c).item = c.item
         /\ Later(c).left = c.left - 1 /\ Later(c).recorded = c.recorded
         /\ Later(c).killed = c.killed /\ Later(c).settled = c.settled
<1> QED
  BY PiAssumption DEF Later, Children

-----------------------------------------------------------------------------
(* The chain *)

LEMMA NatSetHasMinimum ==
  ASSUME NEW T \in SUBSET Nat, T # {}
  PROVE  \E m \in T : \A n \in T : m <= n
<1>1. PICK x \in T : \A y \in T : ~ (<<y, x>> \in OpToRel(<, Nat))
  BY WFMin, NatLessThanWellFounded
<1>2. \A y \in T : <<y, x>> \in Nat \X Nat
  OBVIOUS
<1>3. \A y \in T : ~ (y < x)
  BY <1>1, <1>2 DEF OpToRel
<1> QED
  BY <1>3

(* What follows a place of a sorted queue is what comes after its item. *)
LEMMA RestOfQueue ==
  ASSUME NEW q \in Seq(Items), Sorted(q), NEW n \in DOMAIN q,
         NEW r, r = SubSeq(q, n + 1, Len(q))
  PROVE  /\ r \in Seq(Items) /\ Sorted(r)
         /\ ItemsOf(r) = {w \in ItemsOf(q) : q[n].no < w.no}
<1> DEFINE m == Len(q)
<1>1. m \in Nat /\ DOMAIN q = 1 .. m /\ n \in 1 .. m
  BY LenProperties
<1> HIDE DEF m
<1>2. /\ r \in Seq(Items) /\ Len(r) = m - n
      /\ \A i \in 1 .. m - n : r[i] = q[n + i]
  <2>1. r = SubSeq(q, n + 1, m)
    BY DEF m
  <2>2. CASE n = m
    <3>1. r = << >>
      BY <1>1, <2>1, <2>2, SubSeqProperties
    <3> QED
      BY <1>1, <2>2, <3>1
  <2>3. CASE n < m
    <3>1. n + 1 \in 1 .. m + 1 /\ m \in n .. m /\ m \in (n + 1) - 1 .. m
      BY <1>1, <2>3
    <3>2. r \in Seq(Items) /\ Len(r) = m - (n + 1) + 1
          /\ \A i \in 1 .. m - (n + 1) + 1 : r[i] = q[(n + 1) + i - 1]
      BY <1>1, <2>1, <2>3, <3>1, SubSeqProperties DEF m
    <3>3. m - (n + 1) + 1 = m - n /\ \A i \in 1 .. m - n : (n + 1) + i - 1 = n + i
      BY <1>1
    <3> QED
      BY <3>2, <3>3
  <2> QED
    BY <1>1, <2>2, <2>3
<1>3. DOMAIN r = 1 .. m - n
  BY <1>2, LenProperties
<1>4. \A i \in 1 .. m : q[i] \in Items /\ q[i].no \in Nat
  BY <1>1, ItemFields
<1>5. ASSUME NEW i \in 1 .. m, NEW k \in 1 .. m
      PROVE  i < k <=> q[i].no < q[k].no
  <2>1. i < k => q[i].no < q[k].no
    BY <1>1 DEF Sorted
  <2>2. k < i => q[k].no < q[i].no
    BY <1>1 DEF Sorted
  <2>3. i < k \/ i = k \/ k < i
    BY <1>1
  <2>4. q[i].no \in Nat /\ q[k].no \in Nat
    BY <1>4
  <2> QED
    BY <2>1, <2>2, <2>3, <2>4, <1>1
<1>6. Sorted(r)
  <2> SUFFICES ASSUME NEW i \in 1 .. m - n, NEW k \in 1 .. m - n, i < k
               PROVE  r[i].no < r[k].no
    BY <1>3 DEF Sorted
  <2>1. PICK a \in 1 .. m, b \in 1 .. m : a = n + i /\ b = n + k /\ a < b
    BY <1>1
  <2>2. r[i] = q[a] /\ r[k] = q[b]
    BY <1>2, <2>1
  <2> QED
    BY <1>5, <2>1, <2>2, ZenonT(30)
<1>7. ASSUME NEW i \in 1 .. m - n
      PROVE  r[i] \in {w \in {q[k] : k \in 1 .. m} : q[n].no < w.no}
  <2>1. n + i \in 1 .. m /\ n < n + i
    BY <1>1
  <2> QED
    BY <1>1, <1>2, <1>5, <2>1
<1>8. ASSUME NEW k \in 1 .. m, q[n].no < q[k].no
      PROVE  q[k] \in {r[i] : i \in 1 .. m - n}
  <2>1. k - n \in 1 .. m - n /\ n + (k - n) = k
    BY <1>1, <1>5, <1>8
  <2> QED
    BY <1>2, <2>1
<1> QED
  <2>1. ItemsOf(r) = {r[i] : i \in 1 .. m - n} /\ ItemsOf(q) = {q[i] : i \in 1 .. m}
    BY <1>1, <1>3 DEF ItemsOf
  <2> QED
    BY <1>2, <1>6, <1>7, <1>8, <2>1, ZenonT(30)

(* The chain goes on with the first of the items that run, or is empty. *)
LEMMA ChainMoves ==
  ASSUME queue \in Seq(Items), Sorted(queue), NEW left, ChainAdvances(left)
  PROVE  \/ /\ queue' = << >> /\ chain' = None /\ active' = None /\ children' = left
            /\ \A w \in Waiting : ~Runs(w)
         \/ \E next \in Waiting :
               /\ Runs(next) /\ next \in Items
               /\ chain' = next /\ active' = next
               /\ children' = left \cup {Spawned(next)}
               /\ queue' \in Seq(Items) /\ Sorted(queue')
               /\ Waiting' = {w \in Waiting : next.no < w.no}
               /\ \A w \in Waiting : Runs(w) => w = next \/ next.no < w.no
<1> DEFINE runnable == {i \in DOMAIN queue : Runs(queue[i])}
<1>1. CASE runnable = {}
  BY <1>1 DEF ChainAdvances, Waiting, ItemsOf
<1>2. CASE runnable # {}
  <2>1. DOMAIN queue = 1 .. Len(queue) /\ Len(queue) \in Nat
    BY LenProperties
  <2>2. runnable \in SUBSET Nat
    BY <2>1
  <2>3. PICK m \in runnable : \A n \in runnable : m <= n
    BY <1>2, <2>2, NatSetHasMinimum
  <2>4. Min(runnable) \in runnable /\ \A n \in runnable : Min(runnable) <= n
    BY <2>3 DEF Min
  <2> DEFINE n == Min(runnable)
  <2>5. /\ queue' = SubSeq(queue, n + 1, Len(queue))
        /\ chain' = queue[n] /\ active' = queue[n]
        /\ children' = left \cup {Spawned(queue[n])}
    BY <1>2 DEF ChainAdvances
  <2> HIDE DEF n
  <2>6. /\ n \in DOMAIN queue /\ Runs(queue[n])
        /\ \A i \in DOMAIN queue : Runs(queue[i]) => n <= i
    BY <2>4 DEF n
  <2>7. /\ queue' \in Seq(Items) /\ Sorted(queue')
        /\ ItemsOf(queue') = {w \in Waiting : queue[n].no < w.no}
    <3>1. ASSUME NEW r, r = SubSeq(queue, n + 1, Len(queue))
          PROVE  /\ r \in Seq(Items) /\ Sorted(r)
                 /\ ItemsOf(r) = {w \in Waiting : queue[n].no < w.no}
      BY <2>6, <3>1, RestOfQueue DEF Waiting
    <3> QED
      BY <2>5, <3>1
  <2>8. Waiting' = {w \in Waiting : queue[n].no < w.no}
    BY <2>7 DEF Waiting
  <2>9. ASSUME NEW w \in Waiting, Runs(w)
        PROVE  w = queue[n] \/ queue[n].no < w.no
    <3>1. PICK i \in DOMAIN queue : w = queue[i]
      BY DEF Waiting, ItemsOf
    <3>2. n <= i /\ n \in Nat /\ i \in Nat
      BY <2>1, <2>6, <2>9, <3>1
    <3>3. n = i \/ n < i
      BY <3>2
    <3> QED
      BY <2>6, <3>1, <3>3 DEF Sorted
  <2>10. queue[n] \in Waiting /\ queue[n] \in Items
    BY <2>6 DEF Waiting, ItemsOf
  <2> QED
    BY <2>5, <2>6, <2>7, <2>8, <2>9, <2>10
<1> QED
  BY <1>1, <1>2

(* A new item is awaited at once or waits behind all others. *)
LEMMA EmitMoves ==
  ASSUME queue \in Seq(Items), chain = None => queue = << >>, Sorted(queue),
         NEW item \in Items, \A w \in Waiting : w.no < item.no, Emit(item)
  PROVE  /\ queue' \in Seq(Items) /\ Sorted(queue')
         /\ \/ /\ chain = None /\ Waiting = {} /\ Waiting' = {} /\ queue' = << >>
               /\ chain' = item /\ active' = item
               /\ children' = children \cup {Spawned(item)}
            \/ /\ chain # None /\ Waiting' = Waiting \cup {item}
               /\ chain' = chain /\ active' = active /\ children' = children
<1>1. CASE chain = None
  BY <1>1 DEF Emit, Waiting, ItemsOf
<1>2. CASE chain # None
  <2> DEFINE n == Len(queue)
             q == Append(queue, item)
  <2>1. /\ n \in Nat /\ DOMAIN queue = 1 .. n
        /\ q \in Seq(Items) /\ DOMAIN q = 1 .. n + 1
        /\ \A i \in 1 .. n : q[i] = queue[i]
        /\ q[n + 1] = item
    BY LenProperties
  <2>2. queue' = q /\ chain' = chain /\ active' = active /\ children' = children
    BY <1>2 DEF Emit
  <2> HIDE DEF n, q
  <2>3. ItemsOf(q) = Waiting \cup {item}
    <3>1. \A i \in 1 .. n + 1 : i \in 1 .. n \/ i = n + 1
      BY <2>1
    <3>2. \A i \in 1 .. n : i \in 1 .. n + 1
      BY <2>1
    <3>3. n + 1 \in 1 .. n + 1
      BY <2>1
    <3> QED
      BY <2>1, <3>1, <3>2, <3>3 DEF Waiting, ItemsOf
  <2>4. Sorted(q)
    <3> SUFFICES ASSUME NEW i \in 1 .. n + 1, NEW k \in 1 .. n + 1, i < k
                 PROVE  q[i].no < q[k].no
      BY <2>1 DEF Sorted
    <3>1. CASE k \in 1 .. n
      BY <2>1, <3>1 DEF Sorted
    <3>2. CASE k = n + 1
      <4>1. i \in 1 .. n
        BY <2>1, <3>2
      <4> QED
        BY <2>1, <3>2, <4>1 DEF Waiting, ItemsOf
    <3> QED
      BY <2>1, <3>1, <3>2
  <2> QED
    BY <1>2, <2>1, <2>2, <2>3, <2>4 DEF Waiting
<1> QED
  BY <1>1, <1>2

-----------------------------------------------------------------------------
(* A hook settles or closes *)

(* What HookCloses and HookTimesOut leave of the processes. *)
Leaves(c, left) ==
    /\ left \subseteq Children
    /\ \A d \in left : (d \in children /\ d # c) \/ d = Abandoned(c)
    /\ \A d \in children : d # c => d \in left

(* A step that gives up a hook spoils the session; so does one that closes *)
(* without having recorded its event, unless it was killed.                *)
Answers(c) ==
    /\ spoiled' = spoiled \/ spoiled' = spoiled \cup {session}
    /\ session \in spoiled' \/ c.recorded \/ c.killed

LEMMA LeftFields ==
  ASSUME TypeOK, NEW c \in children, NEW left, Leaves(c, left)
  PROVE  /\ \A d \in left : d \in Children
         /\ \A d \in left : \E e \in children :
               /\ d.item = e.item /\ d.left = e.left /\ d.recorded = e.recorded
               /\ e.killed => d.killed
               /\ \/ d = e /\ d # c
                  \/ e = c /\ d = Abandoned(c) /\ d.killed /\ d.settled
         /\ \A d, e \in left : d.item = e.item => d = e
<1> USE DEF TypeOK
<1>1. c \in Children
  OBVIOUS
<1>2. /\ Abandoned(c).item = c.item /\ Abandoned(c).left = c.left
      /\ Abandoned(c).recorded = c.recorded
      /\ Abandoned(c).killed /\ Abandoned(c).settled
  BY <1>1, AbandonedFields
<1> QED
  BY <1>1, <1>2 DEF Leaves

(* A hook that the chain does not await settles or closes.                 *)
LEMMA OtherHookGone ==
  ASSUME PiInv, NEW c \in children, NEW left, Leaves(c, left),
         c.item # chain, children' = left, Answers(c),
         (c.settled /\ active' = active) \/ (~c.settled /\ active' = None),
         UNCHANGED <<session, handler, drainLeft, closing, hasPendingAgentEnd,
                     latestAgentEndGeneration, queue, chain, emits, records,
                     spent, completion>>
  PROVE  PiInv'
<1> USE DEF PiInv
<1>1. /\ \A d \in left : d \in Children
      /\ \A d \in left : \E e \in children :
            /\ d.item = e.item /\ d.left = e.left /\ d.recorded = e.recorded
            /\ e.killed => d.killed
            /\ \/ d = e /\ d # c
               \/ e = c /\ d = Abandoned(c) /\ d.killed /\ d.settled
      /\ \A d, e \in left : d.item = e.item => d = e
  BY LeftFields
<1>2. /\ Waiting' = Waiting /\ Pending' = Pending
      /\ \A item : Newest(item)' = Newest(item)
      /\ \A item : IsShutdown(item)' = IsShutdown(item)
  BY DEF Waiting, Pending, Newest, IsShutdown
<1>3. session > 0 /\ session \in 1 .. MaxSessions
  <2>1. c.item.session \in 1 .. MaxSessions /\ c.item.session <= session
    BY ChildFields, ItemFields DEF Numbered, TypeOK
  <2> QED
    BY <2>1, PiAssumption DEF TypeOK
<1>4. TypeOK'
  BY <1>1, <1>3 DEF TypeOK, Answers
<1>5. Numbered'
  BY <1>1, <1>2 DEF Numbered
<1>6. ChainOrder'
  BY <1>1, <1>2 DEF ChainOrder, Sorted
<1>7. Awaited'
  <2>1. chain # None => \E d \in left : d.item = chain
    BY DEF Awaited, Leaves
  <2>2. ~c.settled => \A d \in children : d.item = chain => d.killed
    BY DEF Awaited, Clock, Stopped
  <2> QED
    BY <1>1, <1>2, <2>1, <2>2 DEF Awaited
<1>8. Stopped'
  BY <1>1, <1>2 DEF Stopped
<1>9. Draining'
  BY <1>1, <1>2 DEF Draining, Answers
<1>10. Clock'
  BY <1>1, <1>2 DEF Clock
<1>11. Shutdowns'
  BY <1>1, <1>2 DEF Shutdowns, Ended
<1>12. Past'
  BY <1>1, <1>2 DEF Past, Answers
<1>13. RecordsBehind'
  BY <1>1, <1>2 DEF RecordsBehind, RecordedNo
<1>14. Completions'
  BY <1>1, <1>2 DEF Completions, RecordedNo, Ended, Answers
<1>15. RecordsInOrder' /\ CompletionSurvivesShutdown'
  BY DEF RecordsInOrder, CompletionSurvivesShutdown, Answers
<1> QED
  BY <1>4, <1>5, <1>6, <1>7, <1>8, <1>9, <1>10, <1>11, <1>12, <1>13, <1>14, <1>15

(* The awaited hook settles, and the chain goes on.                        *)
LEMMA ChainHookGone ==
  ASSUME PiInv, NEW c \in children, NEW left, Leaves(c, left),
         c.item = chain, ChainAdvances(left), Answers(c),
         UNCHANGED <<session, handler, drainLeft, closing, hasPendingAgentEnd,
                     latestAgentEndGeneration, emits, records, spent, completion>>
  PROVE  PiInv'
<1> USE DEF PiInv
<1>1. /\ \A d \in left : d \in Children
      /\ \A d \in left : \E e \in children :
            /\ d.item = e.item /\ d.left = e.left /\ d.recorded = e.recorded
            /\ e.killed => d.killed
            /\ \/ d = e /\ d # c
               \/ e = c /\ d = Abandoned(c) /\ d.killed /\ d.settled
      /\ \A d, e \in left : d.item = e.item => d = e
  BY LeftFields
<1>2. /\ \A item : Newest(item)' = Newest(item)
      /\ \A item : IsShutdown(item)' = IsShutdown(item)
  BY DEF Newest, IsShutdown
<1>3. /\ session > 0 /\ session \in 1 .. MaxSessions
      /\ chain # None /\ chain \in Items
      /\ \A d \in left : d.item = chain => d.settled /\ d.killed
  <2>1. c.item.session \in 1 .. MaxSessions /\ c.item.session <= session
        /\ c.item \in Items /\ c.item # None
    BY ChildFields, ItemFields DEF Numbered, TypeOK
  <2> QED
    BY <1>1, <2>1, PiAssumption DEF TypeOK
<1>4. CASE /\ queue' = << >> /\ chain' = None /\ active' = None /\ children' = left
           /\ \A w \in Waiting : ~Runs(w)
  <2>1. Waiting' = {} /\ Pending' = {}
    BY <1>4 DEF Waiting, ItemsOf, Pending
  <2>2. \A d \in left : d.item # None
    BY <1>1, ChildFields, ItemFields
  <2>3. TypeOK'
    <3>1. queue' \in Seq(Items)
      BY <1>4
    <3>2. spoiled' \subseteq 1 .. MaxSessions
      BY <1>3 DEF TypeOK, Answers
    <3> QED
      BY <1>1, <1>4, <3>1, <3>2 DEF TypeOK
  <2>4. Numbered'
    BY <1>1, <1>4, <2>1 DEF Numbered
  <2>5. ChainOrder'
    BY <1>1, <1>4, <2>1 DEF ChainOrder, Sorted
  <2>6. Awaited'
    BY <1>1, <1>2, <1>3, <1>4, <2>2 DEF Awaited
  <2>7. Stopped'
    BY <1>4, <2>1, <2>2 DEF Stopped
  <2>8. Draining'
    BY <1>4, <2>2 DEF Draining
  <2>9. Clock'
    BY <1>1, <1>2, <1>4 DEF Clock
  <2>10. Shutdowns'
    BY <1>1, <1>2, <1>4 DEF Shutdowns, Ended
  <2>11. Past'
    BY <1>1, <1>2, <1>4, <2>1 DEF Past, Answers
  <2>12. RecordsBehind'
    BY <1>1, <1>2, <1>4, <2>1, <2>2 DEF RecordsBehind, RecordedNo
  <2>13. Completions'
    <3>1. \A w \in Waiting : ~Newest(w)
      BY <1>4 DEF Runs, Newest
    <3>2. \/ completion[session] = 0 \/ session \in spoiled'
          \/ RecordedNo(completion[session])
      BY <1>3, <3>1 DEF Completions, Pending, RecordsBehind, Answers
    <3> QED
      BY <1>2, <1>4, <2>2, <3>2 DEF Completions, RecordedNo, Ended, Answers
  <2>14. RecordsInOrder' /\ CompletionSurvivesShutdown'
    BY DEF RecordsInOrder, CompletionSurvivesShutdown, Answers
  <2> QED
    BY <2>3, <2>4, <2>5, <2>6, <2>7, <2>8, <2>9, <2>10, <2>11, <2>12, <2>13, <2>14
<1>5. ASSUME NEW next \in Waiting,
             Runs(next), next \in Items, chain' = next, active' = next,
             children' = left \cup {Spawned(next)},
             queue' \in Seq(Items), Sorted(queue'),
             Waiting' = {w \in Waiting : next.no < w.no},
             \A w \in Waiting : Runs(w) => w = next \/ next.no < w.no
      PROVE  PiInv'
  <2>1. /\ Spawned(next) \in Children /\ Spawned(next).item = next
        /\ Spawned(next).left = HookTimeout /\ ~Spawned(next).recorded
        /\ ~Spawned(next).killed /\ ~Spawned(next).settled
    BY <1>5, SpawnedFields
  <2>2. /\ next \in Pending /\ next # None /\ ~IsShutdown(next)
        /\ Pending' = Waiting' \cup {next} /\ Pending' \subseteq Pending
        /\ chain.no < next.no
    BY <1>3, <1>5, NoneAssumption DEF Pending, ChainOrder
  <2>3. \A d \in left : d.item # next
    BY <1>1, <1>5, <2>2, ItemFields, ChildFields DEF ChainOrder
  <2>4. closing => Newest(next)
    BY <1>5 DEF Runs, Newest
  <2>5. TypeOK'
    <3>1. spoiled' \subseteq 1 .. MaxSessions
      BY <1>3 DEF TypeOK, Answers
    <3>2. children' \subseteq Children
      BY <1>1, <1>5, <2>1
    <3>3. \A d, e \in children' : d.item = e.item => d = e
      BY <1>1, <1>5, <2>1, <2>3
    <3> QED
      BY <1>5, <2>2, <3>1, <3>2, <3>3 DEF TypeOK
  <2>6. Numbered'
    BY <1>1, <1>5, <2>1, <2>2 DEF Numbered
  <2>7. ChainOrder'
    <3>1. \A d \in left, w \in Waiting : ~IsShutdown(d.item) => d.item.no < w.no
      BY <1>1 DEF ChainOrder
    <3>2. \A v, w \in Pending : Newest(v) /\ Newest(w) => v = w
      BY DEF ChainOrder
    <3>3. \A w \in Pending : ~IsShutdown(w)
      BY DEF ChainOrder
    <3> QED
      BY <1>2, <1>5, <2>1, <2>2, <3>1, <3>2, <3>3 DEF ChainOrder
  <2>8. Awaited'
    BY <1>1, <1>2, <1>3, <1>5, <2>1, <2>2, <2>3 DEF Awaited
  <2>9. Stopped'
    BY <1>2, <1>3, <1>5, <2>1, <2>2, <2>3, <2>4 DEF Stopped
  <2>10. Draining'
    <3>1. handler = "draining" => closing
      BY <1>3 DEF Stopped
    <3>2. handler = "draining" => ~Newest(chain)
      <4>1. chain \in Pending /\ next.no \in Nat /\ chain.no \in Nat
        BY <1>3, <1>5, ItemFields DEF Pending
      <4> QED
        BY <2>2, <2>4, <3>1, <4>1 DEF ChainOrder
    <3> QED
      BY <1>2, <1>5, <2>1, <2>3, <2>4, <3>1, <3>2, PiAssumption DEF Draining, Answers, TypeOK
  <2>11. Clock'
    BY <1>1, <1>2, <1>5, <2>1, <2>2 DEF Clock
  <2>12. Shutdowns'
    BY <1>1, <1>2, <1>5, <2>1, <2>2 DEF Shutdowns, Ended
  <2>13. Past'
    BY <1>1, <1>2, <1>5, <2>1 DEF Past, Answers
  <2>14. RecordsBehind'
    BY <1>1, <1>2, <1>5, <2>1, <2>3 DEF RecordsBehind, RecordedNo
  <2>15. Completions'
    <3>1. \A w \in Waiting : Newest(w) => w \in Pending'
      BY <1>5, <2>2 DEF Runs, Newest
    <3>2. \/ completion[session] = 0 \/ session \in spoiled'
          \/ RecordedNo(completion[session])
          \/ \E w \in Pending' : /\ Newest(w) /\ w.session = session
                                 /\ w.no = completion[session]
      BY <1>3, <3>1 DEF Completions, Pending, RecordsBehind, Answers
    <3> QED
      BY <1>2, <1>5, <2>1, <2>3, <3>2 DEF Completions, RecordedNo, Ended, Answers
  <2>16. RecordsInOrder' /\ CompletionSurvivesShutdown'
    BY DEF RecordsInOrder, CompletionSurvivesShutdown, Answers
  <2> QED
    BY <2>5, <2>6, <2>7, <2>8, <2>9, <2>10, <2>11, <2>12, <2>13, <2>14, <2>15, <2>16
<1> QED
  BY <1>4, <1>5, ChainMoves DEF TypeOK, ChainOrder

LEMMA HookClosesPreserves ==
  ASSUME PiInv, NEW c \in children, HookCloses(c)
  PROVE  PiInv'
<1> USE DEF HookCloses
<1> DEFINE left == children \ {c}
<1>1. Leaves(c, left)
  BY DEF Leaves, PiInv, TypeOK
<1>2. c \in Children
  BY DEF PiInv, TypeOK
<1>3. Answers(c)
  BY <1>2, ChildFields DEF Spoil, Answers
<1>4. UNCHANGED <<session, handler, drainLeft, closing, hasPendingAgentEnd,
                  latestAgentEndGeneration, emits, records, spent, completion>>
  OBVIOUS
<1>5. CASE c.settled
  <2>1. c.item # chain
    BY <1>5 DEF PiInv, Awaited
  <2>2. children' = left /\ active' = active /\ UNCHANGED <<queue, chain>>
    BY <1>5
  <2> QED
    BY <1>1, <1>3, <1>4, <1>5, <2>1, <2>2, OtherHookGone
<1>6. CASE ~c.settled /\ c.item = chain
  <2>1. ChainAdvances(left)
    BY <1>6 DEF Finish
  <2> HIDE DEF left
  <2> QED
    BY <1>1, <1>3, <1>4, <1>6, <2>1, ChainHookGone
<1>7. CASE ~c.settled /\ c.item # chain
  <2>1. children' = left /\ active' = None /\ UNCHANGED <<queue, chain>>
    BY <1>7 DEF Finish
  <2> QED
    BY <1>1, <1>3, <1>4, <1>7, <2>1, OtherHookGone
<1> QED
  BY <1>5, <1>6, <1>7

LEMMA HookTimesOutPreserves ==
  ASSUME PiInv, NEW c \in children, HookTimesOut(c)
  PROVE  PiInv'
<1> USE DEF HookTimesOut
<1> DEFINE left == (children \ {c}) \cup {Abandoned(c)}
<1>1. c \in Children /\ Abandoned(c) \in Children
  BY AbandonedFields DEF PiInv, TypeOK
<1>2. Leaves(c, left)
  BY <1>1 DEF Leaves, PiInv, TypeOK
<1>3. Answers(c)
  BY DEF Spoil, Answers
<1>4. UNCHANGED <<session, handler, drainLeft, closing, hasPendingAgentEnd,
                  latestAgentEndGeneration, emits, records, spent, completion>>
  OBVIOUS
<1>5. ~c.settled /\ Finish(c, left)
  BY DEF Abandoned
<1>6. CASE c.item = chain
  <2>1. ChainAdvances(left)
    BY <1>5, <1>6 DEF Finish
  <2> HIDE DEF left
  <2> QED
    BY <1>2, <1>3, <1>4, <1>6, <2>1, ChainHookGone
<1>7. CASE c.item # chain
  <2>1. children' = left /\ active' = None /\ UNCHANGED <<queue, chain>>
    BY <1>5, <1>7 DEF Finish
  <2> HIDE DEF left
  <2> QED
    BY <1>2, <1>3, <1>4, <1>5, <1>7, <2>1, OtherHookGone
<1> QED
  BY <1>6, <1>7

-----------------------------------------------------------------------------
(* A hook records its event *)

LEMMA AppendFields ==
  ASSUME NEW q \in Seq(Items), NEW item \in Items, NEW r, r = Append(q, item)
  PROVE  /\ r \in Seq(Items)
         /\ Len(q) \in Nat /\ DOMAIN q = 1 .. Len(q)
         /\ Len(q) + 1 \in DOMAIN r /\ r[Len(q) + 1] = item
         /\ \A i \in DOMAIN q : i \in DOMAIN r /\ r[i] = q[i] /\ i < Len(q) + 1
         /\ \A i \in DOMAIN r : i \in DOMAIN q \/ i = Len(q) + 1
<1> DEFINE n == Len(q)
<1>1. /\ n \in Nat /\ DOMAIN q = 1 .. n
      /\ r \in Seq(Items) /\ DOMAIN r = 1 .. n + 1
      /\ \A i \in 1 .. n : r[i] = q[i]
      /\ r[n + 1] = item
  BY LenProperties
<1> HIDE DEF n
<1>2. /\ n + 1 \in 1 .. n + 1
      /\ \A i \in 1 .. n : i \in 1 .. n + 1 /\ i < n + 1
      /\ \A i \in 1 .. n + 1 : i \in 1 .. n \/ i = n + 1
  BY <1>1
<1> QED
  BY <1>1, <1>2 DEF n

LEMMA HookRecordsPreserves ==
  ASSUME PiInv, NEW c \in children, HookRecords(c)
  PROVE  PiInv'
<1> USE DEF PiInv
<1> DEFINE last == Len(records) + 1
<1>1. /\ c \in Children /\ c.item \in Items
      /\ c.item.no \in Nat /\ c.item.session \in 1 .. MaxSessions
  BY ChildFields, ItemFields DEF TypeOK
<1>2. /\ ~c.recorded /\ ~c.killed
      /\ children' = (children \ {c}) \cup {Recording(c)}
      /\ records' = Append(records, c.item)
      /\ UNCHANGED <<session, handler, drainLeft, closing, hasPendingAgentEnd,
                     latestAgentEndGeneration, queue, chain, active, emits,
                     spent, spoiled, completion>>
  BY DEF HookRecords, Recording
<1>3. /\ \A d \in children' : d \in Children
      /\ \A d \in children' : \E e \in children :
            /\ d.item = e.item /\ d.left = e.left
            /\ d.settled = e.settled /\ d.killed = e.killed
            /\ \/ d = e /\ d # c
               \/ e = c /\ d = Recording(c) /\ d.recorded
      /\ \A d \in children : \E e \in children' : e.item = d.item
      /\ \A d, e \in children' : d.item = e.item => d = e
  <2>1. /\ Recording(c) \in Children /\ Recording(c).item = c.item
        /\ Recording(c).left = c.left /\ Recording(c).recorded
        /\ Recording(c).killed = c.killed /\ Recording(c).settled = c.settled
    BY <1>1, RecordingFields
  <2> QED
    BY <1>1, <1>2, <2>1, SMTT(30) DEF TypeOK
<1>4. /\ records' \in Seq(Items)
      /\ last \in DOMAIN records' /\ records'[last] = c.item
      /\ \A i \in DOMAIN records : i \in DOMAIN records' /\ records'[i] = records[i]
      /\ \A i \in DOMAIN records' : i \in DOMAIN records \/ i = last
      /\ \A i \in DOMAIN records : i < last
      /\ last \in Nat /\ \A i \in DOMAIN records : i \in Nat
  BY <1>1, <1>2, AppendFields DEF TypeOK
<1> HIDE DEF last
<1>5. /\ Waiting' = Waiting /\ Pending' = Pending
      /\ \A item : Newest(item)' = Newest(item)
      /\ \A item : IsShutdown(item)' = IsShutdown(item)
      /\ \A s : Ended(s)' = Ended(s)
  BY <1>2 DEF Waiting, Pending, Newest, IsShutdown, Ended
<1>6. ~IsShutdown(c.item) => c.item = chain
  BY <1>2 DEF Awaited
<1>7. IsShutdown(c.item) => Ended(c.item.session)
  BY DEF Shutdowns
<1>8. ASSUME NEW i \in DOMAIN records, IsShutdown(records[i]),
             records[i].session = c.item.session
      PROVE  records[i].session \in spoiled
  <2>1. ~IsShutdown(c.item)
    BY <1>2, <1>8 DEF Shutdowns
  <2>2. Ended(c.item.session)
    BY <1>8 DEF Shutdowns
  <2>3. CASE c.item.session < session
    BY <1>1, <1>2, <1>8, <2>1, <2>3 DEF Past
  <2>4. CASE handler \in {"stopping", "idle"}
    BY <1>2, <1>6, <2>1, <2>4 DEF Stopped
  <2> QED
    BY <2>2, <2>3, <2>4 DEF Ended
<1>9. \A i \in DOMAIN records :
         ~IsShutdown(records[i]) /\ ~IsShutdown(c.item) => records[i].no < c.item.no
  BY <1>2, <1>6 DEF RecordsBehind
<1>10. \A no : RecordedNo(no) => RecordedNo(no)'
  BY <1>4 DEF RecordedNo
<1>11. RecordedNo(c.item.no)'
  BY <1>4 DEF RecordedNo
<1>12. TypeOK'
  BY <1>2, <1>3, <1>4 DEF TypeOK
<1>13. Numbered'
  BY <1>2, <1>3, <1>5 DEF Numbered
<1>14. ChainOrder'
  BY <1>2, <1>3, <1>5 DEF ChainOrder, Sorted
<1>15. Awaited'
  BY <1>2, <1>3, <1>5 DEF Awaited
<1>16. Stopped'
  BY <1>2, <1>3, <1>5 DEF Stopped
<1>17. Draining'
  BY <1>2, <1>3, <1>5 DEF Draining
<1>18. Clock'
  BY <1>2, <1>3, <1>5 DEF Clock
<1>19. Shutdowns'
  <2>1. \A d \in children' : IsShutdown(d.item) => Ended(d.item.session)
    BY <1>3 DEF Shutdowns
  <2>2. \A d, e \in children' :
          IsShutdown(d.item) /\ IsShutdown(e.item) /\ d.item.session = e.item.session
          => d = e
    BY <1>3 DEF Shutdowns
  <2>3. ASSUME NEW i \in DOMAIN records', IsShutdown(records'[i])
        PROVE  /\ Ended(records'[i].session)
               /\ \A d \in children' :
                     IsShutdown(d.item) /\ d.item.session = records'[i].session
                     => d.recorded
    <3>1. CASE i \in DOMAIN records
      BY <1>3, <1>4, <2>3, <3>1 DEF Shutdowns
    <3>2. CASE i = last
      BY <1>3, <1>4, <1>7, <2>3, <3>2 DEF Shutdowns
    <3> QED
      BY <1>4, <3>1, <3>2
  <2> QED
    BY <1>5, <2>1, <2>2, <2>3 DEF Shutdowns
<1>20. Past'
  BY <1>2, <1>3, <1>5 DEF Past
<1>21. RecordsBehind'
  <2>1. \A d \in children' : d.recorded => RecordedNo(d.item.no)'
    BY <1>3, <1>10, <1>11 DEF RecordsBehind
  <2>2. ASSUME NEW i \in DOMAIN records', ~IsShutdown(records'[i])
        PROVE  /\ records'[i].no <= emits
               /\ \A w \in Waiting : records'[i].no < w.no
               /\ \A d \in children' :
                     d.item = chain /\ ~d.recorded => records'[i].no < chain.no
    <3>1. CASE i \in DOMAIN records
      BY <1>3, <1>4, <2>2, <3>1 DEF RecordsBehind
    <3>2. CASE i = last
      <4>1. c.item.no <= emits /\ \A w \in Waiting : c.item.no < w.no
        BY <1>4, <2>2, <3>2 DEF Numbered, ChainOrder
      <4>2. \A d \in children' : d.item = chain => d.recorded
        BY <1>3, <1>4, <1>6, <2>2, <3>2 DEF TypeOK
      <4> QED
        BY <1>4, <3>2, <4>1, <4>2
    <3> QED
      BY <1>4, <3>1, <3>2
  <2> QED
    BY <1>2, <1>5, <2>1, <2>2 DEF RecordsBehind
<1>22. Completions'
  <2>1. \A d \in children' : d.killed /\ ~d.recorded =>
          \E e \in children : e.item = d.item /\ e.killed /\ ~e.recorded
    BY <1>2, <1>3
  <2> QED
    BY <1>2, <1>5, <1>10, <2>1 DEF Completions
<1>23. RecordsInOrder'
  <2> SUFFICES ASSUME NEW i \in DOMAIN records', NEW k \in DOMAIN records', i < k
               PROVE  IF IsShutdown(records'[i])
                      THEN \/ records'[k].session # records'[i].session
                           \/ records'[i].session \in spoiled
                      ELSE IsShutdown(records'[k]) \/ records'[i].no < records'[k].no
    BY <1>2 DEF RecordsInOrder, IsShutdown
  <2>1. i \in DOMAIN records
    BY <1>4
  <2>2. CASE k \in DOMAIN records
    BY <1>4, <2>1, <2>2 DEF RecordsInOrder, IsShutdown
  <2>3. CASE k = last
    BY <1>4, <1>8, <1>9, <2>1, <2>3
  <2> QED
    BY <1>4, <2>2, <2>3
<1>24. CompletionSurvivesShutdown'
  <2> SUFFICES ASSUME NEW k \in DOMAIN records', IsShutdown(records'[k]),
                      records'[k].session \notin spoiled
               PROVE  \/ completion[records'[k].session] = 0
                      \/ \E i \in 1 .. k : records'[i].no = completion[records'[k].session]
    BY <1>2 DEF CompletionSurvivesShutdown, IsShutdown
  <2>1. DOMAIN records = 1 .. Len(records) /\ Len(records) \in Nat
    BY LenProperties DEF TypeOK
  <2>2. CASE k \in DOMAIN records
    <3>1. \A i \in 1 .. k : records'[i] = records[i]
      BY <1>4, <2>1, <2>2
    <3> QED
      BY <1>4, <2>2, <3>1 DEF CompletionSurvivesShutdown, IsShutdown
  <2>3. CASE k = last
    <3>1. \/ completion[c.item.session] = 0
          \/ RecordedNo(completion[c.item.session])
      BY <1>1, <1>4, <1>7, <2>3 DEF Completions
    <3>2. \A i \in DOMAIN records : i \in 1 .. k
      BY <1>4, <2>1, <2>3
    <3> QED
      BY <1>4, <2>3, <3>1, <3>2 DEF RecordedNo
  <2> QED
    BY <1>4, <2>2, <2>3
<1> QED
  BY <1>12, <1>13, <1>14, <1>15, <1>16, <1>17, <1>18, <1>19, <1>20, <1>21,
     <1>22, <1>23, <1>24

-----------------------------------------------------------------------------
(* Pi gives an event: in the session, or with a new one. *)

LEMMA EmitPreserves ==
  ASSUME PiInv, NEW item \in Items, item.no = emits + 1, ~IsShutdown(item),
         item.session = session', Emit(item), handler' = "open",
         \/ /\ session' = session /\ handler = "open" /\ spoiled' = spoiled
         \/ /\ session' = session + 1 /\ session < MaxSessions /\ handler = "idle"
            /\ spoiled' = spoiled \cup Outlived,
         \/ /\ latestAgentEndGeneration' = latestAgentEndGeneration
            /\ completion' = completion /\ item.event # "agent_end" /\ item.gen = 0
         \/ /\ session' = session /\ item.event = "agent_end"
            /\ item.gen = latestAgentEndGeneration + 1
            /\ latestAgentEndGeneration' = latestAgentEndGeneration + 1
            /\ completion' = [completion EXCEPT ![session] = emits + 1],
         closing' \in BOOLEAN, hasPendingAgentEnd' \in BOOLEAN,
         UNCHANGED <<drainLeft, records, spent>>
  PROVE  PiInv'
<1> USE DEF PiInv
<1>1. /\ emits \in Nat /\ emits < MaxEmits /\ emits' = emits + 1
      /\ session \in Nat /\ session' \in 1 .. MaxSessions
      /\ latestAgentEndGeneration \in Nat
      /\ MaxEmits \in Nat /\ MaxSessions \in Nat
  BY ItemFields, PiAssumption DEF TypeOK, Numbers, Emit
<1>2. /\ \A c \in children : c \in Children /\ c.item \in Items /\ c.item # None
      /\ \A c \in children : c.item.no \in Nat /\ c.item.no < item.no
      /\ \A c \in children : c.item.gen \in Nat /\ c.item.session \in Nat
  <2>1. \A c \in children : c \in Children /\ c.item \in Items
    BY ChildFields DEF TypeOK
  <2>2. \A c \in children :
           /\ c.item # None /\ c.item.no \in Nat
           /\ c.item.gen \in Nat /\ c.item.session \in Nat
    BY <2>1, ItemFields
  <2>3. \A c \in children : c.item.no <= emits
    BY DEF Numbered
  <2>4. \A c \in children : c.item.no < item.no
    BY <1>1, <2>2, <2>3
  <2> QED
    BY <2>1, <2>2, <2>4
<1>3. /\ \A w \in Pending : w \in Items /\ w # None
      /\ \A w \in Pending : w.no \in Nat /\ w.no < item.no
      /\ \A w \in Pending : w.gen \in Nat /\ w.session \in Nat
      /\ Waiting \subseteq Pending
  <2>1. \A w \in Waiting : w \in Items
    BY DEF TypeOK, Waiting, ItemsOf
  <2>2. \A w \in Pending : w \in Items
    BY <2>1 DEF TypeOK, Pending
  <2>3. \A w \in Pending :
           /\ w # None /\ w.no \in Nat
           /\ w.gen \in Nat /\ w.session \in Nat
    BY <2>2, ItemFields
  <2>4. \A w \in Pending : w.no <= emits
    BY DEF Numbered
  <2>5. \A w \in Pending : w.no < item.no
    BY <1>1, <2>3, <2>4
  <2> QED
    BY <2>2, <2>3, <2>5 DEF Pending
<1>4. /\ queue' \in Seq(Items) /\ Sorted(queue')
      /\ \/ /\ chain = None /\ Waiting = {} /\ Waiting' = {} /\ queue' = << >>
            /\ chain' = item /\ active' = item
            /\ children' = children \cup {Spawned(item)}
         \/ /\ chain # None /\ Waiting' = Waiting \cup {item}
            /\ chain' = chain /\ active' = active /\ children' = children
  <2> DEFINE moved == /\ queue' \in Seq(Items) /\ Sorted(queue')
                      /\ \/ /\ chain = None /\ Waiting = {} /\ Waiting' = {} /\ queue' = << >>
                            /\ chain' = item /\ active' = item
                            /\ children' = children \cup {Spawned(item)}
                         \/ /\ chain # None /\ Waiting' = Waiting \cup {item}
                            /\ chain' = chain /\ active' = active /\ children' = children
  <2>1. queue \in Seq(Items) /\ (chain = None => queue = << >>) /\ Sorted(queue)
    BY DEF TypeOK, ChainOrder
  <2>2. \A w \in Waiting : w.no < item.no
    BY <1>3
  <2>3. moved
    BY <2>1, <2>2, EmitMoves
  <2> QED
    BY <2>3
<1>5. /\ Spawned(item) \in Children /\ Spawned(item).item = item
      /\ Spawned(item).left = HookTimeout /\ ~Spawned(item).recorded
      /\ ~Spawned(item).killed /\ ~Spawned(item).settled
  BY SpawnedFields
<1>6. item # None /\ item.no \in Nat
  BY ItemFields
<1>7. /\ Pending' = Pending \cup {item}
      /\ \A c \in children' : c \in children \/ (c = Spawned(item) /\ chain' = item)
      /\ children \subseteq children'
      /\ chain' # None
      /\ chain' = item \/ (chain' = chain /\ children' = children)
      /\ \A w \in Waiting' : w \in Waiting \/ w = item
  BY <1>4, <1>6 DEF Pending
<1>8. \A i : IsShutdown(i)' = IsShutdown(i)
  BY DEF IsShutdown
<1>9. /\ Newest(item)' <=> item.event = "agent_end"
      /\ \A w \in Pending \cup {c.item : c \in children} :
            Newest(w)' => Newest(w) /\ latestAgentEndGeneration' = latestAgentEndGeneration
      /\ latestAgentEndGeneration' = latestAgentEndGeneration =>
            \A w : Newest(w)' <=> Newest(w)
  BY <1>1, <1>2, <1>3 DEF Newest, Numbered
<1>10. TypeOK'
  <2>1. emits' \in Numbers \cup {0} /\ emits + 1 \in Numbers
    BY <1>1 DEF Numbers
  <2>2. latestAgentEndGeneration' \in Numbers \cup {0}
    BY <1>1 DEF Numbers, Numbered, TypeOK
  <2>3. completion' \in [1 .. MaxSessions -> Numbers \cup {0}]
    BY <2>1 DEF TypeOK
  <2>4. spoiled' \subseteq 1 .. MaxSessions
    <3>1. ASSUME NEW c \in children
          PROVE  session \in 1 .. MaxSessions
      <4>1. c.item.session \in 1 .. MaxSessions /\ c.item.session <= session
        BY <1>2, ItemFields DEF Numbered
      <4> QED
        BY <1>1, <4>1
    <3>2. Outlived \subseteq 1 .. MaxSessions
      BY <3>1 DEF Outlived
    <3> QED
      BY <3>2 DEF TypeOK
  <2>5. /\ children' \subseteq Children
        /\ \A c, d \in children' : c.item = d.item => c = d
    BY <1>2, <1>5, <1>6, <1>7 DEF TypeOK
  <2>6. chain' \in Items \cup {None} /\ active' \in Items \cup {None}
    BY <1>4 DEF TypeOK
  <2> QED
    BY <1>1, <1>4, <1>7, <2>1, <2>2, <2>3, <2>4, <2>5, <2>6 DEF TypeOK
<1>11. Numbered'
  <2>1. \A i \in Pending' \cup {c.item : c \in children'} :
           i = item \/ i \in Pending \cup {c.item : c \in children}
    BY <1>5, <1>7
  <2>2. \A i \in Pending \cup {c.item : c \in children} :
           i.no \in Nat /\ i.session \in Nat /\ i.gen \in Nat
    BY <1>2, <1>3
  <2>3. \A s \in 1 .. MaxSessions :
           completion'[s] <= emits' /\ (s > session' => completion'[s] = 0)
    BY <1>1, PiAssumption DEF TypeOK, Numbered, Numbers
  <2>4. /\ handler' # "idle" \/ emits' > 0 => session' > 0
        /\ handler' \in {"open", "draining"} => emits' + 1 <= MaxEmits + session'
        /\ emits' <= MaxEmits + session'
        /\ latestAgentEndGeneration' <= emits'
    BY <1>1 DEF Numbered
  <2>5. \A i \in Pending' \cup {c.item : c \in children'} :
          /\ i.no <= emits' /\ i.session <= session'
          /\ i.gen <= latestAgentEndGeneration'
    <3> SUFFICES ASSUME NEW i \in Pending' \cup {c.item : c \in children'}
                 PROVE  /\ i.no <= emits' /\ i.session <= session'
                        /\ i.gen <= latestAgentEndGeneration'
      OBVIOUS
    <3>1. CASE i = item
      BY <1>1, <3>1
    <3>2. CASE i \in Pending \cup {c.item : c \in children}
      BY <1>1, <2>2, <3>2 DEF Numbered
    <3> QED
      BY <2>1, <3>1, <3>2
  <2> QED
    BY <2>3, <2>4, <2>5 DEF Numbered
<1>12. ChainOrder'
  <2>1. chain' # None => \A w \in Waiting' : chain'.no < w.no
    BY <1>3, <1>4 DEF ChainOrder, Pending
  <2>2. \A w \in Pending' : ~IsShutdown(w)
    BY <1>7 DEF ChainOrder
  <2>3. \A c \in children', w \in Waiting' : ~IsShutdown(c.item) => c.item.no < w.no
    BY <1>2, <1>4 DEF ChainOrder
  <2>4. \A v, w \in Pending' : Newest(v)' /\ Newest(w)' => v = w
    BY <1>1, <1>7, <1>9 DEF ChainOrder
  <2> QED
    BY <1>4, <1>8, <2>1, <2>2, <2>3, <2>4 DEF ChainOrder
<1>13. Awaited'
  BY <1>2, <1>4, <1>5, <1>6, <1>8 DEF Awaited
<1>14. Stopped' /\ Draining'
  BY DEF Stopped, Draining
<1>15. Clock'
  BY <1>4, <1>5, <1>8 DEF Clock
<1>16. \A s \in 1 .. MaxSessions : Ended(s)' => Ended(s) /\ s # session'
  BY <1>1 DEF Ended
<1>17. \A s \in Nat : Ended(s) => Ended(s)'
  BY <1>1 DEF Ended
<1>18. Shutdowns'
  <2>1. \A i \in DOMAIN records : records[i].session \in Nat
    BY ItemFields DEF TypeOK
  <2> QED
    BY <1>2, <1>5, <1>7, <1>8, <1>17, <2>1 DEF Shutdowns
<1>19. Past'
  <2> SUFFICES ASSUME NEW s \in 1 .. MaxSessions, s < session', s \notin spoiled'
               PROVE  /\ \A w \in Waiting' : w.session # s
                      /\ \A c \in children' :
                            c.item.session = s /\ ~IsShutdown(c.item) => c.killed
    BY <1>8 DEF Past
  <2>1. CASE s < session
    BY <1>1, <1>5, <1>7, <2>1 DEF Past
  <2>2. CASE s = session /\ session' = session + 1
    <3>1. \A c \in children : ~c.killed
      BY <1>1, <2>2 DEF Outlived
    <3>2. chain = None
      BY <1>1, <2>2, <3>1 DEF Awaited, Stopped
    <3>3. Waiting' = {}
      BY <1>4, <3>2
    <3>4. \A c \in children : IsShutdown(c.item)
      BY <1>2, <3>1, <3>2 DEF Awaited
    <3> QED
      BY <1>1, <1>5, <1>7, <2>2, <3>3, <3>4
  <2> QED
    BY <1>1, <2>1, <2>2
<1>20. RecordsBehind'
  <2>1. \A c \in children' : c.recorded => RecordedNo(c.item.no)'
    BY <1>5, <1>7 DEF RecordsBehind, RecordedNo
  <2>2. ASSUME NEW i \in DOMAIN records, ~IsShutdown(records[i])
        PROVE  /\ records[i].no <= emits'
               /\ \A w \in Waiting' : records[i].no < w.no
               /\ \A c \in children' :
                     c.item = chain' /\ ~c.recorded => records[i].no < chain'.no
    <3>1. records[i].no \in Nat /\ records[i].no <= emits
      BY <2>2, ItemFields DEF RecordsBehind, TypeOK
    <3>2. records[i].no < item.no /\ records[i].no <= emits'
      BY <1>1, <3>1
    <3> QED
      BY <1>7, <2>2, <3>2 DEF RecordsBehind
  <2> QED
    BY <1>8, <2>1, <2>2 DEF RecordsBehind
<1>21. Completions'
  <2>1. \/ completion'[session'] = 0 \/ session' \in spoiled'
        \/ RecordedNo(completion'[session'])
        \/ \E w \in Pending' : /\ Newest(w)' /\ w.session = session'
                               /\ w.no = completion'[session']
    <3>1. CASE session' = session + 1
      BY <1>1, <3>1 DEF Numbered
    <3>2. CASE session' = session /\ item.event # "agent_end"
      <4>1. /\ completion' = completion /\ Pending \subseteq Pending'
            /\ \A w : Newest(w)' <=> Newest(w)
            /\ spoiled \subseteq spoiled'
        BY <1>7, <1>9, <3>2
      <4> QED
        BY <1>1, <3>2, <4>1 DEF Completions
    <3>3. CASE session' = session /\ item.event = "agent_end"
      <4>1. completion'[session'] = item.no
        BY <1>1, <3>3 DEF TypeOK
      <4> QED
        BY <1>7, <1>9, <3>3, <4>1
    <3> QED
      BY <3>1, <3>2, <3>3
  <2>2. \A c \in children' :
          /\ c.item = chain' /\ Newest(chain)' /\ chain'.session = session'
          /\ c.killed /\ ~c.recorded
          => session' \in spoiled'
    <3> SUFFICES ASSUME NEW c \in children', c.item = chain', Newest(chain)',
                        chain'.session = session', c.killed, ~c.recorded
                 PROVE  session' \in spoiled'
      OBVIOUS
    <3>1. c \in children
      BY <1>5, <1>7
    <3>2. chain' = chain
      BY <1>2, <1>7, <3>1
    <3>3. Newest(chain)
      BY <1>7, <1>9, <3>2 DEF Pending
    <3>4. session' = session
      BY <1>1, <3>1, <3>2 DEF Numbered
    <3> QED
      BY <3>1, <3>2, <3>3, <3>4 DEF Completions
  <2>3. \A s \in 1 .. MaxSessions : Ended(s)' /\ s \notin spoiled' =>
          completion'[s] = 0 \/ RecordedNo(completion'[s])
    <3>1. \A s \in 1 .. MaxSessions : s # session' => completion'[s] = completion[s]
      BY <1>1 DEF TypeOK
    <3> QED
      BY <1>16, <3>1 DEF Completions
  <2> QED
    BY <2>1, <2>2, <2>3 DEF Completions, RecordedNo
<1>22. RecordsInOrder'
  BY DEF RecordsInOrder
<1>23. CompletionSurvivesShutdown'
  <2> SUFFICES ASSUME NEW k \in DOMAIN records, IsShutdown(records[k]),
                      records[k].session \notin spoiled
               PROVE  \/ completion'[records[k].session] = 0
                      \/ \E i \in 1 .. k : records[i].no = completion'[records[k].session]
    BY DEF CompletionSurvivesShutdown, IsShutdown
  <2>1. records[k].session \in 1 .. MaxSessions /\ Ended(records[k].session)
    BY ItemFields DEF Shutdowns, TypeOK
  <2>2. completion'[records[k].session] = completion[records[k].session]
    BY <1>1, <2>1 DEF TypeOK, Ended
  <2> QED
    BY <2>2 DEF CompletionSurvivesShutdown, IsShutdown
<1> QED
  BY <1>10, <1>11, <1>12, <1>13, <1>14, <1>15, <1>18, <1>19, <1>20, <1>21,
     <1>22, <1>23

LEMMA SessionStartPreserves ==
  ASSUME PiInv, SessionStart
  PROVE  PiInv'
<1> DEFINE item == Item(session + 1, "session_start", 0)
<1>1. /\ session \in Nat /\ emits \in Nat /\ session < MaxSessions /\ emits < MaxEmits
      /\ MaxEmits \in Nat /\ MaxSessions \in Nat
  BY PiAssumption DEF PiInv, TypeOK, Numbers, SessionStart, Emit
<1>2. /\ item \in Items /\ item.no = emits + 1 /\ item.session = session + 1
      /\ item.event = "session_start" /\ item.gen = 0
  BY <1>1 DEF Item, Items, Numbers, EventNames
<1>3. Emit(item)
  BY DEF SessionStart
<1> HIDE DEF item
<1> QED
  BY <1>1, <1>2, <1>3, EmitPreserves DEF SessionStart, IsShutdown

LEMMA InputPreserves ==
  ASSUME PiInv, Input
  PROVE  PiInv'
<1> DEFINE item == Item(session, "input", 0)
<1>1. /\ session \in 1 .. MaxSessions /\ emits \in Nat /\ emits < MaxEmits
      /\ MaxEmits \in Nat /\ MaxSessions \in Nat
  BY PiAssumption DEF PiInv, TypeOK, Numbers, Input, Emit, Numbered
<1>2. /\ item \in Items /\ item.no = emits + 1 /\ item.session = session
      /\ item.event = "input" /\ item.gen = 0
  BY <1>1 DEF Item, Items, Numbers, EventNames
<1>3. Emit(item)
  BY DEF Input
<1>4. closing \in BOOLEAN /\ hasPendingAgentEnd \in BOOLEAN
  BY DEF PiInv, TypeOK
<1> HIDE DEF item
<1> QED
  BY <1>1, <1>2, <1>3, <1>4, EmitPreserves DEF Input, IsShutdown

LEMMA AgentSettledPreserves ==
  ASSUME PiInv, AgentSettled
  PROVE  PiInv'
<1> DEFINE item == Item(session, "agent_end", latestAgentEndGeneration + 1)
<1>1. /\ session \in 1 .. MaxSessions /\ emits \in Nat /\ emits < MaxEmits
      /\ MaxEmits \in Nat /\ MaxSessions \in Nat
      /\ latestAgentEndGeneration \in Nat /\ latestAgentEndGeneration <= emits
  BY PiAssumption DEF PiInv, TypeOK, Numbers, AgentSettled, Emit, Numbered
<1>2. /\ item \in Items /\ item.no = emits + 1 /\ item.session = session
      /\ item.event = "agent_end" /\ item.gen = latestAgentEndGeneration + 1
  BY <1>1 DEF Item, Items, Numbers, EventNames
<1>3. Emit(item)
  BY DEF AgentSettled
<1>4. closing \in BOOLEAN
  BY DEF PiInv, TypeOK
<1> HIDE DEF item
<1> QED
  BY <1>1, <1>2, <1>3, <1>4, EmitPreserves DEF AgentSettled, IsShutdown

LEMMA AgentEndPreserves ==
  ASSUME PiInv, AgentEnd
  PROVE  PiInv'
<1> USE DEF PiInv
<1>1. /\ hasPendingAgentEnd' \in BOOLEAN
      /\ UNCHANGED <<session, handler, drainLeft, closing, latestAgentEndGeneration,
                     queue, chain, active, children, emits, records, completion,
                     spent, spoiled>>
  BY DEF AgentEnd, hookVars
<1>2. TypeOK'
  BY <1>1 DEF TypeOK
<1>3. Numbered' /\ ChainOrder'
  BY <1>1 DEF Numbered, ChainOrder, Pending, Waiting, Newest, IsShutdown, ItemsOf, Sorted
<1>4. Awaited' /\ Stopped' /\ Draining' /\ Clock'
  BY <1>1 DEF Awaited, Stopped, Draining, Clock, Waiting, Newest, IsShutdown, ItemsOf
<1>5. Shutdowns' /\ Past' /\ RecordsBehind'
  BY <1>1 DEF Shutdowns, Past, RecordsBehind, RecordedNo, Waiting, Ended, IsShutdown, ItemsOf
<1>6. Completions'
  BY <1>1 DEF Completions, RecordedNo, Pending, Waiting, Newest, Ended, ItemsOf
<1>7. RecordsInOrder' /\ CompletionSurvivesShutdown'
  BY <1>1 DEF RecordsInOrder, CompletionSurvivesShutdown
<1> QED
  BY <1>2, <1>3, <1>4, <1>5, <1>6, <1>7

-----------------------------------------------------------------------------
(* The shutdown handler *)

LEMMA ActiveKilledFields ==
  ASSUME TypeOK
  PROVE  /\ ActiveKilled \subseteq Children
         /\ \A d \in ActiveKilled : \E e \in children :
               /\ d.item = e.item /\ d.left = e.left /\ d.recorded = e.recorded
               /\ d.settled = e.settled
               /\ IF e.item = active /\ ~e.settled THEN d.killed ELSE d.killed = e.killed
               /\ e.killed => d.killed
         /\ \A e \in children : \E d \in ActiveKilled : d.item = e.item
         /\ \A d, e \in ActiveKilled : d.item = e.item => d = e
<1> USE DEF TypeOK
<1>1. \A c \in children :
         /\ c \in Children
         /\ Killed(c) \in Children /\ Killed(c).item = c.item
         /\ Killed(c).left = c.left /\ Killed(c).recorded = c.recorded
         /\ Killed(c).killed /\ Killed(c).settled = c.settled
  BY KilledFields
<1>2. \A d \in ActiveKilled : \E e \in children :
         d = IF e.item = active /\ ~e.settled THEN Killed(e) ELSE e
  BY DEF ActiveKilled
<1>3. \A e \in children :
         (IF e.item = active /\ ~e.settled THEN Killed(e) ELSE e) \in ActiveKilled
  BY DEF ActiveKilled
<1>4. ActiveKilled \subseteq Children
  BY <1>1, <1>2
<1>5. \A e \in children : \E d \in ActiveKilled : d.item = e.item
  BY <1>1, <1>3
<1>6. \A d, e \in ActiveKilled : d.item = e.item => d = e
  BY <1>1, <1>2
<1>7. ASSUME NEW d \in ActiveKilled
      PROVE  \E e \in children :
               /\ d.item = e.item /\ d.left = e.left /\ d.recorded = e.recorded
               /\ d.settled = e.settled
               /\ IF e.item = active /\ ~e.settled THEN d.killed ELSE d.killed = e.killed
               /\ e.killed => d.killed
  BY <1>1, <1>2
<1> QED
  BY <1>4, <1>5, <1>6, <1>7

LEMMA ShutdownPreserves ==
  ASSUME PiInv, Shutdown
  PROVE  PiInv'
<1> USE DEF PiInv
<1>1. /\ handler = "open" /\ handler' = "draining" /\ closing' = TRUE
      /\ drainLeft' = ShutdownDrain /\ spent' = 0
      /\ UNCHANGED <<session, hasPendingAgentEnd, latestAgentEndGeneration, queue, chain,
                     active, emits, records, spoiled, completion>>
  BY DEF Shutdown
<1>2. /\ session \in 1 .. MaxSessions /\ ShutdownDrain \in Nat
      /\ HookTimeout \in Nat
  BY <1>1, PiAssumption DEF TypeOK, Numbered
<1>3. /\ children' \subseteq Children
      /\ \A d \in children' : \E e \in children :
            /\ d.item = e.item /\ d.left = e.left /\ d.recorded = e.recorded
            /\ d.settled = e.settled
            /\ e.killed => d.killed
            /\ e.item = active /\ ~e.settled /\ ~Newest(active) => d.killed
            /\ d.killed => e.killed \/ (e.item = active /\ ~Newest(active))
      /\ \A e \in children : \E d \in children' : d.item = e.item
      /\ \A d, e \in children' : d.item = e.item => d = e
  <2>1. CASE active # None /\ Newest(active)
    <3>1. children' = children
      BY <2>1 DEF Shutdown, Newest
    <3> QED
      BY <2>1, <3>1 DEF TypeOK
  <2>2. CASE active = None
    <3>1. children' = ActiveKilled
      BY <2>2 DEF Shutdown
    <3>2. \A e \in children : e.item # active
      BY <2>2, ChildFields, ItemFields DEF TypeOK
    <3> QED
      BY <3>1, <3>2, ActiveKilledFields
  <2>3. CASE active # None /\ ~Newest(active)
    <3>1. children' = ActiveKilled
      BY <2>3 DEF Shutdown, Newest
    <3> QED
      BY <2>3, <3>1, ActiveKilledFields
  <2> QED
    BY <2>1, <2>2, <2>3
<1>4. /\ Waiting' = Waiting /\ Pending' = Pending
      /\ \A item : Newest(item)' = Newest(item)
      /\ \A item : IsShutdown(item)' = IsShutdown(item)
      /\ \A s : Ended(s)' = Ended(s)
  BY <1>1 DEF Waiting, Pending, Newest, IsShutdown, Ended
<1>5. TypeOK'
  BY <1>1, <1>2, <1>3 DEF TypeOK
<1>6. Numbered'
  BY <1>1, <1>2, <1>3, <1>4 DEF Numbered
<1>7. ChainOrder'
  BY <1>1, <1>3, <1>4 DEF ChainOrder, Sorted
<1>8. Awaited'
  BY <1>1, <1>3, <1>4 DEF Awaited
<1>9. Stopped'
  BY <1>1 DEF Stopped
<1>10. Draining'
  <2> SUFFICES ASSUME NEW d \in children', d.item = chain
               PROVE  /\ d.left + ShutdownDrain <= HookTimeout + ShutdownDrain
                      /\ d.killed \/ Newest(chain)
    BY <1>1, <1>4 DEF Draining
  <2>1. d.left \in Nat /\ d.left <= HookTimeout
    BY <1>3, ChildFields
  <2>2. d.killed \/ Newest(chain)
    BY <1>3 DEF Awaited
  <2> QED
    BY <1>2, <2>1, <2>2
<1>11. Clock'
  BY <1>1, <1>2, <1>3, <1>4 DEF Clock
<1>12. Shutdowns'
  BY <1>1, <1>3, <1>4 DEF Shutdowns
<1>13. Past'
  BY <1>1, <1>3, <1>4 DEF Past
<1>14. RecordsBehind'
  BY <1>1, <1>3, <1>4 DEF RecordsBehind, RecordedNo
<1>15. Completions'
  BY <1>1, <1>3, <1>4 DEF Completions, RecordedNo
<1>16. RecordsInOrder' /\ CompletionSurvivesShutdown'
  BY <1>1 DEF RecordsInOrder, CompletionSurvivesShutdown
<1> QED
  BY <1>5, <1>6, <1>7, <1>8, <1>9, <1>10, <1>11, <1>12, <1>13, <1>14, <1>15, <1>16

LEMMA RunShutdownHookPreserves ==
  ASSUME PiInv, RunShutdownHook
  PROVE  PiInv'
<1> USE DEF PiInv
<1> DEFINE item == Item(session, "session_shutdown", 0)
<1>1. /\ handler = "draining" /\ Drained(LastAgentEndResolved)
      /\ handler' = "stopping" /\ drainLeft' = ShutdownDrain
      /\ active' = item /\ children' = ActiveKilled \cup {Spawned(item)}
      /\ emits' = emits + 1
      /\ UNCHANGED <<session, closing, hasPendingAgentEnd, latestAgentEndGeneration,
                     queue, chain, records, spent, spoiled, completion>>
  BY DEF RunShutdownHook
<1>2. /\ session \in 1 .. MaxSessions /\ ShutdownDrain \in Nat /\ HookTimeout \in Nat
      /\ HookTimeout < ShutdownDrain
      /\ emits \in Nat /\ emits + 1 <= MaxEmits + session
      /\ MaxEmits \in Nat /\ MaxSessions \in Nat /\ drainLeft \in Nat /\ spent \in Nat
  BY <1>1, PiAssumption DEF TypeOK, Numbered, Numbers
<1>3. /\ item.no = emits + 1 /\ item.session = session
      /\ item.event = "session_shutdown" /\ item.gen = 0
  BY DEF Item
<1>4. item \in Items
  BY <1>2 DEF Item, Items, Numbers, EventNames
<1> HIDE DEF item
<1>5. /\ Spawned(item) \in Children /\ Spawned(item).item = item
      /\ Spawned(item).left = HookTimeout /\ ~Spawned(item).recorded
      /\ ~Spawned(item).killed /\ ~Spawned(item).settled
  BY <1>4, SpawnedFields
<1>6. /\ ActiveKilled \subseteq Children
      /\ \A d \in ActiveKilled : \E e \in children :
            /\ d.item = e.item /\ d.left = e.left /\ d.recorded = e.recorded
            /\ d.settled = e.settled
            /\ IF e.item = active /\ ~e.settled THEN d.killed ELSE d.killed = e.killed
            /\ e.killed => d.killed
      /\ \A e \in children : \E d \in ActiveKilled : d.item = e.item
      /\ \A d, e \in ActiveKilled : d.item = e.item => d = e
  BY ActiveKilledFields
<1>7. /\ Waiting' = Waiting /\ Pending' = Pending
      /\ \A i : Newest(i)' = Newest(i)
      /\ \A i : IsShutdown(i)' = IsShutdown(i)
      /\ \A s : Ended(s)' <=> Ended(s) \/ s = session
      /\ ~Ended(session)
      /\ IsShutdown(item)
  BY <1>1, <1>2, <1>3 DEF Waiting, Pending, Newest, IsShutdown, Ended
<1>8. \A c \in children :
         /\ c \in Children /\ c.item \in Items /\ c.item # None
         /\ c.item.no \in Nat /\ c.item.no <= emits /\ c.item # item
         /\ c.left \in Nat /\ c.left <= HookTimeout
  BY <1>2, <1>3, ChildFields, ItemFields DEF TypeOK, Numbered
<1>9. /\ \A w \in Pending : w # item /\ w \in Items /\ w.no \in Nat /\ ~IsShutdown(w)
      /\ chain = None => Pending = {}
      /\ chain # None => chain \in Pending
      /\ Waiting \subseteq Pending
      /\ item # None
  <2>1. \A w \in Waiting : w \in Items
    BY DEF TypeOK, Waiting, ItemsOf
  <2>2. chain = None => Waiting = {}
    BY DEF TypeOK, Waiting, ItemsOf
  <2> QED
    BY <1>4, <1>7, <2>1, <2>2, ItemFields DEF TypeOK, Pending, ChainOrder
<1>10. \/ \A w \in Pending : ~Newest(w)
       \/ drainLeft = 0
  BY <1>1 DEF Drained, LastAgentEndResolved, Pending, Waiting, ItemsOf, Newest
<1>11. ASSUME drainLeft = 0, NEW c \in children, c.item = chain
       PROVE  Newest(chain) /\ session \in spoiled
  <2>1. ~(c.left + ShutdownDrain <= HookTimeout + drainLeft) /\ drainLeft # ShutdownDrain
    BY <1>2, <1>8, <1>11
  <2> QED
    BY <1>1, <1>11, <2>1 DEF Draining
<1>12. \A w \in Waiting : ~Newest(w)
  <2> SUFFICES ASSUME NEW w \in Waiting, Newest(w), drainLeft = 0
               PROVE  FALSE
    BY <1>9, <1>10
  <2>1. chain # None /\ Newest(chain)
    BY <1>9, <1>11 DEF Awaited
  <2>2. chain = w /\ chain.no < w.no
    BY <1>9, <2>1 DEF ChainOrder
  <2> QED
    BY <1>9, <2>2
<1>13. \A d \in ActiveKilled : d.item = chain => d.killed
  BY <1>6 DEF Awaited
<1>14. TypeOK'
  <2>1. emits' \in Numbers \cup {0}
    BY <1>1, <1>2 DEF Numbers
  <2>2. children' \subseteq Children
    BY <1>1, <1>5, <1>6
  <2>3. \A c, d \in children' : c.item = d.item => c = d
    BY <1>1, <1>5, <1>6, <1>8
  <2> QED
    BY <1>1, <1>2, <1>4, <2>1, <2>2, <2>3 DEF TypeOK
<1>15. Numbered'
  <2>1. \A i \in Pending' \cup {c.item : c \in children'} :
           i = item \/ i \in Pending \cup {c.item : c \in children}
    BY <1>1, <1>5, <1>6, <1>7
  <2>2. \A s \in 1 .. MaxSessions : completion[s] \in Nat
    BY DEF TypeOK, Numbers
  <2>3. latestAgentEndGeneration \in Nat
    BY DEF TypeOK, Numbers
  <2>4. \A i \in Pending \cup {c.item : c \in children} : i.no \in Nat
    BY <1>8, <1>9
  <2>5. \A i \in Pending' \cup {c.item : c \in children'} :
           /\ i.no <= emits + 1 /\ i.session <= session
           /\ i.gen <= latestAgentEndGeneration
    BY <1>2, <1>3, <2>1, <2>3, <2>4 DEF Numbered
  <2> QED
    BY <1>1, <1>2, <2>2, <2>3, <2>5 DEF Numbered
<1>16. ChainOrder'
  BY <1>1, <1>5, <1>6, <1>7 DEF ChainOrder, Sorted
<1>17. Awaited'
  <2>1. chain # None => \E d \in children' : d.item = chain
    BY <1>1, <1>6 DEF Awaited
  <2>2. ASSUME NEW d \in children'
        PROVE  /\ d.item = chain => ~d.settled
               /\ d.item # chain /\ ~IsShutdown(d.item) => d.settled /\ d.killed
               /\ d.item = chain /\ active' # chain => d.killed
    <3>1. CASE d \in ActiveKilled
      BY <1>6, <1>13, <3>1 DEF Awaited
    <3>2. CASE d = Spawned(item)
      BY <1>5, <1>7, <1>9, <3>2
    <3> QED
      BY <1>1, <3>1, <3>2
  <2> QED
    BY <1>1, <1>7, <2>1, <2>2 DEF Awaited
<1>18. Stopped'
  BY <1>1, <1>2, <1>5, <1>7, <1>9, <1>12, <1>13 DEF Stopped
<1>19. Draining'
  BY <1>1 DEF Draining
<1>20. Clock'
  <2>1. \A d \in ActiveKilled : ~(IsShutdown(d.item) /\ ~d.settled)
    BY <1>1, <1>6 DEF Clock
  <2>2. spent <= ShutdownDrain
    BY <1>1, <1>2 DEF Clock
  <2>3. spent <= ShutdownDrain + HookTimeout /\ spent + HookTimeout <= ShutdownDrain + HookTimeout
    BY <1>2, <2>2
  <2>4. \A c \in children' : IsShutdown(c.item) /\ ~c.settled => c = Spawned(item)
    BY <1>1, <2>1
  <2> QED
    BY <1>1, <1>5, <1>7, <2>3, <2>4 DEF Clock
<1>21. Shutdowns'
  BY <1>1, <1>3, <1>5, <1>6, <1>7 DEF Shutdowns
<1>22. Past'
  BY <1>1, <1>5, <1>6, <1>7 DEF Past
<1>23. RecordsBehind'
  <2>1. \A c \in children' : c.recorded => RecordedNo(c.item.no)'
    BY <1>1, <1>5, <1>6 DEF RecordsBehind, RecordedNo
  <2>2. ASSUME NEW i \in DOMAIN records, ~IsShutdown(records[i])
        PROVE  /\ records[i].no <= emits'
               /\ \A w \in Waiting : records[i].no < w.no
               /\ \A c \in children' :
                     c.item = chain /\ ~c.recorded => records[i].no < chain.no
    <3>1. records[i].no \in Nat /\ records[i].no <= emits
      BY <2>2, ItemFields DEF RecordsBehind, TypeOK
    <3>2. records[i].no <= emits'
      BY <1>1, <1>2, <3>1
    <3> QED
      BY <1>1, <1>5, <1>6, <1>9, <2>2, <3>2 DEF RecordsBehind
  <2> QED
    BY <1>1, <1>7, <2>1, <2>2 DEF RecordsBehind
<1>24. Completions'
  <2>1. session \in spoiled \/ completion[session] = 0 \/ RecordedNo(completion[session])
    <3> SUFFICES ASSUME session \notin spoiled, NEW w \in Pending, Newest(w)
                 PROVE  FALSE
      BY <1>2 DEF Completions
    <3>1. drainLeft = 0 /\ chain # None
      BY <1>9, <1>10
    <3> QED
      BY <1>11, <3>1 DEF Awaited
  <2>2. ASSUME NEW c \in children', c.item = chain, Newest(chain)
        PROVE  session \in spoiled
    <3>1. c \in ActiveKilled
      BY <1>1, <1>5, <1>9, <2>2
    <3>2. PICK e \in children : e.item = chain
      BY <1>6, <2>2, <3>1
    <3>3. drainLeft = 0
      BY <1>8, <1>9, <1>10, <2>2, <3>2
    <3> QED
      BY <1>11, <3>2, <3>3
  <2>3. \A s \in 1 .. MaxSessions : (Ended(s) \/ s = session) /\ s \notin spoiled =>
          completion[s] = 0 \/ RecordedNo(completion[s])
    BY <2>1 DEF Completions
  <2> QED
    BY <1>1, <1>2, <1>7, <2>1, <2>2, <2>3 DEF Completions, RecordedNo
<1>25. RecordsInOrder' /\ CompletionSurvivesShutdown'
  BY <1>1 DEF RecordsInOrder, CompletionSurvivesShutdown
<1> QED
  BY <1>14, <1>15, <1>16, <1>17, <1>18, <1>19, <1>20, <1>21, <1>22, <1>23,
     <1>24, <1>25

LEMMA ShutdownReturnsPreserves ==
  ASSUME PiInv, ShutdownReturns
  PROVE  PiInv'
<1> USE DEF PiInv
<1>1. /\ handler = "stopping" /\ Drained(Unsettled("session_shutdown") = {})
      /\ handler' = "idle" /\ drainLeft' = 0 /\ spent' = 0
      /\ UNCHANGED <<session, closing, hasPendingAgentEnd, latestAgentEndGeneration,
                     queue, chain, active, children, emits, records, spoiled, completion>>
  BY DEF ShutdownReturns, hookVars
<1>2. \A c \in children : ~(IsShutdown(c.item) /\ ~c.settled)
  <2>1. Unsettled("session_shutdown") = {} \/ drainLeft = 0
    BY <1>1 DEF Drained
  <2>2. CASE drainLeft = 0
    <3> SUFFICES ASSUME NEW c \in children, IsShutdown(c.item), ~c.settled
                 PROVE  FALSE
      OBVIOUS
    <3>1. drainLeft + HookTimeout = ShutdownDrain + c.left
      BY DEF Clock
    <3>2. c.left \in Nat
      BY ChildFields DEF TypeOK
    <3> QED
      BY <2>2, <3>1, <3>2, PiAssumption
  <2> QED
    BY <2>1, <2>2 DEF Unsettled, IsShutdown
<1>3. /\ Waiting' = Waiting /\ Pending' = Pending
      /\ \A item : Newest(item)' = Newest(item)
      /\ \A item : IsShutdown(item)' = IsShutdown(item)
      /\ \A s : Ended(s)' = Ended(s)
  BY <1>1 DEF Waiting, Pending, Newest, IsShutdown, Ended
<1>4. TypeOK'
  BY <1>1, PiAssumption DEF TypeOK
<1>5. Numbered'
  BY <1>1, <1>3 DEF Numbered
<1>6. ChainOrder' /\ Awaited'
  BY <1>1, <1>3 DEF ChainOrder, Awaited
<1>7. Stopped' /\ Draining'
  BY <1>1, <1>3 DEF Stopped, Draining
<1>8. Clock'
  BY <1>1, <1>2, <1>3 DEF Clock
<1>9. Shutdowns' /\ Past' /\ RecordsBehind'
  BY <1>1, <1>3 DEF Shutdowns, Past, RecordsBehind, RecordedNo
<1>10. Completions'
  BY <1>1, <1>3 DEF Completions, RecordedNo
<1>11. RecordsInOrder' /\ CompletionSurvivesShutdown'
  BY <1>1 DEF RecordsInOrder, CompletionSurvivesShutdown
<1> QED
  BY <1>4, <1>5, <1>6, <1>7, <1>8, <1>9, <1>10, <1>11

-----------------------------------------------------------------------------
(* Time goes on *)

LEMMA TickPreserves ==
  ASSUME PiInv, Tick
  PROVE  PiInv'
<1> USE DEF PiInv
<1>1. /\ \A c \in children : c.settled \/ c.left > 0
      /\ handler = "draining" => ~Drained(LastAgentEndResolved)
      /\ handler = "stopping" => ~Drained(Unsettled("session_shutdown") = {})
      /\ children' = {IF c.settled THEN c ELSE Later(c) : c \in children}
      /\ drainLeft' = IF drainLeft > 0 THEN drainLeft - 1 ELSE 0
      /\ spent' = IF handler \in {"draining", "stopping"} THEN spent + 1 ELSE spent
      /\ spoiled' = spoiled \cup Outlived
      /\ UNCHANGED <<session, handler, closing, hasPendingAgentEnd,
                     latestAgentEndGeneration, queue, chain, active, emits,
                     records, completion>>
  BY DEF Tick, Later
<1>2. /\ handler \in {"draining", "stopping"} => drainLeft > 0
      /\ handler = "stopping" => \E c \in children : IsShutdown(c.item) /\ ~c.settled
      /\ drainLeft \in Nat /\ spent \in Nat /\ ShutdownDrain \in Nat /\ HookTimeout \in Nat
  BY <1>1, PiAssumption DEF Drained, Unsettled, IsShutdown, TypeOK
<1>3. \A c \in children :
         /\ c \in Children /\ c.left \in Nat
         /\ ~c.settled =>
               /\ Later(c) \in Children /\ Later(c).item = c.item
               /\ Later(c).left = c.left - 1 /\ Later(c).recorded = c.recorded
               /\ Later(c).killed = c.killed /\ Later(c).settled = c.settled
  BY <1>1, ChildFields, LaterFields DEF TypeOK
<1>4. /\ \A d \in children' : \E e \in children :
            /\ d \in Children
            /\ d.item = e.item /\ d.recorded = e.recorded
            /\ d.settled = e.settled /\ d.killed = e.killed
            /\ ~e.settled => d.left = e.left - 1
      /\ \A e \in children : \E d \in children' : d.item = e.item
      /\ \A d, e \in children' : d.item = e.item => d = e
  <2>1. \A d \in children' : \E e \in children : d = IF e.settled THEN e ELSE Later(e)
    BY <1>1
  <2>2. \A e \in children : (IF e.settled THEN e ELSE Later(e)) \in children'
    BY <1>1
  <2>3. \A e \in children : \E d \in children' : d.item = e.item
    BY <1>3, <2>2
  <2>4. \A d, e \in children' : d.item = e.item => d = e
    BY <1>3, <2>1 DEF TypeOK
  <2>5. ASSUME NEW d \in children'
        PROVE  \E e \in children :
                  /\ d \in Children
                  /\ d.item = e.item /\ d.recorded = e.recorded
                  /\ d.settled = e.settled /\ d.killed = e.killed
                  /\ ~e.settled => d.left = e.left - 1
    BY <1>3, <2>1
  <2> QED
    BY <2>3, <2>4, <2>5
<1>5. /\ Waiting' = Waiting /\ Pending' = Pending
      /\ \A item : Newest(item)' = Newest(item)
      /\ \A item : IsShutdown(item)' = IsShutdown(item)
      /\ \A s : Ended(s)' = Ended(s)
  BY <1>1 DEF Waiting, Pending, Newest, IsShutdown, Ended
<1>5a. \A d \in children' : \E e \in children :
          /\ d.item = e.item /\ d.recorded = e.recorded
          /\ d.settled = e.settled /\ d.killed = e.killed
  BY <1>4
<1>5b. \A e \in children : \E d \in children' : d.item = e.item
  BY <1>4
<1>6. /\ spoiled \subseteq spoiled'
      /\ \A c \in children : c.killed => session \in spoiled'
  BY <1>1 DEF Outlived
<1>7. TypeOK'
  <2>1. \A c \in children : session \in 1 .. MaxSessions
    <3> SUFFICES ASSUME NEW c \in children
                 PROVE  session \in 1 .. MaxSessions
      OBVIOUS
    <3>1. c.item.session \in 1 .. MaxSessions /\ c.item.session <= session
      BY ChildFields, ItemFields DEF TypeOK, Numbered
    <3> QED
      BY <3>1, PiAssumption DEF TypeOK
  <2>2. spoiled' \subseteq 1 .. MaxSessions
    BY <1>1, <2>1 DEF TypeOK, Outlived
  <2>3. drainLeft' \in 0 .. ShutdownDrain /\ spent' \in Nat
    BY <1>1, <1>2 DEF TypeOK
  <2>4. children' \subseteq Children
    BY <1>4
  <2> QED
    BY <1>1, <1>4, <2>2, <2>3, <2>4 DEF TypeOK
<1>8. Numbered'
  BY <1>1, <1>4, <1>5 DEF Numbered
<1>9. ChainOrder'
  BY <1>1, <1>4, <1>5 DEF ChainOrder, Sorted
<1>10. Awaited'
  <2>1. chain # None => \E d \in children' : d.item = chain
    BY <1>5b DEF Awaited
  <2>2. ASSUME NEW d \in children'
        PROVE  /\ d.item = chain => ~d.settled
               /\ d.item # chain /\ ~IsShutdown(d.item) => d.settled /\ d.killed
               /\ d.item = chain /\ active # chain => d.killed
    BY <1>5a DEF Awaited
  <2> QED
    BY <1>1, <1>5, <2>1, <2>2 DEF Awaited
<1>11. Stopped'
  BY <1>1, <1>4, <1>5 DEF Stopped
<1>12. Draining'
  <2> SUFFICES ASSUME handler = "draining", NEW d \in children', d.item = chain
               PROVE  /\ ~Newest(chain) => d.left + ShutdownDrain <= HookTimeout + drainLeft'
                      /\ \/ session \in spoiled'
                         \/ d.killed /\ drainLeft' = ShutdownDrain
                         \/ /\ Newest(chain)
                            /\ d.left + ShutdownDrain <= HookTimeout + drainLeft'
    BY <1>1, <1>5 DEF Draining
  <2>1. PICK e \in children : /\ d.item = e.item /\ d.killed = e.killed
                              /\ ~e.settled => d.left = e.left - 1
    BY <1>4
  <2>2. d.left = e.left - 1 /\ e.left \in Nat /\ drainLeft' = drainLeft - 1 /\ drainLeft \in Nat
    BY <1>1, <1>2, <1>3, <2>1 DEF Awaited
  <2>3. e.left + ShutdownDrain <= HookTimeout + drainLeft
        => d.left + ShutdownDrain <= HookTimeout + drainLeft'
    BY <1>2, <2>2
  <2> QED
    BY <1>6, <2>1, <2>3 DEF Draining
<1>13. Clock'
  <2>1. handler \in {"idle", "open"} => spent' = 0
    BY <1>1 DEF Clock
  <2>2. handler = "draining" => spent' + drainLeft' = ShutdownDrain
    BY <1>1, <1>2 DEF Clock
  <2>3. ASSUME NEW c \in children, IsShutdown(c.item), ~c.settled
        PROVE  /\ handler = "stopping" /\ c.left > 0
               /\ spent' + (c.left - 1) <= ShutdownDrain + HookTimeout
               /\ drainLeft' + HookTimeout = ShutdownDrain + (c.left - 1)
    BY <1>1, <1>2, <1>3, <2>3 DEF Clock
  <2>4. handler = "stopping" => spent' <= ShutdownDrain + HookTimeout
    BY <1>1, <1>2, <1>3, <2>3
  <2> QED
    BY <1>1, <1>4, <1>5, <2>1, <2>2, <2>3, <2>4 DEF Clock
<1>14. Shutdowns'
  <2>1. \A d, e \in children' : d.item = e.item => d = e
    BY <1>4
  <2>2. \A i \in DOMAIN records : IsShutdown(records[i]) =>
          \A d \in children' :
             IsShutdown(d.item) /\ d.item.session = records[i].session => d.recorded
    BY <1>5a DEF Shutdowns
  <2>3. \A d, e \in children' :
          IsShutdown(d.item) /\ IsShutdown(e.item) /\ d.item.session = e.item.session
          => d = e
    BY <1>5a, <2>1 DEF Shutdowns
  <2>4. \A d \in children' : IsShutdown(d.item) => Ended(d.item.session)
    BY <1>5a DEF Shutdowns
  <2> QED
    BY <1>1, <1>5, <2>2, <2>3, <2>4 DEF Shutdowns
<1>15. Past'
  <2>1. \A s : s < session /\ s \notin spoiled' => s < session /\ s \notin spoiled
    BY <1>6
  <2> QED
    BY <1>1, <1>5, <1>5a, <2>1 DEF Past
<1>16. RecordsBehind'
  BY <1>1, <1>4, <1>5 DEF RecordsBehind, RecordedNo
<1>17. Completions'
  BY <1>1, <1>4, <1>5, <1>6 DEF Completions, RecordedNo
<1>18. RecordsInOrder' /\ CompletionSurvivesShutdown'
  BY <1>1, <1>6 DEF RecordsInOrder, CompletionSurvivesShutdown
<1> QED
  BY <1>7, <1>8, <1>9, <1>10, <1>11, <1>12, <1>13, <1>14, <1>15, <1>16, <1>17, <1>18

-----------------------------------------------------------------------------
LEMMA PiInitEstablishes ==
  ASSUME Init
  PROVE  PiInv
<1> USE DEF Init
<1>1. Waiting = {} /\ Pending = {}
  BY DEF Waiting, ItemsOf, Pending
<1>2. DOMAIN records = {} /\ << >> \in Seq(Items)
  OBVIOUS
<1>3. TypeOK
  <2>1. completion \in [1 .. MaxSessions -> Numbers \cup {0}]
    OBVIOUS
  <2>2. /\ session \in 0 .. MaxSessions /\ drainLeft \in 0 .. ShutdownDrain
        /\ spent \in Nat
    BY PiAssumption
  <2>3. \A c, d \in children : c.item = d.item => c = d
    OBVIOUS
  <2>4. children \subseteq Children /\ spoiled \subseteq 1 .. MaxSessions
    OBVIOUS
  <2> QED
    BY <1>2, <2>1, <2>2, <2>3, <2>4 DEF TypeOK
<1>4. Numbered
  BY <1>1, PiAssumption DEF Numbered
<1>5. ChainOrder
  BY <1>1 DEF ChainOrder, Sorted
<1>6. Awaited /\ Stopped /\ Draining /\ Clock
  BY <1>1 DEF Awaited, Stopped, Draining, Clock
<1>7. Shutdowns /\ Past /\ RecordsBehind
  BY <1>1, <1>2 DEF Shutdowns, Past, RecordsBehind
<1>8. Completions
  BY <1>1 DEF Completions
<1>9. RecordsInOrder /\ CompletionSurvivesShutdown
  BY <1>2 DEF RecordsInOrder, CompletionSurvivesShutdown
<1> QED
  BY <1>3, <1>4, <1>5, <1>6, <1>7, <1>8, <1>9 DEF PiInv

LEMMA PiNextPreserves ==
  ASSUME PiInv, [Next]_vars
  PROVE  PiInv'
<1>1. CASE \E c \in children : HookRecords(c)
  BY <1>1, HookRecordsPreserves
<1>2. CASE \E c \in children : HookCloses(c)
  BY <1>2, HookClosesPreserves
<1>3. CASE HookTimers
  BY <1>3, HookTimesOutPreserves DEF HookTimers
<1>4. CASE SessionStart \/ Input \/ AgentEnd \/ AgentSettled
  BY <1>4, SessionStartPreserves, InputPreserves, AgentEndPreserves, AgentSettledPreserves
<1>5. CASE Shutdown \/ RunShutdownHook \/ ShutdownReturns
  BY <1>5, ShutdownPreserves, RunShutdownHookPreserves, ShutdownReturnsPreserves
<1>6. CASE Tick
  BY <1>6, TickPreserves
<1>7. CASE UNCHANGED vars
  <2> USE <1>7 DEF vars, hookVars, PiInv
  <2>1. TypeOK' /\ RecordsInOrder' /\ CompletionSurvivesShutdown'
    BY DEF TypeOK, RecordsInOrder, CompletionSurvivesShutdown
  <2>2. Numbered' /\ ChainOrder'
    BY DEF Numbered, ChainOrder, Pending, Waiting, Newest, IsShutdown, ItemsOf, Sorted
  <2>3. Awaited' /\ Stopped' /\ Draining' /\ Clock'
    BY DEF Awaited, Stopped, Draining, Clock, Waiting, Newest, IsShutdown, ItemsOf
  <2>4. Shutdowns' /\ Past' /\ RecordsBehind'
    BY DEF Shutdowns, Past, RecordsBehind, RecordedNo, Waiting, Ended, IsShutdown, ItemsOf
  <2>5. Completions'
    BY DEF Completions, RecordedNo, Pending, Waiting, Newest, Ended, ItemsOf
  <2> QED
    BY <2>1, <2>2, <2>3, <2>4, <2>5
<1> QED
  BY <1>1, <1>2, <1>3, <1>4, <1>5, <1>6, <1>7 DEF Next

LEMMA PiInductive == Spec => []PiInv
<1>1. Init => PiInv
  BY PiInitEstablishes
<1>2. PiInv /\ [Next]_vars => PiInv'
  BY PiNextPreserves
<1> QED
  BY <1>1, <1>2, PTL DEF Spec

(* The extension's state keeps its types, the chain has no queue when no   *)
(* hook is awaited, and an item has at most one process.                   *)
THEOREM PiTypeCorrect == Spec => []TypeOK
<1>1. PiInv => TypeOK
  BY DEF PiInv
<1> QED
  BY <1>1, PiInductive, PTL

(* session_shutdown returns after the drain and one hook's timeout,        *)
(* however many hooks hang: the drain is the longer, so the shutdown hook  *)
(* has settled before its own drain is over.                               *)
THEOREM PiShutdownIsBounded == Spec => []ShutdownIsBounded
<1>1. PiInv => ShutdownIsBounded
  <2> SUFFICES ASSUME PiInv
               PROVE  ShutdownIsBounded
    OBVIOUS
  <2>1. /\ spent \in Nat /\ drainLeft \in Nat
        /\ handler \in {"idle", "open", "draining", "stopping"}
        /\ ShutdownDrain \in Nat /\ HookTimeout \in Nat
    BY PiAssumption DEF PiInv, TypeOK
  <2> QED
    BY <2>1 DEF PiInv, Clock, ShutdownIsBounded
<1> QED
  BY <1>1, PiInductive, PTL

(* Hooks record their events in the order in which Pi gave them, and none  *)
(* of a session after its shutdown, unless a hook hung, failed or outlived *)
(* its kill in that session.                                               *)
THEOREM PiRecordsInOrder == Spec => []RecordsInOrder
<1>1. PiInv => RecordsInOrder
  BY DEF PiInv
<1> QED
  BY <1>1, PiInductive, PTL

(* A session's last completion is recorded before its shutdown, unless a   *)
(* hook hung, failed or outlived its kill in that session.                 *)
THEOREM PiCompletionSurvivesShutdown == Spec => []CompletionSurvivesShutdown
<1>1. PiInv => CompletionSurvivesShutdown
  BY DEF PiInv
<1> QED
  BY <1>1, PiInductive, PTL

=============================================================================
