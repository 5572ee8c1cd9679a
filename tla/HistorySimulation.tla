-------------------------- MODULE HistorySimulation --------------------------
(***************************************************************************)
(* history_simulation.py: simulate_history, the read-only replay of past   *)
(* sessions.  Session files are read one after the other, old ones skipped *)
(* by their modification time; what they saw becomes intervals, intervals  *)
(* a timeline of counts, and the newest moments of it are replayed through *)
(* the stages.                                                             *)
(*                                                                         *)
(* The files belong to other programs.  A file's content is decided when   *)
(* it is read; time is in steps of the record timestamps.                  *)
(***************************************************************************)
EXTENDS Integers, SequencesExt

Harnesses == {"codex", "pi"}

CONSTANTS
    HarnessOf,      \* the root each file is under, in the order they are read
    MaxExamples,    \* bound on --max-examples
    Since, Until,   \* the period: since and now
    TTL,            \* the heartbeat TTL
    Horizon,        \* bound on time stamps, which can be later than now
    MaxObserved,    \* bound on recognized records per file
    MaxSpoken       \* bound on completions with a text per file

ASSUME SimulationAssumption ==
    /\ HarnessOf \in Seq(Harnesses)
    /\ {MaxExamples, Since, Until, TTL, Horizon, MaxObserved, MaxSpoken} \subseteq Nat
    /\ Since <= Until /\ Until <= Horizon /\ TTL > 0

Files == DOMAIN HarnessOf
Time == 0 .. Horizon
Samples == [file : Files, at : Time]

VARIABLES
    step,           \* "read", "stage1", "stage2" or "done"
    mode,           \* ContextMode
    maxExamples,    \* max_examples
    content,        \* what the files read so far say (ghost)
    sources,        \* accepted, skipped, older_files_skipped
    intervals, samples, timeline,
    queue,          \* what is still to be replayed
    fallback,       \* stage one's verdict on the head of queue
    examples, counters

parsed == <<content, sources, intervals, samples>>
vars == <<step, mode, maxExamples, parsed, timeline, queue, fallback, examples, counters>>

Init ==
    /\ step = "read"
    /\ mode \in {"candid", "generic"} /\ maxExamples \in 0 .. MaxExamples
    /\ content = <<>>
    /\ sources = [accepted |-> 0, skipped |-> 0, older |-> 0]
    /\ intervals = {} /\ samples = {} /\ timeline = <<>>
    /\ queue = <<>> /\ fallback = FALSE /\ examples = <<>>
    /\ counters = [attempted |-> 0, admitted |-> 0, fallbacks |-> 0, errors |-> 0]

-----------------------------------------------------------------------------
(* Reading the files *)

(* Observed: recognized records.  Spoken: those with a text to reduce.     *)
(* Modified: st_mtime, which the last of them moved.                       *)
Contents ==
    {c \in [kind     : {"fine", "malformed", "unstatable"},
            observed : {O \in SUBSET Time : Cardinality(O) <= MaxObserved},
            spoken   : {S \in SUBSET Time : Cardinality(S) <= MaxSpoken},
            modified : Time] :
        /\ c.spoken \subseteq c.observed
        /\ \A o \in c.observed : o <= c.modified
        /\ c.modified = Horizon \/ c.modified \in c.observed
        /\ c.kind # "fine" => c.observed = {} /\ c.modified = Horizon}

(* Mutant of CouldOverlap: the last heartbeat's TTL is forgotten. *)
ModifiedSince(c) == c.kind # "unstatable" /\ c.modified >= Since

(* _file_could_overlap: a file last written before the period can still be *)
(* alive in it.                                                            *)
CouldOverlap(c) == c.kind # "unstatable" /\ c.modified + TTL >= Since

Earlier == {p \in Time \X Time : p[1] < p[2]}

(* The sort is stable: samples of one moment stay in the order read. *)
Before ==
    {p \in Samples \X Samples :
        \/ p[1].at < p[2].at
        \/ p[1].at = p[2].at /\ p[1].file < p[2].file}

Rank(S, x, order) == Cardinality({y \in S : <<y, x>> \in order})
Sorted(S, order) ==
    [n \in 1 .. Cardinality(S) |-> CHOOSE x \in S : Rank(S, x, order) = n - 1]

Extend(runs, t) ==
    IF runs # <<>> /\ t <= Last(runs).end
      THEN [runs EXCEPT ![Len(runs)].end = t + TTL]
      ELSE Append(runs, [start |-> t, end |-> t + TTL])

(* _contiguous_intervals: a record that comes by the end of the interval   *)
(* before it prolongs that interval.                                       *)
Runs(times) ==
    LET runs[n \in 0 .. Len(times)] ==
            IF n = 0 THEN <<>> ELSE Extend(runs[n - 1], times[n])
    IN  runs

ContiguousIntervals(observed) ==
    LET times == Sorted(observed, Earlier)
    IN  ToSet(Runs(times)[Len(times)])

Overlapping(c) == {i \in ContiguousIntervals(c.observed) : i.end > Since /\ i.start <= Until}

Latest(a, b) == IF a >= b THEN a ELSE b

(* One turn of the loop over the files. *)
ReadFile ==
    /\ step = "read" /\ Len(content) < Len(HarnessOf)
    /\ \E c \in Contents :
         LET f == Len(content) + 1 IN
         /\ mode = "generic" => c.spoken = {}
         /\ content' = Append(content, c)
         /\ \/ /\ ~CouldOverlap(c)
               /\ sources' = [sources EXCEPT !.older = @ + 1]
               /\ UNCHANGED <<intervals, samples>>
            \/ /\ CouldOverlap(c) /\ (c.kind = "malformed" \/ c.observed = {})
               /\ sources' = [sources EXCEPT !.skipped = @ + 1]
               /\ UNCHANGED <<intervals, samples>>
            \/ /\ CouldOverlap(c) /\ c.kind = "fine" /\ c.observed # {}
               /\ Overlapping(c) = {}
               /\ UNCHANGED <<sources, intervals, samples>>
            \/ /\ CouldOverlap(c) /\ Overlapping(c) # {}
               /\ sources' = [sources EXCEPT !.accepted = @ + 1]
               /\ intervals' = intervals \cup
                    {[file |-> f, start |-> Latest(i.start, Since), end |-> i.end] :
                        i \in Overlapping(c)}
               /\ samples' = samples \cup
                    {[file |-> f, at |-> t] : t \in c.spoken \cap Since .. Until}
    /\ UNCHANGED <<step, mode, maxExamples, timeline, queue, fallback, examples, counters>>

-----------------------------------------------------------------------------
(* The timeline *)

Of(h) == {i \in intervals : HarnessOf[i.file] = h}

(* _timeline: what has started and not ended at each change, and at the    *)
(* end of the period.                                                      *)
Chart ==
    LET ended(i) == i.end <= Until
        changes == {i.start : i \in intervals}
                     \cup {i.end : i \in {j \in intervals : ended(j)}}
    IN  [at \in changes \cup (IF changes = {} THEN {} ELSE {Until}) |->
            [h \in Harnesses |->
                Cardinality({i \in Of(h) : i.start <= at})
                  - Cardinality({i \in Of(h) : ended(i) /\ i.end <= at})]]

Total(line, at) == line[at]["codex"] + line[at]["pi"]

(* Mutant of Newest: Python's s[-0:] is all of s. *)
NewestSlice(s, n) == IF n = 0 \/ n >= Len(s) THEN s ELSE SubSeq(s, Len(s) - n + 1, Len(s))

(* s[-n:] if n else []. *)
Newest(s, n) == SubSeq(s, IF n >= Len(s) THEN 1 ELSE Len(s) - n + 1, Len(s))

Points(line) == Sorted({at \in DOMAIN line : Total(line, at) > 0}, Earlier)

(* Candid: the newest samples.  Generic: the newest moments with agents. *)
Draw ==
    /\ step = "read" /\ Len(content) = Len(HarnessOf)
    /\ timeline' = Chart
    /\ IF mode = "candid"
         THEN /\ queue' = Newest(Sorted(samples, Before), maxExamples)
              /\ step' = "stage1"
              /\ counters' = [counters EXCEPT !.attempted = Len(queue')]
         ELSE /\ queue' = [i \in 1 .. Len(Newest(Points(Chart), maxExamples)) |->
                              [file |-> 0, at |-> Newest(Points(Chart), maxExamples)[i]]]
              /\ step' = "stage2"
              /\ UNCHANGED counters
    /\ UNCHANGED <<mode, maxExamples, parsed, fallback, examples>>

-----------------------------------------------------------------------------
(* The replay *)

(* _aggregate_at: the last change up to then, and at least one agent. *)
AggregateAt(at) ==
    LET past == {t \in DOMAIN timeline : t <= at}
    IN  IF past = {} \/ Total(timeline, Max(past)) < 1 THEN 1 ELSE Total(timeline, Max(past))

Replayed(status) ==
    /\ examples' = Append(examples,
                          [at |-> Head(queue).at, count |-> AggregateAt(Head(queue).at),
                           status |-> status])
    /\ queue' = Tail(queue)
    /\ step' = IF mode = "candid" THEN "stage1" ELSE "stage2"

(* Stage one cannot be reached: the sample is an error and has no status. *)
StageOneFails ==
    /\ step = "stage1" /\ queue # <<>>
    /\ Replayed("error")
    /\ counters' = [counters EXCEPT !.errors = @ + 1]
    /\ UNCHANGED <<mode, maxExamples, parsed, timeline, fallback>>

(* Stage one admits an activity, or the sample falls back to generic. *)
StageOneDecides ==
    /\ step = "stage1" /\ queue # <<>>
    /\ fallback' \in BOOLEAN
    /\ counters' = IF fallback' THEN [counters EXCEPT !.fallbacks = @ + 1]
                                ELSE [counters EXCEPT !.admitted = @ + 1]
    /\ step' = "stage2"
    /\ UNCHANGED <<mode, maxExamples, parsed, timeline, queue, examples>>

Generates ==
    /\ step = "stage2" /\ queue # <<>>
    /\ Replayed("written")
    /\ UNCHANGED <<mode, maxExamples, parsed, timeline, fallback, counters>>

GenerationFails ==
    /\ step = "stage2" /\ queue # <<>>
    /\ Replayed("error")
    /\ counters' = [counters EXCEPT !.errors = @ + 1]
    /\ UNCHANGED <<mode, maxExamples, parsed, timeline, fallback>>

Report ==
    /\ step \in {"stage1", "stage2"} /\ queue = <<>>
    /\ step' = "done"
    /\ UNCHANGED <<mode, maxExamples, parsed, timeline, queue, fallback, examples, counters>>

Next ==
    \/ ReadFile \/ Draw
    \/ StageOneFails \/ StageOneDecides \/ Generates \/ GenerationFails
    \/ Report

Spec == Init /\ [][Next]_vars

Peak == Max({0} \cup {Total(timeline, at) : at \in DOMAIN timeline})

-----------------------------------------------------------------------------
(* The sessions of all files, those skipped for their age too, that had    *)
(* been seen within the TTL at an instant.                                 *)
AliveAt(h, t) ==
    {f \in Files : HarnessOf[f] = h /\ \E o \in content[f].observed : o <= t /\ t < o + TTL}

(* The timeline shows, for every instant of the period and each harness,   *)
(* as many agents as were alive then, and the peak is their maximum: the   *)
(* age test, the merging, the clipping at both ends and the coincidence    *)
(* of an end with a start lose and invent nothing                          *)
(* (history_simulation.py:63, 75-85, 380-391, 410-415, 451-481).           *)
TimelineIsExact ==
    step # "read" =>
        LET alive(h, t) == Cardinality(AliveAt(h, t))
            all(t) == alive("codex", t) + alive("pi", t)
        IN  /\ \A t \in Since .. Until, h \in Harnesses :
                 LET past == {u \in DOMAIN timeline : u <= t}
                 IN  alive(h, t) = IF past = {} THEN 0 ELSE timeline[Max(past)][h]
            /\ Peak = Max({all(t) : t \in Since .. Until})

(* A finished replay has the newest max_examples moments and no others,    *)
(* each with the number of agents alive then, of which the sample's own    *)
(* session is one; every attempt is admitted, a fallback or an error, and  *)
(* no error is lost (history_simulation.py:90-94, 146-215, 225, 289-307).  *)
ExamplesAreTrue ==
    step = "done" =>
        LET moments == IF mode = "candid"
                         THEN Sorted(samples, Before)
                         ELSE [i \in DOMAIN Points(timeline) |-> [at |-> Points(timeline)[i]]]
            n == Len(examples)
            failed == {i \in 1 .. n : examples[i].status = "error"}
            alive(t) == UNION {AliveAt(h, t) : h \in Harnesses}
        IN  /\ n = Min({maxExamples, Len(moments)})
            /\ \A i \in 1 .. n :
                 /\ examples[i].at = moments[Len(moments) - n + i].at
                 /\ examples[i].count = Cardinality(alive(examples[i].at))
                 /\ examples[i].count > 0
            /\ counters.errors = Cardinality(failed)
            /\ mode = "candid" =>
                 /\ counters.attempted = n
                 /\ counters.admitted + counters.fallbacks <= n
                 /\ n <= counters.admitted + counters.fallbacks + counters.errors

=============================================================================
