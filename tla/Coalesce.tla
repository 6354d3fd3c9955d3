------------------------------- MODULE Coalesce -------------------------------
(***************************************************************************)
(* coalesce and merge of the stackdriver adapter                           *)
(* (src/adapter/stackdriver/delta.go, lines 42-153), as the state machine  *)
(* of their loops.  The first loop turns every DELTA series into a         *)
(* CUMULATIVE one (widening an empty interval by one microsecond) and      *)
(* groups it under key{metric, resource}, a pair of POINTERS; other series *)
(* go straight to the output.  Then, for each group in map order, the      *)
(* group is sorted by start time (sort.Sort is not stable) and walked,     *)
(* merging the current series with the next one while their intervals     *)
(* touch or overlap at microsecond precision.                              *)
(*                                                                         *)
(* A timestamp is [sec, nanos] with nanos below USecPerSec * NanosPerUSec, *)
(* the scaled-down 10^9.  Each series carries, as a ghost field src, the   *)
(* input positions merged into it.                                         *)
(***************************************************************************)
EXTENDS Integers, Sequences, SequencesExt

CONSTANTS
    Keys,           \* distinct key{metric, resource} pointer pairs
    StreamOf,       \* StreamOf[k]: the metric and resource k points to
    TypeOf,         \* TypeOf[k]: value type of the metric behind k
    Vals,           \* point values
    Secs,           \* Timestamp.Seconds values
    NanosPerUSec,   \* int32(time.Microsecond), scaled down
    USecPerSec,     \* microseconds in a second, scaled down
    MaxLen          \* most series in one batch

ASSUME CoalesceAssumptions ==
    /\ NanosPerUSec \in Nat \ {0}
    /\ USecPerSec \in Nat \ {0}
    /\ MaxLen \in Nat \ {0}
    /\ Secs \subseteq Nat
    /\ Vals \subseteq Nat
    /\ TypeOf \in [Keys -> {"int64", "double", "distribution", "bool"}]

NanosLimit == USecPerSec * NanosPerUSec        \* a valid Timestamp has Nanos below it
Times == [sec : Secs, nanos : 0..(NanosLimit - 1)]
Kinds == {"DELTA", "CUMULATIVE", "GAUGE"}

\* toUSec: nanoseconds truncated to microseconds.
ToUSec(nanos) == nanos \div NanosPerUSec

\* compareUSec: < 0, 0, > 0 as a is before, at, after b, to the microsecond.
CompareUSec(a, b) ==
    IF a.sec = b.sec THEN ToUSec(a.nanos) - ToUSec(b.nanos) ELSE a.sec - b.sec

\* Timestamps ordered to the nanosecond.
NotAfter(a, b) == a.sec < b.sec \/ (a.sec = b.sec /\ a.nanos <= b.nanos)

\* The series Record may hand over, with a start no later than its end.
InSeries ==
    {ts \in [key : Keys, kind : {"DELTA", "GAUGE"}, start : Times, end : Times,
             val : Vals] : NotAfter(ts.start, ts.end)}

Inputs == UNION {[1..n -> InSeries] : n \in 1..MaxLen}

\* The munging of the first loop: a DELTA becomes CUMULATIVE, and an interval
\* empty at microsecond precision gets EndTime.Nanos += usec (no carry into
\* the seconds).
Munge(ts, i) ==
    [key |-> ts.key, kind |-> "CUMULATIVE", start |-> ts.start,
     end |-> IF CompareUSec(ts.start, ts.end) = 0
             THEN [ts.end EXCEPT !.nanos = @ + NanosPerUSec]
             ELSE ts.end,
     val |-> ts.val, src |-> {i}]

\* Mutant: the values of merged series are not added up.
MergeNoSum(a, b) ==
    CASE TypeOf[a.key] \in {"int64", "double"} /\ TypeOf[b.key] = TypeOf[a.key] ->
            [a EXCEPT !.end = b.end, !.src = a.src \cup b.src]
      [] TypeOf[a.key] = "distribution" /\ TypeOf[b.key] = "distribution" ->
            [a EXCEPT !.end = b.end, !.src = a.src \cup b.src]
      [] OTHER -> a

\* merge(a, b): values of the same numeric type are added, distributions are
\* left as a's (the TODO), any other combination is an error that leaves a
\* unchanged; on success a's interval ends where b's ends.
Merge(a, b) ==
    CASE TypeOf[a.key] \in {"int64", "double"} /\ TypeOf[b.key] = TypeOf[a.key] ->
            [a EXCEPT !.val = a.val + b.val, !.end = b.end, !.src = a.src \cup b.src]
      [] TypeOf[a.key] = "distribution" /\ TypeOf[b.key] = "distribution" ->
            [a EXCEPT !.end = b.end, !.src = a.src \cup b.src]
      [] OTHER -> a

\* sort.Sort(byStartTimeUSec(ts)): any order sorted by start microsecond.
SortedOrders(s) ==
    {[i \in 1..Len(s) |-> s[p[i]]] :
        p \in {q \in [1..Len(s) -> 1..Len(s)] : IsInjective(q)
               /\ \A i \in 1..(Len(s) - 1) :
                    CompareUSec(s[q[i]].start, s[q[i + 1]].start) <= 0}}

VARIABLES
    input,      \* the series passed in
    pos,        \* next position of the first loop
    byMetric,   \* the groups built so far, a function of their keys
    visited,    \* groups the second loop is done with
    current,    \* the series being grown by merges, as a one-element sequence
    rest,       \* the sorted group after current
    out,        \* the result
    pc          \* "scan", "walk" or "done"

vars == <<input, pos, byMetric, visited, current, rest, out, pc>>

Init ==
    /\ input \in Inputs
    /\ pos = 1
    /\ byMetric = [k \in {} |-> <<>>]
    /\ visited = {}
    /\ current = <<>>
    /\ rest = <<>>
    /\ out = <<>>
    /\ pc = "scan"

\* First loop, a DELTA series: munged and appended to its group
\* (byMetric[k] = append(byMetric[k], ts), a missing key reading as nil).
ScanDelta ==
    /\ pc = "scan"
    /\ pos <= Len(input)
    /\ input[pos].kind = "DELTA"
    /\ LET ts == Munge(input[pos], pos)
           k == input[pos].key
           group == IF k \in DOMAIN byMetric THEN byMetric[k] ELSE <<>> IN
       byMetric' = [j \in DOMAIN byMetric \cup {k} |->
                      IF j = k THEN Append(group, ts) ELSE byMetric[j]]
    /\ pos' = pos + 1
    /\ UNCHANGED <<input, visited, current, rest, out, pc>>

\* First loop, any other series: straight to the output.
ScanOther ==
    /\ pc = "scan"
    /\ pos <= Len(input)
    /\ input[pos].kind # "DELTA"
    /\ out' = Append(out, [key |-> input[pos].key, kind |-> input[pos].kind,
                           start |-> input[pos].start, end |-> input[pos].end,
                           val |-> input[pos].val, src |-> {pos}])
    /\ pos' = pos + 1
    /\ UNCHANGED <<input, byMetric, visited, current, rest, pc>>

ScanDone ==
    /\ pc = "scan"
    /\ pos > Len(input)
    /\ pc' = "walk"
    /\ UNCHANGED <<input, pos, byMetric, visited, current, rest, out>>

\* Second loop: the next group in map order is sorted; current := ts[0].
StartGroup ==
    /\ pc = "walk"
    /\ current = <<>>
    /\ \E k \in DOMAIN byMetric \ visited :
          /\ visited' = visited \cup {k}
          /\ \E s \in SortedOrders(byMetric[k]) :
                /\ current' = <<Head(s)>>
                /\ rest' = Tail(s)
    /\ UNCHANGED <<input, pos, byMetric, out, pc>>

\* The next series starts no later than current ends: merge them; on an
\* error current is unchanged and the next series is dropped.
MergeNext ==
    /\ current # <<>>
    /\ rest # <<>>
    /\ CompareUSec(current[1].end, Head(rest).start) >= 0
    /\ current' = <<Merge(current[1], Head(rest))>>
    /\ rest' = Tail(rest)
    /\ UNCHANGED <<input, pos, byMetric, visited, out, pc>>

\* Mutant: series that only touch are treated as non-overlapping.
AdvanceNextTouch ==
    /\ current # <<>>
    /\ rest # <<>>
    /\ CompareUSec(current[1].end, Head(rest).start) <= 0
    /\ out' = Append(out, current[1])
    /\ current' = <<Head(rest)>>
    /\ rest' = Tail(rest)
    /\ UNCHANGED <<input, pos, byMetric, visited, pc>>

\* Non-overlapping: current is output and the next series becomes current.
AdvanceNext ==
    /\ current # <<>>
    /\ rest # <<>>
    /\ CompareUSec(current[1].end, Head(rest).start) < 0
    /\ out' = Append(out, current[1])
    /\ current' = <<Head(rest)>>
    /\ rest' = Tail(rest)
    /\ UNCHANGED <<input, pos, byMetric, visited, pc>>

\* "Get the last one".
FlushGroup ==
    /\ current # <<>>
    /\ rest = <<>>
    /\ out' = Append(out, current[1])
    /\ current' = <<>>
    /\ UNCHANGED <<input, pos, byMetric, visited, rest, pc>>

WalkDone ==
    /\ pc = "walk"
    /\ current = <<>>
    /\ visited = DOMAIN byMetric
    /\ pc' = "done"
    /\ UNCHANGED <<input, pos, byMetric, visited, current, rest, out>>

\* coalesce has returned.
Returned ==
    /\ pc = "done"
    /\ UNCHANGED vars

Next ==
    \/ ScanDelta \/ ScanOther \/ ScanDone
    \/ StartGroup \/ MergeNext \/ AdvanceNext \/ FlushGroup \/ WalkDone
    \/ Returned

Spec == Init /\ [][Next]_vars /\ WF_vars(Next)

-----------------------------------------------------------------------------
Series == [key : Keys, kind : Kinds, start : [sec : Secs, nanos : Nat],
           end : [sec : Secs, nanos : Nat], val : Nat, src : SUBSET (1..MaxLen)]

TypeOK ==
    /\ input \in Inputs
    /\ pos \in 1..(Len(input) + 1)
    /\ DOMAIN byMetric \subseteq Keys
    /\ \A k \in DOMAIN byMetric : byMetric[k] \in Seq(Series)
    /\ visited \subseteq DOMAIN byMetric
    /\ current \in Seq(Series) /\ Len(current) <= 1
    /\ rest \in Seq(Series)
    /\ out \in Seq(Series)
    /\ pc \in {"scan", "walk", "done"}

\* Two output points whose intervals are apart at microsecond precision.
Apart(a, b) == CompareUSec(a.end, b.start) < 0 \/ CompareUSec(b.end, a.start) < 0

\* Positions of the output series that came from DELTA series of key k.
OutOf(k) == {i \in 1..Len(out) : out[i].kind = "CUMULATIVE" /\ out[i].key = k}
InOf(k) == {i \in 1..Len(input) : input[i].kind = "DELTA" /\ input[i].key = k}

\* Within one group (one key) the returned CUMULATIVE points have pairwise
\* disjoint intervals, touching ones included: what Stackdriver requires of
\* a stream, for the streams coalesce can tell apart.
NoOverlapPerKey ==
    pc = "done" =>
        \A k \in Keys : \A i, j \in OutOf(k) : i # j => Apart(out[i], out[j])

\* For every key of a numeric metric, the returned points add up to the
\* DELTA values passed in: merging loses and invents nothing.
ValuePreserved ==
    pc = "done" =>
        \A k \in Keys : TypeOf[k] \in {"int64", "double"} =>
            SumFunctionOnSet([i \in 1..Len(out) |-> out[i].val], OutOf(k))
                = SumFunctionOnSet([i \in 1..Len(input) |-> input[i].val], InOf(k))

\* The comment of delta.go: no two points of one metric stream, a Metric
\* and MonitoredResource pair by content, have overlapping intervals.
NoOverlapPerStream ==
    pc = "done" =>
        \A i, j \in 1..Len(out) :
            (/\ i # j
             /\ out[i].kind = "CUMULATIVE" /\ out[j].kind = "CUMULATIVE"
             /\ StreamOf[out[i].key] = StreamOf[out[j].key])
            => Apart(out[i], out[j])

\* "merging all timeseries with overlapping time intervals": a merged point
\* spans the interval of every series merged into it.
MergedIntervalCovers ==
    pc = "done" =>
        \A e \in 1..Len(out) : \A i \in out[e].src :
            /\ CompareUSec(out[e].start, input[i].start) <= 0
            /\ CompareUSec(input[i].end, out[e].end) <= 0

\* Every timestamp coalesce returns is a valid protobuf Timestamp: its nanos
\* are below one second.
TimestampsValid ==
    \A e \in 1..Len(out) :
        out[e].start.nanos < NanosLimit /\ out[e].end.nanos < NanosLimit

=============================================================================
