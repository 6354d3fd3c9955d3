---------------------------- MODULE CoalesceProofs ----------------------------
(***************************************************************************)
(* Proof that coalesce (src/adapter/stackdriver/delta.go) returns, for     *)
(* each key, CUMULATIVE points with pairwise disjoint intervals, for every *)
(* set of keys, value types, timestamps and batch length.                  *)
(*                                                                         *)
(* NoOverlapPerKey is not inductive: it says nothing of the series being   *)
(* merged.  The walk keeps it because each group is sorted by start time  *)
(* and walked once: every point already returned for the group of current  *)
(* ends before current starts, and current starts no later than the rest  *)
(* of its sorted group.                                                    *)
(***************************************************************************)
EXTENDS Coalesce, SequenceTheorems, TLAPS

\* Every group is non-empty and holds the munged (CUMULATIVE) series of its
\* own key.
GroupsInv ==
    \A k \in DOMAIN byMetric :
        /\ byMetric[k] # <<>>
        /\ \A i \in 1..Len(byMetric[k]) :
              byMetric[k][i].key = k /\ byMetric[k][i].kind = "CUMULATIVE"

\* A returned CUMULATIVE point belongs to a group the walk has started.
OutVisited ==
    \A i \in 1..Len(out) : out[i].kind = "CUMULATIVE" => out[i].key \in visited

\* current and rest are the remainder of one started group.
CurInv ==
    /\ current = <<>> => rest = <<>>
    /\ current # <<>> =>
          /\ current[1].kind = "CUMULATIVE"
          /\ current[1].key \in visited
          /\ \A i \in 1..Len(rest) :
                rest[i].key = current[1].key /\ rest[i].kind = "CUMULATIVE"

\* The rest of the group is sorted by start, and starts no earlier than current.
SortedInv ==
    current # <<>> =>
        /\ rest # <<>> => CompareUSec(current[1].start, rest[1].start) <= 0
        /\ \A i \in 1..(Len(rest) - 1) :
              CompareUSec(rest[i].start, rest[i + 1].start) <= 0

\* Every point returned for current's group ends before current starts.
BeforeInv ==
    current # <<>> =>
        \A i \in 1..Len(out) :
            out[i].kind = "CUMULATIVE" /\ out[i].key = current[1].key
                => CompareUSec(out[i].end, current[1].start) < 0

\* NoOverlapPerKey at every step of coalesce, not only once it has returned.
KeyApart ==
    \A k \in Keys : \A i, j \in OutOf(k) : i # j => Apart(out[i], out[j])

IInv ==
    /\ TypeOK
    /\ GroupsInv
    /\ OutVisited
    /\ CurInv
    /\ SortedInv
    /\ BeforeInv
    /\ KeyApart

-----------------------------------------------------------------------------
(* Lemmas on the data: inputs are sequences, microsecond comparison is a   *)
(* preorder, and merge keeps a series' key, kind and start.               *)

Stamps == [sec : Secs, nanos : Nat]

USE CoalesceAssumptions

\* The series passed to coalesce form a sequence of at most MaxLen series.
LEMMA InputsSeq ==
    ASSUME NEW in \in Inputs
    PROVE  in \in Seq(InSeries) /\ Len(in) \in 1..MaxLen
<1>1. PICK n \in 1..MaxLen : in \in [1..n -> InSeries]
    BY DEF Inputs
<1>2. in \in Seq(InSeries)
    BY <1>1
<1>3. Len(in) = n
    BY <1>1, <1>2, LenProperties
<1> QED
    BY <1>2, <1>3

\* toUSec of a nanosecond count is an integer.
LEMMA ToUSecInt ==
    ASSUME NEW n \in Nat
    PROVE  ToUSec(n) \in Int
BY DEF ToUSec

\* compareUSec orders timestamps by second, then by microsecond.
LEMMA CompareTrans ==
    ASSUME NEW a \in Stamps, NEW b \in Stamps, NEW c \in Stamps,
           CompareUSec(a, b) <= 0, CompareUSec(b, c) <= 0
    PROVE  /\ CompareUSec(a, c) <= 0
           /\ CompareUSec(a, b) < 0 => CompareUSec(a, c) < 0
<1>1. ToUSec(a.nanos) \in Int /\ ToUSec(b.nanos) \in Int /\ ToUSec(c.nanos) \in Int
    BY ToUSecInt DEF Stamps
<1>2. a.sec \in Nat /\ b.sec \in Nat /\ c.sec \in Nat
    BY DEF Stamps
<1>3. CASE a.sec = b.sec /\ b.sec = c.sec
    BY <1>1, <1>3 DEF CompareUSec
<1>4. CASE a.sec = b.sec /\ b.sec # c.sec
    BY <1>2, <1>4 DEF CompareUSec
<1>5. CASE a.sec # b.sec /\ b.sec = c.sec
    BY <1>2, <1>5 DEF CompareUSec
<1>6. CASE a.sec # b.sec /\ b.sec # c.sec
    BY <1>2, <1>6 DEF CompareUSec
<1> QED
    BY <1>3, <1>4, <1>5, <1>6

\* A point that ends before b starts ends before anything starting after b.
LEMMA CompareTransStrict ==
    ASSUME NEW a \in Stamps, NEW b \in Stamps, NEW c \in Stamps,
           CompareUSec(a, b) < 0, CompareUSec(b, c) <= 0
    PROVE  CompareUSec(a, c) < 0
<1>1. ToUSec(a.nanos) \in Int /\ ToUSec(b.nanos) \in Int /\ ToUSec(c.nanos) \in Int
    BY ToUSecInt DEF Stamps
<1>2. a.sec \in Nat /\ b.sec \in Nat /\ c.sec \in Nat
    BY DEF Stamps
<1>3. CASE a.sec = b.sec /\ b.sec = c.sec
    BY <1>1, <1>3 DEF CompareUSec
<1>4. CASE a.sec = b.sec /\ b.sec # c.sec
    BY <1>2, <1>4 DEF CompareUSec
<1>5. CASE a.sec # b.sec /\ b.sec = c.sec
    BY <1>2, <1>5 DEF CompareUSec
<1>6. CASE a.sec # b.sec /\ b.sec # c.sec
    BY <1>2, <1>6 DEF CompareUSec
<1> QED
    BY <1>3, <1>4, <1>5, <1>6

\* Each arm of merge's switch keeps a's key, kind and start.
LEMMA MergeKeeps ==
    ASSUME NEW a \in Series, NEW b \in Series
    PROVE  /\ Merge(a, b) \in Series
           /\ Merge(a, b).key = a.key
           /\ Merge(a, b).kind = a.kind
           /\ Merge(a, b).start = a.start
<1>1. CASE TypeOf[a.key] \in {"int64", "double"} /\ TypeOf[b.key] = TypeOf[a.key]
    <2>1. Merge(a, b) = [a EXCEPT !.val = a.val + b.val, !.end = b.end,
                                   !.src = a.src \cup b.src]
        BY <1>1 DEF Merge
    <2>2. Merge(a, b) = [key |-> a.key, kind |-> a.kind, start |-> a.start,
                         end |-> b.end, val |-> a.val + b.val,
                         src |-> a.src \cup b.src]
        BY <2>1 DEF Series
    <2> QED
        BY <2>2 DEF Series
<1>2. CASE ~(TypeOf[a.key] \in {"int64", "double"} /\ TypeOf[b.key] = TypeOf[a.key])
           /\ TypeOf[a.key] = "distribution" /\ TypeOf[b.key] = "distribution"
    <2>1. Merge(a, b) = [a EXCEPT !.end = b.end, !.src = a.src \cup b.src]
        BY <1>2 DEF Merge
    <2>2. Merge(a, b) = [key |-> a.key, kind |-> a.kind, start |-> a.start,
                         end |-> b.end, val |-> a.val, src |-> a.src \cup b.src]
        BY <2>1 DEF Series
    <2> QED
        BY <2>2 DEF Series
<1>3. CASE ~(TypeOf[a.key] \in {"int64", "double"} /\ TypeOf[b.key] = TypeOf[a.key])
           /\ ~(TypeOf[a.key] = "distribution" /\ TypeOf[b.key] = "distribution")
    <2>1. Merge(a, b) = a
        BY <1>3 DEF Merge
    <2> QED
        BY <2>1
<1> QED
    BY <1>1, <1>2, <1>3

\* The munged series is a CUMULATIVE series of the same key.
LEMMA MungeSeries ==
    ASSUME NEW ts \in InSeries, NEW i \in 1..MaxLen
    PROVE  /\ Munge(ts, i) \in Series
           /\ Munge(ts, i).key = ts.key
           /\ Munge(ts, i).kind = "CUMULATIVE"
<1>1. ts.end \in [sec : Secs, nanos : Nat]
    BY DEF InSeries, Times, NanosLimit
<1>2. [ts.end EXCEPT !.nanos = @ + NanosPerUSec] \in [sec : Secs, nanos : Nat]
    BY <1>1
<1>3. ts.start \in [sec : Secs, nanos : Nat]
    BY DEF InSeries, Times, NanosLimit
<1>4. ts.key \in Keys /\ ts.val \in Vals
    BY DEF InSeries
<1> QED
    BY <1>2, <1>3, <1>4, <1>1 DEF Munge, Series, Kinds

\* The series at pos, read by the first loop.
LEMMA ScanPos ==
    ASSUME TypeOK, pos <= Len(input)
    PROVE  /\ input[pos] \in InSeries
           /\ pos \in 1..MaxLen
           /\ input[pos].kind \in {"DELTA", "GAUGE"}
<1>1. input \in Seq(InSeries) /\ Len(input) \in 1..MaxLen
    BY InputsSeq DEF TypeOK
<1>2. pos \in 1..Len(input)
    BY <1>1 DEF TypeOK
<1>3. input[pos] \in InSeries
    BY <1>1, <1>2
<1> QED
    BY <1>1, <1>2, <1>3 DEF InSeries

\* A sorted order of a group holds the group's series, each start no later
\* than the next one's.
LEMMA SortedOrderProps ==
    ASSUME NEW g \in Seq(Series), NEW s \in SortedOrders(g)
    PROVE  /\ s \in Seq(Series)
           /\ Len(s) = Len(g)
           /\ \A i \in 1..Len(s) : \E m \in 1..Len(g) : s[i] = g[m]
           /\ \A i \in 1..(Len(s) - 1) : CompareUSec(s[i].start, s[i + 1].start) <= 0
<1>1. PICK p \in [1..Len(g) -> 1..Len(g)] :
         /\ \A i \in 1..(Len(g) - 1) : CompareUSec(g[p[i]].start, g[p[i + 1]].start) <= 0
         /\ s = [i \in 1..Len(g) |-> g[p[i]]]
    BY DEF SortedOrders
<1>2. Len(g) \in Nat /\ \A m \in 1..Len(g) : g[m] \in Series
    BY LenProperties
<1>3. s \in [1..Len(g) -> Series]
    BY <1>1, <1>2
<1>4. s \in Seq(Series)
    BY <1>2, <1>3
<1>5. Len(s) = Len(g)
    BY <1>2, <1>3, <1>4, LenProperties
<1>6. \A i \in 1..Len(s) : s[i] = g[p[i]] /\ p[i] \in 1..Len(g)
    BY <1>1, <1>5
<1>7. \A i \in 1..(Len(s) - 1) : CompareUSec(s[i].start, s[i + 1].start) <= 0
    <2> SUFFICES ASSUME NEW i \in 1..(Len(s) - 1)
                 PROVE  CompareUSec(s[i].start, s[i + 1].start) <= 0
        OBVIOUS
    <2>1. s[i] = g[p[i]] /\ s[i + 1] = g[p[i + 1]]
        BY <1>2, <1>5, <1>6
    <2> QED
        BY <1>1, <1>5, <2>1
<1> QED
    BY <1>4, <1>5, <1>6, <1>7

-----------------------------------------------------------------------------
THEOREM InitIInv == Init => IInv
<1> SUFFICES ASSUME Init PROVE IInv
    OBVIOUS
<1>1. input \in Seq(InSeries) /\ Len(input) \in 1..MaxLen
    BY InputsSeq DEF Init
<1>2. TypeOK
    BY <1>1 DEF Init, TypeOK
<1>3. Len(out) = 0 /\ DOMAIN byMetric = {} /\ current = <<>> /\ rest = <<>>
    BY DEF Init
<1> QED
    BY <1>2, <1>3 DEF IInv, GroupsInv, OutVisited, CurInv, SortedInv, BeforeInv,
                      KeyApart, OutOf


THEOREM ScanDeltaIInv ==
    ASSUME IInv, ScanDelta PROVE IInv'
<1> DEFINE ts == Munge(input[pos], pos)
           k == input[pos].key
           old == IF k \in DOMAIN byMetric THEN byMetric[k] ELSE <<>>
<1>0. TypeOK
    BY DEF IInv
<1>1. ts \in Series /\ ts.key = k /\ ts.kind = "CUMULATIVE" /\ k \in Keys
    BY <1>0, ScanPos, MungeSeries DEF ScanDelta, InSeries
<1>2. old \in Seq(Series)
    BY <1>0 DEF TypeOK
<1>3. /\ DOMAIN byMetric' = DOMAIN byMetric \cup {k}
      /\ byMetric'[k] = Append(old, ts)
      /\ \A j \in DOMAIN byMetric \ {k} : byMetric'[j] = byMetric[j]
    BY DEF ScanDelta
<1>4. /\ Append(old, ts) \in Seq(Series)
      /\ Len(Append(old, ts)) = Len(old) + 1
      /\ \A i \in 1..Len(old) : Append(old, ts)[i] = old[i]
      /\ Append(old, ts)[Len(old) + 1] = ts
    BY <1>1, <1>2, AppendProperties
<1>5. TypeOK'
    <2>1. pos' \in 1..(Len(input') + 1)
        BY <1>0, ScanPos DEF ScanDelta, TypeOK
    <2>2. DOMAIN byMetric' \subseteq Keys /\ visited' \subseteq DOMAIN byMetric'
        BY <1>0, <1>1, <1>3 DEF ScanDelta, TypeOK
    <2>3. \A j \in DOMAIN byMetric' : byMetric'[j] \in Seq(Series)
        BY <1>0, <1>3, <1>4 DEF TypeOK
    <2> QED
        BY <1>0, <2>1, <2>2, <2>3 DEF ScanDelta, TypeOK
<1>6. GroupsInv'
    <2> SUFFICES ASSUME NEW j \in DOMAIN byMetric'
                 PROVE  /\ byMetric'[j] # <<>>
                        /\ \A i \in 1..Len(byMetric'[j]) :
                              byMetric'[j][i].key = j /\ byMetric'[j][i].kind = "CUMULATIVE"
        BY DEF GroupsInv
    <2>1. CASE j = k
        <3>1. \A i \in 1..Len(old) : old[i].key = k /\ old[i].kind = "CUMULATIVE"
            BY DEF IInv, GroupsInv
        <3>2. Len(old) \in Nat
            BY <1>2
        <3> QED
            BY <2>1, <1>1, <1>3, <1>4, <3>1, <3>2
    <2>2. CASE j # k
        BY <2>2, <1>3 DEF IInv, GroupsInv
    <2> QED
        BY <2>1, <2>2
<1> QED
    BY <1>5, <1>6 DEF ScanDelta, IInv, OutVisited, CurInv, SortedInv, BeforeInv,
                      KeyApart, OutOf


THEOREM ScanOtherIInv ==
    ASSUME IInv, ScanOther PROVE IInv'
<1> DEFINE r == [key |-> input[pos].key, kind |-> input[pos].kind,
                 start |-> input[pos].start, end |-> input[pos].end,
                 val |-> input[pos].val, src |-> {pos}]
<1>0. TypeOK
    BY DEF IInv
<1>1. r \in Series /\ r.kind # "CUMULATIVE"
    <2>1. input[pos] \in InSeries /\ pos \in 1..MaxLen /\ input[pos].kind = "GAUGE"
        BY <1>0, ScanPos DEF ScanOther
    <2>2. input[pos].start \in [sec : Secs, nanos : Nat]
        BY <2>1 DEF InSeries, Times, NanosLimit
    <2>3. input[pos].end \in [sec : Secs, nanos : Nat]
        BY <2>1 DEF InSeries, Times, NanosLimit
    <2>4. input[pos].key \in Keys /\ input[pos].val \in Vals
        BY <2>1 DEF InSeries
    <2> QED
        BY <2>1, <2>2, <2>3, <2>4 DEF Series, Kinds
<1>2. out' = Append(out, r)
    BY DEF ScanOther
<1>3. /\ out' \in Seq(Series)
      /\ Len(out') = Len(out) + 1
      /\ \A i \in 1..Len(out) : out'[i] = out[i]
      /\ out'[Len(out) + 1] = r
    BY <1>0, <1>1, <1>2, AppendProperties DEF TypeOK
<1>4. \A i \in 1..Len(out') : out'[i].kind = "CUMULATIVE" => i \in 1..Len(out) /\ out'[i] = out[i]
    BY <1>0, <1>1, <1>3 DEF TypeOK
<1>5. TypeOK'
    <2>1. pos' \in 1..(Len(input') + 1)
        BY <1>0, ScanPos DEF ScanOther, TypeOK
    <2> QED
        BY <1>0, <1>3, <2>1 DEF ScanOther, TypeOK
<1>6. OutVisited' /\ BeforeInv'
    BY <1>4 DEF IInv, OutVisited, BeforeInv, ScanOther
<1>7. KeyApart'
    <2> SUFFICES ASSUME NEW k \in Keys, NEW i \in OutOf(k)', NEW j \in OutOf(k)', i # j
                 PROVE  Apart(out'[i], out'[j])
        BY DEF KeyApart
    <2>1. i \in OutOf(k) /\ j \in OutOf(k) /\ out'[i] = out[i] /\ out'[j] = out[j]
        BY <1>4 DEF OutOf
    <2> QED
        BY <2>1 DEF IInv, KeyApart
<1> QED
    BY <1>5, <1>6, <1>7 DEF ScanOther, IInv, GroupsInv, CurInv, SortedInv

THEOREM ScanDoneIInv ==
    ASSUME IInv, ScanDone PROVE IInv'
BY DEF ScanDone, IInv, TypeOK, GroupsInv, OutVisited, CurInv, SortedInv, BeforeInv,
       KeyApart, OutOf

THEOREM WalkDoneIInv ==
    ASSUME IInv, WalkDone PROVE IInv'
BY DEF WalkDone, IInv, TypeOK, GroupsInv, OutVisited, CurInv, SortedInv, BeforeInv,
       KeyApart, OutOf

THEOREM StutterIInv ==
    ASSUME IInv, UNCHANGED vars PROVE IInv'
BY DEF vars, IInv, TypeOK, GroupsInv, OutVisited, CurInv, SortedInv, BeforeInv,
       KeyApart, OutOf


THEOREM StartGroupIInv ==
    ASSUME IInv, StartGroup PROVE IInv'
<1>0. TypeOK /\ rest = <<>>
    BY DEF IInv, CurInv, StartGroup
<1>1. PICK k \in DOMAIN byMetric \ visited :
         /\ visited' = visited \cup {k}
         /\ \E s \in SortedOrders(byMetric[k]) :
               current' = <<Head(s)>> /\ rest' = Tail(s)
    BY DEF StartGroup
<1>2. PICK s \in SortedOrders(byMetric[k]) : current' = <<Head(s)>> /\ rest' = Tail(s)
    BY <1>1
<1> DEFINE g == byMetric[k]
<1>3. /\ g \in Seq(Series)
      /\ g # <<>>
      /\ \A m \in 1..Len(g) : g[m].key = k /\ g[m].kind = "CUMULATIVE"
    BY <1>0 DEF IInv, GroupsInv, TypeOK
<1>4. /\ s \in Seq(Series)
      /\ Len(s) = Len(g)
      /\ \A i \in 1..Len(s) : \E m \in 1..Len(g) : s[i] = g[m]
      /\ \A i \in 1..(Len(s) - 1) : CompareUSec(s[i].start, s[i + 1].start) <= 0
    BY <1>3, SortedOrderProps
<1>5. s # <<>> /\ Len(s) \in Nat \ {0}
    BY <1>3, <1>4, EmptySeq
<1>6. \A i \in 1..Len(s) : s[i].key = k /\ s[i].kind = "CUMULATIVE"
    BY <1>3, <1>4
<1>7. /\ Head(s) = s[1] /\ Head(s) \in Series
      /\ Tail(s) \in Seq(Series)
      /\ Len(Tail(s)) = Len(s) - 1
      /\ \A i \in 1..Len(Tail(s)) : Tail(s)[i] = s[i + 1]
    BY <1>4, <1>5, HeadTailProperties
<1>8. TypeOK'
    <2>1. current' \in Seq(Series) /\ Len(current') <= 1
        BY <1>2, <1>7
    <2>2. visited' \subseteq DOMAIN byMetric'
        BY <1>0, <1>1 DEF StartGroup, TypeOK
    <2> QED
        BY <1>0, <1>2, <1>7, <2>1, <2>2 DEF StartGroup, TypeOK
<1>9. CurInv'
    <2>1. current' # <<>> /\ current'[1] = s[1]
        BY <1>2, <1>7
    <2>2. s[1].kind = "CUMULATIVE" /\ s[1].key = k /\ k \in visited'
        BY <1>1, <1>5, <1>6
    <2>3. \A i \in 1..Len(rest') : rest'[i].key = k /\ rest'[i].kind = "CUMULATIVE"
        BY <1>2, <1>5, <1>6, <1>7
    <2> QED
        BY <2>1, <2>2, <2>3 DEF CurInv
<1>10. SortedInv'
    <2>1. rest' # <<>> => CompareUSec(current'[1].start, rest'[1].start) <= 0
        BY <1>2, <1>4, <1>5, <1>7
    <2>2. \A i \in 1..(Len(rest') - 1) : CompareUSec(rest'[i].start, rest'[i + 1].start) <= 0
        BY <1>2, <1>4, <1>5, <1>7
    <2> QED
        BY <2>1, <2>2 DEF SortedInv
<1>11. BeforeInv'
    BY <1>1, <1>2, <1>5, <1>6, <1>7 DEF StartGroup, IInv, OutVisited, BeforeInv
<1> QED
    BY <1>8, <1>9, <1>10, <1>11, <1>1
    DEF StartGroup, IInv, GroupsInv, OutVisited, KeyApart, OutOf


\* Returning current keeps the returned points of every key apart: every
\* earlier point of its key ends before current starts.
LEMMA AppendCurrent ==
    ASSUME IInv, current # <<>>, out' = Append(out, current[1]), visited' = visited
    PROVE  /\ out' \in Seq(Series)
           /\ Len(out') = Len(out) + 1
           /\ \A i \in 1..Len(out) : out'[i] = out[i]
           /\ out'[Len(out) + 1] = current[1]
           /\ OutVisited'
           /\ KeyApart'
<1> DEFINE c == current[1]
<1>0. TypeOK
    BY DEF IInv
<1>1. c \in Series /\ c.kind = "CUMULATIVE" /\ c.key \in visited
    BY <1>0, EmptySeq DEF TypeOK, IInv, CurInv
<1>2. /\ out' \in Seq(Series)
      /\ Len(out') = Len(out) + 1
      /\ \A i \in 1..Len(out) : out'[i] = out[i]
      /\ out'[Len(out) + 1] = c
    BY <1>0, <1>1, AppendProperties DEF TypeOK
<1>3. Len(out) \in Nat
    BY <1>0 DEF TypeOK
<1>4. OutVisited'
    BY <1>1, <1>2, <1>3 DEF IInv, OutVisited
<1>5. KeyApart'
    <2> SUFFICES ASSUME NEW k \in Keys, NEW i \in OutOf(k)', NEW j \in OutOf(k)', i # j
                 PROVE  Apart(out'[i], out'[j])
        BY DEF KeyApart
    <2>1. CASE i \in 1..Len(out) /\ j \in 1..Len(out)
        BY <2>1, <1>2 DEF IInv, KeyApart, OutOf
    <2>2. ASSUME NEW m \in 1..Len(out), NEW e \in {i, j}, e = Len(out) + 1,
                 out'[m].kind = "CUMULATIVE", out'[m].key = c.key
          PROVE  Apart(out'[m], out'[e]) /\ Apart(out'[e], out'[m])
        <3>1. CompareUSec(out[m].end, c.start) < 0
            BY <2>2, <1>2 DEF IInv, BeforeInv
        <3> QED
            BY <3>1, <2>2, <1>2 DEF Apart
    <2>3. i \in 1..(Len(out) + 1) /\ j \in 1..(Len(out) + 1)
        BY <1>2 DEF OutOf
    <2>4. out'[i].key = k /\ out'[j].key = k /\ out'[i].kind = "CUMULATIVE"
          /\ out'[j].kind = "CUMULATIVE"
        BY DEF OutOf
    <2>5. CASE i = Len(out) + 1
        BY <2>5, <2>2, <2>3, <2>4, <1>3
    <2>6. CASE j = Len(out) + 1
        BY <2>6, <2>2, <2>3, <2>4, <1>3
    <2> QED
        BY <2>1, <2>3, <2>5, <2>6, <1>3
<1> QED
    BY <1>2, <1>4, <1>5

THEOREM FlushGroupIInv ==
    ASSUME IInv, FlushGroup PROVE IInv'
<1>1. /\ out' \in Seq(Series)
      /\ OutVisited'
      /\ KeyApart'
    BY AppendCurrent DEF FlushGroup
<1>2. TypeOK'
    BY <1>1, EmptySeq DEF IInv, TypeOK, FlushGroup
<1> QED
    BY <1>1, <1>2 DEF FlushGroup, IInv, GroupsInv, CurInv, SortedInv, BeforeInv


\* What the walk knows of current, the head of the rest and the rest's tail.
LEMMA WalkFacts ==
    ASSUME IInv, current # <<>>, rest # <<>>
    PROVE  /\ current[1] \in Series /\ Head(rest) \in Series /\ Head(rest) = rest[1]
           /\ current[1].kind = "CUMULATIVE" /\ current[1].key \in visited
           /\ Head(rest).kind = "CUMULATIVE" /\ Head(rest).key = current[1].key
           /\ current[1].start \in Stamps /\ current[1].end \in Stamps
           /\ Head(rest).start \in Stamps
           /\ CompareUSec(current[1].start, Head(rest).start) <= 0
           /\ Tail(rest) \in Seq(Series)
           /\ \A i \in 1..Len(Tail(rest)) :
                 /\ Tail(rest)[i] = rest[i + 1]
                 /\ Tail(rest)[i].key = current[1].key
                 /\ Tail(rest)[i].kind = "CUMULATIVE"
           /\ Tail(rest) # <<>> => CompareUSec(Head(rest).start, Tail(rest)[1].start) <= 0
           /\ \A i \in 1..(Len(Tail(rest)) - 1) :
                 CompareUSec(Tail(rest)[i].start, Tail(rest)[i + 1].start) <= 0
<1>0. TypeOK
    BY DEF IInv
<1>1. current[1] \in Series
    BY <1>0, EmptySeq DEF TypeOK
<1>2. /\ Head(rest) \in Series /\ Head(rest) = rest[1]
      /\ Tail(rest) \in Seq(Series) /\ Len(Tail(rest)) = Len(rest) - 1
      /\ \A i \in 1..Len(Tail(rest)) : Tail(rest)[i] = rest[i + 1]
      /\ Len(rest) \in Nat \ {0}
    BY <1>0, HeadTailProperties, EmptySeq DEF TypeOK
<1>3. /\ current[1].kind = "CUMULATIVE" /\ current[1].key \in visited
      /\ \A i \in 1..Len(rest) : rest[i].key = current[1].key /\ rest[i].kind = "CUMULATIVE"
    BY DEF IInv, CurInv
<1>4. /\ CompareUSec(current[1].start, rest[1].start) <= 0
      /\ \A i \in 1..(Len(rest) - 1) : CompareUSec(rest[i].start, rest[i + 1].start) <= 0
    BY DEF IInv, SortedInv
<1>5. current[1].start \in Stamps /\ current[1].end \in Stamps /\ Head(rest).start \in Stamps
    BY <1>1, <1>2 DEF Series, Stamps
<1> QED
    BY <1>1, <1>2, <1>3, <1>4, <1>5

THEOREM MergeNextIInv ==
    ASSUME IInv, MergeNext PROVE IInv'
<1> DEFINE c == current[1]
           h == Head(rest)
<1>0. TypeOK /\ current # <<>> /\ rest # <<>>
    BY DEF IInv, MergeNext
<1>1. /\ c \in Series /\ h \in Series /\ h = rest[1]
      /\ c.kind = "CUMULATIVE" /\ c.key \in visited
      /\ Tail(rest) \in Seq(Series)
      /\ \A i \in 1..Len(Tail(rest)) :
            /\ Tail(rest)[i] = rest[i + 1]
            /\ Tail(rest)[i].key = c.key
            /\ Tail(rest)[i].kind = "CUMULATIVE"
      /\ \A i \in 1..(Len(Tail(rest)) - 1) :
            CompareUSec(Tail(rest)[i].start, Tail(rest)[i + 1].start) <= 0
    BY <1>0, WalkFacts
<1>2. Merge(c, h) \in Series /\ Merge(c, h).key = c.key /\ Merge(c, h).kind = c.kind
      /\ Merge(c, h).start = c.start
    BY <1>1, MergeKeeps
<1>3. current' = <<Merge(c, h)>> /\ rest' = Tail(rest)
    BY DEF MergeNext
<1>4. TypeOK'
    BY <1>0, <1>1, <1>2, <1>3 DEF MergeNext, TypeOK
<1>5. CurInv'
    BY <1>1, <1>2, <1>3 DEF MergeNext, CurInv
<1>6. SortedInv'
    <2>1. Tail(rest) # <<>> => CompareUSec(c.start, Tail(rest)[1].start) <= 0
        <3> SUFFICES ASSUME Tail(rest) # <<>>
                     PROVE  CompareUSec(c.start, Tail(rest)[1].start) <= 0
            OBVIOUS
        <3>1. Tail(rest)[1] \in Series
            BY <1>1, EmptySeq
        <3>2. Tail(rest)[1].start \in Stamps
            BY <3>1 DEF Series, Stamps
        <3>3. /\ c.start \in Stamps /\ h.start \in Stamps
              /\ CompareUSec(c.start, h.start) <= 0
              /\ CompareUSec(h.start, Tail(rest)[1].start) <= 0
            BY <1>0, WalkFacts
        <3> QED
            BY <3>2, <3>3, CompareTrans
    <2> QED
        BY <2>1, <1>1, <1>2, <1>3 DEF SortedInv
<1>7. BeforeInv'
    BY <1>2, <1>3 DEF MergeNext, IInv, BeforeInv
<1> QED
    BY <1>4, <1>5, <1>6, <1>7 DEF MergeNext, IInv, GroupsInv, OutVisited, KeyApart, OutOf


THEOREM AdvanceNextIInv ==
    ASSUME IInv, AdvanceNext PROVE IInv'
<1> DEFINE c == current[1]
           h == Head(rest)
<1>0. TypeOK /\ current # <<>> /\ rest # <<>>
    BY DEF IInv, AdvanceNext
<1>1. /\ c \in Series /\ h \in Series /\ h = rest[1]
      /\ c.kind = "CUMULATIVE" /\ c.key \in visited
      /\ h.kind = "CUMULATIVE" /\ h.key = c.key
      /\ c.start \in Stamps /\ c.end \in Stamps /\ h.start \in Stamps
      /\ CompareUSec(c.start, h.start) <= 0
      /\ Tail(rest) \in Seq(Series)
      /\ \A i \in 1..Len(Tail(rest)) :
            /\ Tail(rest)[i].key = c.key
            /\ Tail(rest)[i].kind = "CUMULATIVE"
      /\ Tail(rest) # <<>> => CompareUSec(h.start, Tail(rest)[1].start) <= 0
      /\ \A i \in 1..(Len(Tail(rest)) - 1) :
            CompareUSec(Tail(rest)[i].start, Tail(rest)[i + 1].start) <= 0
    BY <1>0, WalkFacts
<1>2. current' = <<h>> /\ rest' = Tail(rest) /\ out' = Append(out, c) /\ visited' = visited
    BY DEF AdvanceNext
<1>3. /\ out' \in Seq(Series)
      /\ Len(out') = Len(out) + 1
      /\ \A i \in 1..Len(out) : out'[i] = out[i]
      /\ out'[Len(out) + 1] = c
      /\ OutVisited'
      /\ KeyApart'
    BY <1>0, <1>2, AppendCurrent
<1>4. TypeOK'
    BY <1>0, <1>1, <1>2, <1>3 DEF AdvanceNext, TypeOK
<1>5. CurInv' /\ SortedInv'
    BY <1>1, <1>2 DEF CurInv, SortedInv
<1>6. BeforeInv'
    <2> SUFFICES ASSUME NEW i \in 1..Len(out'), out'[i].kind = "CUMULATIVE",
                        out'[i].key = h.key
                 PROVE  CompareUSec(out'[i].end, h.start) < 0
        BY <1>2 DEF BeforeInv
    <2>1. CASE i = Len(out) + 1
        BY <2>1, <1>3 DEF AdvanceNext
    <2>2. CASE i \in 1..Len(out)
        <3>0. out[i].kind = "CUMULATIVE" /\ out[i].key = c.key
            BY <2>2, <1>1, <1>3
        <3>1. CompareUSec(out[i].end, c.start) < 0
            BY <3>0, <2>2, <1>0 DEF IInv, BeforeInv
        <3>2. out[i] \in Series
            BY <2>2, <1>0 DEF TypeOK
        <3>3. out[i].end \in Stamps
            BY <3>2 DEF Series, Stamps
        <3>4. CompareUSec(out[i].end, h.start) < 0
            BY <3>1, <3>3, <1>1, CompareTransStrict
        <3> QED
            BY <3>4, <1>3, <2>2
    <2> QED
        BY <2>1, <2>2, <1>0, <1>3 DEF TypeOK
<1> QED
    BY <1>3, <1>4, <1>5, <1>6 DEF AdvanceNext, IInv, GroupsInv


THEOREM NextIInv ==
    ASSUME IInv, [Next]_vars PROVE IInv'
<1>1. CASE ScanDelta
    BY <1>1, ScanDeltaIInv
<1>2. CASE ScanOther
    BY <1>2, ScanOtherIInv
<1>3. CASE ScanDone
    BY <1>3, ScanDoneIInv
<1>4. CASE StartGroup
    BY <1>4, StartGroupIInv
<1>5. CASE MergeNext
    BY <1>5, MergeNextIInv
<1>6. CASE AdvanceNext
    BY <1>6, AdvanceNextIInv
<1>7. CASE FlushGroup
    BY <1>7, FlushGroupIInv
<1>8. CASE WalkDone
    BY <1>8, WalkDoneIInv
<1>9. CASE Returned \/ UNCHANGED vars
    BY <1>9, StutterIInv DEF Returned
<1> QED
    BY <1>1, <1>2, <1>3, <1>4, <1>5, <1>6, <1>7, <1>8, <1>9 DEF Next

THEOREM SpecIInv == Spec => []IInv
BY InitIInv, NextIInv, PTL DEF Spec

\* coalesce returns, for every key{metric, resource}, CUMULATIVE points with
\* pairwise disjoint intervals at microsecond precision, touching ones
\* included: for every set of keys, value types, timestamps and batch
\* length, sort.Sort's choice of order among equal starts included.
THEOREM NoOverlap == Spec => []NoOverlapPerKey
<1>1. IInv => NoOverlapPerKey
    BY DEF IInv, KeyApart, NoOverlapPerKey
<1> QED
    BY <1>1, SpecIInv, PTL

=============================================================================
