------------------------ MODULE StreamDispatcherProofs ------------------------
(***************************************************************************)
(* Proofs about StreamDispatcher for every number of requests, every pool  *)
(* size and every attribute set: the type invariant, and that the          *)
(* dispatcher never runs its deferred Tracker.Done() while work of the     *)
(* stream is outstanding.                                                  *)
(*                                                                         *)
(* The invariant DrainedBeforeClose is not inductive by itself: Return     *)
(* tests only the WaitGroup counter.  IInv says what the counter counts    *)
(* (the requests between wg.Add(1) and wg.Done()), that queued requests    *)
(* are exactly those in the pool's queue, that a busy pool goroutine works *)
(* on an outstanding request, and that requests not yet read are idle.     *)
(***************************************************************************)
EXTENDS StreamDispatcher, FiniteSetTheorems, SequenceTheorems, TLAPS

\* The requests a work item exists for.
OutstandingReqs == {r \in Reqs : phase[r] \in Outstanding}

\* The phases in which a pool goroutine runs the request's work item.
Active == {"exec", "lock", "apply", "send", "release"}

\* wg counts the requests between wg.Add(1) and wg.Done().
CountInv == wg = Cardinality(OutstandingReqs)

\* The pool's queue holds, once each, exactly the queued requests.
QueueInv ==
    /\ \A i \in 1..Len(queue) : phase[queue[i]] = "queued"
    /\ \A i, j \in 1..Len(queue) : queue[i] = queue[j] => i = j
    /\ \A r \in Reqs : phase[r] = "queued" => \E i \in 1..Len(queue) : queue[i] = r

\* A busy pool goroutine runs an active request, which no other runs.
RunInv ==
    /\ \A w \in Pool : running[w] # 0 => phase[running[w]] \in Active
    /\ \A v, w \in Pool : running[v] # 0 /\ running[v] = running[w] => v = w

\* The bags of a request live exactly while its work item exists.
LiveInv == \A r \in Reqs : bagLive[r] <=> phase[r] \in Outstanding

\* Requests not yet read are idle; the invalid one being answered was read.
ReadInv ==
    /\ \A r \in Reqs : r >= next => phase[r] = "idle"
    /\ rpc \in {"lockInvalid", "sendInvalid"} => next > 1

\* The trackers are done exactly when the handler has returned, and then
\* nothing is outstanding.
CloseInv ==
    /\ trackerDone <=> rpc = "closed"
    /\ rpc = "closed" => wg = 0

IInv == TypeOK /\ CountInv /\ QueueInv /\ RunInv /\ LiveInv /\ ReadInv /\ CloseInv

-----------------------------------------------------------------------------
(* Lemmas on the response delta encoding.                                  *)

LEMMA DeltaTyped ==
    ASSUME NEW old \in Bags, NEW new \in Bags
    PROVE  Delta(old, new) \in Deltas
<1> DEFINE D == {x \in Attrs : new[x] # old[x]}
<1>1. D \in SUBSET Attrs
    OBVIOUS
<1>2. Delta(old, new) \in [D -> Vals \cup {Absent}]
    BY DEF Delta, Bags
<1> QED
    BY <1>1, <1>2 DEF Deltas

LEMMA ApplyDeltaTyped ==
    ASSUME NEW v \in Bags, NEW d \in Deltas
    PROVE  ApplyDelta(v, d) \in Bags
<1>1. PICK D \in SUBSET Attrs : d \in [D -> Vals \cup {Absent}]
    BY DEF Deltas
<1> QED
    BY <1>1 DEF ApplyDelta, Bags

LEMMA EmptyDeltaTyped == <<>> \in Deltas
<1>1. <<>> \in [{} -> Vals \cup {Absent}]
    OBVIOUS
<1> QED
    BY <1>1 DEF Deltas

LEMMA OutstandingFinite == IsFiniteSet(OutstandingReqs)
<1>1. IsFiniteSet(Reqs)
    BY FS_Interval, Assumptions DEF Reqs
<1> QED
    BY <1>1, FS_Subset DEF OutstandingReqs

-----------------------------------------------------------------------------
(* Lemmas on the counter and the queue.                                    *)

\* With the counter at zero nothing is outstanding.
LEMMA NoneOutstanding ==
    ASSUME CountInv, wg = 0
    PROVE  OutstandingReqs = {}
BY OutstandingFinite, FS_EmptySet DEF CountInv

\* A step that keeps the counter and moves no request into or out of the
\* outstanding phases keeps CountInv.
LEMMA SameCount ==
    ASSUME CountInv, wg' = wg,
           \A r \in Reqs : phase'[r] \in Outstanding <=> phase[r] \in Outstanding
    PROVE  CountInv'
<1>1. OutstandingReqs' = OutstandingReqs
    BY DEF OutstandingReqs
<1> QED
    BY <1>1 DEF CountInv

\* A step that keeps the queue and the set of queued requests keeps QueueInv.
LEMMA SameQueue ==
    ASSUME QueueInv, queue' = queue,
           \A r \in Reqs : phase'[r] = "queued" <=> phase[r] = "queued",
           queue \in Seq(Reqs)
    PROVE  QueueInv'
BY DEF QueueInv

-----------------------------------------------------------------------------
(* IInv holds initially and is preserved by every step.                    *)

THEOREM InitIInv == Init => IInv
<1> SUFFICES ASSUME Init PROVE IInv
    OBVIOUS
<1>1. OutstandingReqs = {}
    BY DEF Init, OutstandingReqs, Outstanding
<1>2. respDelta \in [Reqs -> Deltas]
    BY EmptyDeltaTyped DEF Init
<1>3. EmptyBag \in Bags
    BY DEF EmptyBag, Bags
<1>4. TypeOK
    <2>1. input \in [Reqs -> Requests] /\ next \in 1..(N + 1) /\ rpc \in ReaderPcs
        BY Assumptions DEF Init, ReaderPcs
    <2>2. running \in [Pool -> {0} \cup Reqs] /\ phase \in [Reqs -> Phases]
        BY DEF Init, Phases
    <2>3. respBag \in [Reqs -> Bags] /\ respState \in Bags /\ clientView \in Bags
        BY <1>3 DEF Init
    <2>4. queue \in Seq(Reqs) /\ wire \in Seq(Messages)
        BY DEF Init
    <2> QED
        BY <1>2, <2>1, <2>2, <2>3, <2>4 DEF Init, TypeOK
<1>5. CountInv
    BY <1>1, FS_EmptySet DEF Init, CountInv
<1> QED
    BY <1>4, <1>5 DEF Init, IInv, QueueInv, RunInv, LiveInv, ReadInv, CloseInv,
                      Outstanding

\* A reader step that moves only the reading goroutine keeps every conjunct
\* but the type and the reader's own ones.
LEMMA ReaderFrame ==
    ASSUME IInv,
           UNCHANGED <<wg, queue, running, phase, bagLive>>
    PROVE  CountInv' /\ QueueInv' /\ RunInv' /\ LiveInv'
<1>1. CountInv'
    BY SameCount DEF IInv
<1>2. QueueInv'
    BY SameQueue DEF IInv, TypeOK
<1> QED
    BY <1>1, <1>2 DEF IInv, RunInv, LiveInv

THEOREM RecvValidIInv == IInv /\ RecvValid => IInv'
<1> SUFFICES ASSUME IInv, RecvValid PROVE IInv'
    OBVIOUS
<1> USE Assumptions
<1>0. TypeOK /\ QueueInv /\ ReadInv
    BY DEF IInv
<1>1. next \in Reqs /\ phase[next] = "idle"
    BY <1>0 DEF RecvValid, ReadInv, TypeOK, Reqs
<1>2. /\ Len(queue') = Len(queue) + 1
      /\ queue'[Len(queue) + 1] = next
      /\ \A i \in 1..Len(queue) : queue'[i] = queue[i]
    BY <1>0 DEF RecvValid, TypeOK
<1>3. \A i \in 1..Len(queue) : queue[i] # next
    BY <1>0, <1>1 DEF QueueInv
<1>4. TypeOK'
    BY <1>0, <1>1 DEF RecvValid, TypeOK, Reqs, Phases
<1>5. CountInv'
    <2>1. OutstandingReqs' = OutstandingReqs \cup {next}
        BY <1>0, <1>1 DEF RecvValid, OutstandingReqs, Outstanding, TypeOK
    <2>2. next \notin OutstandingReqs
        BY <1>1 DEF OutstandingReqs, Outstanding
    <2> QED
        BY <2>1, <2>2, OutstandingFinite, FS_AddElement DEF RecvValid, IInv, CountInv
<1>6. QueueInv'
    <2>1. \A i \in 1..Len(queue') : phase'[queue'[i]] = "queued"
        BY <1>0, <1>1, <1>2 DEF RecvValid, QueueInv, TypeOK
    <2>2. \A i, j \in 1..Len(queue') : queue'[i] = queue'[j] => i = j
        BY <1>0, <1>2, <1>3 DEF QueueInv
    <2>3. ASSUME NEW r \in Reqs, phase'[r] = "queued"
          PROVE  \E i \in 1..Len(queue') : queue'[i] = r
        <3>1. CASE r = next
            BY <1>2, <3>1, <1>0 DEF TypeOK
        <3>2. CASE r # next
            <4>1. PICK i \in 1..Len(queue) : queue[i] = r
                BY <2>3, <3>2, <1>0 DEF RecvValid, QueueInv, TypeOK
            <4> QED
                BY <4>1, <1>2, <1>0 DEF TypeOK
        <3> QED
            BY <3>1, <3>2
    <2> QED
        BY <2>1, <2>2, <2>3 DEF QueueInv
<1>7. RunInv'
    <2>1. \A w \in Pool : running[w] # next
        BY <1>0, <1>1 DEF IInv, RunInv, Active, TypeOK, Reqs
    <2> QED
        BY <2>1, <1>0 DEF RecvValid, IInv, RunInv, TypeOK
<1>8. LiveInv' /\ ReadInv' /\ CloseInv'
    BY <1>0, <1>1 DEF RecvValid, IInv, LiveInv, ReadInv, CloseInv, TypeOK, Outstanding
<1> QED
    BY <1>4, <1>5, <1>6, <1>7, <1>8 DEF IInv

\* The other steps of the reading goroutine.
THEOREM ReaderOtherIInv ==
    IInv /\ (RecvInvalid \/ AcquireInvalid \/ SendInvalid \/ RecvEOF \/ RecvError \/ Return)
        => IInv'
<1> SUFFICES ASSUME IInv,
                    RecvInvalid \/ AcquireInvalid \/ SendInvalid \/ RecvEOF
                    \/ RecvError \/ Return
             PROVE  IInv'
    OBVIOUS
<1> USE Assumptions
<1>0. TypeOK /\ ReadInv /\ CloseInv
    BY DEF IInv
<1>1. CountInv' /\ QueueInv' /\ RunInv' /\ LiveInv'
    BY ReaderFrame
       DEF RecvInvalid, AcquireInvalid, SendInvalid, RecvEOF, RecvError, Return
<1>2. CASE RecvInvalid
    BY <1>0, <1>1, <1>2 DEF RecvInvalid, IInv, TypeOK, ReadInv, CloseInv, ReaderPcs
<1>3. CASE AcquireInvalid
    BY <1>0, <1>1, <1>3 DEF AcquireInvalid, IInv, TypeOK, ReadInv, CloseInv, ReaderPcs, ReaderId
<1>4. CASE SendInvalid
    <2> DEFINE msg == [req |-> next - 1, idx |-> DefaultIndex,
                       kind |-> "invalid", delta |-> <<>>]
    <2>1. next - 1 \in Reqs
        BY <1>0, <1>4 DEF SendInvalid, ReadInv, TypeOK, Reqs
    <2>2. msg \in Messages
        BY <2>1, EmptyDeltaTyped DEF Messages, DefaultIndex
    <2>3. wire' \in Seq(Messages)
        <3>1. wire' = wire \/ wire' = Append(wire, msg)
            BY <1>4 DEF SendInvalid
        <3>2. Append(wire, msg) \in Seq(Messages)
            BY <2>2, <1>0, AppendProperties DEF TypeOK
        <3> QED
            BY <3>1, <3>2, <1>0 DEF TypeOK
    <2>4. TypeOK'
        BY <1>0, <1>4, <2>3 DEF SendInvalid, TypeOK, ReaderPcs
    <2> QED
        BY <1>0, <1>1, <1>4, <2>4 DEF SendInvalid, IInv, ReadInv, CloseInv
<1>5. CASE RecvEOF \/ RecvError
    BY <1>0, <1>1, <1>5 DEF RecvEOF, RecvError, IInv, TypeOK, ReadInv, CloseInv, ReaderPcs
<1>6. CASE Return
    BY <1>0, <1>1, <1>6 DEF Return, IInv, TypeOK, ReadInv, CloseInv, ReaderPcs
<1> QED
    BY <1>2, <1>3, <1>4, <1>5, <1>6

\* A pool goroutine moving its request from one active phase to another
\* keeps every conjunct but the type.
LEMMA WorkerAdvance ==
    ASSUME IInv, NEW w \in Pool, NEW p \in Active, running[w] # 0,
           phase' = [phase EXCEPT ![running[w]] = p],
           UNCHANGED <<wg, queue, running, bagLive, rpc, trackerDone, next>>
    PROVE  CountInv' /\ QueueInv' /\ RunInv' /\ LiveInv' /\ ReadInv' /\ CloseInv'
<1> DEFINE r == running[w]
<1>0. TypeOK /\ RunInv /\ ReadInv
    BY DEF IInv
<1>1. r \in Reqs /\ phase[r] \in Active
    BY <1>0 DEF TypeOK, RunInv
<1>2. \A q \in Reqs : phase'[q] \in Outstanding <=> phase[q] \in Outstanding
    BY <1>0, <1>1 DEF TypeOK, Active, Outstanding
<1>3. \A q \in Reqs : phase'[q] = "queued" <=> phase[q] = "queued"
    BY <1>0, <1>1 DEF TypeOK, Active
<1>4. CountInv' /\ QueueInv'
    BY <1>2, <1>3, <1>0, SameCount, SameQueue DEF IInv, TypeOK
<1>5. RunInv'
    BY <1>0, <1>1 DEF RunInv, TypeOK, Active
<1>6. ReadInv'
    <2>1. r < next
        BY <1>0, <1>1 DEF ReadInv, Active, TypeOK, Reqs
    <2> QED
        BY <2>1, <1>0, <1>1 DEF ReadInv, TypeOK, Reqs
<1> QED
    BY <1>2, <1>4, <1>5, <1>6 DEF IInv, LiveInv, CloseInv

THEOREM ExecuteIInv ==
    ASSUME IInv, NEW w \in Pool, Execute(w) PROVE IInv'
<1>0. TypeOK
    BY DEF IInv
<1>1. running[w] \in Reqs
    BY <1>0 DEF Execute, TypeOK
<1>2. TypeOK'
    BY <1>0, <1>1 DEF Execute, TypeOK, Phases
<1>3. "lock" \in Active
    BY DEF Active
<1> QED
    BY <1>2, <1>3, WorkerAdvance DEF Execute, IInv

THEOREM AcquireIInv ==
    ASSUME IInv, NEW w \in Pool, Acquire(w) PROVE IInv'
<1>0. TypeOK
    BY DEF IInv
<1>1. running[w] \in Reqs
    BY <1>0 DEF Acquire, TypeOK
<1>2. TypeOK'
    BY <1>0, <1>1 DEF Acquire, TypeOK, Phases
<1>3. "apply" \in Active
    BY DEF Active
<1> QED
    BY <1>2, <1>3, WorkerAdvance DEF Acquire, IInv

THEOREM ApplyBagIInv ==
    ASSUME IInv, NEW w \in Pool, ApplyBag(w) PROVE IInv'
<1>0. TypeOK
    BY DEF IInv
<1>1. running[w] \in Reqs
    BY <1>0 DEF ApplyBag, TypeOK
<1>2. Delta(respState, respBag[running[w]]) \in Deltas
    BY <1>0, <1>1, DeltaTyped DEF TypeOK
<1>3. TypeOK'
    BY <1>0, <1>1, <1>2 DEF ApplyBag, TypeOK, Phases
<1>4. "send" \in Active
    BY DEF Active
<1> QED
    BY <1>3, <1>4, WorkerAdvance DEF ApplyBag, IInv

THEOREM SendIInv ==
    ASSUME IInv, NEW w \in Pool, Send(w) PROVE IInv'
<1> USE Assumptions
<1> DEFINE r == running[w]
           msg == [req |-> r, idx |-> input[r].idx, kind |-> "result",
                   delta |-> respDelta[r]]
<1>0. TypeOK
    BY DEF IInv
<1>1. r \in Reqs
    BY <1>0 DEF Send, TypeOK
<1>2. msg \in Messages
    BY <1>0, <1>1 DEF TypeOK, Messages, Requests
<1>3. /\ Append(wire, msg) \in Seq(Messages)
      /\ ApplyDelta(clientView, respDelta[r]) \in Bags
    BY <1>0, <1>1, <1>2, AppendProperties, ApplyDeltaTyped DEF TypeOK
<1>4. wire' \in Seq(Messages) /\ clientView' \in Bags
    <2>1. \/ wire' = Append(wire, msg) /\ clientView' = ApplyDelta(clientView, respDelta[r])
          \/ wire' = wire /\ clientView' = clientView
        BY DEF Send
    <2> QED
        BY <2>1, <1>3, <1>0 DEF TypeOK
<1>5. TypeOK'
    BY <1>0, <1>1, <1>4 DEF Send, TypeOK, Phases
<1>6. "release" \in Active
    BY DEF Active
<1> QED
    BY <1>5, <1>6, WorkerAdvance DEF Send, IInv

THEOREM PoolTakeIInv ==
    ASSUME IInv, NEW w \in Pool, PoolTake(w) PROVE IInv'
<1> DEFINE h == Head(queue)
<1>0. TypeOK /\ QueueInv /\ RunInv /\ ReadInv
    BY DEF IInv
<1>1. /\ h \in Reqs
      /\ h = queue[1]
      /\ queue' \in Seq(Reqs)
      /\ Len(queue') = Len(queue) - 1
      /\ \A i \in 1..Len(queue') : queue'[i] = queue[i + 1]
    BY <1>0, HeadTailProperties DEF PoolTake, TypeOK
<1>2. phase[h] = "queued"
    BY <1>0, <1>1 DEF PoolTake, QueueInv, TypeOK
<1>3. ASSUME NEW v \in Pool PROVE running[v] # h
    <2>1. h # 0
        BY <1>1 DEF Reqs
    <2>2. running[v] # 0 => phase[running[v]] \in Active
        BY <1>0 DEF RunInv
    <2> QED
        BY <1>2, <2>1, <2>2 DEF Active
<1>4. TypeOK'
    BY <1>0, <1>1 DEF PoolTake, TypeOK, Phases
<1>5. \A q \in Reqs : phase'[q] \in Outstanding <=> phase[q] \in Outstanding
    BY <1>0, <1>1, <1>2 DEF PoolTake, TypeOK, Outstanding
<1>6. CountInv'
    BY <1>5, SameCount DEF PoolTake, IInv
<1>7. QueueInv'
    <2>1. \A i \in 1..Len(queue') : queue'[i] # h
        BY <1>0, <1>1 DEF QueueInv, TypeOK
    <2>2. \A i \in 1..Len(queue') : phase'[queue'[i]] = "queued"
        BY <1>0, <1>1, <2>1 DEF PoolTake, QueueInv, TypeOK
    <2>3. \A i, j \in 1..Len(queue') : queue'[i] = queue'[j] => i = j
        BY <1>0, <1>1 DEF QueueInv, TypeOK
    <2>4. ASSUME NEW q \in Reqs, phase'[q] = "queued"
          PROVE  \E i \in 1..Len(queue') : queue'[i] = q
        <3>1. q # h /\ phase[q] = "queued"
            BY <2>4, <1>0, <1>1 DEF PoolTake, TypeOK
        <3>2. PICK k \in 1..Len(queue) : queue[k] = q
            BY <3>1, <1>0 DEF QueueInv
        <3>3. k # 1
            BY <3>1, <3>2, <1>1
        <3>4. k - 1 \in 1..Len(queue') /\ queue'[k - 1] = q
            BY <3>2, <3>3, <1>1, <1>0 DEF TypeOK
        <3> QED
            BY <3>4
    <2> QED
        BY <2>2, <2>3, <2>4 DEF QueueInv
<1>8. RunInv'
    <2>1. \A v \in Pool : running'[v] # 0 => phase'[running'[v]] \in Active
        BY <1>0, <1>1, <1>3 DEF PoolTake, RunInv, TypeOK, Active
    <2>2. \A u, v \in Pool : running'[u] # 0 /\ running'[u] = running'[v] => u = v
        BY <1>0, <1>1, <1>3 DEF PoolTake, RunInv, TypeOK
    <2> QED
        BY <2>1, <2>2 DEF RunInv
<1>9. ReadInv'
    <2>1. h < next
        BY <1>0, <1>1, <1>2 DEF ReadInv, TypeOK, Reqs
    <2> QED
        BY <2>1, <1>0, <1>1 DEF PoolTake, ReadInv, TypeOK, Reqs
<1>10. LiveInv' /\ CloseInv'
    BY <1>5 DEF PoolTake, IInv, LiveInv, CloseInv
<1> QED
    BY <1>4, <1>6, <1>7, <1>8, <1>9, <1>10 DEF IInv

THEOREM FinishIInv ==
    ASSUME IInv, NEW w \in Pool, Finish(w) PROVE IInv'
<1> DEFINE r == running[w]
<1>0. TypeOK /\ CountInv /\ RunInv /\ ReadInv /\ CloseInv
    BY DEF IInv
<1>1. r \in Reqs /\ phase[r] = "release"
    BY <1>0 DEF Finish, TypeOK
<1>2. OutstandingReqs' = OutstandingReqs \ {r}
    BY <1>0, <1>1 DEF Finish, OutstandingReqs, Outstanding, TypeOK
<1>3. r \in OutstandingReqs
    BY <1>1 DEF OutstandingReqs, Outstanding
<1>4. CountInv'
    BY <1>0, <1>2, <1>3, OutstandingFinite, FS_RemoveElement DEF Finish, CountInv
<1>5. wg' \in Nat
    BY <1>2, <1>4, OutstandingFinite, FS_RemoveElement, FS_CardinalityType DEF CountInv
<1>6. TypeOK'
    BY <1>0, <1>1, <1>5 DEF Finish, TypeOK, Phases
<1>7. QueueInv'
    BY <1>0, <1>1, SameQueue DEF Finish, IInv, TypeOK
<1>8. \A v \in Pool : v # w => running[v] # r
    BY <1>0, <1>1 DEF RunInv, TypeOK, Reqs
<1>9. RunInv'
    BY <1>0, <1>1, <1>8 DEF Finish, RunInv, TypeOK
<1>10. LiveInv'
    BY <1>0, <1>1 DEF Finish, IInv, LiveInv, TypeOK, Outstanding
<1>11. ReadInv'
    <2>1. r < next
        BY <1>0, <1>1 DEF ReadInv, TypeOK, Reqs
    <2> QED
        BY <2>1, <1>0, <1>1 DEF Finish, ReadInv, TypeOK, Reqs
<1>12. rpc # "closed"
    BY <1>0, <1>3, NoneOutstanding DEF CloseInv
<1>13. CloseInv'
    BY <1>0, <1>12 DEF Finish, CloseInv
<1> QED
    BY <1>4, <1>6, <1>7, <1>9, <1>10, <1>11, <1>13 DEF IInv

\* The transport going away, and the stuttering of a returned handler.
THEOREM EnvironmentIInv ==
    ASSUME IInv, Disconnect \/ UNCHANGED vars PROVE IInv'
<1>1. UNCHANGED <<wg, queue, running, phase, bagLive>>
    BY DEF Disconnect, vars
<1>2. CountInv' /\ QueueInv' /\ RunInv' /\ LiveInv'
    BY <1>1, ReaderFrame
<1>3. CASE Disconnect
    BY <1>2, <1>3 DEF Disconnect, IInv, TypeOK, ReadInv, CloseInv
<1>4. CASE UNCHANGED vars
    BY <1>2, <1>4 DEF vars, IInv, TypeOK, ReadInv, CloseInv
<1> QED
    BY <1>3, <1>4

THEOREM NextIInv == IInv /\ [Next]_vars => IInv'
<1> SUFFICES ASSUME IInv, [Next]_vars PROVE IInv'
    OBVIOUS
<1>1. CASE ReaderStep
    BY <1>1, RecvValidIInv, ReaderOtherIInv DEF ReaderStep
<1>2. CASE \E w \in Pool : WorkerStep(w)
    <2>1. PICK w \in Pool : WorkerStep(w)
        BY <1>2
    <2> QED
        BY <2>1, PoolTakeIInv, ExecuteIInv, AcquireIInv, ApplyBagIInv, SendIInv,
           FinishIInv DEF WorkerStep
<1>3. CASE Disconnect \/ Terminated \/ UNCHANGED vars
    BY <1>3, EnvironmentIInv DEF Terminated
<1> QED
    BY <1>1, <1>2, <1>3 DEF Next

\* IInv holds in every state of every behaviour of the dispatcher.
THEOREM Invariance == Spec => []IInv
BY InitIInv, NextIInv, PTL DEF Spec

-----------------------------------------------------------------------------
(* The results.                                                            *)

\* Every state the dispatcher reaches is well typed: the counter is a
\* natural, the queue holds requests of the stream, messages are responses.
THEOREM TypeCorrect == Spec => []TypeOK
<1>1. IInv => TypeOK
    BY DEF IInv
<1> QED
    BY Invariance, <1>1, PTL

\* The deferred Tracker.Done() calls run only after every work item of the
\* stream has finished and released its bags (DrainedBeforeClose): the
\* counter the deferred wg.Wait() tests is the number of outstanding items.
LEMMA IInvDrained == IInv => DrainedBeforeClose
<1> SUFFICES ASSUME IInv, trackerDone PROVE
        /\ \A r \in Reqs : phase[r] \in {"idle", "done"} /\ ~bagLive[r]
        /\ \A w \in Pool : running[w] = 0
    BY DEF DrainedBeforeClose
<1>1. OutstandingReqs = {}
    BY NoneOutstanding DEF IInv, CloseInv
<1>2. \A r \in Reqs : phase[r] \notin Outstanding
    BY <1>1 DEF OutstandingReqs
<1>3. \A r \in Reqs : phase[r] \in {"idle", "done"} /\ ~bagLive[r]
    BY <1>2 DEF IInv, TypeOK, LiveInv, Phases, Outstanding
<1>4. \A w \in Pool : running[w] = 0
    BY <1>2 DEF IInv, RunInv, TypeOK, Active, Outstanding
<1> QED
    BY <1>3, <1>4

THEOREM Drained == Spec => []DrainedBeforeClose
BY Invariance, IInvDrained, PTL

=============================================================================
