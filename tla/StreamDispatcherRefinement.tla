--------------------- MODULE StreamDispatcherRefinement ---------------------
(***************************************************************************)
(* Proof that the stream dispatcher implements RequestStream, for every    *)
(* number of requests, every pool and every attribute set: under the      *)
(* mapping of StreamDispatcher (arrived <- next - 1, answered <-           *)
(* AnsweredReqs, out <- the request and kind of each wire message, closed  *)
(* <- rpc = "closed"), every initial state is one of RequestStream and    *)
(* every step is one of its steps or leaves the mapped state unchanged.   *)
(*                                                                         *)
(* Reading a request is Arrive, SendInvalid and Send are Answer, Return   *)
(* is Close, every other step stutters.  Beyond IInv the step proofs need *)
(* RInv: only valid requests that have been read leave the idle phase,    *)
(* every valid request read has left it, and the request the reading      *)
(* goroutine is answering is invalid.                                     *)
(***************************************************************************)
EXTENDS StreamDispatcherProofs

\* Valid requests that have been read, and only those, have left "idle";
\* the request the reading goroutine answers is the invalid one it read.
RInv ==
    /\ \A r \in Reqs : phase[r] # "idle" <=> (r < next /\ input[r].valid)
    /\ rpc \in {"lockInvalid", "sendInvalid"} => ~input[next - 1].valid

\* The mapped out sequence.
Out == [k \in 1..Len(wire) |-> [req |-> wire[k].req, kind |-> wire[k].kind]]

-----------------------------------------------------------------------------
(* RInv holds initially and is preserved by every step.                    *)

THEOREM InitRInv == Init => RInv
<1> SUFFICES ASSUME Init PROVE RInv
    OBVIOUS
<1>1. \A r \in Reqs : phase[r] = "idle" /\ ~(r < next)
    BY Assumptions DEF Init, Reqs
<1>2. rpc = "recv"
    BY DEF Init
<1> QED
    BY <1>1, <1>2 DEF RInv

\* A step moving one request that has left "idle" to another phase that is
\* not "idle", and touching neither the reader nor the input, keeps RInv.
LEMMA PhaseAdvance ==
    ASSUME RInv, TypeOK, NEW r \in Reqs, phase[r] # "idle", NEW p, p # "idle",
           phase' = [phase EXCEPT ![r] = p],
           UNCHANGED <<input, next, rpc>>
    PROVE  RInv'
BY DEF RInv, TypeOK

THEOREM NextRInv == IInv /\ RInv /\ [Next]_vars => RInv'
<1> SUFFICES ASSUME IInv, RInv, [Next]_vars PROVE RInv'
    OBVIOUS
<1> USE Assumptions
<1>0. TypeOK /\ QueueInv /\ RunInv /\ ReadInv
    BY DEF IInv
<1>1. CASE RecvValid
    <2>1. next \in Reqs
        BY <1>0, <1>1 DEF RecvValid, TypeOK, Reqs
    <2> QED
        BY <1>0, <1>1, <2>1 DEF RecvValid, RInv, TypeOK
<1>2. CASE RecvInvalid
    <2>1. next \in Reqs /\ phase[next] = "idle"
        BY <1>0, <1>2 DEF RecvInvalid, TypeOK, ReadInv, Reqs
    <2> QED
        BY <1>0, <1>2, <2>1 DEF RecvInvalid, RInv, TypeOK
<1>3. CASE AcquireInvalid \/ SendInvalid \/ RecvEOF \/ RecvError \/ Return
    BY <1>3 DEF AcquireInvalid, SendInvalid, RecvEOF, RecvError, Return, RInv
<1>4. CASE \E w \in Pool : WorkerStep(w)
    <2> PICK w \in Pool : WorkerStep(w)
        BY <1>4
    <2>1. CASE PoolTake(w)
        <3>1. queue # <<>> /\ queue \in Seq(Reqs)
            BY <2>1, <1>0 DEF PoolTake, TypeOK
        <3>2. Head(queue) \in Reqs /\ phase[Head(queue)] = "queued"
            BY <3>1, <1>0 DEF QueueInv
        <3> QED
            BY <2>1, <3>2, <1>0, PhaseAdvance DEF PoolTake
    <2>2. running[w] # 0 => running[w] \in Reqs /\ phase[running[w]] # "idle"
        BY <1>0 DEF TypeOK, RunInv, Active
    <2>3. CASE Execute(w) \/ Acquire(w) \/ ApplyBag(w) \/ Send(w) \/ Finish(w)
        BY <2>2, <2>3, <1>0, PhaseAdvance
           DEF Execute, Acquire, ApplyBag, Send, Finish
    <2> QED
        BY <2>1, <2>3 DEF WorkerStep
<1>5. CASE Disconnect \/ Terminated \/ UNCHANGED vars
    BY <1>5 DEF Disconnect, Terminated, vars, RInv
<1> QED
    BY <1>1, <1>2, <1>3, <1>4, <1>5 DEF Next, ReaderStep

THEOREM RInvariance == Spec => [](IInv /\ RInv)
<1>1. Init => IInv /\ RInv
    BY InitIInv, InitRInv
<1>2. IInv /\ RInv /\ [Next]_vars => IInv' /\ RInv'
    BY NextIInv, NextRInv
<1> QED
    BY <1>1, <1>2, PTL DEF Spec

-----------------------------------------------------------------------------
(* Lemmas on the mapped state.                                             *)

Finished == {"release", "done"}
Answering == {"lockInvalid", "sendInvalid"}

\* A step that keeps the input, the read position, which requests have
\* sent their response and whether the reader is answering one, keeps the
\* answered requests.
LEMMA AnsweredFrame ==
    ASSUME TypeOK, UNCHANGED <<input, next>>,
           \A r \in Reqs : phase'[r] \in Finished <=> phase[r] \in Finished,
           rpc' \in Answering <=> rpc \in Answering
    PROVE  AnsweredReqs' = AnsweredReqs
<1>1. \A r \in 1..(next - 1) : r \in Reqs
    <2>1. next \in 1..(N + 1)
        BY DEF TypeOK
    <2> QED
        BY <2>1, Assumptions DEF Reqs
<1>2. \A r \in 1..(next - 1) :
         (phase'[r] \in {"release", "done"}) = (phase[r] \in {"release", "done"})
    BY <1>1 DEF Finished
<1>3. (rpc' \in {"lockInvalid", "sendInvalid"}) = (rpc \in {"lockInvalid", "sendInvalid"})
    BY DEF Answering
<1> QED
    BY <1>2, <1>3 DEF AnsweredReqs

\* Appending a message to the wire appends its request and kind to Out.
LEMMA OutAppend ==
    ASSUME wire \in Seq(Messages), NEW m, wire' = Append(wire, m)
    PROVE  Out' = Append(Out, [req |-> m.req, kind |-> m.kind])
<1>1. Len(wire') = Len(wire) + 1
    OBVIOUS
<1>2. \A k \in 1..Len(wire) : wire'[k] = wire[k]
    OBVIOUS
<1>3. wire'[Len(wire) + 1] = m
    OBVIOUS
<1> QED
    BY <1>1, <1>2, <1>3 DEF Out

\* A step that leaves the wire alone leaves Out alone.
LEMMA OutSame ==
    ASSUME wire' = wire
    PROVE  Out' = Out
BY DEF Out

\* A step that changes none of the mapped state is a stuttering step of
\* RequestStream.
LEMMA Stutter ==
    ASSUME TypeOK, UNCHANGED <<input, next, wire>>,
           \A r \in Reqs : phase'[r] \in Finished <=> phase[r] \in Finished,
           rpc' \in Answering <=> rpc \in Answering,
           (rpc' = "closed") <=> (rpc = "closed")
    PROVE  UNCHANGED Abstract!vars
<1>1. AnsweredReqs' = AnsweredReqs
    BY AnsweredFrame
<1>2. Out' = Out
    BY OutSame
<1> QED
    BY <1>1, <1>2 DEF Abstract!vars, Out

-----------------------------------------------------------------------------
(* The steps of the dispatcher as steps of RequestStream.                  *)

\* Reading a request, valid or not, is Arrive.
THEOREM RecvRefines ==
    ASSUME IInv, RInv, RecvValid \/ RecvInvalid
    PROVE  Abstract!Arrive
<1> USE Assumptions
<1>0. TypeOK /\ ReadInv
    BY DEF IInv
<1>1. next \in Reqs /\ phase[next] = "idle" /\ rpc = "recv"
    BY <1>0 DEF RecvValid, RecvInvalid, TypeOK, ReadInv, Reqs
<1>2. next' = next + 1 /\ input' = input /\ wire' = wire
    BY DEF RecvValid, RecvInvalid
<1>3. AnsweredReqs' = AnsweredReqs
    <2> SUFFICES ASSUME NEW r PROVE r \in AnsweredReqs' <=> r \in AnsweredReqs
        OBVIOUS
    <2>1. CASE r = next /\ RecvValid
        BY <1>1, <1>2, <2>1 DEF RecvValid, AnsweredReqs
    <2>2. CASE r = next /\ RecvInvalid
        BY <1>1, <1>2, <2>2 DEF RecvInvalid, AnsweredReqs
    <2>3. CASE r # next
        <3>1. r \in 1..(next' - 1) <=> r \in 1..(next - 1)
            BY <1>0, <1>2, <2>3 DEF TypeOK
        <3>2. CASE r \notin 1..(next - 1)
            BY <3>1, <3>2 DEF AnsweredReqs
        <3>3. CASE r \in 1..(next - 1)
            <4>1. r \in Reqs /\ phase \in [Reqs -> Phases]
                BY <3>3, <1>0 DEF TypeOK, Reqs
            <4>2. phase'[r] = phase[r]
                BY <4>1, <2>3 DEF RecvValid, RecvInvalid
            <4>3. ~(rpc' \in {"lockInvalid", "sendInvalid"} /\ r = next' - 1)
                BY <1>1, <1>2, <3>3 DEF Reqs
            <4>4. ~(rpc \in {"lockInvalid", "sendInvalid"} /\ r = next - 1)
                BY <1>1
            <4> QED
                BY <1>2, <3>1, <3>3, <4>2, <4>3, <4>4 DEF AnsweredReqs
        <3> QED
            BY <3>2, <3>3
    <2> QED
        BY <2>1, <2>2, <2>3
<1>4. Out' = Out
    BY <1>2, OutSame
<1>5. rpc' # "closed"
    BY DEF RecvValid, RecvInvalid
<1> QED
    BY <1>0, <1>1, <1>2, <1>3, <1>4, <1>5 DEF Abstract!Arrive, TypeOK, Reqs

\* The reading goroutine answering the invalid request it read is Answer
\* of that request; on a broken transport the response is lost.
THEOREM SendInvalidRefines ==
    ASSUME IInv, RInv, SendInvalid
    PROVE  Abstract!Answer(next - 1)
<1> USE Assumptions
<1> DEFINE q == next - 1
<1>0. TypeOK /\ ReadInv
    BY DEF IInv
<1>1. q \in Reqs /\ q \in 1..(next - 1) /\ ~input[q].valid
    BY <1>0 DEF SendInvalid, TypeOK, ReadInv, RInv, Reqs
<1>2. UNCHANGED <<input, next, phase>> /\ rpc' = "recv" /\ rpc = "sendInvalid"
    BY DEF SendInvalid
<1>3. q \notin AnsweredReqs
    BY <1>1, <1>2 DEF AnsweredReqs
<1>4. AnsweredReqs' = AnsweredReqs \cup {q}
    <2> SUFFICES ASSUME NEW r PROVE r \in AnsweredReqs' <=> r \in AnsweredReqs \cup {q}
        OBVIOUS
    <2>1. CASE r = q
        BY <1>1, <1>2, <2>1 DEF AnsweredReqs
    <2>2. CASE r # q
        BY <1>2, <2>2 DEF AnsweredReqs
    <2> QED
        BY <2>1, <2>2
<1>5. \/ Out' = Append(Out, [req |-> q, kind |-> Abstract!KindOf(q)])
      \/ Out' = Out
    <2>1. Abstract!KindOf(q) = "invalid"
        BY <1>1 DEF Abstract!KindOf
    <2>2. CASE wire' = Append(wire, [req |-> q, idx |-> DefaultIndex,
                                      kind |-> "invalid", delta |-> <<>>])
        BY <2>1, <2>2, <1>0, OutAppend DEF TypeOK
    <2>3. CASE wire' = wire
        BY <2>3, OutSame
    <2> QED
        BY <2>2, <2>3 DEF SendInvalid
<1> QED
    BY <1>1, <1>2, <1>3, <1>4, <1>5 DEF Abstract!Answer, Out

\* A work item sending its response (or losing it on a broken transport)
\* is Answer of its request.
THEOREM SendRefines ==
    ASSUME IInv, RInv, NEW w \in Pool, Send(w)
    PROVE  Abstract!Answer(running[w])
<1> USE Assumptions
<1> DEFINE q == running[w]
<1>0. TypeOK /\ RunInv
    BY DEF IInv
<1>1. q \in Reqs /\ phase[q] = "send"
    BY <1>0 DEF Send, TypeOK, Reqs
<1>2. q \in 1..(next - 1) /\ input[q].valid
    BY <1>0, <1>1 DEF RInv, TypeOK, Reqs
<1>3. UNCHANGED <<input, next, rpc>> /\ phase' = [phase EXCEPT ![q] = "release"]
    BY DEF Send
<1>4. q \notin AnsweredReqs
    BY <1>1, <1>2 DEF AnsweredReqs
<1>5. AnsweredReqs' = AnsweredReqs \cup {q}
    <2> SUFFICES ASSUME NEW r PROVE r \in AnsweredReqs' <=> r \in AnsweredReqs \cup {q}
        OBVIOUS
    <2>1. CASE r = q
        BY <1>0, <1>1, <1>2, <1>3, <2>1 DEF AnsweredReqs, TypeOK
    <2>2. CASE r # q
        <3>1. r \in 1..(next - 1) => r \in Reqs
            BY <1>0 DEF TypeOK, Reqs
        <3> QED
            BY <1>0, <1>3, <2>2, <3>1 DEF AnsweredReqs, TypeOK
    <2> QED
        BY <2>1, <2>2
<1>6. \/ Out' = Append(Out, [req |-> q, kind |-> Abstract!KindOf(q)])
      \/ Out' = Out
    <2>1. Abstract!KindOf(q) = "result"
        BY <1>2 DEF Abstract!KindOf
    <2>2. CASE wire' = Append(wire, [req |-> q, idx |-> input[q].idx,
                                      kind |-> "result", delta |-> respDelta[q]])
        BY <2>1, <2>2, <1>0, OutAppend DEF TypeOK
    <2>3. CASE wire' = wire
        BY <2>3, OutSame
    <2> QED
        BY <2>2, <2>3 DEF Send
<1> QED
    BY <1>2, <1>3, <1>4, <1>5, <1>6 DEF Abstract!Answer, Out

\* The handler returning after the deferred wg.Wait() is Close: every
\* request read has been answered.
THEOREM ReturnRefines ==
    ASSUME IInv, RInv, Return
    PROVE  Abstract!Close
<1> USE Assumptions
<1>0. TypeOK /\ CountInv
    BY DEF IInv
<1>1. OutstandingReqs = {}
    BY <1>0, NoneOutstanding DEF Return
<1>2. UNCHANGED <<input, next, phase, wire>> /\ rpc = "drain" /\ rpc' = "closed"
    BY DEF Return
<1>3. AnsweredReqs = 1..(next - 1)
    <2> SUFFICES ASSUME NEW r \in 1..(next - 1) PROVE r \in AnsweredReqs
        BY DEF AnsweredReqs
    <2>1. r \in Reqs
        BY <1>0 DEF TypeOK, Reqs
    <2>2. input[r].valid => phase[r] = "done"
        BY <1>0, <1>1, <2>1 DEF RInv, OutstandingReqs, Outstanding, TypeOK, Phases
    <2> QED
        BY <1>2, <2>2 DEF AnsweredReqs
<1>4. AnsweredReqs' = AnsweredReqs
    BY <1>0, <1>2, AnsweredFrame DEF Answering
<1>5. Out' = Out
    BY <1>2, OutSame
<1> QED
    BY <1>2, <1>3, <1>4, <1>5 DEF Abstract!Close, Out

\* The other steps of the reading goroutine change none of the mapped
\* state: taking sendLock, and reading io.EOF or an error.
THEOREM ReaderStutters ==
    ASSUME IInv, AcquireInvalid \/ RecvEOF \/ RecvError
    PROVE  UNCHANGED Abstract!vars
BY Stutter DEF IInv, AcquireInvalid, RecvEOF, RecvError, Answering

\* A pool goroutine stutters except when it sends: taking an item, running
\* the handler, taking sendLock, encoding the bag and releasing the bags.
THEOREM WorkerStutters ==
    ASSUME IInv, NEW w \in Pool,
           PoolTake(w) \/ Execute(w) \/ Acquire(w) \/ ApplyBag(w) \/ Finish(w)
    PROVE  UNCHANGED Abstract!vars
<1>0. TypeOK /\ RunInv
    BY DEF IInv
<1>1. \A r \in Reqs : phase'[r] \in Finished <=> phase[r] \in Finished
    <2>1. CASE PoolTake(w)
        <3>1. Head(queue) \in Reqs /\ phase[Head(queue)] = "queued"
            BY <2>1, <1>0 DEF PoolTake, IInv, QueueInv, TypeOK
        <3> QED
            BY <2>1, <3>1, <1>0 DEF PoolTake, TypeOK, Finished
    <2>2. CASE Execute(w) \/ Acquire(w) \/ ApplyBag(w)
        BY <2>2, <1>0 DEF Execute, Acquire, ApplyBag, TypeOK, Finished
    <2>3. CASE Finish(w)
        BY <2>3, <1>0 DEF Finish, TypeOK, Finished
    <2> QED
        BY <2>1, <2>2, <2>3
<1> QED
    BY <1>0, <1>1, Stutter DEF PoolTake, Execute, Acquire, ApplyBag, Finish

\* Every step of the dispatcher is a step of RequestStream or leaves the
\* mapped state unchanged.
THEOREM RefineStep ==
    IInv /\ RInv /\ [Next]_vars => [Abstract!Next]_Abstract!vars
<1> SUFFICES ASSUME IInv, RInv, [Next]_vars PROVE [Abstract!Next]_Abstract!vars
    OBVIOUS
<1> USE Assumptions
<1>0. TypeOK /\ RunInv
    BY DEF IInv
<1>1. CASE RecvValid \/ RecvInvalid
    BY <1>1, RecvRefines DEF Abstract!Next
<1>2. CASE SendInvalid
    <2>1. next - 1 \in Reqs
        BY <1>2 DEF IInv, SendInvalid, TypeOK, ReadInv, Reqs
    <2>2. Abstract!Answer(next - 1)
        BY <1>2, SendInvalidRefines
    <2>3. \E r \in Abstract!Reqs : Abstract!Answer(r)
        BY <2>1, <2>2 DEF Abstract!Reqs, Reqs, Abstract!Answer
    <2> QED
        BY <2>3 DEF Abstract!Next
<1>3. CASE Return
    BY <1>3, ReturnRefines DEF Abstract!Next
<1>4. CASE AcquireInvalid \/ RecvEOF \/ RecvError
    BY <1>4, ReaderStutters
<1>5. CASE \E w \in Pool : WorkerStep(w)
    <2> PICK w \in Pool : WorkerStep(w)
        BY <1>5
    <2>1. CASE Send(w)
        <3>1. running[w] \in Reqs
            BY <2>1, <1>0 DEF Send, TypeOK
        <3>2. Abstract!Answer(running[w])
            BY <2>1, SendRefines
        <3>3. \E r \in Abstract!Reqs : Abstract!Answer(r)
            BY <3>1, <3>2 DEF Abstract!Reqs, Reqs, Abstract!Answer
        <3> QED
            BY <3>3 DEF Abstract!Next
    <2>2. CASE PoolTake(w) \/ Execute(w) \/ Acquire(w) \/ ApplyBag(w) \/ Finish(w)
        BY <2>2, WorkerStutters
    <2> QED
        BY <2>1, <2>2 DEF WorkerStep
<1>6. CASE Disconnect \/ Terminated \/ UNCHANGED vars
    BY <1>6, <1>0, Stutter DEF Disconnect, Terminated, vars
<1> QED
    BY <1>1, <1>2, <1>3, <1>4, <1>5, <1>6 DEF Next, ReaderStep

\* The initial states of the dispatcher are initial states of RequestStream.
THEOREM RefineInit == Init => Abstract!Init
<1> SUFFICES ASSUME Init PROVE Abstract!Init
    OBVIOUS
<1>1. AnsweredReqs = {}
    BY DEF Init, AnsweredReqs
<1>2. Out = <<>>
    BY DEF Init, Out
<1> QED
    BY <1>1, <1>2 DEF Init, Abstract!Init, Abstract!Reqs, Reqs, Abstract!Requests,
                      Requests, Out

\* The stream dispatcher implements RequestStream: requests arrive in
\* order, each is answered at most once and only after it arrived (with a
\* result if it decoded, an invalid-argument response otherwise, or not at
\* all on a broken transport), and the handler returns only when every
\* request read has been answered.
THEOREM Refinement == Spec => RefinesRequestStream
<1>1. Spec => [](IInv /\ RInv)
    BY RInvariance
<1>2. (IInv /\ RInv) /\ (IInv /\ RInv)' /\ [Next]_vars => [Abstract!Next]_Abstract!vars
    BY RefineStep
<1> QED
    BY <1>1, <1>2, RefineInit, PTL DEF Spec, RefinesRequestStream, Abstract!Spec

=============================================================================
