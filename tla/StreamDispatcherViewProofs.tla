--------------------- MODULE StreamDispatcherViewProofs ---------------------
(***************************************************************************)
(* Proof that the client of a stream always reconstructs the response bag *)
(* of the last result it received (ClientSeesResponseBag), for every       *)
(* instance.  Responses carry only the attributes that changed since the   *)
(* bag respTracker encoded last; the argument is that sendLock makes the   *)
(* encoding (ApplyBag) and the send of one work item a critical section,   *)
(* so the deltas reach the client in the order they were computed, each    *)
(* against the view the client holds when it is applied.                   *)
(***************************************************************************)
EXTENDS StreamDispatcherProofs

\* sendLock: its holders are the work items between Acquire and Send and
\* the reading goroutine on the invalid path, and there is at most one.
LockInv ==
    /\ \A r \in Reqs : r \in holders <=> phase[r] \in {"apply", "send"}
    /\ ReaderId \in holders <=> rpc = "sendInvalid"
    /\ \A x, y \in holders : x = y

\* The last message the client received is a result, and the request it
\* answers.
LastIsResult == wire # <<>> /\ wire[Len(wire)].kind = "result"
LastReq == wire[Len(wire)].req

\* The client's view: the last result it received is of a request that has
\* sent, and its bag is what the client holds; while the transport works the
\* client holds what respTracker last encoded, except while the item that
\* encoded last has still to send the delta, which leads from the client's
\* view to the tracker's.
ViewInv ==
    /\ LastIsResult =>
           /\ phase[LastReq] \in {"release", "done"}
           /\ clientView = respBag[LastReq]
    /\ ~broken =>
           /\ (\A r \in Reqs : phase[r] # "send") => clientView = respState
           /\ \A r \in Reqs : phase[r] = "send" =>
                  /\ respState = respBag[r]
                  /\ respDelta[r] = Delta(clientView, respState)

\* The invariant of the view argument, on top of IInv.
VInv == IInv /\ LockInv /\ ViewInv

-----------------------------------------------------------------------------
\* Applying the delta from a view to a bag gives the bag.
LEMMA DeltaRoundTrip ==
    ASSUME NEW v \in Bags, NEW n \in Bags
    PROVE  ApplyDelta(v, Delta(v, n)) = n
BY DEF ApplyDelta, Delta, Bags

THEOREM InitVInv == Init => VInv
<1> SUFFICES ASSUME Init PROVE VInv
    OBVIOUS
<1>1. IInv
    BY InitIInv
<1>2. LockInv
    BY DEF Init, LockInv, ReaderId
<1>3. ViewInv
    BY DEF Init, ViewInv, LastIsResult
<1> QED
    BY <1>1, <1>2, <1>3 DEF VInv

\* The last message on the wire is a response to a request of the stream.
LEMMA LastTyped ==
    ASSUME TypeOK, wire # <<>>
    PROVE  wire[Len(wire)] \in Messages /\ LastReq \in Reqs
<1>1. Len(wire) \in 1..Len(wire)
    BY EmptySeq, LenProperties DEF TypeOK
<1>2. wire[Len(wire)] \in Messages
    BY <1>1 DEF TypeOK
<1> QED
    BY <1>2 DEF LastReq, Messages

\* The steps that touch neither the lock, the wire, the client's view nor
\* the tracker, and move no request into, out of or within the phases the
\* invariant names.
LEMMA ViewFrame ==
    ASSUME VInv,
           UNCHANGED <<holders, wire, clientView, respState, respDelta, respBag, broken>>,
           rpc' = "sendInvalid" <=> rpc = "sendInvalid",
           \A r \in Reqs :
               \/ phase'[r] = phase[r]
               \/ /\ phase[r] \notin {"apply", "send", "release", "done"}
                  /\ phase'[r] \notin {"apply", "send", "release", "done"}
    PROVE  LockInv' /\ ViewInv'
<1>0. TypeOK /\ LockInv /\ ViewInv
    BY DEF VInv, IInv
<1>1. LockInv'
    BY <1>0 DEF LockInv
<1>2. LastIsResult' = LastIsResult /\ LastReq' = LastReq
    BY DEF LastIsResult, LastReq
<1>3. LastIsResult => LastReq \in Reqs
    BY <1>0, LastTyped DEF LastIsResult
<1>4. \A r \in Reqs : phase'[r] = "send" <=> phase[r] = "send"
    OBVIOUS
<1>5. LastIsResult => phase'[LastReq] = phase[LastReq]
    BY <1>0, <1>3 DEF ViewInv
<1>6. ViewInv'
    BY <1>0, <1>2, <1>4, <1>5 DEF ViewInv
<1> QED
    BY <1>1, <1>6

THEOREM FrameSteps ==
    ASSUME VInv,
           \/ RecvValid \/ RecvInvalid \/ RecvEOF \/ RecvError \/ Return
           \/ \E w \in Pool : PoolTake(w)
           \/ UNCHANGED vars
    PROVE  LockInv' /\ ViewInv'
<1>0. TypeOK /\ ReadInv /\ QueueInv
    BY DEF VInv, IInv
<1>1. CASE RecvValid
    <2>1. next \in Reqs /\ phase[next] = "idle"
        BY <1>0, <1>1 DEF RecvValid, ReadInv, TypeOK, Reqs
    <2> QED
        BY <1>0, <1>1, <2>1, ViewFrame DEF RecvValid, TypeOK
<1>2. CASE RecvInvalid \/ RecvEOF \/ RecvError \/ Return \/ UNCHANGED vars
    BY <1>2, ViewFrame DEF RecvInvalid, RecvEOF, RecvError, Return, vars
<1>3. CASE \E w \in Pool : PoolTake(w)
    <2>1. PICK w \in Pool : PoolTake(w)
        BY <1>3
    <2>2. Head(queue) = queue[1] /\ 1 \in 1..Len(queue)
        BY <2>1, <1>0, EmptySeq, LenProperties DEF PoolTake, TypeOK
    <2>3. phase[Head(queue)] = "queued"
        BY <1>0, <2>2 DEF QueueInv
    <2> QED
        BY <2>1, <2>3, ViewFrame DEF PoolTake
<1> QED
    BY <1>1, <1>2, <1>3

THEOREM InvalidSteps ==
    ASSUME VInv, AcquireInvalid \/ SendInvalid
    PROVE  LockInv' /\ ViewInv'
<1>0. TypeOK /\ LockInv /\ ViewInv
    BY DEF VInv, IInv
<1>1. ReaderId \notin Reqs
    BY DEF ReaderId, Reqs
<1>2. CASE AcquireInvalid
    <2>1. LockInv'
        BY <1>0, <1>1, <1>2 DEF AcquireInvalid, LockInv
    <2>2. ViewInv'
        BY <1>0, <1>2 DEF AcquireInvalid, ViewInv, LastIsResult, LastReq
    <2> QED
        BY <2>1, <2>2
<1>3. CASE SendInvalid
    <2>1. holders' = {}
        BY <1>0, <1>3 DEF SendInvalid, LockInv
    <2>2. LockInv'
        BY <1>0, <1>1, <1>3, <2>1 DEF SendInvalid, LockInv
    <2>3. CASE ~broken
        <3> DEFINE msg == [req |-> next - 1, idx |-> DefaultIndex,
                           kind |-> "invalid", delta |-> <<>>]
        <3>1. wire' = Append(wire, msg)
            BY <1>3, <2>3 DEF SendInvalid
        <3>2. msg \in Messages
            BY <1>3, EmptyDeltaTyped, Assumptions
               DEF SendInvalid, VInv, IInv, ReadInv, TypeOK, Reqs, Messages, DefaultIndex
        <3>3. ~LastIsResult'
            BY <3>1, <3>2, <1>0, AppendProperties DEF LastIsResult, TypeOK
        <3> QED
            BY <2>2, <1>0, <1>3, <3>3 DEF SendInvalid, ViewInv
    <2>4. CASE broken
        <3>1. wire' = wire
            BY <1>3, <2>4 DEF SendInvalid
        <3> QED
            BY <2>2, <1>0, <1>3, <3>1 DEF SendInvalid, ViewInv, LastIsResult, LastReq
    <2> QED
        BY <2>2, <2>3, <2>4
<1> QED
    BY <1>2, <1>3

\* A work item past ApplyBag is the only holder of sendLock.
LEMMA OnlyHolder ==
    ASSUME VInv, NEW r \in Reqs, phase[r] \in {"apply", "send"}
    PROVE  /\ holders = {r}
           /\ \A q \in Reqs : q # r => phase[q] \notin {"apply", "send"}
           /\ rpc # "sendInvalid"
<1>1. r \in holders
    BY DEF VInv, LockInv
<1>2. holders = {r}
    BY <1>1 DEF VInv, LockInv
<1> QED
    BY <1>2 DEF VInv, LockInv, ReaderId, Reqs

THEOREM ExecuteView ==
    ASSUME VInv, NEW w \in Pool, Execute(w)
    PROVE  LockInv' /\ ViewInv'
<1> DEFINE r == running[w]
<1>0. TypeOK /\ LockInv /\ ViewInv
    BY DEF VInv, IInv
<1>1. r \in Reqs /\ phase[r] = "exec"
    BY <1>0 DEF Execute, TypeOK
<1>2. LockInv'
    BY <1>0, <1>1 DEF Execute, LockInv, TypeOK
<1>3. LastIsResult => LastReq \in Reqs /\ LastReq # r
    BY <1>0, <1>1, LastTyped DEF ViewInv, LastIsResult
<1>4. \A q \in Reqs : phase[q] = "send" => q # r
    BY <1>1
<1>5. ViewInv'
    BY <1>0, <1>3, <1>4 DEF Execute, ViewInv, LastIsResult, LastReq, TypeOK
<1> QED
    BY <1>2, <1>5

THEOREM AcquireView ==
    ASSUME VInv, NEW w \in Pool, Acquire(w)
    PROVE  LockInv' /\ ViewInv'
<1> DEFINE r == running[w]
<1>0. TypeOK /\ LockInv /\ ViewInv
    BY DEF VInv, IInv
<1>1. r \in Reqs /\ phase[r] = "lock"
    BY <1>0 DEF Acquire, TypeOK
<1>2. LockInv'
    BY <1>0, <1>1 DEF Acquire, LockInv, TypeOK, ReaderId, Reqs
<1>3. LastIsResult => LastReq \in Reqs /\ LastReq # r
    BY <1>0, <1>1, LastTyped DEF ViewInv, LastIsResult
<1>5. ViewInv'
    BY <1>0, <1>1, <1>3 DEF Acquire, ViewInv, LastIsResult, LastReq, TypeOK
<1> QED
    BY <1>2, <1>5

THEOREM ApplyBagView ==
    ASSUME VInv, NEW w \in Pool, ApplyBag(w)
    PROVE  LockInv' /\ ViewInv'
<1> DEFINE r == running[w]
<1>0. TypeOK /\ LockInv /\ ViewInv
    BY DEF VInv, IInv
<1>1. r \in Reqs /\ phase[r] = "apply"
    BY <1>0 DEF ApplyBag, TypeOK
<1>2. \A q \in Reqs : q # r => phase[q] \notin {"apply", "send"}
    BY <1>1, OnlyHolder
<1>3. LockInv'
    BY <1>0, <1>1 DEF ApplyBag, LockInv, TypeOK
<1>4. LastIsResult => LastReq \in Reqs /\ LastReq # r
    BY <1>0, <1>1, LastTyped DEF ViewInv, LastIsResult
<1>5. (LastIsResult => /\ phase[LastReq] \in {"release", "done"}
                       /\ clientView = respBag[LastReq])'
    BY <1>0, <1>1, <1>4 DEF ApplyBag, ViewInv, LastIsResult, LastReq, TypeOK
<1>6. ASSUME ~broken
      PROVE  /\ respState' = respBag'[r]
             /\ respDelta'[r] = Delta(clientView', respState')
             /\ \A q \in Reqs : phase'[q] = "send" => q = r
    <2>1. clientView = respState
        BY <1>0, <1>1, <1>2, <1>6 DEF ViewInv
    <2> QED
        BY <2>1, <1>0, <1>1, <1>2 DEF ApplyBag, TypeOK
<1>7. phase'[r] = "send"
    BY <1>0, <1>1 DEF ApplyBag, TypeOK
<1>8. (~broken => ((\A q \in Reqs : phase[q] # "send") => clientView = respState))'
    BY <1>1, <1>7
<1>9. (~broken => \A q \in Reqs : phase[q] = "send" =>
                     /\ respState = respBag[q]
                     /\ respDelta[q] = Delta(clientView, respState))'
    BY <1>6 DEF ApplyBag
<1> QED
    BY <1>3, <1>5, <1>8, <1>9 DEF ViewInv

THEOREM SendView ==
    ASSUME VInv, NEW w \in Pool, Send(w)
    PROVE  LockInv' /\ ViewInv'
<1> DEFINE r == running[w]
           msg == [req |-> r, idx |-> input[r].idx, kind |-> "result",
                   delta |-> respDelta[r]]
<1>0. TypeOK /\ LockInv /\ ViewInv
    BY DEF VInv, IInv
<1>1. r \in Reqs /\ phase[r] = "send"
    BY <1>0 DEF Send, TypeOK
<1>2. /\ \A q \in Reqs : q # r => phase[q] \notin {"apply", "send"}
      /\ holders = {r}
    BY <1>1, OnlyHolder
<1>3. LockInv'
    BY <1>0, <1>1, <1>2 DEF Send, LockInv, TypeOK, ReaderId, Reqs
<1>4. \A q \in Reqs : phase'[q] # "send"
    BY <1>0, <1>1, <1>2 DEF Send, TypeOK
<1>5. CASE ~broken
    <2>1. wire' = Append(wire, msg) /\ clientView' = ApplyDelta(clientView, respDelta[r])
        BY <1>5 DEF Send
    <2>2. msg \in Messages
        BY <1>0, <1>1, Assumptions DEF TypeOK, Messages, Requests
    <2>3. LastIsResult' /\ LastReq' = r
        BY <2>1, <2>2, <1>0, AppendProperties DEF LastIsResult, LastReq, TypeOK
    <2>4. clientView' = respState /\ respState = respBag[r]
        BY <2>1, <1>0, <1>1, <1>5, DeltaRoundTrip DEF ViewInv, TypeOK
    <2>5. phase'[r] = "release"
        BY <1>0, <1>1 DEF Send, TypeOK
    <2> QED
        BY <1>3, <1>4, <2>3, <2>4, <2>5 DEF Send, ViewInv
<1>6. CASE broken
    <2>1. wire' = wire /\ clientView' = clientView
        BY <1>6 DEF Send
    <2>2. LastIsResult => LastReq \in Reqs /\ LastReq # r
        BY <1>0, <1>1, LastTyped DEF ViewInv, LastIsResult
    <2> QED
        BY <1>3, <1>6, <2>1, <2>2, <1>0 DEF Send, ViewInv, LastIsResult, LastReq, TypeOK
<1> QED
    BY <1>5, <1>6

THEOREM FinishView ==
    ASSUME VInv, NEW w \in Pool, Finish(w)
    PROVE  LockInv' /\ ViewInv'
<1> DEFINE r == running[w]
<1>0. TypeOK /\ LockInv /\ ViewInv
    BY DEF VInv, IInv
<1>1. r \in Reqs /\ phase[r] = "release"
    BY <1>0 DEF Finish, TypeOK
<1>2. LockInv'
    BY <1>0, <1>1 DEF Finish, LockInv, TypeOK
<1>3. LastIsResult => LastReq \in Reqs
    BY <1>0, LastTyped DEF LastIsResult
<1>4. ViewInv'
    BY <1>0, <1>1, <1>3 DEF Finish, ViewInv, LastIsResult, LastReq, TypeOK
<1> QED
    BY <1>2, <1>4

THEOREM DisconnectView ==
    ASSUME VInv, Disconnect
    PROVE  LockInv' /\ ViewInv'
BY DEF VInv, Disconnect, LockInv, ViewInv, LastIsResult, LastReq

THEOREM NextVInv == VInv /\ [Next]_vars => VInv'
<1> SUFFICES ASSUME VInv, [Next]_vars PROVE VInv'
    OBVIOUS
<1>1. IInv'
    BY NextIInv DEF VInv
<1>2. LockInv' /\ ViewInv'
    <2>1. CASE RecvValid \/ RecvInvalid \/ RecvEOF \/ RecvError \/ Return
        BY <2>1, FrameSteps
    <2>2. CASE AcquireInvalid \/ SendInvalid
        BY <2>2, InvalidSteps
    <2>3. CASE \E w \in Pool : WorkerStep(w)
        <3>1. PICK w \in Pool : WorkerStep(w)
            BY <2>3
        <3>2. CASE PoolTake(w)
            BY <3>2, FrameSteps
        <3>3. CASE Execute(w)
            BY <3>3, ExecuteView
        <3>4. CASE Acquire(w)
            BY <3>4, AcquireView
        <3>5. CASE ApplyBag(w)
            BY <3>5, ApplyBagView
        <3>6. CASE Send(w)
            BY <3>6, SendView
        <3>7. CASE Finish(w)
            BY <3>7, FinishView
        <3> QED
            BY <3>1, <3>2, <3>3, <3>4, <3>5, <3>6, <3>7 DEF WorkerStep
    <2>4. CASE Disconnect
        BY <2>4, DisconnectView
    <2>5. CASE Terminated \/ UNCHANGED vars
        <3>1. UNCHANGED vars
            BY <2>5 DEF Terminated
        <3> QED
            BY <3>1, FrameSteps
    <2> QED
        BY <2>1, <2>2, <2>3, <2>4, <2>5 DEF Next, ReaderStep
<1> QED
    BY <1>1, <1>2 DEF VInv

\* Responses carry only the response attributes that changed since the bag
\* respTracker encoded last, and the client applies them in arrival order.
\* Whatever the number of requests, pool goroutines and attributes, and
\* whenever the transport fails, the attributes the client reconstructs
\* after a result are exactly the bag that request's handler produced
\* (ClientSeesResponseBag): sendLock makes ApplyBag and the send one step
\* of the stream.
THEOREM ClientView == Spec => []ClientSeesResponseBag
<1>1. Init => VInv
    BY InitVInv
<1>2. VInv => ClientSeesResponseBag
    BY DEF VInv, ViewInv, LastIsResult, LastReq, ClientSeesResponseBag
<1>3. Spec => []VInv
    BY <1>1, NextVInv, PTL DEF Spec
<1> QED
    BY <1>2, <1>3, PTL

=============================================================================
