--------------------------- MODULE StreamDispatcher ---------------------------
(***************************************************************************)
(* The per-stream dispatch loop of the Mixer gRPC server:                  *)
(* grpcServer.dispatcher (src/unnamed/part_010, lines 75-155) together     *)
(* with the method handlers it is given (handleCheck, handleReport,        *)
(* handleQuota, lines 193-259).                                            *)
(*                                                                         *)
(* One reading goroutine receives the N request messages of one stream in *)
(* order.  A request whose attribute delta does not decode is answered on *)
(* the reading goroutine itself; any other request is handed to the       *)
(* shared GoroutinePool.  A pool goroutine runs the handler, encodes the   *)
(* response bag through the stream's response Tracker, and sends under     *)
(* sendLock.  The deferred wg.Wait() keeps the dispatcher from returning,  *)
(* and the deferred Tracker.Done() calls from running, until every         *)
(* scheduled item has finished.  The transport may go away at any moment. *)
(*                                                                         *)
(* A response bag is a function from attribute names to values; the       *)
(* response Tracker remembers the bag it last encoded and sends only the  *)
(* names whose value changed (the delta); the client applies deltas in     *)
(* the order it receives them.                                             *)
(***************************************************************************)
EXTENDS Naturals, Sequences, FiniteSets

CONSTANTS
    N,          \* request messages the client sends before closing its side
    Indexes,    \* RequestIndex values a client may put in a request
    Pool,       \* goroutines of the GoroutinePool
    Attrs,      \* attribute names a response bag may hold
    Vals,       \* attribute values
    Absent      \* the "value" of a name a bag does not hold

ASSUME Assumptions ==
    /\ N \in Nat \ {0}
    /\ Indexes \subseteq Nat
    /\ Indexes # {}
    /\ Pool # {}
    /\ Absent \notin Vals

Reqs == 1..N
ReaderId == 0           \* the reading goroutine, when it holds sendLock
DefaultIndex == 0       \* the zero value of a proto int field
Bags == [Attrs -> Vals \cup {Absent}]
EmptyBag == [a \in Attrs |-> Absent]
Deltas == UNION {[D -> Vals \cup {Absent}] : D \in SUBSET Attrs}
Requests == [idx : Indexes, valid : BOOLEAN]
Messages == [req : Reqs, idx : Nat, kind : {"result", "invalid"}, delta : Deltas]

\* Where a request is between RecvMsg and the end of its work item.
Phases == {"idle", "queued", "exec", "lock", "apply", "send", "release", "done"}
Outstanding == {"queued", "exec", "lock", "apply", "send", "release"}
ReaderPcs == {"recv", "lockInvalid", "sendInvalid", "drain", "closed"}

VARIABLES
    input,       \* the messages of the stream, fixed by the client
    next,        \* position of the message the next RecvMsg returns
    rpc,         \* program counter of the reading goroutine
    broken,      \* the transport has gone away (cancel, disconnect)
    holders,     \* goroutines inside the sendLock critical section
    wg,          \* the sync.WaitGroup counter
    queue,       \* the pool's work queue
    running,     \* running[w]: request whose work item goroutine w runs, 0 if idle
    phase,       \* phase[r]: progress of request r
    respBag,     \* respBag[r]: the response bag the handler filled for r
    respDelta,   \* respDelta[r]: what respTracker.ApplyBag encoded for r
    respState,   \* the bag respTracker last encoded
    bagLive,     \* bagLive[r]: r's request and response bags are not yet Done()
    trackerDone, \* reqTracker.Done() and respTracker.Done() have run
    wire,        \* the response messages the client has received, in order
    clientView   \* the response attributes as the client reconstructs them

vars == <<input, next, rpc, broken, holders, wg, queue, running, phase,
          respBag, respDelta, respState, bagLive, trackerDone, wire, clientView>>

-----------------------------------------------------------------------------
(* The response delta encoding of a Tracker and its decoding by a client. *)

\* respTracker.ApplyBag: the names whose value differs from the last encoded bag.
Delta(old, new) == [a \in {x \in Attrs : new[x] # old[x]} |-> new[a]]

\* The client applies a received delta to its reconstruction.
ApplyDelta(view, d) == [a \in Attrs |-> IF a \in DOMAIN d THEN d[a] ELSE view[a]]

-----------------------------------------------------------------------------
(* The reading goroutine: the for loop of dispatcher and its defers.       *)

Init ==
    /\ input \in [Reqs -> Requests]
    /\ next = 1
    /\ rpc = "recv"
    /\ broken = FALSE
    /\ holders = {}
    /\ wg = 0
    /\ queue = <<>>
    /\ running = [w \in Pool |-> 0]
    /\ phase = [r \in Reqs |-> "idle"]
    /\ respBag = [r \in Reqs |-> EmptyBag]
    /\ respDelta = [r \in Reqs |-> <<>>]
    /\ respState = EmptyBag
    /\ bagLive = [r \in Reqs |-> FALSE]
    /\ trackerDone = FALSE
    /\ wire = <<>>
    /\ clientView = EmptyBag

\* RecvMsg returns a request whose delta reqTracker.ApplyProto accepts:
\* wg.Add(1) and ScheduleWork put a work item on the pool's queue.
RecvValid ==
    /\ rpc = "recv"
    /\ ~broken
    /\ next <= N
    /\ input[next].valid
    /\ wg' = wg + 1
    /\ queue' = Append(queue, next)
    /\ phase' = [phase EXCEPT ![next] = "queued"]
    /\ bagLive' = [bagLive EXCEPT ![next] = TRUE]
    /\ next' = next + 1
    /\ UNCHANGED <<input, rpc, broken, holders, running, respBag, respDelta,
                   respState, trackerDone, wire, clientView>>

\* RecvMsg returns a request whose delta ApplyProto rejects: the reading
\* goroutine goes on to answer it itself.
RecvInvalid ==
    /\ rpc = "recv"
    /\ ~broken
    /\ next <= N
    /\ ~input[next].valid
    /\ rpc' = "lockInvalid"
    /\ next' = next + 1
    /\ UNCHANGED <<input, broken, holders, wg, queue, running, phase, respBag,
                   respDelta, respState, bagLive, trackerDone, wire, clientView>>

\* sendLock.Lock() on the invalid-request path.
AcquireInvalid ==
    /\ rpc = "lockInvalid"
    /\ holders = {}
    /\ holders' = {ReaderId}
    /\ rpc' = "sendInvalid"
    /\ UNCHANGED <<input, next, broken, wg, queue, running, phase, respBag,
                   respDelta, respState, bagLive, trackerDone, wire, clientView>>

\* The response of getState() is sent with only its Result set: nothing
\* assigns its RequestIndex, which keeps the zero value.  A send error is
\* logged and the loop continues; the lock is released either way.
SendInvalid ==
    /\ rpc = "sendInvalid"
    /\ \/ /\ ~broken
          /\ wire' = Append(wire, [req |-> next - 1, idx |-> DefaultIndex,
                                   kind |-> "invalid", delta |-> <<>>])
       \/ /\ broken
          /\ UNCHANGED wire
    /\ holders' = holders \ {ReaderId}
    /\ rpc' = "recv"
    /\ UNCHANGED <<input, next, broken, wg, queue, running, phase, respBag,
                   respDelta, respState, bagLive, trackerDone, clientView>>

\* RecvMsg returns io.EOF once the client has closed its side.
RecvEOF ==
    /\ rpc = "recv"
    /\ ~broken
    /\ next > N
    /\ rpc' = "drain"
    /\ UNCHANGED <<input, next, broken, holders, wg, queue, running, phase,
                   respBag, respDelta, respState, bagLive, trackerDone, wire,
                   clientView>>

\* RecvMsg fails on a broken transport: dispatcher returns the error.
RecvError ==
    /\ rpc = "recv"
    /\ broken
    /\ rpc' = "drain"
    /\ UNCHANGED <<input, next, broken, holders, wg, queue, running, phase,
                   respBag, respDelta, respState, bagLive, trackerDone, wire,
                   clientView>>

\* Mutant: the deferred wg.Wait() is missing.
ReturnNoWait ==
    /\ rpc = "drain"
    /\ trackerDone' = TRUE
    /\ rpc' = "closed"
    /\ UNCHANGED <<input, next, broken, holders, wg, queue, running, phase,
                   respBag, respDelta, respState, bagLive, wire, clientView>>

\* The deferred calls run in reverse order: wg.Wait() first, then the two
\* Tracker.Done() calls.
Return ==
    /\ rpc = "drain"
    /\ wg = 0
    /\ trackerDone' = TRUE
    /\ rpc' = "closed"
    /\ UNCHANGED <<input, next, broken, holders, wg, queue, running, phase,
                   respBag, respDelta, respState, bagLive, wire, clientView>>

-----------------------------------------------------------------------------
(* The work item scheduled for a request, run by pool goroutine w.         *)

\* Mutant: the queue hands out its head without removing it.
PoolTakeNoDequeue(w) ==
    /\ running[w] = 0
    /\ queue # <<>>
    /\ running' = [running EXCEPT ![w] = Head(queue)]
    /\ phase' = [phase EXCEPT ![Head(queue)] = "exec"]
    /\ UNCHANGED <<input, next, rpc, broken, holders, wg, queue, respBag,
                   respDelta, respState, bagLive, trackerDone, wire, clientView>>

\* An idle pool goroutine takes the oldest item off the queue.
PoolTake(w) ==
    /\ running[w] = 0
    /\ queue # <<>>
    /\ running' = [running EXCEPT ![w] = Head(queue)]
    /\ phase' = [phase EXCEPT ![Head(queue)] = "exec"]
    /\ queue' = Tail(queue)
    /\ UNCHANGED <<input, next, rpc, broken, holders, wg, respBag, respDelta,
                   respState, bagLive, trackerDone, wire, clientView>>

\* GetMutableBag(nil) and the method handler: the handler copies the
\* RequestIndex and fills the fresh response bag with whatever the aspect
\* dispatcher produces.
Execute(w) ==
    LET r == running[w] IN
    /\ r # 0
    /\ phase[r] = "exec"
    /\ \E b \in Bags : respBag' = [respBag EXCEPT ![r] = b]
    /\ phase' = [phase EXCEPT ![r] = "lock"]
    /\ UNCHANGED <<input, next, rpc, broken, holders, wg, queue, running,
                   respDelta, respState, bagLive, trackerDone, wire, clientView>>

\* Mutant: the work item encodes and sends without taking sendLock.
AcquireUnguarded(w) ==
    LET r == running[w] IN
    /\ r # 0
    /\ phase[r] = "lock"
    /\ holders' = holders \cup {r}
    /\ phase' = [phase EXCEPT ![r] = "apply"]
    /\ UNCHANGED <<input, next, rpc, broken, wg, queue, running, respBag,
                   respDelta, respState, bagLive, trackerDone, wire, clientView>>

\* sendLock.Lock() in the work item.
Acquire(w) ==
    LET r == running[w] IN
    /\ r # 0
    /\ phase[r] = "lock"
    /\ holders = {}
    /\ holders' = holders \cup {r}
    /\ phase' = [phase EXCEPT ![r] = "apply"]
    /\ UNCHANGED <<input, next, rpc, broken, wg, queue, running, respBag,
                   respDelta, respState, bagLive, trackerDone, wire, clientView>>

\* respTracker.ApplyBag(responseBag, 0, responseAttrs).
ApplyBag(w) ==
    LET r == running[w] IN
    /\ r # 0
    /\ phase[r] = "apply"
    /\ respDelta' = [respDelta EXCEPT ![r] = Delta(respState, respBag[r])]
    /\ respState' = respBag[r]
    /\ phase' = [phase EXCEPT ![r] = "send"]
    /\ UNCHANGED <<input, next, rpc, broken, holders, wg, queue, running,
                   respBag, bagLive, trackerDone, wire, clientView>>

\* s.sendMsg(stream, response) and sendLock.Unlock(); a send error is only
\* logged.
Send(w) ==
    LET r == running[w] IN
    /\ r # 0
    /\ phase[r] = "send"
    /\ \/ /\ ~broken
          /\ wire' = Append(wire, [req |-> r, idx |-> input[r].idx,
                                   kind |-> "result", delta |-> respDelta[r]])
          /\ clientView' = ApplyDelta(clientView, respDelta[r])
       \/ /\ broken
          /\ UNCHANGED <<wire, clientView>>
    /\ holders' = holders \ {r}
    /\ phase' = [phase EXCEPT ![r] = "release"]
    /\ UNCHANGED <<input, next, rpc, broken, wg, queue, running, respBag,
                   respDelta, respState, bagLive, trackerDone>>

\* Mutant: wg.Done() is called twice (once more in a deferred call).
FinishDoubleDone(w) ==
    LET r == running[w] IN
    /\ r # 0
    /\ phase[r] = "release"
    /\ bagLive' = [bagLive EXCEPT ![r] = FALSE]
    /\ wg' = wg - 2
    /\ phase' = [phase EXCEPT ![r] = "done"]
    /\ running' = [running EXCEPT ![w] = 0]
    /\ UNCHANGED <<input, next, rpc, broken, holders, queue, respBag,
                   respDelta, respState, trackerDone, wire, clientView>>

\* Mutant: the pool goroutine never returns to the idle set.
FinishNoReset(w) ==
    LET r == running[w] IN
    /\ r # 0
    /\ phase[r] = "release"
    /\ bagLive' = [bagLive EXCEPT ![r] = FALSE]
    /\ wg' = wg - 1
    /\ phase' = [phase EXCEPT ![r] = "done"]
    /\ UNCHANGED <<input, next, rpc, broken, holders, queue, running, respBag,
                   respDelta, respState, trackerDone, wire, clientView>>

\* requestBag.Done(), responseBag.Done(), wg.Done(); the goroutine is idle.
Finish(w) ==
    LET r == running[w] IN
    /\ r # 0
    /\ phase[r] = "release"
    /\ bagLive' = [bagLive EXCEPT ![r] = FALSE]
    /\ wg' = wg - 1
    /\ phase' = [phase EXCEPT ![r] = "done"]
    /\ running' = [running EXCEPT ![w] = 0]
    /\ UNCHANGED <<input, next, rpc, broken, holders, queue, respBag,
                   respDelta, respState, trackerDone, wire, clientView>>

-----------------------------------------------------------------------------
(* The environment.                                                        *)

\* The client cancels or the connection drops.
Disconnect ==
    /\ ~broken
    /\ rpc # "closed"
    /\ broken' = TRUE
    /\ UNCHANGED <<input, next, rpc, holders, wg, queue, running, phase,
                   respBag, respDelta, respState, bagLive, trackerDone, wire,
                   clientView>>

\* The stream handler has returned: nothing is left to do.
Terminated ==
    /\ rpc = "closed"
    /\ UNCHANGED vars

ReaderStep ==
    \/ RecvValid \/ RecvInvalid \/ AcquireInvalid \/ SendInvalid
    \/ RecvEOF \/ RecvError \/ Return

WorkerStep(w) ==
    \/ PoolTake(w) \/ Execute(w) \/ Acquire(w) \/ ApplyBag(w) \/ Send(w)
    \/ Finish(w)

Next ==
    \/ ReaderStep
    \/ \E w \in Pool : WorkerStep(w)
    \/ Disconnect
    \/ Terminated

\* The Go scheduler runs every runnable goroutine eventually; the transport
\* is under no obligation to fail.
Fairness ==
    /\ WF_vars(ReaderStep)
    /\ \A w \in Pool : WF_vars(WorkerStep(w))

Spec == Init /\ [][Next]_vars /\ Fairness

-----------------------------------------------------------------------------
(* Properties.                                                             *)

TypeOK ==
    /\ input \in [Reqs -> Requests]
    /\ next \in 1..(N + 1)
    /\ rpc \in ReaderPcs
    /\ broken \in BOOLEAN
    /\ holders \subseteq ({ReaderId} \cup Reqs)
    /\ wg \in Nat
    /\ queue \in Seq(Reqs)
    /\ running \in [Pool -> {0} \cup Reqs]
    /\ phase \in [Reqs -> Phases]
    /\ respBag \in [Reqs -> Bags]
    /\ respDelta \in [Reqs -> Deltas]
    /\ respState \in Bags
    /\ bagLive \in [Reqs -> BOOLEAN]
    /\ trackerDone \in BOOLEAN
    /\ wire \in Seq(Messages)
    /\ clientView \in Bags

\* The dispatcher returns, and the deferred Tracker.Done() calls release the
\* cumulative bags, only after every scheduled work item has sent its
\* response and released its request and response bags: no request bag
\* outlives the tracker it is a child of, and no goroutine still holds work
\* of the stream.
DrainedBeforeClose ==
    trackerDone =>
        /\ \A r \in Reqs : phase[r] \in {"idle", "done"} /\ ~bagLive[r]
        /\ \A w \in Pool : running[w] = 0

\* Response attributes are sent as deltas against what respTracker encoded
\* last.  Whenever the client has just received a handler's response, the
\* attributes it has reconstructed are exactly that handler's response bag:
\* encoding and sending happen in the same order on the stream.
ClientSeesResponseBag ==
    (wire # <<>> /\ wire[Len(wire)].kind = "result")
        => clientView = respBag[wire[Len(wire)].req]

\* Every response the client receives carries the RequestIndex of the
\* request it answers (spec 4.6: the correlation identifier is echoed
\* unchanged, on the invalid-argument path too).
ResponseEchoesRequestIndex ==
    \A k \in 1..Len(wire) : wire[k].idx = input[wire[k].req].idx

\* The stream handler eventually returns.
Termination == <>(rpc = "closed")

-----------------------------------------------------------------------------
(* What the dispatcher promises, as the abstract RequestStream.            *)

\* Requests answered: the ones whose work item sent (or failed to send) its
\* response, and the invalid ones the reading goroutine has dealt with.
AnsweredReqs ==
    {r \in 1..(next - 1) :
        IF input[r].valid
        THEN phase[r] \in {"release", "done"}
        ELSE ~(rpc \in {"lockInvalid", "sendInvalid"} /\ r = next - 1)}

Abstract == INSTANCE RequestStream WITH
    arrived <- next - 1,
    answered <- AnsweredReqs,
    out <- [k \in 1..Len(wire) |-> [req |-> wire[k].req, kind |-> wire[k].kind]],
    closed <- (rpc = "closed")

\* The dispatcher implements RequestStream.
RefinesRequestStream == Abstract!Spec

=============================================================================
