---------------------------- MODULE RequestStream ----------------------------
(***************************************************************************)
(* What a Mixer request stream promises its client, independent of how the *)
(* server schedules work (spec 4.6; grpcServer.dispatcher in               *)
(* src/unnamed/part_010).  Requests arrive in order; each request that has *)
(* arrived is answered at most once, in any order, with a result if its    *)
(* attributes decoded and an invalid-argument response otherwise; a        *)
(* response may be lost when the transport fails; the stream closes only  *)
(* when every request that arrived has been answered.                      *)
(***************************************************************************)
EXTENDS Naturals, Sequences

CONSTANTS N, Indexes

Reqs == 1..N
Requests == [idx : Indexes, valid : BOOLEAN]

VARIABLES
    input,      \* the messages of the stream
    arrived,    \* how many requests have been read
    answered,   \* the requests that have been dealt with
    out,        \* the responses delivered, in order: [req, kind]
    closed      \* the stream handler has returned

vars == <<input, arrived, answered, out, closed>>

KindOf(r) == IF input[r].valid THEN "result" ELSE "invalid"

Init ==
    /\ input \in [Reqs -> Requests]
    /\ arrived = 0
    /\ answered = {}
    /\ out = <<>>
    /\ closed = FALSE

\* The next request is read.
Arrive ==
    /\ ~closed
    /\ arrived < N
    /\ arrived' = arrived + 1
    /\ UNCHANGED <<input, answered, out, closed>>

\* A request that arrived and is not yet answered is answered; its response
\* reaches the client, or is lost on a failed transport.
Answer(r) ==
    /\ r \in 1..arrived
    /\ r \notin answered
    /\ answered' = answered \cup {r}
    /\ \/ out' = Append(out, [req |-> r, kind |-> KindOf(r)])
       \/ out' = out
    /\ UNCHANGED <<input, arrived, closed>>

\* The stream handler returns once every request read has been answered.
Close ==
    /\ ~closed
    /\ answered = 1..arrived
    /\ closed' = TRUE
    /\ UNCHANGED <<input, arrived, answered, out>>

Next == Arrive \/ (\E r \in Reqs : Answer(r)) \/ Close

Spec == Init /\ [][Next]_vars

\* Each request is answered at most once, and only after it arrived.
AnsweredOnce ==
    /\ \A i, j \in 1..Len(out) : out[i].req = out[j].req => i = j
    /\ \A i \in 1..Len(out) : out[i].req \in answered

=============================================================================
