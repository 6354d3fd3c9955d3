---------------------------- MODULE MetricsExport ----------------------------
(***************************************************************************)
(* What the batching of the stackdriver adapter promises about the time    *)
(* series it is given, independent of aspects, daemons and the ticker:     *)
(* a series is taken once into the pending set; pending series leave it   *)
(* only in a batch handed to Stackdriver, and the whole batch then has one *)
(* outcome, accepted or lost to an error, which never changes afterwards. *)
(***************************************************************************)
CONSTANT Points

VARIABLES
    pending,    \* series taken and not yet handed to Stackdriver
    accepted,   \* series Stackdriver accepted
    lost        \* series of batches whose push returned an error

vars == <<pending, accepted, lost>>

Init ==
    /\ pending = {}
    /\ accepted = {}
    /\ lost = {}

\* A series never seen before is taken.
Take(p) ==
    /\ p \notin pending \cup accepted \cup lost
    /\ pending' = pending \cup {p}
    /\ UNCHANGED <<accepted, lost>>

\* A batch of pending series is handed over and all of it is accepted, or
\* all of it is lost.
Export(B) ==
    /\ B \subseteq pending
    /\ pending' = pending \ B
    /\ \/ /\ accepted' = accepted \cup B
          /\ UNCHANGED lost
       \/ /\ lost' = lost \cup B
          /\ UNCHANGED accepted

Next ==
    \/ \E p \in Points : Take(p)
    \/ \E B \in SUBSET Points : Export(B)

Spec == Init /\ [][Next]_vars

=============================================================================
