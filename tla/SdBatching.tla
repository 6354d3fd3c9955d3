------------------------------ MODULE SdBatching ------------------------------
(***************************************************************************)
(* Batching of the stackdriver metrics adapter                             *)
(* (src/adapter/stackdriver/stackdriver.go).  Each metrics aspect (sd)     *)
(* buffers the time series Record gives it in toSend, under its mutex; a   *)
(* daemon started by NewMetricsAspect ranges over the channel of ONE       *)
(* ticker that the factory creates in its sync.Once and shares between    *)
(* all aspects, and on each tick it receives runs pushData: swap toSend    *)
(* for an empty slice under the lock, coalesce, and CreateTimeSeries       *)
(* outside the lock.  The result of the push is only logged.  sd.Close     *)
(* closes the client but leaves the daemon running; factory.Close stops   *)
(* the ticker, whose channel is never closed.                              *)
(*                                                                         *)
(* A time series is a member of Points, recorded at most once; its value *)
(* has the Go type of its metric's label type, and toTypedVal converts it *)
(* for the TimeSeries point.  coalesce is modelled in Coalesce.  A panic   *)
(* ends the process.                                                       *)
(***************************************************************************)
EXTENDS FiniteSets

CONSTANTS
    Aspects,    \* the sd instances NewMetricsAspect may build over reloads
    Points,     \* the time series Record may be given
    ValueTypeOf \* ValueTypeOf[p]: the adapter.LabelType of p's metric value

\* The label types whose conversion differs (the address, URI, DNS name and
\* string map types map to STRING, as String does).
LabelTypes == {"String", "Int64", "Float64", "Time", "Duration", "Bool"}

\* labelMap: the Stackdriver label type toTypedVal switches on.
LabelMap == [t \in LabelTypes |->
               CASE t = "Bool" -> "BOOL"
                 [] t \in {"Int64", "Float64", "Time", "Duration"} -> "INT64"
                 [] OTHER -> "STRING"]

\* The Go type of the value mixer passes for a metric of label type t.
GoTypeOf == [String |-> "string", Int64 |-> "int64", Float64 |-> "float64",
             Time |-> "time.Time", Duration |-> "time.Duration", Bool |-> "bool"]

\* toTypedVal: the field of the TypedValue it fills, or "panic" when a
\* type assertion fails.  For INT64, a time.Time becomes the int
\* t.Nanosecond() / int(time.Microsecond), a time.Duration the int64
\* d.Nanoseconds() / int64(time.Microsecond), and then val.(int64) is
\* asserted.
ToTypedVal(t) ==
    LET v == GoTypeOf[t]
        conv == CASE v = "time.Time" -> "int"
                  [] v = "time.Duration" -> "int64"
                  [] OTHER -> v
    IN  CASE LabelMap[t] = "BOOL" -> IF v = "bool" THEN "BoolValue" ELSE "panic"
          [] LabelMap[t] = "INT64" -> IF conv = "int64" THEN "Int64Value" ELSE "panic"
          [] OTHER -> "StringValue"

VARIABLES
    ticker,     \* f.t: "nil" before the once has run, then "running" or "stopped"
    tick,       \* a tick is waiting in ticker.C (its buffer holds one)
    state,      \* state[s]: "unborn", "live", "closed" (sd.Close) or "failed"
    dpc,        \* dpc[s]: the daemon of s is "none", "wait" (on ticker.C) or "push"
    toSend,     \* toSend[s]: the buffered time series of s
    batch,      \* batch[s]: what the daemon of s has swapped out and is pushing
    recorded,   \* every time series given to a Record call
    delivered,  \* the time series Stackdriver accepted
    failed,     \* the time series of pushes that returned an error
    panicked    \* the process has panicked

vars == <<ticker, tick, state, dpc, toSend, batch, recorded, delivered, failed,
          panicked>>

Init ==
    /\ ticker = "nil"
    /\ tick = FALSE
    /\ state = [s \in Aspects |-> "unborn"]
    /\ dpc = [s \in Aspects |-> "none"]
    /\ toSend = [s \in Aspects |-> {}]
    /\ batch = [s \in Aspects |-> {}]
    /\ recorded = {}
    /\ delivered = {}
    /\ failed = {}
    /\ panicked = FALSE

\* factory.NewMetricsAspect: the once creates the ticker with this config's
\* interval whatever happens next; if createClient fails the aspect is not
\* built, otherwise startTicker schedules its daemon on the shared ticker.
NewMetricsAspect(s) ==
    /\ ~panicked
    /\ state[s] = "unborn"
    /\ ticker' = IF ticker = "nil" THEN "running" ELSE ticker
    /\ \/ /\ state' = [state EXCEPT ![s] = "live"]
          /\ dpc' = [dpc EXCEPT ![s] = "wait"]
       \/ /\ state' = [state EXCEPT ![s] = "failed"]
          /\ UNCHANGED dpc
    /\ UNCHANGED <<tick, toSend, batch, recorded, delivered, failed, panicked>>

\* sd.Record with a value of p: its TimeSeries is built, with toTypedVal
\* for the point, and appended to toSend under s.m; a failing type
\* assertion in toTypedVal panics before anything is appended.
Record(s, p) ==
    /\ ~panicked
    /\ state[s] = "live"
    /\ p \notin recorded
    /\ IF ToTypedVal(ValueTypeOf[p]) = "panic"
         THEN /\ panicked' = TRUE
              /\ UNCHANGED <<toSend, recorded>>
         ELSE /\ toSend' = [toSend EXCEPT ![s] = @ \cup {p}]
              /\ recorded' = recorded \cup {p}
              /\ UNCHANGED panicked
    /\ UNCHANGED <<ticker, tick, state, dpc, batch, delivered, failed>>

\* The running ticker fires; a tick nobody has taken is dropped.
Tick ==
    /\ ~panicked
    /\ ticker = "running"
    /\ tick' = TRUE
    /\ UNCHANGED <<ticker, state, dpc, toSend, batch, recorded, delivered,
                   failed, panicked>>

\* Mutant: pushData takes the buffer without giving s a fresh toSend.
ReceiveNoReset(s) ==
    /\ ~panicked
    /\ dpc[s] = "wait"
    /\ tick
    /\ tick' = FALSE
    /\ \/ /\ toSend[s] = {}
          /\ UNCHANGED <<dpc, toSend, batch>>
       \/ /\ toSend[s] # {}
          /\ batch' = [batch EXCEPT ![s] = toSend[s]]
          /\ dpc' = [dpc EXCEPT ![s] = "push"]
          /\ UNCHANGED toSend
    /\ UNCHANGED <<ticker, state, recorded, delivered, failed, panicked>>

\* One daemon receives the tick and runs the locked part of pushData: it
\* returns if toSend is empty, and otherwise swaps it out.
Receive(s) ==
    /\ ~panicked
    /\ dpc[s] = "wait"
    /\ tick
    /\ tick' = FALSE
    /\ \/ /\ toSend[s] = {}
          /\ UNCHANGED <<dpc, toSend, batch>>
       \/ /\ toSend[s] # {}
          /\ batch' = [batch EXCEPT ![s] = toSend[s]]
          /\ toSend' = [toSend EXCEPT ![s] = {}]
          /\ dpc' = [dpc EXCEPT ![s] = "push"]
    /\ UNCHANGED <<ticker, state, recorded, delivered, failed, panicked>>

\* Mutant: the daemon leaves its loop after the first push.
PushOnce(s) ==
    /\ ~panicked
    /\ dpc[s] = "push"
    /\ \/ /\ state[s] = "live"
          /\ delivered' = delivered \cup batch[s]
          /\ UNCHANGED failed
       \/ /\ failed' = failed \cup batch[s]
          /\ UNCHANGED delivered
    /\ batch' = [batch EXCEPT ![s] = {}]
    /\ dpc' = [dpc EXCEPT ![s] = "none"]
    /\ UNCHANGED <<ticker, tick, state, toSend, recorded, panicked>>

\* The rest of pushData: coalesce and CreateTimeSeries, outside the lock.
\* The push fails on a closed client, and may fail on a live one; the error
\* is logged and the batch is gone either way.
Push(s) ==
    /\ ~panicked
    /\ dpc[s] = "push"
    /\ \/ /\ state[s] = "live"
          /\ delivered' = delivered \cup batch[s]
          /\ UNCHANGED failed
       \/ /\ failed' = failed \cup batch[s]
          /\ UNCHANGED delivered
    /\ batch' = [batch EXCEPT ![s] = {}]
    /\ dpc' = [dpc EXCEPT ![s] = "wait"]
    /\ UNCHANGED <<ticker, tick, state, toSend, recorded, panicked>>

\* sd.Close: s.client.Close(); the daemon keeps ranging over ticker.C.
Close(s) ==
    /\ ~panicked
    /\ state[s] = "live"
    /\ state' = [state EXCEPT ![s] = "closed"]
    /\ UNCHANGED <<ticker, tick, dpc, toSend, batch, recorded, delivered,
                   failed, panicked>>

\* factory.Close: f.t.Stop(); Stop does not close ticker.C.  Before any
\* NewMetricsAspect f.t is nil and Stop dereferences it: a panic.
FactoryClose ==
    /\ ~panicked
    /\ IF ticker = "nil"
         THEN /\ panicked' = TRUE
              /\ UNCHANGED ticker
         ELSE /\ ticker' = "stopped"
              /\ UNCHANGED panicked
    /\ UNCHANGED <<tick, state, dpc, toSend, batch, recorded, delivered,
                   failed>>

Next ==
    \/ \E s \in Aspects : NewMetricsAspect(s) \/ Receive(s) \/ Push(s) \/ Close(s)
    \/ \E s \in Aspects, p \in Points : Record(s, p)
    \/ Tick
    \/ FactoryClose

\* A running time.Ticker keeps firing; a goroutine that can run eventually
\* runs.  Go serves the receivers blocked on a channel in FIFO order, so a
\* daemon that waits on ticker.C while ticks keep coming is eventually the
\* one served: strong fairness of Receive.
Fairness ==
    /\ WF_vars(Tick)
    /\ \A s \in Aspects : SF_vars(Receive(s)) /\ WF_vars(Push(s))

Spec == Init /\ [][Next]_vars /\ Fairness

-----------------------------------------------------------------------------
TypeOK ==
    /\ ticker \in {"nil", "running", "stopped"}
    /\ tick \in BOOLEAN
    /\ state \in [Aspects -> {"unborn", "live", "closed", "failed"}]
    /\ dpc \in [Aspects -> {"none", "wait", "push"}]
    /\ toSend \in [Aspects -> SUBSET Points]
    /\ batch \in [Aspects -> SUBSET Points]
    /\ recorded \subseteq Points
    /\ delivered \subseteq Points
    /\ failed \subseteq Points
    /\ panicked \in BOOLEAN

\* Where a recorded time series is: buffered, being pushed, accepted, or
\* lost to a push error.
Places ==
    {toSend[s] : s \in Aspects} \cup {batch[s] : s \in Aspects} \cup {delivered, failed}

\* Every series Record accepted is in exactly one place at a time: the swap
\* in pushData and concurrent Record calls neither drop nor duplicate one,
\* and a series is never both delivered and reported lost.
PointsAccountedOnce ==
    /\ recorded = UNION Places
    /\ \A s, t \in Aspects :
          /\ s # t => toSend[s] \cap toSend[t] = {} /\ batch[s] \cap batch[t] = {}
          /\ toSend[s] \cap batch[t] = {}
    /\ \A s \in Aspects :
          (toSend[s] \cup batch[s]) \cap (delivered \cup failed) = {}
    /\ delivered \cap failed = {}

\* While the factory is open and the process alive, every series that is
\* recorded is eventually pushed (accepted or lost to an error), even with
\* several daemons, some of closed aspects, competing for the ticks of the
\* one shared ticker.
RecordedEventuallyPushed ==
    \A p \in Points :
        p \in recorded ~>
            (p \in delivered \cup failed \/ ticker = "stopped" \/ panicked)

-----------------------------------------------------------------------------
(* What the batching promises, as the abstract MetricsExport.              *)

\* The series Record has buffered and no push has yet handed over: those in
\* some toSend and those a daemon has swapped out into its batch.
Pending == UNION {toSend[s] \cup batch[s] : s \in Aspects}

Export == INSTANCE MetricsExport WITH
    pending <- Pending,
    accepted <- delivered,
    lost <- failed

\* Every step of the adapter either takes a new series, hands a batch of
\* pending series to Stackdriver with a single outcome for all of it, or
\* changes none of these sets: the swap in pushData, Close on the client
\* and the panics of Record and factory.Close are stutters of MetricsExport.
RefinesMetricsExport == Export!Spec

=============================================================================
