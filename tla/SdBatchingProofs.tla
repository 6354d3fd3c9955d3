-------------------------- MODULE SdBatchingProofs --------------------------
(***************************************************************************)
(* Proof that the batching of the stackdriver adapter never loses nor     *)
(* duplicates a recorded time series (PointsAccountedOnce), for every set *)
(* of aspects and of series and every value type.                         *)
(*                                                                         *)
(* PointsAccountedOnce is not inductive by itself: Receive swaps toSend    *)
(* into batch without looking at batch, so it needs to know that batch is *)
(* empty whenever the daemon is not pushing (BatchOnlyWhilePushing).  The  *)
(* union of the places is restated pointwise (Located), which is the form *)
(* the provers handle.                                                     *)
(***************************************************************************)
EXTENDS SdBatching, TLAPS

\* A series is recorded exactly when it is in some buffer, some batch, or
\* has been pushed.
Located ==
    \A x \in Points :
        x \in recorded <=>
            \/ \E s \in Aspects : x \in toSend[s] \cup batch[s]
            \/ x \in delivered \cup failed

\* The disjointness conjuncts of PointsAccountedOnce.
Disjoint ==
    /\ \A s, t \in Aspects :
          /\ s # t => toSend[s] \cap toSend[t] = {} /\ batch[s] \cap batch[t] = {}
          /\ toSend[s] \cap batch[t] = {}
    /\ \A s \in Aspects :
          (toSend[s] \cup batch[s]) \cap (delivered \cup failed) = {}
    /\ delivered \cap failed = {}

\* pushData hands its batch back (empty) before the daemon waits again.
BatchOnlyWhilePushing == \A s \in Aspects : dpc[s] # "push" => batch[s] = {}

\* No daemon runs for an aspect NewMetricsAspect has not built.
NoDaemonUnborn == \A s \in Aspects : state[s] = "unborn" => dpc[s] = "none"

IInv == TypeOK /\ Located /\ Disjoint /\ BatchOnlyWhilePushing /\ NoDaemonUnborn

-----------------------------------------------------------------------------
LEMMA LocatedIsUnion ==
    ASSUME TypeOK, Located
    PROVE  recorded = UNION Places
<1>1. recorded \subseteq UNION Places
    BY DEF Located, Places, TypeOK
<1>2. UNION Places \subseteq recorded
    <2> SUFFICES ASSUME NEW x \in UNION Places PROVE x \in recorded
        OBVIOUS
    <2>1. x \in Points
        BY DEF Places, TypeOK
    <2> QED
        BY <2>1 DEF Located, Places
<1> QED
    BY <1>1, <1>2

LEMMA IInvSafe == IInv => PointsAccountedOnce
    BY LocatedIsUnion DEF IInv, Disjoint, PointsAccountedOnce

THEOREM InitIInv == Init => IInv
<1> SUFFICES ASSUME Init PROVE IInv
    OBVIOUS
<1>1. TypeOK
    BY DEF Init, TypeOK
<1>2. Located /\ Disjoint /\ BatchOnlyWhilePushing /\ NoDaemonUnborn
    BY DEF Init, Located, Disjoint, BatchOnlyWhilePushing,
        NoDaemonUnborn
<1> QED
    BY <1>1, <1>2 DEF IInv

-----------------------------------------------------------------------------
(* One theorem per action.                                                 *)

THEOREM NewMetricsAspectIInv ==
    ASSUME IInv, NEW s \in Aspects, NewMetricsAspect(s)
    PROVE  IInv'
<1>1. TypeOK'
    BY DEF IInv, TypeOK, NewMetricsAspect
<1>2. UNCHANGED <<toSend, batch, recorded, delivered, failed>>
    BY DEF NewMetricsAspect
<1>3. (Located /\ Disjoint)'
    BY <1>2 DEF IInv, Located, Disjoint
<1>4. \A t \in Aspects : dpc'[t] = dpc[t] \/ (dpc[t] = "none" /\ dpc'[t] = "wait")
    BY DEF IInv, TypeOK, NoDaemonUnborn, NewMetricsAspect
<1>5. BatchOnlyWhilePushing'
    BY <1>2, <1>4 DEF IInv, BatchOnlyWhilePushing
<1>6. NoDaemonUnborn'
    BY DEF IInv, TypeOK, NoDaemonUnborn, NewMetricsAspect
<1> QED
    BY <1>1, <1>3, <1>5, <1>6 DEF IInv

THEOREM RecordIInv ==
    ASSUME IInv, NEW s \in Aspects, NEW p \in Points, Record(s, p)
    PROVE  IInv'
<1>1. CASE ToTypedVal(ValueTypeOf[p]) = "panic"
    <2>1. UNCHANGED <<ticker, tick, state, dpc, toSend, batch, recorded,
                      delivered, failed>>
        BY <1>1 DEF Record
    <2>2. TypeOK'
        BY <1>1, <2>1 DEF IInv, TypeOK, Record
    <2> QED
        BY <2>1, <2>2 DEF IInv, Located, Disjoint, BatchOnlyWhilePushing,
        NoDaemonUnborn
<1>2. CASE ToTypedVal(ValueTypeOf[p]) # "panic"
    <2>1. /\ toSend' = [toSend EXCEPT ![s] = @ \cup {p}]
          /\ recorded' = recorded \cup {p}
          /\ UNCHANGED <<dpc, batch, delivered, failed>>
        BY <1>2 DEF Record
    <2>2. p \notin recorded
        BY DEF Record
    <2>3. /\ \A t \in Aspects : p \notin toSend[t] /\ p \notin batch[t]
          /\ p \notin delivered /\ p \notin failed
        BY <2>2 DEF IInv, Located
    <2>4. TypeOK'
        BY <1>2, <2>1 DEF IInv, TypeOK, Record
    <2>5. Located'
        BY <2>1, <2>3 DEF IInv, TypeOK, Located
    <2>6. Disjoint'
        BY <2>1, <2>3 DEF IInv, TypeOK, Disjoint
    <2>7. BatchOnlyWhilePushing'
        BY <2>1 DEF IInv, BatchOnlyWhilePushing
    <2>8. NoDaemonUnborn'
        BY <2>1 DEF IInv, NoDaemonUnborn, Record
    <2> QED
        BY <2>4, <2>5, <2>6, <2>7, <2>8 DEF IInv
<1> QED
    BY <1>1, <1>2

THEOREM TickIInv ==
    ASSUME IInv, Tick
    PROVE  IInv'
<1>1. TypeOK'
    BY DEF IInv, TypeOK, Tick
<1>2. (Located /\ Disjoint /\ BatchOnlyWhilePushing /\ NoDaemonUnborn)'
    BY DEF IInv, Tick, Located, Disjoint, BatchOnlyWhilePushing,
        NoDaemonUnborn
<1> QED
    BY <1>1, <1>2 DEF IInv

THEOREM ReceiveIInv ==
    ASSUME IInv, NEW s \in Aspects, Receive(s)
    PROVE  IInv'
<1>1. CASE toSend[s] = {}
    <2>1. UNCHANGED <<state, dpc, toSend, batch, recorded, delivered, failed>>
        BY <1>1 DEF Receive
    <2>2. TypeOK'
        BY <2>1 DEF IInv, TypeOK, Receive
    <2> QED
        BY <2>1, <2>2 DEF IInv, Located, Disjoint, BatchOnlyWhilePushing,
        NoDaemonUnborn
<1>2. CASE toSend[s] # {}
    <2>1. /\ batch' = [batch EXCEPT ![s] = toSend[s]]
          /\ toSend' = [toSend EXCEPT ![s] = {}]
          /\ dpc' = [dpc EXCEPT ![s] = "push"]
          /\ UNCHANGED <<recorded, delivered, failed>>
        BY <1>2 DEF Receive
    <2>2. batch[s] = {}
        BY DEF Receive, IInv, BatchOnlyWhilePushing
    <2>3. TypeOK'
        BY <2>1 DEF IInv, TypeOK, Receive
    <2>4. Located'
        BY <2>1, <2>2 DEF IInv, TypeOK, Located
    <2>5. Disjoint'
        BY <2>1, <2>2 DEF IInv, TypeOK, Disjoint
    <2>6. BatchOnlyWhilePushing'
        BY <2>1 DEF IInv, TypeOK, BatchOnlyWhilePushing
    <2>7. NoDaemonUnborn'
        BY DEF IInv, TypeOK, NoDaemonUnborn, Receive
    <2> QED
        BY <2>3, <2>4, <2>5, <2>6, <2>7 DEF IInv
<1> QED
    BY <1>1, <1>2

THEOREM PushIInv ==
    ASSUME IInv, NEW s \in Aspects, Push(s)
    PROVE  IInv'
<1>1. /\ batch' = [batch EXCEPT ![s] = {}]
      /\ dpc' = [dpc EXCEPT ![s] = "wait"]
      /\ UNCHANGED <<toSend, recorded>>
      /\ \/ delivered' = delivered \cup batch[s] /\ UNCHANGED failed
         \/ failed' = failed \cup batch[s] /\ UNCHANGED delivered
    BY DEF Push
<1>2. TypeOK'
    BY <1>1 DEF IInv, TypeOK, Push
<1>3. Located'
    BY <1>1 DEF IInv, TypeOK, Located
<1>4. Disjoint'
    BY <1>1 DEF IInv, TypeOK, Disjoint
<1>5. BatchOnlyWhilePushing'
    BY <1>1 DEF IInv, TypeOK, BatchOnlyWhilePushing
<1>6. NoDaemonUnborn'
    BY DEF IInv, TypeOK, NoDaemonUnborn, Push
<1> QED
    BY <1>2, <1>3, <1>4, <1>5, <1>6 DEF IInv

THEOREM CloseIInv ==
    ASSUME IInv, NEW s \in Aspects, Close(s)
    PROVE  IInv'
<1>1. TypeOK'
    BY DEF IInv, TypeOK, Close
<1>2. (Located /\ Disjoint /\ BatchOnlyWhilePushing /\ NoDaemonUnborn)'
    BY DEF IInv, Close, Located, Disjoint, BatchOnlyWhilePushing,
        NoDaemonUnborn
<1> QED
    BY <1>1, <1>2 DEF IInv

THEOREM FactoryCloseIInv ==
    ASSUME IInv, FactoryClose
    PROVE  IInv'
<1>1. TypeOK'
    BY DEF IInv, TypeOK, FactoryClose
<1>2. (Located /\ Disjoint /\ BatchOnlyWhilePushing /\ NoDaemonUnborn)'
    BY DEF IInv, FactoryClose, Located, Disjoint, BatchOnlyWhilePushing,
        NoDaemonUnborn
<1> QED
    BY <1>1, <1>2 DEF IInv

THEOREM NextIInv == IInv /\ [Next]_vars => IInv'
<1> SUFFICES ASSUME IInv, [Next]_vars PROVE IInv'
    OBVIOUS
<1>1. CASE \E s \in Aspects : NewMetricsAspect(s) \/ Receive(s) \/ Push(s) \/ Close(s)
    <2> PICK s \in Aspects : NewMetricsAspect(s) \/ Receive(s) \/ Push(s) \/ Close(s)
        BY <1>1
    <2>1. CASE NewMetricsAspect(s)
        BY <2>1, NewMetricsAspectIInv
    <2>2. CASE Receive(s)
        BY <2>2, ReceiveIInv
    <2>3. CASE Push(s)
        BY <2>3, PushIInv
    <2>4. CASE Close(s)
        BY <2>4, CloseIInv
    <2> QED
        BY <2>1, <2>2, <2>3, <2>4
<1>2. CASE \E s \in Aspects, p \in Points : Record(s, p)
    BY <1>2, RecordIInv
<1>3. CASE Tick
    BY <1>3, TickIInv
<1>4. CASE FactoryClose
    BY <1>4, FactoryCloseIInv
<1>5. CASE UNCHANGED vars
    BY <1>5 DEF vars, IInv, TypeOK, Located, Disjoint, BatchOnlyWhilePushing,
        NoDaemonUnborn
<1> QED
    BY <1>1, <1>2, <1>3, <1>4, <1>5 DEF Next

\* The swap of toSend in pushData, concurrent Record calls, pushes through
\* closed clients and the panics of Record and factory.Close never lose,
\* duplicate or doubly account a recorded time series, for any number of
\* aspects and series.
THEOREM Accounted == Spec => []PointsAccountedOnce
<1>1. Init => IInv
    BY InitIInv
<1>2. Spec => []IInv
    BY <1>1, NextIInv, PTL DEF Spec
<1> QED
    BY <1>2, IInvSafe, PTL

-----------------------------------------------------------------------------
(***************************************************************************)
(* Refinement of MetricsExport.  The pending set of the abstract spec is   *)
(* the union of the buffers and batches (Pending).  Record adds a series   *)
(* that Located puts nowhere else; the swap in Receive moves a buffer into *)
(* a batch that BatchOnlyWhilePushing says is empty, so Pending does not   *)
(* change; Push removes its batch from Pending, and Disjoint says no other *)
(* buffer or batch still holds one of its series.  Every other step leaves *)
(* the buffers, batches and outcomes alone.                                *)
(***************************************************************************)

\* A step that leaves the buffers, batches and outcomes alone is a stutter.
LEMMA ExportStutter ==
    ASSUME UNCHANGED <<toSend, batch, delivered, failed>>
    PROVE  UNCHANGED Export!vars
    BY DEF Export!vars, Pending

THEOREM RecordRefines ==
    ASSUME IInv, NEW s \in Aspects, NEW p \in Points, Record(s, p),
           ToTypedVal(ValueTypeOf[p]) # "panic"
    PROVE  Export!Take(p)
<1>1. /\ toSend' = [toSend EXCEPT ![s] = @ \cup {p}]
      /\ UNCHANGED <<batch, delivered, failed>>
    BY DEF Record
<1>2. p \notin recorded
    BY DEF Record
<1>3. p \notin Pending \cup delivered \cup failed
    BY <1>2 DEF IInv, Located, Pending
<1>4. Pending' = Pending \cup {p}
    <2> SUFFICES ASSUME NEW x
                 PROVE  x \in Pending' <=> x \in Pending \cup {p}
        OBVIOUS
    <2>1. \A t \in Aspects : toSend'[t] = IF t = s THEN toSend[t] \cup {p} ELSE toSend[t]
        BY <1>1 DEF IInv, TypeOK
    <2> QED
        BY <1>1, <2>1 DEF Pending
<1> QED
    BY <1>1, <1>3, <1>4 DEF Export!Take

THEOREM ReceiveStutters ==
    ASSUME IInv, NEW s \in Aspects, Receive(s)
    PROVE  UNCHANGED Export!vars
<1>1. CASE toSend[s] = {}
    BY <1>1, ExportStutter DEF Receive
<1>2. CASE toSend[s] # {}
    <2>1. /\ batch' = [batch EXCEPT ![s] = toSend[s]]
          /\ toSend' = [toSend EXCEPT ![s] = {}]
          /\ UNCHANGED <<delivered, failed>>
        BY <1>2 DEF Receive
    <2>2. batch[s] = {}
        BY DEF Receive, IInv, BatchOnlyWhilePushing
    <2>3. \A t \in Aspects : toSend'[t] \cup batch'[t] = toSend[t] \cup batch[t]
        BY <2>1, <2>2 DEF IInv, TypeOK
    <2>4. Pending' = Pending
        BY <2>3 DEF Pending
    <2> QED
        BY <2>1, <2>4 DEF Export!vars
<1> QED
    BY <1>1, <1>2

THEOREM PushRefines ==
    ASSUME IInv, NEW s \in Aspects, Push(s)
    PROVE  Export!Export(batch[s])
<1>1. /\ batch' = [batch EXCEPT ![s] = {}]
      /\ UNCHANGED toSend
    BY DEF Push
<1>2. \A t \in Aspects : batch'[t] = IF t = s THEN {} ELSE batch[t]
    BY <1>1 DEF IInv, TypeOK
<1>3. batch[s] \subseteq Pending
    BY DEF Pending
<1>4. Pending' = Pending \ batch[s]
    <2> SUFFICES ASSUME NEW x
                 PROVE  x \in Pending' <=> x \in Pending \ batch[s]
        OBVIOUS
    <2>1. ASSUME NEW t \in Aspects, x \in toSend[t] \cup batch[t], t # s
          PROVE  x \notin batch[s]
        BY <2>1 DEF IInv, Disjoint
    <2>2. x \in toSend[s] => x \notin batch[s]
        BY DEF IInv, Disjoint
    <2> QED
        BY <1>1, <1>2, <2>1, <2>2 DEF Pending
<1>5. \/ /\ delivered' = delivered \cup batch[s]
         /\ UNCHANGED failed
      \/ /\ failed' = failed \cup batch[s]
         /\ UNCHANGED delivered
    BY DEF Push
<1> QED
    BY <1>3, <1>4, <1>5 DEF Export!Export

\* Each step of the adapter is a step of MetricsExport or a stutter of it.
THEOREM RefineStep == IInv /\ [Next]_vars => [Export!Next]_Export!vars
<1> SUFFICES ASSUME IInv, [Next]_vars PROVE [Export!Next]_Export!vars
    OBVIOUS
<1>1. ASSUME NEW s \in Aspects, NEW p \in Points, Record(s, p)
      PROVE  [Export!Next]_Export!vars
    <2>1. CASE ToTypedVal(ValueTypeOf[p]) = "panic"
        BY <1>1, <2>1, ExportStutter DEF Record
    <2>2. CASE ToTypedVal(ValueTypeOf[p]) # "panic"
        BY <1>1, <2>2, RecordRefines DEF Export!Next
    <2> QED
        BY <2>1, <2>2
<1>2. ASSUME NEW s \in Aspects, Push(s)
      PROVE  [Export!Next]_Export!vars
    <2>1. batch[s] \in SUBSET Points
        BY DEF IInv, TypeOK
    <2> QED
        BY <1>2, <2>1, PushRefines DEF Export!Next
<1>3. ASSUME NEW s \in Aspects, Receive(s)
      PROVE  [Export!Next]_Export!vars
    BY <1>3, ReceiveStutters
<1>4. ASSUME NEW s \in Aspects, NewMetricsAspect(s) \/ Close(s)
      PROVE  [Export!Next]_Export!vars
    BY <1>4, ExportStutter DEF NewMetricsAspect, Close
<1>5. CASE Tick \/ FactoryClose \/ UNCHANGED vars
    BY <1>5, ExportStutter DEF Tick, FactoryClose, vars
<1> QED
    BY <1>1, <1>2, <1>3, <1>4, <1>5 DEF Next

\* The adapter starts with no series pending, accepted or lost.
THEOREM RefineInit == Init => Export!Init
    BY DEF Init, Export!Init, Pending

\* The batching of the stackdriver adapter implements MetricsExport: each
\* series Record takes is handed to Stackdriver at most once, in a whole
\* batch with one outcome that never changes, however the pushData swaps,
\* concurrent Records, client and factory Close calls and panics interleave.
THEOREM Refinement == Spec => RefinesMetricsExport
<1>1. Spec => []IInv
    BY InitIInv, NextIInv, PTL DEF Spec
<1> QED
    BY <1>1, RefineStep, RefineInit, PTL DEF Spec, RefinesMetricsExport, Export!Spec

=============================================================================
