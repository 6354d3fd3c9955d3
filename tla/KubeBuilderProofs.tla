------------------------- MODULE KubeBuilderProofs -------------------------
(***************************************************************************)
(* Proofs about the attributes-generator builder of the kubernetes        *)
(* adapter, for every set of concurrent calls, every cluster, every        *)
(* service map and every set of inputs the assumptions of KubeGen and     *)
(* KubeBuilder allow:                                                      *)
(*   - at most one cache controller is ever created (OneController);      *)
(*   - every generator handed out reads a synced cache                    *)
(*     (GeneratorOnlyAfterSync);                                          *)
(*   - every Generate call returns the attributes of exactly the pods its *)
(*     UID inputs name (GeneratedAttributesOfNamedPods).                  *)
(*                                                                         *)
(* None of the three is inductive.  The invariant IInv records what b.Lock *)
(* buys: the call past the needsCacheInit test holds the lock (LockInv),  *)
(* a call about to create a controller sees none created (CreateInv), a   *)
(* controller created and not yet synced is still in the hands of the     *)
(* call that created it (CtrlInv), and needsCacheInit is cleared only     *)
(* once the cache has synced, which nothing undoes (SyncInv).             *)
(***************************************************************************)
EXTENDS KubeBuilder, SequenceTheorems, TLAPS

Locked == {"create", "sync", "send", "build", "panic"}

TypeOKB ==
    /\ stop \in {"open", "closed"}
    /\ needsInit \in BOOLEAN
    /\ ctrls \in Nat
    /\ synced \in BOOLEAN
    /\ holder \in Calls \cup {None}
    /\ pc \in [Calls -> Pcs]
    /\ gens \subseteq [call : Calls, synced : BOOLEAN]
    /\ panicked \in BOOLEAN

\* The call between the needsCacheInit test and its return holds b.Lock.
LockInv == \A c \in Calls : pc[c] \in Locked => holder = c

\* A call about to run newCacheControllerFn sees no controller yet.
CreateInv == \A c \in Calls : pc[c] = "create" => needsInit /\ ctrls = 0

\* Once a controller exists while needsCacheInit is still set, the call
\* that created it holds the lock and has not yet returned.
CtrlInv ==
    /\ ctrls \in {0, 1}
    /\ ctrls = 1 /\ needsInit =>
          holder \in Calls /\ pc[holder] \in {"sync", "send", "panic"}

\* needsCacheInit is cleared only after a sync, and a call that builds a
\* generator has passed the sync; generators exist only then.
SyncInv ==
    /\ ~needsInit => synced
    /\ \A c \in Calls : pc[c] = "build" => ~needsInit
    /\ gens # {} => ~needsInit

\* The last Generate call read the whole cluster.
OutInv == \A o \in lastOut : o.in \in Inputs /\ o.vals = Generate(Cluster, o.in)

IInv ==
    /\ TypeOKB
    /\ LockInv
    /\ CreateInv
    /\ CtrlInv
    /\ SyncInv
    /\ GeneratorOnlyAfterSync
    /\ OutInv

-----------------------------------------------------------------------------
THEOREM InitIInv == Init => IInv
<1> SUFFICES ASSUME Init PROVE IInv
    OBVIOUS
<1>1. TypeOKB
    BY CallsAssumption DEF Init, TypeOKB, Pcs, None
<1>2. LockInv /\ CreateInv /\ CtrlInv /\ SyncInv
    BY DEF Init, LockInv, CreateInv, CtrlInv, SyncInv, Locked
<1>3. GeneratorOnlyAfterSync /\ OutInv
    BY DEF Init, GeneratorOnlyAfterSync, OutInv
<1> QED
    BY <1>1, <1>2, <1>3 DEF IInv

-----------------------------------------------------------------------------
(* One theorem per action of a call, then per action of the daemon, the   *)
(* cache, Close and the generators; one step per conjunct of IInv.         *)

THEOREM LockIInv ==
    ASSUME IInv, NEW c \in Calls, Lock(c)
    PROVE  IInv'
<1>1. TypeOKB'
    BY CallsAssumption DEF Lock, IInv, TypeOKB, LockInv, CreateInv, CtrlInv, SyncInv,
          GeneratorOnlyAfterSync, OutInv, Locked, Pcs, None
<1>2. LockInv'
    BY CallsAssumption DEF Lock, IInv, TypeOKB, LockInv, CreateInv, CtrlInv, SyncInv,
          GeneratorOnlyAfterSync, OutInv, Locked, Pcs, None
<1>3. CreateInv'
    BY CallsAssumption DEF Lock, IInv, TypeOKB, LockInv, CreateInv, CtrlInv, SyncInv,
          GeneratorOnlyAfterSync, OutInv, Locked, Pcs, None
<1>4. CtrlInv'
    BY CallsAssumption DEF Lock, IInv, TypeOKB, LockInv, CreateInv, CtrlInv, SyncInv,
          GeneratorOnlyAfterSync, OutInv, Locked, Pcs, None
<1>5. SyncInv'
    BY CallsAssumption DEF Lock, IInv, TypeOKB, LockInv, CreateInv, CtrlInv, SyncInv,
          GeneratorOnlyAfterSync, OutInv, Locked, Pcs, None
<1>6. GeneratorOnlyAfterSync'
    BY CallsAssumption DEF Lock, IInv, TypeOKB, LockInv, CreateInv, CtrlInv, SyncInv,
          GeneratorOnlyAfterSync, OutInv, Locked, Pcs, None
<1>7. OutInv'
    BY CallsAssumption DEF Lock, IInv, TypeOKB, LockInv, CreateInv, CtrlInv, SyncInv,
          GeneratorOnlyAfterSync, OutInv, Locked, Pcs, None
<1> QED
    BY <1>1, <1>2, <1>3, <1>4, <1>5, <1>6, <1>7 DEF IInv

THEOREM CreateOKIInv ==
    ASSUME IInv, NEW c \in Calls, CreateOK(c)
    PROVE  IInv'
<1>1. TypeOKB'
    <2>1. ctrls' \in Nat
        <3>1. ctrls \in Nat
            BY DEF IInv, TypeOKB
        <3>2. ctrls' = ctrls + 1
            BY DEF CreateOK
        <3> QED
            BY <3>1, <3>2
    <2>4. synced' \in BOOLEAN
        BY DEF CreateOK
    <2>2. pc' \in [Calls -> Pcs]
        <3>1. pc \in [Calls -> Pcs] /\ "sync" \in Pcs
            BY DEF IInv, TypeOKB, Pcs
        <3>2. pc' = [pc EXCEPT ![c] = "sync"]
            BY DEF CreateOK
        <3> QED
            BY <3>1, <3>2
    <2>3. UNCHANGED <<stop, needsInit, holder, gens, panicked>>
        BY DEF CreateOK
    <2> QED
        BY <2>1, <2>2, <2>3, <2>4 DEF IInv, TypeOKB
<1>2. LockInv'
    BY CallsAssumption DEF CreateOK, IInv, TypeOKB, LockInv, CreateInv, CtrlInv, SyncInv,
          GeneratorOnlyAfterSync, OutInv, Locked, Pcs, None
<1>3. CreateInv'
    BY CallsAssumption DEF CreateOK, IInv, TypeOKB, LockInv, CreateInv, CtrlInv, SyncInv,
          GeneratorOnlyAfterSync, OutInv, Locked, Pcs, None
<1>4. CtrlInv'
    BY CallsAssumption DEF CreateOK, IInv, TypeOKB, LockInv, CreateInv, CtrlInv, SyncInv,
          GeneratorOnlyAfterSync, OutInv, Locked, Pcs, None
<1>5. SyncInv'
    BY CallsAssumption DEF CreateOK, IInv, TypeOKB, LockInv, CreateInv, CtrlInv, SyncInv,
          GeneratorOnlyAfterSync, OutInv, Locked, Pcs, None
<1>6. GeneratorOnlyAfterSync'
    BY CallsAssumption DEF CreateOK, IInv, TypeOKB, LockInv, CreateInv, CtrlInv, SyncInv,
          GeneratorOnlyAfterSync, OutInv, Locked, Pcs, None
<1>7. OutInv'
    BY CallsAssumption DEF CreateOK, IInv, TypeOKB, LockInv, CreateInv, CtrlInv, SyncInv,
          GeneratorOnlyAfterSync, OutInv, Locked, Pcs, None
<1> QED
    BY <1>1, <1>2, <1>3, <1>4, <1>5, <1>6, <1>7 DEF IInv

THEOREM CreateFailIInv ==
    ASSUME IInv, NEW c \in Calls, CreateFail(c)
    PROVE  IInv'
<1>1. TypeOKB'
    BY CallsAssumption DEF CreateFail, IInv, TypeOKB, LockInv, CreateInv, CtrlInv, SyncInv,
          GeneratorOnlyAfterSync, OutInv, Locked, Pcs, None
<1>2. LockInv'
    BY CallsAssumption DEF CreateFail, IInv, TypeOKB, LockInv, CreateInv, CtrlInv, SyncInv,
          GeneratorOnlyAfterSync, OutInv, Locked, Pcs, None
<1>3. CreateInv'
    BY CallsAssumption DEF CreateFail, IInv, TypeOKB, LockInv, CreateInv, CtrlInv, SyncInv,
          GeneratorOnlyAfterSync, OutInv, Locked, Pcs, None
<1>4. CtrlInv'
    BY CallsAssumption DEF CreateFail, IInv, TypeOKB, LockInv, CreateInv, CtrlInv, SyncInv,
          GeneratorOnlyAfterSync, OutInv, Locked, Pcs, None
<1>5. SyncInv'
    BY CallsAssumption DEF CreateFail, IInv, TypeOKB, LockInv, CreateInv, CtrlInv, SyncInv,
          GeneratorOnlyAfterSync, OutInv, Locked, Pcs, None
<1>6. GeneratorOnlyAfterSync'
    BY CallsAssumption DEF CreateFail, IInv, TypeOKB, LockInv, CreateInv, CtrlInv, SyncInv,
          GeneratorOnlyAfterSync, OutInv, Locked, Pcs, None
<1>7. OutInv'
    BY CallsAssumption DEF CreateFail, IInv, TypeOKB, LockInv, CreateInv, CtrlInv, SyncInv,
          GeneratorOnlyAfterSync, OutInv, Locked, Pcs, None
<1> QED
    BY <1>1, <1>2, <1>3, <1>4, <1>5, <1>6, <1>7 DEF IInv

THEOREM SyncOKIInv ==
    ASSUME IInv, NEW c \in Calls, SyncOK(c)
    PROVE  IInv'
<1>1. TypeOKB'
    BY CallsAssumption DEF SyncOK, IInv, TypeOKB, LockInv, CreateInv, CtrlInv, SyncInv,
          GeneratorOnlyAfterSync, OutInv, Locked, Pcs, None
<1>2. LockInv'
    BY CallsAssumption DEF SyncOK, IInv, TypeOKB, LockInv, CreateInv, CtrlInv, SyncInv,
          GeneratorOnlyAfterSync, OutInv, Locked, Pcs, None
<1>3. CreateInv'
    BY CallsAssumption DEF SyncOK, IInv, TypeOKB, LockInv, CreateInv, CtrlInv, SyncInv,
          GeneratorOnlyAfterSync, OutInv, Locked, Pcs, None
<1>4. CtrlInv'
    BY CallsAssumption DEF SyncOK, IInv, TypeOKB, LockInv, CreateInv, CtrlInv, SyncInv,
          GeneratorOnlyAfterSync, OutInv, Locked, Pcs, None
<1>5. SyncInv'
    BY CallsAssumption DEF SyncOK, IInv, TypeOKB, LockInv, CreateInv, CtrlInv, SyncInv,
          GeneratorOnlyAfterSync, OutInv, Locked, Pcs, None
<1>6. GeneratorOnlyAfterSync'
    BY CallsAssumption DEF SyncOK, IInv, TypeOKB, LockInv, CreateInv, CtrlInv, SyncInv,
          GeneratorOnlyAfterSync, OutInv, Locked, Pcs, None
<1>7. OutInv'
    BY CallsAssumption DEF SyncOK, IInv, TypeOKB, LockInv, CreateInv, CtrlInv, SyncInv,
          GeneratorOnlyAfterSync, OutInv, Locked, Pcs, None
<1> QED
    BY <1>1, <1>2, <1>3, <1>4, <1>5, <1>6, <1>7 DEF IInv

THEOREM SyncFailIInv ==
    ASSUME IInv, NEW c \in Calls, SyncFail(c)
    PROVE  IInv'
<1>1. TypeOKB'
    BY CallsAssumption DEF SyncFail, IInv, TypeOKB, LockInv, CreateInv, CtrlInv, SyncInv,
          GeneratorOnlyAfterSync, OutInv, Locked, Pcs, None
<1>2. LockInv'
    BY CallsAssumption DEF SyncFail, IInv, TypeOKB, LockInv, CreateInv, CtrlInv, SyncInv,
          GeneratorOnlyAfterSync, OutInv, Locked, Pcs, None
<1>3. CreateInv'
    BY CallsAssumption DEF SyncFail, IInv, TypeOKB, LockInv, CreateInv, CtrlInv, SyncInv,
          GeneratorOnlyAfterSync, OutInv, Locked, Pcs, None
<1>4. CtrlInv'
    BY CallsAssumption DEF SyncFail, IInv, TypeOKB, LockInv, CreateInv, CtrlInv, SyncInv,
          GeneratorOnlyAfterSync, OutInv, Locked, Pcs, None
<1>5. SyncInv'
    BY CallsAssumption DEF SyncFail, IInv, TypeOKB, LockInv, CreateInv, CtrlInv, SyncInv,
          GeneratorOnlyAfterSync, OutInv, Locked, Pcs, None
<1>6. GeneratorOnlyAfterSync'
    BY CallsAssumption DEF SyncFail, IInv, TypeOKB, LockInv, CreateInv, CtrlInv, SyncInv,
          GeneratorOnlyAfterSync, OutInv, Locked, Pcs, None
<1>7. OutInv'
    BY CallsAssumption DEF SyncFail, IInv, TypeOKB, LockInv, CreateInv, CtrlInv, SyncInv,
          GeneratorOnlyAfterSync, OutInv, Locked, Pcs, None
<1> QED
    BY <1>1, <1>2, <1>3, <1>4, <1>5, <1>6, <1>7 DEF IInv

THEOREM SendStopIInv ==
    ASSUME IInv, NEW c \in Calls, SendStop(c)
    PROVE  IInv'
<1>1. TypeOKB'
    BY CallsAssumption DEF SendStop, IInv, TypeOKB, LockInv, CreateInv, CtrlInv, SyncInv,
          GeneratorOnlyAfterSync, OutInv, Locked, Pcs, None
<1>2. LockInv'
    BY CallsAssumption DEF SendStop, IInv, TypeOKB, LockInv, CreateInv, CtrlInv, SyncInv,
          GeneratorOnlyAfterSync, OutInv, Locked, Pcs, None
<1>3. CreateInv'
    BY CallsAssumption DEF SendStop, IInv, TypeOKB, LockInv, CreateInv, CtrlInv, SyncInv,
          GeneratorOnlyAfterSync, OutInv, Locked, Pcs, None
<1>4. CtrlInv'
    BY CallsAssumption DEF SendStop, IInv, TypeOKB, LockInv, CreateInv, CtrlInv, SyncInv,
          GeneratorOnlyAfterSync, OutInv, Locked, Pcs, None
<1>5. SyncInv'
    BY CallsAssumption DEF SendStop, IInv, TypeOKB, LockInv, CreateInv, CtrlInv, SyncInv,
          GeneratorOnlyAfterSync, OutInv, Locked, Pcs, None
<1>6. GeneratorOnlyAfterSync'
    BY CallsAssumption DEF SendStop, IInv, TypeOKB, LockInv, CreateInv, CtrlInv, SyncInv,
          GeneratorOnlyAfterSync, OutInv, Locked, Pcs, None
<1>7. OutInv'
    BY CallsAssumption DEF SendStop, IInv, TypeOKB, LockInv, CreateInv, CtrlInv, SyncInv,
          GeneratorOnlyAfterSync, OutInv, Locked, Pcs, None
<1> QED
    BY <1>1, <1>2, <1>3, <1>4, <1>5, <1>6, <1>7 DEF IInv

THEOREM BuildIInv ==
    ASSUME IInv, NEW c \in Calls, Build(c)
    PROVE  IInv'
<1>1. TypeOKB'
    BY CallsAssumption DEF Build, IInv, TypeOKB, LockInv, CreateInv, CtrlInv, SyncInv,
          GeneratorOnlyAfterSync, OutInv, Locked, Pcs, None
<1>2. LockInv'
    BY CallsAssumption DEF Build, IInv, TypeOKB, LockInv, CreateInv, CtrlInv, SyncInv,
          GeneratorOnlyAfterSync, OutInv, Locked, Pcs, None
<1>3. CreateInv'
    BY CallsAssumption DEF Build, IInv, TypeOKB, LockInv, CreateInv, CtrlInv, SyncInv,
          GeneratorOnlyAfterSync, OutInv, Locked, Pcs, None
<1>4. CtrlInv'
    BY CallsAssumption DEF Build, IInv, TypeOKB, LockInv, CreateInv, CtrlInv, SyncInv,
          GeneratorOnlyAfterSync, OutInv, Locked, Pcs, None
<1>5. SyncInv'
    BY CallsAssumption DEF Build, IInv, TypeOKB, LockInv, CreateInv, CtrlInv, SyncInv,
          GeneratorOnlyAfterSync, OutInv, Locked, Pcs, None
<1>6. GeneratorOnlyAfterSync'
    BY CallsAssumption DEF Build, IInv, TypeOKB, LockInv, CreateInv, CtrlInv, SyncInv,
          GeneratorOnlyAfterSync, OutInv, Locked, Pcs, None
<1>7. OutInv'
    BY CallsAssumption DEF Build, IInv, TypeOKB, LockInv, CreateInv, CtrlInv, SyncInv,
          GeneratorOnlyAfterSync, OutInv, Locked, Pcs, None
<1> QED
    BY <1>1, <1>2, <1>3, <1>4, <1>5, <1>6, <1>7 DEF IInv

THEOREM RunStartIInv ==
    ASSUME IInv, RunStart
    PROVE  IInv'
<1>1. TypeOKB'
    BY DEF RunStart, IInv, TypeOKB, LockInv, CreateInv, CtrlInv, SyncInv,
          GeneratorOnlyAfterSync, OutInv, Locked, Pcs, None
<1>2. LockInv'
    BY DEF RunStart, IInv, TypeOKB, LockInv, CreateInv, CtrlInv, SyncInv,
          GeneratorOnlyAfterSync, OutInv, Locked, Pcs, None
<1>3. CreateInv'
    BY DEF RunStart, IInv, TypeOKB, LockInv, CreateInv, CtrlInv, SyncInv,
          GeneratorOnlyAfterSync, OutInv, Locked, Pcs, None
<1>4. CtrlInv'
    BY DEF RunStart, IInv, TypeOKB, LockInv, CreateInv, CtrlInv, SyncInv,
          GeneratorOnlyAfterSync, OutInv, Locked, Pcs, None
<1>5. SyncInv'
    BY DEF RunStart, IInv, TypeOKB, LockInv, CreateInv, CtrlInv, SyncInv,
          GeneratorOnlyAfterSync, OutInv, Locked, Pcs, None
<1>6. GeneratorOnlyAfterSync'
    BY DEF RunStart, IInv, TypeOKB, LockInv, CreateInv, CtrlInv, SyncInv,
          GeneratorOnlyAfterSync, OutInv, Locked, Pcs, None
<1>7. OutInv'
    BY DEF RunStart, IInv, TypeOKB, LockInv, CreateInv, CtrlInv, SyncInv,
          GeneratorOnlyAfterSync, OutInv, Locked, Pcs, None
<1> QED
    BY <1>1, <1>2, <1>3, <1>4, <1>5, <1>6, <1>7 DEF IInv

THEOREM CacheSyncIInv ==
    ASSUME IInv, CacheSync
    PROVE  IInv'
<1>1. TypeOKB'
    BY DEF CacheSync, IInv, TypeOKB, LockInv, CreateInv, CtrlInv, SyncInv,
          GeneratorOnlyAfterSync, OutInv, Locked, Pcs, None
<1>2. LockInv'
    BY DEF CacheSync, IInv, TypeOKB, LockInv, CreateInv, CtrlInv, SyncInv,
          GeneratorOnlyAfterSync, OutInv, Locked, Pcs, None
<1>3. CreateInv'
    BY DEF CacheSync, IInv, TypeOKB, LockInv, CreateInv, CtrlInv, SyncInv,
          GeneratorOnlyAfterSync, OutInv, Locked, Pcs, None
<1>4. CtrlInv'
    BY DEF CacheSync, IInv, TypeOKB, LockInv, CreateInv, CtrlInv, SyncInv,
          GeneratorOnlyAfterSync, OutInv, Locked, Pcs, None
<1>5. SyncInv'
    BY DEF CacheSync, IInv, TypeOKB, LockInv, CreateInv, CtrlInv, SyncInv,
          GeneratorOnlyAfterSync, OutInv, Locked, Pcs, None
<1>6. GeneratorOnlyAfterSync'
    BY DEF CacheSync, IInv, TypeOKB, LockInv, CreateInv, CtrlInv, SyncInv,
          GeneratorOnlyAfterSync, OutInv, Locked, Pcs, None
<1>7. OutInv'
    BY DEF CacheSync, IInv, TypeOKB, LockInv, CreateInv, CtrlInv, SyncInv,
          GeneratorOnlyAfterSync, OutInv, Locked, Pcs, None
<1> QED
    BY <1>1, <1>2, <1>3, <1>4, <1>5, <1>6, <1>7 DEF IInv

THEOREM CloseIInv ==
    ASSUME IInv, Close
    PROVE  IInv'
<1>1. TypeOKB'
    BY DEF Close, IInv, TypeOKB, LockInv, CreateInv, CtrlInv, SyncInv,
          GeneratorOnlyAfterSync, OutInv, Locked, Pcs, None
<1>2. LockInv'
    BY DEF Close, IInv, TypeOKB, LockInv, CreateInv, CtrlInv, SyncInv,
          GeneratorOnlyAfterSync, OutInv, Locked, Pcs, None
<1>3. CreateInv'
    BY DEF Close, IInv, TypeOKB, LockInv, CreateInv, CtrlInv, SyncInv,
          GeneratorOnlyAfterSync, OutInv, Locked, Pcs, None
<1>4. CtrlInv'
    BY DEF Close, IInv, TypeOKB, LockInv, CreateInv, CtrlInv, SyncInv,
          GeneratorOnlyAfterSync, OutInv, Locked, Pcs, None
<1>5. SyncInv'
    BY DEF Close, IInv, TypeOKB, LockInv, CreateInv, CtrlInv, SyncInv,
          GeneratorOnlyAfterSync, OutInv, Locked, Pcs, None
<1>6. GeneratorOnlyAfterSync'
    BY DEF Close, IInv, TypeOKB, LockInv, CreateInv, CtrlInv, SyncInv,
          GeneratorOnlyAfterSync, OutInv, Locked, Pcs, None
<1>7. OutInv'
    BY DEF Close, IInv, TypeOKB, LockInv, CreateInv, CtrlInv, SyncInv,
          GeneratorOnlyAfterSync, OutInv, Locked, Pcs, None
<1> QED
    BY <1>1, <1>2, <1>3, <1>4, <1>5, <1>6, <1>7 DEF IInv

THEOREM GenerateCallIInv ==
    ASSUME IInv, GenerateCall
    PROVE  IInv'
<1>1. TypeOKB'
    BY DEF GenerateCall, IInv, TypeOKB, LockInv, CreateInv, CtrlInv, SyncInv,
          GeneratorOnlyAfterSync, OutInv, Locked, Pcs, None
<1>2. LockInv'
    BY DEF GenerateCall, IInv, TypeOKB, LockInv, CreateInv, CtrlInv, SyncInv,
          GeneratorOnlyAfterSync, OutInv, Locked, Pcs, None
<1>3. CreateInv'
    BY DEF GenerateCall, IInv, TypeOKB, LockInv, CreateInv, CtrlInv, SyncInv,
          GeneratorOnlyAfterSync, OutInv, Locked, Pcs, None
<1>4. CtrlInv'
    BY DEF GenerateCall, IInv, TypeOKB, LockInv, CreateInv, CtrlInv, SyncInv,
          GeneratorOnlyAfterSync, OutInv, Locked, Pcs, None
<1>5. SyncInv'
    BY DEF GenerateCall, IInv, TypeOKB, LockInv, CreateInv, CtrlInv, SyncInv,
          GeneratorOnlyAfterSync, OutInv, Locked, Pcs, None
<1>6. GeneratorOnlyAfterSync'
    BY DEF GenerateCall, IInv, TypeOKB, LockInv, CreateInv, CtrlInv, SyncInv,
          GeneratorOnlyAfterSync, OutInv, Locked, Pcs, None
<1>7. OutInv'
    BY DEF GenerateCall, IInv, TypeOKB, LockInv, CreateInv, CtrlInv, SyncInv,
          GeneratorOnlyAfterSync, OutInv, Locked, Pcs, None
<1> QED
    BY <1>1, <1>2, <1>3, <1>4, <1>5, <1>6, <1>7 DEF IInv

THEOREM StutterIInv ==
    ASSUME IInv, UNCHANGED vars
    PROVE  IInv'
    BY DEF vars, IInv, TypeOKB, LockInv, CreateInv, CtrlInv, SyncInv,
          GeneratorOnlyAfterSync, OutInv, Locked, Pcs, None

THEOREM NextIInv == IInv /\ [Next]_vars => IInv'
<1> SUFFICES ASSUME IInv, [Next]_vars PROVE IInv'
    OBVIOUS
<1>1. ASSUME NEW c \in Calls,
             \/ Lock(c) \/ CreateOK(c) \/ CreateFail(c) \/ SyncOK(c)
             \/ SyncFail(c) \/ SendStop(c) \/ Build(c)
      PROVE  IInv'
    BY <1>1, LockIInv, CreateOKIInv, CreateFailIInv, SyncOKIInv, SyncFailIInv,
       SendStopIInv, BuildIInv
<1>2. CASE RunStart
    BY <1>2, RunStartIInv
<1>3. CASE CacheSync
    BY <1>3, CacheSyncIInv
<1>4. CASE Close
    BY <1>4, CloseIInv
<1>5. CASE GenerateCall
    BY <1>5, GenerateCallIInv
<1>6. CASE Finished \/ UNCHANGED vars
    BY <1>6, StutterIInv DEF Finished
<1> QED
    BY <1>1, <1>2, <1>3, <1>4, <1>5, <1>6 DEF Next

THEOREM SpecIInv == Spec => []IInv
    BY InitIInv, NextIInv, PTL DEF Spec

-----------------------------------------------------------------------------
(* Generate over the synced cache.                                          *)

\* keyFromUID turns "name.namespace" into the key of exactly the pod with
\* that name in that namespace, and no other UID into the key of a pod.
LEMMA KeyFromUIDNames ==
    ASSUME NEW uid \in Seq(STRING), NEW p
    PROVE  PodKey(p) = KeyFromUID(uid) <=> uid = <<p["PodName"], p["Namespace"]>>
<1>1. CASE Len(uid) = 2
    <2>1. uid = <<uid[1], uid[2]>>
        BY <1>1
    <2> QED
        BY <1>1, <2>1 DEF PodKey, KeyFromUID
<1>2. CASE Len(uid) # 2
    BY <1>2 DEF PodKey, KeyFromUID
<1> QED
    BY <1>1, <1>2

\* canonicalName completes a one-label service name with the namespace and
\* the cluster domain, whatever its port.
LEMMA CanonicalOneLabel ==
    ASSUME NEW s \in Seq(STRING), Len(s) = 1, NEW port, NEW ns
    PROVE  CanonicalName([labels |-> s, port |-> port], ns) = <<s[1], ns>> \o Domain
<1> DEFINE svc == [labels |-> s, port |-> port]
<1>1. svc.labels = s
    OBVIOUS
<1>2. Len(s) # 0 /\ Len(s) # 2 /\ ~(Len(s) - 2 >= Len(Domain))
    BY NamesAssumption
<1>3. CanonicalName(svc, ns) =
        CASE Len(s) = 0 -> <<>>
          [] Len(s) = 1 -> <<s[1], ns>> \o Domain
          [] Len(s) = 2 -> s \o Domain
          [] Len(s) - 2 >= Len(Domain) -> s
          [] OTHER -> s \o SubSeq(Domain, Len(s) - 2 + 1, Len(Domain))
    BY <1>1 DEF CanonicalName
<1>4. (CASE Len(s) = 0 -> <<>>
         [] Len(s) = 1 -> <<s[1], ns>> \o Domain
         [] Len(s) = 2 -> s \o Domain
         [] Len(s) - 2 >= Len(Domain) -> s
         [] OTHER -> s \o SubSeq(Domain, Len(s) - 2 + 1, Len(Domain)))
      = <<s[1], ns>> \o Domain
    BY <1>2
<1> QED
    BY <1>3, <1>4

\* addPodValues, given the service GetServiceForPod finds, adds what
\* PodAttributes expects: the canonical name of a one-label service name is
\* name.namespace.domain, never the error <<>>.
LEMMA PodValuesExpected ==
    ASSUME NEW prefix, NEW p
    PROVE  AddPodValues(prefix, p,
               IF PodKey(p) \in DOMAIN ServiceOf
                 THEN [labels |-> ServiceOf[PodKey(p)], port |-> FALSE]
                 ELSE NoService)
           = PodAttributes(prefix, p)
<1>1. CASE PodKey(p) \in DOMAIN ServiceOf
    <2> DEFINE k == PodKey(p)
               svc == [labels |-> ServiceOf[k], port |-> FALSE]
               full == <<ServiceOf[k][1], p["Namespace"]>> \o Domain
    <2>1. ServiceOf[k] \in Seq(STRING) /\ Len(ServiceOf[k]) = 1 /\ Domain \in Seq(STRING)
        BY <1>1, NamesAssumption
    <2>2. CanonicalName(svc, p["Namespace"]) = full
        BY <2>1, CanonicalOneLabel
    <2>3. full # <<>>
        BY <2>1
    <2>4. svc # NoService
        BY DEF NoService
    <2> QED
        BY <1>1, <2>2, <2>3, <2>4 DEF AddPodValues, PodAttributes
<1>2. CASE PodKey(p) \notin DOMAIN ServiceOf
    BY <1>2 DEF AddPodValues, PodAttributes
<1> QED
    BY <1>1, <1>2

\* Over the whole cluster, Generate returns the attributes of exactly the
\* pods its UID inputs name.
LEMMA GenerateExpected ==
    ASSUME NEW in \in Inputs
    PROVE  Generate(Cluster, in) = ExpectedAttributes(in)
<1> DEFINE named(r) == {q \in Cluster :
                          in[InputName[r]].labels = <<q["PodName"], q["Namespace"]>>}
<1>1. ASSUME NEW r \in UIDRoles(in)
      PROVE  AddValues(Cluster, in[InputName[r]].labels, Prefix[r])
             = UNION {PodAttributes(Prefix[r], p) : p \in named(r)}
    <2> DEFINE uid == in[InputName[r]].labels
    <2>1. uid \in Seq(STRING)
        BY InputsAssumption DEF UIDRoles
    <2>2. {p \in Cluster : PodKey(p) = KeyFromUID(uid)} = named(r)
        BY <2>1, KeyFromUIDNames
    <2> DEFINE svcOf(p) == IF PodKey(p) \in DOMAIN ServiceOf
                             THEN [labels |-> ServiceOf[PodKey(p)], port |-> FALSE]
                             ELSE NoService
    <2>3. {AddPodValues(Prefix[r], p, svcOf(p)) : p \in named(r)}
          = {PodAttributes(Prefix[r], p) : p \in named(r)}
        <3>1. \A p \in named(r) :
                 AddPodValues(Prefix[r], p, svcOf(p)) = PodAttributes(Prefix[r], p)
            BY PodValuesExpected
        <3> QED
            BY <3>1, Zenon
    <2>4. AddValues(Cluster, uid, Prefix[r])
          = UNION {AddPodValues(Prefix[r], p, svcOf(p)) : p \in named(r)}
        BY <2>2 DEF AddValues
    <2> QED
        BY <2>3, <2>4
<1> QED
    BY <1>1 DEF Generate, ExpectedAttributes

-----------------------------------------------------------------------------
\* However many BuildAttributesGenerator calls run concurrently, and
\* whatever fails or is closed meanwhile, b.Lock lets at most one of them
\* create a pod cache controller.
THEOREM OneControllerThm == Spec => []OneController
<1>1. IInv => OneController
    BY DEF IInv, CtrlInv, OneController
<1> QED
    BY <1>1, SpecIInv, PTL

\* Every generator BuildAttributesGenerator hands out reads a cache that
\* has synced: no build returns before WaitForCacheSync has said so.
THEOREM SyncedGenerators == Spec => []GeneratorOnlyAfterSync
    BY SpecIInv, PTL DEF IInv

\* Every Generate call on a generator the builder handed out returns the
\* attributes of exactly the pods its UID inputs name, with the fully
\* qualified names of their services.
THEOREM NamedPodAttributes == Spec => []GeneratedAttributesOfNamedPods
<1>1. IInv => GeneratedAttributesOfNamedPods
    BY GenerateExpected DEF IInv, OutInv, GeneratedAttributesOfNamedPods
<1> QED
    BY <1>1, SpecIInv, PTL


-----------------------------------------------------------------------------
(* canonicalName completes every documented form of a service name.       *)

\* The arithmetic that picks canonicalName's arm.
LEMMA ArmArith ==
    ASSUME NEW x \in Nat, NEW y \in Nat
    PROVE  /\ x > 2 => x # 0 /\ x # 1 /\ x # 2
           /\ x - 2 < y => ~(x - 2 >= y)
           /\ x - 2 + 1 = x - 1
OBVIOUS

\* canonicalName of a service name of one label, of two, of at least as
\* many labels past the second as the domain has, and of fewer.
LEMMA CanonicalArm1 ==
    ASSUME NEW S, NEW s \in Seq(S), Len(s) = 1, NEW port, NEW ns
    PROVE  CanonicalName([labels |-> s, port |-> port], ns) = <<s[1], ns>> \o Domain
<1>0. Len(Domain) \in Nat
    BY NamesAssumption
<1>1. Len(s) # 0 /\ Len(s) # 2 /\ ~(Len(s) - 2 >= Len(Domain))
    BY <1>0
<1> QED
    BY <1>1 DEF CanonicalName

LEMMA CanonicalArm2 ==
    ASSUME NEW S, NEW s \in Seq(S), Len(s) = 2, NEW port, NEW ns
    PROVE  CanonicalName([labels |-> s, port |-> port], ns) = s \o Domain
<1>0. Domain \in Seq(STRING) /\ Len(Domain) \in Nat
    BY NamesAssumption
<1>1. Len(s) # 0 /\ Len(s) # 1
    OBVIOUS
<1>2. CASE Len(Domain) > 0
    <2>1. ~(Len(s) - 2 >= Len(Domain))
        BY <1>0, <1>2
    <2> QED
        BY <1>1, <2>1 DEF CanonicalName
<1>3. CASE Len(Domain) = 0
    \* Then the two-label arm and the complete-name arm agree.
    <2>1. Domain = <<>>
        BY <1>0, <1>3
    <2>2. s \o Domain = s
        BY <2>1, ConcatEmptySeq
    <2> QED
        BY <1>1, <2>2 DEF CanonicalName
<1> QED
    BY <1>0, <1>2, <1>3

LEMMA CanonicalArmFull ==
    ASSUME NEW S, NEW s \in Seq(S), Len(s) > 2, Len(s) - 2 >= Len(Domain),
           NEW port, NEW ns
    PROVE  CanonicalName([labels |-> s, port |-> port], ns) = s
<1>0. Len(s) \in Nat /\ Len(Domain) \in Nat
    BY NamesAssumption
<1>1. Len(s) # 0 /\ Len(s) # 1 /\ Len(s) # 2
    BY <1>0, ArmArith
<1> QED
    BY <1>1 DEF CanonicalName

LEMMA CanonicalArmMissing ==
    ASSUME NEW S, NEW s \in Seq(S), Len(s) > 2, Len(s) - 2 < Len(Domain),
           NEW port, NEW ns
    PROVE  CanonicalName([labels |-> s, port |-> port], ns)
             = s \o SubSeq(Domain, Len(s) - 1, Len(Domain))
<1>0. Len(s) \in Nat /\ Len(Domain) \in Nat
    BY NamesAssumption
<1>1. Len(s) # 0 /\ Len(s) # 1 /\ Len(s) # 2 /\ ~(Len(s) - 2 >= Len(Domain))
    BY <1>0, ArmArith
<1>2. Len(s) - 2 + 1 = Len(s) - 1
    BY <1>0, ArmArith
<1> QED
    BY <1>1, <1>2 DEF CanonicalName

\* Every prefix of service.namespace.domain, the forms "hello",
\* "hello.default", ... "hello.default.svc.cluster.local" of the comment,
\* canonicalizes to the whole name.
LEMMA DocumentedForms ==
    ASSUME NEW k \in DOMAIN ServiceOf
    PROVE  DocumentedFormsCanonical(k)
<1> DEFINE a == ServiceOf[k][1]
           ns == k[1]
           full == <<a, ns>> \o Domain
           S == STRING \cup {a, ns}
<1>0. Domain \in Seq(S) /\ Len(Domain) \in Nat
    BY NamesAssumption
<1>1. full \in Seq(S) /\ Len(full) = Len(Domain) + 2
      /\ full[1] = a /\ full[2] = ns
      /\ \A i \in 3..Len(full) : full[i] = Domain[i - 2]
    BY <1>0
<1> SUFFICES ASSUME NEW n \in 1..Len(full), NEW port \in BOOLEAN
             PROVE  CanonicalName([labels |-> SubSeq(full, 1, n), port |-> port], ns) = full
    BY DEF DocumentedFormsCanonical
<1> DEFINE pre == SubSeq(full, 1, n)
<1>2. pre \in Seq(S) /\ Len(pre) = n /\ \A i \in 1..n : pre[i] = full[i]
    BY <1>1
<1> HIDE DEF pre, full, S
<1>3. CASE n = 1
    <2>1. CanonicalName([labels |-> pre, port |-> port], ns) = <<pre[1], ns>> \o Domain
        BY <1>2, <1>3, CanonicalArm1
    <2> QED
        BY <2>1, <1>1, <1>2, <1>3 DEF pre, full
<1>4. CASE n = 2
    <2>1. CanonicalName([labels |-> pre, port |-> port], ns) = pre \o Domain
        BY <1>2, <1>4, CanonicalArm2
    <2>2. pre = <<a, ns>>
        BY <1>1, <1>2, <1>4 DEF full
    <2> QED
        BY <2>1, <2>2 DEF pre, full
<1>5. CASE n > 2 /\ n - 2 >= Len(Domain)
    <2>1. CanonicalName([labels |-> pre, port |-> port], ns) = pre
        BY <1>2, <1>5, CanonicalArmFull
    <2>2. pre = full
        BY <1>0, <1>1, <1>2, <1>5, SeqEqual
    <2> QED
        BY <2>1, <2>2 DEF pre
<1>6. CASE n > 2 /\ n - 2 < Len(Domain)
    <2> DEFINE tail == SubSeq(Domain, n - 1, Len(Domain))
    <2>1. CanonicalName([labels |-> pre, port |-> port], ns) = pre \o tail
        BY <1>2, <1>6, CanonicalArmMissing
    <2>2. tail \in Seq(S) /\ Len(tail) = Len(Domain) - n + 2
          /\ \A i \in 1..Len(tail) : tail[i] = Domain[n - 2 + i]
        BY <1>0, <1>6
    <2>3. /\ pre \o tail \in Seq(S)
          /\ Len(pre \o tail) = Len(pre) + Len(tail)
          /\ \A i \in 1..(Len(pre) + Len(tail)) :
                (pre \o tail)[i] = IF i <= Len(pre) THEN pre[i] ELSE tail[i - Len(pre)]
        BY <1>2, <2>2, ConcatProperties
    <2>4. Len(pre) + Len(tail) = Len(full)
        BY <1>1, <1>2, <1>6, <2>2
    <2>5. ASSUME NEW i \in 1..Len(full) PROVE (pre \o tail)[i] = full[i]
        <3>1. CASE i <= n
            BY <3>1, <1>2, <2>3, <2>4
        <3>2. CASE i > n
            <4>1. (pre \o tail)[i] = tail[i - n] /\ i - n \in 1..Len(tail)
                <5>1. Len(tail) \in Nat /\ i \in 1..(n + Len(tail)) /\ ~(i <= n)
                    BY <3>2, <1>2, <2>2, <2>3, <2>4
                <5>2. i - n \in 1..Len(tail)
                    BY <5>1
                <5> QED
                    BY <5>1, <5>2, <1>2, <2>3
            <4>2. tail[i - n] = Domain[i - 2] /\ full[i] = Domain[i - 2]
                <5>1. tail[i - n] = Domain[n - 2 + (i - n)]
                    BY <4>1, <2>2
                <5>2. n - 2 + (i - n) = i - 2 /\ i \in 3..Len(full)
                    BY <1>1, <1>6, <3>2
                <5> QED
                    BY <5>1, <5>2, <1>1
            <4> QED
                BY <4>1, <4>2
        <3>3. i <= n \/ i > n
            BY <1>0, <1>1
        <3> QED
            BY <3>1, <3>2, <3>3, Zenon
    <2> QED
        BY <2>1, <2>3, <2>4, <2>5, <1>1, SeqEqual DEF pre
<1> QED
    BY <1>3, <1>4, <1>5, <1>6, <1>1

\* The comment above canonicalName: once the cache has synced, every listed
\* form of the service name of a pod the generators can look up, with or
\* without a port, canonicalizes to service.namespace.domain.  The property
\* reads no state but synced: it is a fact of canonicalName and the cluster
\* domain, for every domain of labels.
THEOREM DocumentedNames == Spec => []CanonicalNameDocumented
<1>1. CanonicalNameDocumented
    BY DocumentedForms DEF CanonicalNameDocumented
<1> QED
    BY <1>1, PTL

=============================================================================
