------------------------------ MODULE KubeBuilder ------------------------------
(***************************************************************************)
(* The attributes-generator builder of the kubernetes adapter              *)
(* (src/adapter/kubernetes/kubernetes.go): BuildAttributesGenerator under  *)
(* b.Lock, which on its first successful call creates the pod cache        *)
(* controller, runs it in a daemon until stopChan is closed, and waits for *)
(* the cache to sync before handing out a generator; and Close, which      *)
(* closes stopChan.                                                        *)
(*                                                                         *)
(* cache.WaitForCacheSync (client-go, not under src/) polls HasSynced and  *)
(* returns true once the cache has synced, false once stopChan is closed.  *)
(* A panic ends the process.                                               *)
(***************************************************************************)
EXTENDS KubeGen

CONSTANTS
    Calls,      \* concurrent BuildAttributesGenerator invocations
    Inputs      \* attribute inputs mixer passes to Generate

None == "none"
Pcs == {"idle", "create", "sync", "send", "build", "done", "panic"}

\* None marks a free b.Lock, not a call; the UID inputs mixer passes are
\* strings, split at the dots into sequences of labels.
ASSUME CallsAssumption == None \notin Calls
ASSUME InputsAssumption ==
    \A in \in Inputs : \A n \in DOMAIN in : in[n].labels \in Seq(STRING)

VARIABLES
    stop,       \* stopChan: "open" or "closed"
    needsInit,  \* b.needsCacheInit
    ctrls,      \* controllers newCacheControllerFn has built
    daemon,     \* the daemon of b.pods.Run(b.stopChan): "none", "scheduled",
                \* "running" or "returned"
    synced,     \* the current controller's cache has synced
    holder,     \* the call holding b.Lock, or None
    pc,         \* pc[c]: where call c is
    gens,       \* the generators returned: was their cache synced then?
    panicked,   \* the process has panicked
    lastOut     \* the last Generate call, if any: its inputs and values

vars == <<stop, needsInit, ctrls, daemon, synced, holder, pc, gens, panicked,
          lastOut>>

Init ==
    /\ stop = "open"
    /\ needsInit = TRUE
    /\ ctrls = 0
    /\ daemon = "none"
    /\ synced = FALSE
    /\ holder = None
    /\ pc = [c \in Calls |-> "idle"]
    /\ gens = {}
    /\ panicked = FALSE
    /\ lastOut = {}

\* Mutant: the needsCacheInit test is made without b.Lock.
LockUnguarded(c) ==
    /\ ~panicked
    /\ pc[c] \in {"idle", "done"}
    /\ holder' = c
    /\ pc' = [pc EXCEPT ![c] = IF needsInit THEN "create" ELSE "build"]
    /\ UNCHANGED <<stop, needsInit, ctrls, daemon, synced, gens, panicked,
                   lastOut>>

\* b.Lock(), then the needsCacheInit test; every config reload builds again.
Lock(c) ==
    /\ ~panicked
    /\ pc[c] \in {"idle", "done"}
    /\ holder = None
    /\ holder' = c
    /\ pc' = [pc EXCEPT ![c] = IF needsInit THEN "create" ELSE "build"]
    /\ UNCHANGED <<stop, needsInit, ctrls, daemon, synced, gens, panicked,
                   lastOut>>

\* newCacheControllerFn succeeds: b.pods is set and env.ScheduleDaemon
\* starts a goroutine for its Run.
CreateOK(c) ==
    /\ ~panicked
    /\ pc[c] = "create"
    /\ ctrls' = ctrls + 1
    /\ daemon' = "scheduled"
    /\ synced' = FALSE
    /\ pc' = [pc EXCEPT ![c] = "sync"]
    /\ UNCHANGED <<stop, needsInit, holder, gens, panicked, lastOut>>

\* newCacheControllerFn fails: the error is returned (the deferred Unlock
\* runs) and needsCacheInit stays set; the caller may try again later.
CreateFail(c) ==
    /\ ~panicked
    /\ pc[c] = "create"
    /\ holder' = None
    /\ pc' = [pc EXCEPT ![c] = "idle"]
    /\ UNCHANGED <<stop, needsInit, ctrls, daemon, synced, gens, panicked,
                   lastOut>>

\* Mutant: the result of WaitForCacheSync is ignored.
SyncFailIgnored(c) ==
    /\ ~panicked
    /\ pc[c] = "sync"
    /\ stop = "closed"
    /\ needsInit' = FALSE
    /\ pc' = [pc EXCEPT ![c] = "build"]
    /\ UNCHANGED <<stop, ctrls, daemon, synced, holder, gens, panicked,
                   lastOut>>

\* WaitForCacheSync returns true.
SyncOK(c) ==
    /\ ~panicked
    /\ pc[c] = "sync"
    /\ synced
    /\ needsInit' = FALSE
    /\ pc' = [pc EXCEPT ![c] = "build"]
    /\ UNCHANGED <<stop, ctrls, daemon, synced, holder, gens, panicked,
                   lastOut>>

\* WaitForCacheSync returns false: stopChan has been closed.
SyncFail(c) ==
    /\ ~panicked
    /\ pc[c] = "sync"
    /\ stop = "closed"
    /\ pc' = [pc EXCEPT ![c] = "send"]
    /\ UNCHANGED <<stop, needsInit, ctrls, daemon, synced, holder, gens,
                   panicked, lastOut>>

\* b.stopChan <- struct{}{}: a send on a closed channel panics; on an open
\* one it would wait for a receiver that never comes.
SendStop(c) ==
    /\ ~panicked
    /\ pc[c] = "send"
    /\ stop = "closed"
    /\ panicked' = TRUE
    /\ pc' = [pc EXCEPT ![c] = "panic"]
    /\ UNCHANGED <<stop, needsInit, ctrls, daemon, synced, holder, gens,
                   lastOut>>

\* A kubegen over b.pods is returned and the lock released.
Build(c) ==
    /\ ~panicked
    /\ pc[c] = "build"
    /\ gens' = gens \cup {[call |-> c, synced |-> synced]}
    /\ holder' = None
    /\ pc' = [pc EXCEPT ![c] = "done"]
    /\ UNCHANGED <<stop, needsInit, ctrls, daemon, synced, panicked, lastOut>>

\* The daemon goroutine starts Run: it returns at once on a closed stopChan.
RunStart ==
    /\ ~panicked
    /\ daemon = "scheduled"
    /\ daemon' = IF stop = "open" THEN "running" ELSE "returned"
    /\ UNCHANGED <<stop, needsInit, ctrls, synced, holder, pc, gens,
                   panicked, lastOut>>

\* The informer of the running controller completes its initial list.
CacheSync ==
    /\ ~panicked
    /\ daemon = "running"
    /\ ~synced
    /\ synced' = TRUE
    /\ UNCHANGED <<stop, needsInit, ctrls, daemon, holder, pc, gens,
                   panicked, lastOut>>

\* builder.Close: close(b.stopChan); the controller's Run returns.
Close ==
    /\ ~panicked
    /\ stop = "open"
    /\ stop' = "closed"
    /\ daemon' = IF daemon = "running" THEN "returned" ELSE daemon
    /\ UNCHANGED <<needsInit, ctrls, synced, holder, pc, gens, panicked,
                   lastOut>>

\* Mixer calls Generate on a generator it was handed; the generator reads
\* the pod cache of the controller, whose informer filled it on sync.
GenerateCall ==
    /\ ~panicked
    /\ gens # {}
    /\ \E in \in Inputs :
         lastOut' = {[in |-> in,
                      vals |-> Generate(IF synced THEN Cluster ELSE {}, in)]}
    /\ UNCHANGED <<stop, needsInit, ctrls, daemon, synced, holder, pc, gens,
                   panicked>>

\* The process is gone.
Finished ==
    /\ panicked
    /\ UNCHANGED vars

Next ==
    \/ \E c \in Calls :
          Lock(c) \/ CreateOK(c) \/ CreateFail(c) \/ SyncOK(c) \/ SyncFail(c)
          \/ SendStop(c) \/ Build(c)
    \/ RunStart
    \/ CacheSync
    \/ Close
    \/ GenerateCall
    \/ Finished

Spec == Init /\ [][Next]_vars

-----------------------------------------------------------------------------
\* "ensure that any request is only handled after a sync has occurred": every
\* generator BuildAttributesGenerator returns reads a pod cache that has
\* synced, whatever the order of concurrent builds, failures and Close.
GeneratorOnlyAfterSync == \A g \in gens : g.synced

\* However many builds run concurrently, at most one cache controller (and
\* one daemon watching the cluster) is ever created: b.Lock makes the
\* needsCacheInit test, the creation and the wait for sync one step.
OneController == ctrls <= 1

\* What Generate must return for inputs: for each role whose input names
\* a pod "name.namespace" of the cluster, the pod's non-empty fields and
\* the fully qualified name of its service, under the role's prefix.
PodAttributes(prefix, p) ==
    {<<<<prefix, ValueName[f]>>, p[f]>> : f \in {g \in Fields : p[g] # ""}}
    \cup
    IF PodKey(p) \in DOMAIN ServiceOf
      THEN {<<<<prefix, ValueName["Service"]>>,
              <<ServiceOf[PodKey(p)][1], p["Namespace"]>> \o Domain>>}
      ELSE {}

ExpectedAttributes(in) ==
    LET named(r) == {q \in Cluster :
                       in[InputName[r]].labels = <<q["PodName"], q["Namespace"]>>}
    IN  UNION {UNION {PodAttributes(Prefix[r], p) : p \in named(r)} :
                 r \in UIDRoles(in)}

\* Every Generate call on a generator the builder handed out returns the
\* attributes of exactly the pods its UID inputs name: the builder's wait
\* for the cache sync, keyFromUID's parsing and canonicalName together.
GeneratedAttributesOfNamedPods ==
    \A o \in lastOut : o.vals = ExpectedAttributes(o.in)

\* The comment above canonicalName promises the listed service-name forms
\* complete to the full name: once the cache has synced, every form of the
\* service name of every pod the generators can look up canonicalizes to
\* service.namespace.domain.
CanonicalNameDocumented ==
    synced => \A p \in Cluster :
                  PodKey(p) \in DOMAIN ServiceOf => DocumentedFormsCanonical(PodKey(p))

\* No interleaving of builds and Close makes the adapter panic.
NoPanic == ~panicked

=============================================================================
