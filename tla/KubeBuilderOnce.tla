---------------------------- MODULE KubeBuilderOnce ----------------------------
(***************************************************************************)
(* The earlier revision of the kubernetes attributes-generator builder     *)
(* (src/unnamed/part_001, lines 120-211): BuildAttributesGenerator creates *)
(* the pod cache controller inside b.once.Do, records a creation error in  *)
(* a variable local to the call, and ignores the result of                *)
(* WaitForCacheSync.  sync.Once runs its function for the first caller    *)
(* only; concurrent callers wait until it has returned, later ones skip    *)
(* it.                                                                     *)
(***************************************************************************)
CONSTANTS
    Calls       \* BuildAttributesGenerator invocations

VARIABLES
    stop,       \* stopChan: "open" or "closed"
    once,       \* b.once: "fresh", "running" (its function runs) or "done"
    pods,       \* b.pods: "nil" or "ctrl"
    daemon,     \* b.pods.Run: "none", "scheduled", "running" or "returned"
    synced,     \* the controller's cache has synced
    pc,         \* pc[c]: where call c is
    gens        \* the generators returned, with what their cache was then

vars == <<stop, once, pods, daemon, synced, pc, gens>>

Init ==
    /\ stop = "open"
    /\ once = "fresh"
    /\ pods = "nil"
    /\ daemon = "none"
    /\ synced = FALSE
    /\ pc = [c \in Calls |-> "idle"]
    /\ gens = {}

\* b.once.Do: the first caller runs the function, a concurrent one waits,
\* a later one goes on with clientErr == nil.
Enter(c) ==
    /\ pc[c] \in {"idle", "done"}
    /\ pc' = [pc EXCEPT ![c] = CASE once = "fresh" -> "create"
                                 [] once = "running" -> "wait"
                                 [] once = "done" -> "build"]
    /\ once' = IF once = "fresh" THEN "running" ELSE once
    /\ UNCHANGED <<stop, pods, daemon, synced, gens>>

\* Do returns to a waiting caller once the function has returned.
Wait(c) ==
    /\ pc[c] = "wait"
    /\ once = "done"
    /\ pc' = [pc EXCEPT ![c] = "build"]
    /\ UNCHANGED <<stop, once, pods, daemon, synced, gens>>

\* newCacheControllerFn succeeds: b.pods is set and its Run scheduled.
CreateOK(c) ==
    /\ pc[c] = "create"
    /\ pods' = "ctrl"
    /\ daemon' = "scheduled"
    /\ pc' = [pc EXCEPT ![c] = "sync"]
    /\ UNCHANGED <<stop, once, synced, gens>>

\* newCacheControllerFn fails: this call returns the error; the once is
\* spent all the same.
CreateFail(c) ==
    /\ pc[c] = "create"
    /\ once' = "done"
    /\ pc' = [pc EXCEPT ![c] = "done"]
    /\ UNCHANGED <<stop, pods, daemon, synced, gens>>

\* WaitForCacheSync returns, true on sync or false on a closed stopChan;
\* its result is dropped.
SyncReturn(c) ==
    /\ pc[c] = "sync"
    /\ synced \/ stop = "closed"
    /\ once' = "done"
    /\ pc' = [pc EXCEPT ![c] = "build"]
    /\ UNCHANGED <<stop, pods, daemon, synced, gens>>

\* A kubegen over b.pods is returned.
Build(c) ==
    /\ pc[c] = "build"
    /\ gens' = gens \cup {[call |-> c, synced |-> pods = "ctrl" /\ synced]}
    /\ pc' = [pc EXCEPT ![c] = "done"]
    /\ UNCHANGED <<stop, once, pods, daemon, synced>>

\* The daemon goroutine starts Run: it returns at once on a closed stopChan.
RunStart ==
    /\ daemon = "scheduled"
    /\ daemon' = IF stop = "open" THEN "running" ELSE "returned"
    /\ UNCHANGED <<stop, once, pods, synced, pc, gens>>

\* The informer completes its initial list.
CacheSync ==
    /\ daemon = "running"
    /\ ~synced
    /\ synced' = TRUE
    /\ UNCHANGED <<stop, once, pods, daemon, pc, gens>>

\* builder.Close: close(b.stopChan).
Close ==
    /\ stop = "open"
    /\ stop' = "closed"
    /\ daemon' = IF daemon = "running" THEN "returned" ELSE daemon
    /\ UNCHANGED <<once, pods, synced, pc, gens>>

Next ==
    \/ \E c \in Calls :
          Enter(c) \/ Wait(c) \/ CreateOK(c) \/ CreateFail(c) \/ SyncReturn(c)
          \/ Build(c)
    \/ RunStart \/ CacheSync \/ Close

Spec == Init /\ [][Next]_vars

\* "ensure that any request is only handled after a sync has occurred": every
\* generator returned reads a pod cache that exists and has synced.
GeneratorOnlyAfterSync == \A g \in gens : g.synced

=============================================================================
