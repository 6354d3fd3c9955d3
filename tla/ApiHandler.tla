------------------------------ MODULE ApiHandler ------------------------------
(***************************************************************************)
(* The per-request logic of the API handler (src/pkg/api/handler.go):      *)
(* Check, Report and Quota all call execute, which starts a request on the *)
(* attribute tracker, loads the current configuration from the            *)
(* atomic.Value h.cfg, resolves the aspects of the method's AspectSet, and *)
(* runs them one after the other, stopping at the first error or non-OK   *)
(* output.  ConfigChange stores a new configuration at any time, from the *)
(* configuration manager's goroutine.                                     *)
(*                                                                         *)
(* Requests run concurrently, each in its own goroutine.  A configuration *)
(* is a model value; what Resolve returns for it is the constant          *)
(* ResolveOf.  The executor's outcome for one aspect is a free choice.    *)
(* A panic ends the process.                                              *)
(***************************************************************************)
EXTENDS Naturals, Sequences

CONSTANTS
    Reqs,        \* concurrent API calls
    Methods,     \* the API methods: check, report, quota
    Configs,     \* *config.Runtime values ConfigChange may store
    ResolveErr,  \* what Resolve returns when it fails
    ResolveOf,   \* ResolveOf[c][m]: cfg.Resolve(ab, aspects of method m)
    MaxChanges   \* bound on the ConfigChange calls

Empty == "empty"     \* an atomic.Value nothing has been stored in
Outcomes == {"OK", "DENIED", "ERROR"}  \* Execute: OK output, other code, error

VARIABLES
    cfg,       \* h.cfg
    changes,   \* ConfigChange calls so far
    pc,        \* pc[r]: where call r is
    method,    \* method[r]: the API method of call r
    snap,      \* snap[r]: the configuration call r loaded
    todo,      \* todo[r]: the resolved aspects not yet executed
    ran,       \* ran[r]: the aspects executed, in order
    tracker,   \* tracker[r]: "none", "started" or "ended"
    result,    \* result[r]: the Result field of call r's response
    panicked   \* the process has panicked

vars == <<cfg, changes, pc, method, snap, todo, ran, tracker, result, panicked>>

Init ==
    /\ cfg = Empty
    /\ changes = 0
    /\ pc = [r \in Reqs |-> "idle"]
    /\ method \in [Reqs -> Methods]
    /\ snap = [r \in Reqs |-> Empty]
    /\ todo = [r \in Reqs |-> <<>>]
    /\ ran = [r \in Reqs |-> <<>>]
    /\ tracker = [r \in Reqs |-> "none"]
    /\ result = [r \in Reqs |-> "none"]
    /\ panicked = FALSE

\* What Check, Report and Quota put in the response for a status of code
\* c, with a message or not: Check and Report store the status; Quota
\* rebuilds it with newQuotaError, which keeps the code alone.  (The
\* RequestIndex they copy from the request is modelled in StreamDispatcher.)
Response(m, c, msg) ==
    IF m = "quota" THEN [error |-> [code |-> c, msg |-> FALSE]]
                   ELSE [status |-> [code |-> c, msg |-> msg]]

\* execute returns code c, with a message or not; the deferred
\* tracker.EndRequest runs.
Return(r, c, msg) ==
    /\ result' = [result EXCEPT ![r] = Response(method[r], c, msg)]
    /\ tracker' = [tracker EXCEPT ![r] = "ended"]
    /\ pc' = [pc EXCEPT ![r] = "done"]

\* tracker.StartRequest fails on a bad attribute update: INVALID_ARGUMENT,
\* before the deferred EndRequest is registered.
StartFail(r) ==
    /\ ~panicked
    /\ pc[r] = "idle"
    /\ result' = [result EXCEPT ![r] = Response(method[r], "INVALID_ARGUMENT",
                                                   FALSE)]
    /\ pc' = [pc EXCEPT ![r] = "done"]
    /\ UNCHANGED <<cfg, changes, method, snap, todo, ran, tracker, panicked>>

\* tracker.StartRequest succeeds; h.cfg.Load().(*config.Runtime): the type
\* assertion on an atomic.Value nothing was stored in panics, since Load
\* returns a nil interface.  A stored *config.Runtime is never nil here, so
\* the cfg == nil branch (UNAVAILABLE) is not taken.
Load(r) ==
    /\ ~panicked
    /\ pc[r] = "idle"
    /\ tracker' = [tracker EXCEPT ![r] = "started"]
    /\ IF cfg = Empty
         THEN /\ panicked' = TRUE
              /\ pc' = [pc EXCEPT ![r] = "panic"]
              /\ UNCHANGED snap
         ELSE /\ snap' = [snap EXCEPT ![r] = cfg]
              /\ pc' = [pc EXCEPT ![r] = "resolve"]
              /\ UNCHANGED panicked
    /\ UNCHANGED <<cfg, changes, method, todo, ran, result>>

\* cfg.Resolve(ab, aspects) on the loaded configuration: INTERNAL on error.
Resolve(r) ==
    /\ ~panicked
    /\ pc[r] = "resolve"
    /\ LET res == ResolveOf[snap[r]][method[r]] IN
         IF res = ResolveErr
           THEN /\ Return(r, "INTERNAL", TRUE)
                /\ UNCHANGED todo
           ELSE /\ todo' = [todo EXCEPT ![r] = res]
                /\ pc' = [pc EXCEPT ![r] = "exec"]
                /\ UNCHANGED <<result, tracker>>
    /\ UNCHANGED <<cfg, changes, method, snap, ran, panicked>>

\* One iteration of the loop: h.aspectExecutor.Execute(conf, ab); an error
\* returns INTERNAL, an output with a code other than OK returns that code.
Execute(r) ==
    /\ ~panicked
    /\ pc[r] = "exec"
    /\ todo[r] # <<>>
    /\ ran' = [ran EXCEPT ![r] = Append(@, Head(todo[r]))]
    /\ todo' = [todo EXCEPT ![r] = Tail(@)]
    /\ \E o \in Outcomes :
         CASE o = "OK"     -> UNCHANGED <<result, tracker, pc>>
           [] o = "DENIED" -> Return(r, "DENIED", TRUE)
           [] o = "ERROR"  -> Return(r, "INTERNAL", TRUE)
    /\ UNCHANGED <<cfg, changes, method, snap, panicked>>

\* Every resolved aspect returned OK.
ExecDone(r) ==
    /\ ~panicked
    /\ pc[r] = "exec"
    /\ todo[r] = <<>>
    /\ Return(r, "OK", FALSE)
    /\ UNCHANGED <<cfg, changes, method, snap, todo, ran, panicked>>

\* ConfigChange: h.cfg.Store(cfg).
ConfigChange(c) ==
    /\ ~panicked
    /\ changes < MaxChanges
    /\ cfg' = c
    /\ changes' = changes + 1
    /\ UNCHANGED <<pc, method, snap, todo, ran, tracker, result, panicked>>

\* The process is gone, or every call has returned.
Finished ==
    /\ panicked \/ \A r \in Reqs : pc[r] = "done"
    /\ UNCHANGED vars

Next ==
    \/ \E r \in Reqs :
          StartFail(r) \/ Load(r) \/ Resolve(r) \/ Execute(r) \/ ExecDone(r)
    \/ \E c \in Configs : ConfigChange(c)
    \/ Finished

Spec == Init /\ [][Next]_vars

-----------------------------------------------------------------------------
\* "config has NOT been loaded yet": the code means a request that arrives
\* before the first ConfigChange to be answered UNAVAILABLE.  No request,
\* whenever it arrives relative to ConfigChange, may crash the process.
NoPanic == ~panicked

=============================================================================
