--------------------------- MODULE HandlerConfigurer ---------------------------
(***************************************************************************)
(* ConfigureHandlers of the handler configurer (src/unnamed/part_016,     *)
(* package config): infer the type of every constructor, group the        *)
(* instances each action sends to a handler by template, then call each   *)
(* template's ConfigureTypeFn on each handler with the inferred types of  *)
(* its instances.  Go map iteration order is unspecified, so constructors, *)
(* handlers and templates are visited in any order.  A ConfigureTypeFn    *)
(* (adapter code) returns, fails or panics; a deferred recover inside the *)
(* loop catches the panic.                                                 *)
(*                                                                         *)
(* Configurations reaching this code have been validated, so the panics   *)
(* for unregistered handlers, templates and instances are not taken.      *)
(* Instance lists are sets: insertInstance drops duplicates.               *)
(***************************************************************************)

CONSTANTS
    Handlers,    \* registered handler names
    Templates,   \* registered template names
    Instances,   \* constructors, by instance name
    TemplateOf,  \* TemplateOf[i]: the template of constructor i
    Actions      \* the actions: [handler |-> h, instances |-> set of names]

None == "none"

\* The handlers some action references.
ActionHandlers == {a.handler : a \in Actions}

\* groupHandlerInstancesByTemplate: the instances actions send to handler h,
\* by template.
InstancesOf(h, t) ==
    {i \in Instances : \E a \in Actions :
        a.handler = h /\ i \in a.instances /\ TemplateOf[i] = t}

TemplatesOf(h) == {t \in Templates : InstancesOf(h, t) # {}}

VARIABLES
    pc,          \* "infer", "dispatch", "template" or "returned"
    inferred,    \* constructors whose type inferTypes has inferred
    hTodo,       \* handlers the dispatch loop has not visited yet
    cur,         \* the handler being configured
    tTodo,       \* templates of cur not visited yet
    configured,  \* <<h, t>>: ConfigureTypeFn of t returned nil for h
    broken,      \* handlers whose isBroken flag is set
    ret          \* what ConfigureHandlers returned: "none", "nil", "error"

vars == <<pc, inferred, hTodo, cur, tTodo, configured, broken, ret>>

Init ==
    /\ pc = "infer"
    /\ inferred = {}
    /\ hTodo = {}
    /\ cur = None
    /\ tTodo = {}
    /\ configured = {}
    /\ broken = {}
    /\ ret = "none"

\* One iteration of inferTypes: InferTypeFn succeeds, or fails and
\* ConfigureHandlers returns its error before configuring anything.
InferType(i) ==
    /\ pc = "infer"
    /\ i \in Instances \ inferred
    /\ \/ /\ inferred' = inferred \cup {i}
          /\ UNCHANGED <<pc, ret>>
       \/ /\ ret' = "error"
          /\ pc' = "returned"
          /\ UNCHANGED inferred
    /\ UNCHANGED <<hTodo, cur, tTodo, configured, broken>>

\* Every type inferred: groupHandlerInstancesByTemplate, which cannot fail
\* on a validated configuration, then dispatchTypesToHandlers starts.
Group ==
    /\ pc = "infer"
    /\ inferred = Instances
    /\ hTodo' = ActionHandlers
    /\ pc' = "dispatch"
    /\ UNCHANGED <<inferred, cur, tTodo, configured, broken, ret>>

\* The outer loop takes the next handler of instsByTmpls.
NextHandler(h) ==
    /\ pc = "dispatch"
    /\ h \in hTodo
    /\ cur' = h
    /\ hTodo' = hTodo \ {h}
    /\ tTodo' = TemplatesOf(h)
    /\ pc' = "template"
    /\ UNCHANGED <<inferred, configured, broken, ret>>

\* The outer loop is over: dispatchTypesToHandlers returns nil.
HandlersDone ==
    /\ pc = "dispatch"
    /\ hTodo = {}
    /\ ret' = "nil"
    /\ pc' = "returned"
    /\ UNCHANGED <<inferred, hTodo, cur, tTodo, configured, broken>>

\* The inner loop registers the deferred recover and calls ConfigureTypeFn
\* with the types of InstancesOf(cur, t).  nil: the loop goes on.  An
\* error is returned at once.  A panic unwinds dispatchTypesToHandlers: the
\* deferred closure of this iteration recovers it, sets cur's isBroken, and
\* the function returns its zero value, nil.
ConfigureType(t) ==
    /\ pc = "template"
    /\ t \in tTodo
    /\ tTodo' = tTodo \ {t}
    /\ \/ /\ configured' = configured \cup {<<cur, t>>}
          /\ UNCHANGED <<pc, broken, ret>>
       \/ /\ ret' = "error"
          /\ pc' = "returned"
          /\ UNCHANGED <<configured, broken>>
       \/ /\ broken' = broken \cup {cur}
          /\ ret' = "nil"
          /\ pc' = "returned"
          /\ UNCHANGED configured
    /\ UNCHANGED <<inferred, hTodo, cur>>

\* The inner loop is over for cur.
TemplatesDone ==
    /\ pc = "template"
    /\ tTodo = {}
    /\ pc' = "dispatch"
    /\ UNCHANGED <<inferred, hTodo, cur, tTodo, configured, broken, ret>>

\* ConfigureHandlers has returned.
Returned ==
    /\ pc = "returned"
    /\ UNCHANGED vars

Next ==
    \/ \E i \in Instances : InferType(i)
    \/ Group
    \/ \E h \in Handlers : NextHandler(h)
    \/ HandlersDone
    \/ \E t \in Templates : ConfigureType(t)
    \/ TemplatesDone
    \/ Returned

Spec == Init /\ [][Next]_vars

-----------------------------------------------------------------------------
\* "If that happens, we will remove the handler from the list of handlers to
\* configure": when ConfigureHandlers reports success, every handler an
\* action references has been configured for each template of its
\* instances, unless it was marked broken because its configure code
\* panicked.
ConfiguredOrBroken ==
    (pc = "returned" /\ ret = "nil") =>
        \A h \in ActionHandlers :
            h \in broken \/ \A t \in TemplatesOf(h) : <<h, t>> \in configured

=============================================================================
