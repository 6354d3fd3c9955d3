------------------------- MODULE MCHandlerConfigurer -------------------------
(* Model-checking instance of HandlerConfigurer: two handlers, each sent  *)
(* one instance by its own action, and a handler sent instances of two    *)
(* templates.                                                              *)
EXTENDS HandlerConfigurer

MCTemplateOf == [i \in Instances |-> IF i = "i3" THEN "t2" ELSE "t1"]

MCActions ==
    {[handler |-> "h1", instances |-> {"i1", "i3"}],
     [handler |-> "h2", instances |-> {"i2"}]}

=============================================================================
