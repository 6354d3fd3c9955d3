---------------------------- MODULE MCApiHandler ----------------------------
(* Model-checking instance of ApiHandler: two concurrent calls, two       *)
(* configurations, one of which fails to resolve the report aspects.      *)
EXTENDS ApiHandler

MCResolveOf ==
    [c \in Configs |->
        [m \in Methods |->
            IF c = "c2" /\ m = "report" THEN ResolveErr ELSE <<"a1", "a2">>]]

=============================================================================
