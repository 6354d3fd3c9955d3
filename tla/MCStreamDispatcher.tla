------------------------- MODULE MCStreamDispatcher -------------------------
(* Model-checking instance of StreamDispatcher: three requests on one     *)
(* stream, two pool goroutines, one response attribute with two values.   *)
EXTENDS StreamDispatcher, TLC

MCIndexes == {1, 2}
MCAttrs == {"a"}
MCVals == {"v1", "v2"}

=============================================================================
