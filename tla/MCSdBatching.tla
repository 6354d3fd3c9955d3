---------------------------- MODULE MCSdBatching ----------------------------
(* Model-checking instance of SdBatching: two aspects built over a config  *)
(* reload, three time series: an Int64 and a Duration metric value, which  *)
(* toTypedVal converts, and a Float64 one, on which it panics.             *)
EXTENDS SdBatching, TLC

CONSTANTS p1, p2, p3

MCPoints == {p1, p2, p3}
MCValueTypeOf == (p1 :> "Int64") @@ (p2 :> "Duration") @@ (p3 :> "Float64")

=============================================================================
