----------------------------- MODULE MCCoalesce -----------------------------
(* Model-checking instances of Coalesce.                                   *)
EXTENDS Coalesce

\* Two pointer pairs of one int64 metric stream, as Record builds them.
MCKeys == {"k1", "k2"}
MCStreamSame == [k \in MCKeys |-> "requests"]
MCStreamApart == [k \in MCKeys |-> k]
MCTypeOf == [k \in MCKeys |-> "int64"]

=============================================================================
