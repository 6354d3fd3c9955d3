\* coalesce on up to three series of two keys within one second of three microseconds.
CONSTANTS
    Keys <- MCKeys
    StreamOf <- MCStreamApart
    TypeOf <- MCTypeOf
    Vals = {1}
    Secs = {0}
    NanosPerUSec = 2
    USecPerSec = 3
    MaxLen = 3
SPECIFICATION Spec
INVARIANTS
    NoOverlapPerKey
    ValuePreserved
