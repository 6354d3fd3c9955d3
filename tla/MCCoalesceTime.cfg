\* Widening an empty interval can carry Nanos past one second.
CONSTANTS
    Keys <- MCKeys
    StreamOf <- MCStreamApart
    TypeOf <- MCTypeOf
    Vals = {1}
    Secs = {0}
    NanosPerUSec = 2
    USecPerSec = 2
    MaxLen = 1
SPECIFICATION Spec
INVARIANT TimestampsValid
