\* Two series of one stream, grouped by pointer, are never merged.
CONSTANTS
    Keys <- MCKeys
    StreamOf <- MCStreamSame
    TypeOf <- MCTypeOf
    Vals = {1}
    Secs = {0}
    NanosPerUSec = 2
    USecPerSec = 2
    MaxLen = 2
SPECIFICATION Spec
INVARIANT NoOverlapPerStream
