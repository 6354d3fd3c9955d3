\* merge ends a merged point where the later-starting series ends.
CONSTANTS
    Keys <- MCKeys
    StreamOf <- MCStreamApart
    TypeOf <- MCTypeOf
    Vals = {1}
    Secs = {0, 1}
    NanosPerUSec = 2
    USecPerSec = 2
    MaxLen = 2
SPECIFICATION Spec
INVARIANT MergedIntervalCovers
