\* Time series conservation and eventual push in the stackdriver adapter.
\* After factory.Close the daemons block forever on ticker.C, and after a
\* panic nothing runs: the system really stops there.
CONSTANTS
    Aspects = {s1, s2}
    p1 = p1
    p2 = p2
    p3 = p3
    Points <- MCPoints
    ValueTypeOf <- MCValueTypeOf
SPECIFICATION Spec
INVARIANTS
    PointsAccountedOnce
PROPERTIES
    RecordedEventuallyPushed
    RefinesMetricsExport
CHECK_DEADLOCK FALSE
