\* Safety, refinement of RequestStream and termination of the stream dispatcher
\* (no symmetry: the liveness property forbids it).
CONSTANTS
    N = 3
    Indexes <- MCIndexes
    Pool = {p1, p2}
    Attrs <- MCAttrs
    Vals <- MCVals
    Absent = Absent
SPECIFICATION Spec
INVARIANTS
    TypeOK
    DrainedBeforeClose
    ClientSeesResponseBag
PROPERTIES
    RefinesRequestStream
    Termination
