\* The invalid-argument response does not echo the request's RequestIndex.
CONSTANTS
    N = 2
    Indexes <- MCIndexes
    Pool = {p1}
    Attrs <- MCAttrs
    Vals <- MCVals
    Absent = Absent
SPECIFICATION Spec
INVARIANTS
    ResponseEchoesRequestIndex
