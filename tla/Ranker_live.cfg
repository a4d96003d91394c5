\* A schedule of uneven gaps, a query and a callback that together fill the shortest one,
\* and a runner replaced by a second Start and left behind by Stop.
SPECIFICATION Spec
CONSTANTS
    Runs = {r1, r2, r3, r4}
    Gaps = {2, 3}
    MinGap = 2
    FetchTimeout = 1
    ReceiveTime = 1
    MaxStarts = 2
INVARIANTS TypeOK IInv OverlapBound
PROPERTIES ImplementsGate StopQuiesces KeepsFetching
