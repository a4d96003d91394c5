\* Stop returns while a query is being answered.
SPECIFICATION Spec
CONSTANTS
    Runs = {r1, r2}
    Gaps = {2}
    MinGap = 2
    FetchTimeout = 2
    ReceiveTime = 0
    MaxStarts = 1
PROPERTIES NoDeliveryAfterStop
