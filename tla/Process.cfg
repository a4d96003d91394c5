\* A ranker and the logger, which is configured by another New too; a query may
\* outlast a gap of the schedule; two of the names to disable are no topics.
SPECIFICATION ProcessSpec
CONSTANTS
    Requested = {"query_result", "other", "bogus"}
    MaxNews = 2
    Runs = {r1, r2}
    Gaps = {2}
    MinGap = 2
    FetchTimeout = 2
    ReceiveTime = 0
    MaxStarts = 1
INVARIANTS TypeOK LogsAreSeparate KeptUntilDone ProcessIInv
PROPERTIES AdmittedWithLogs DeliveredWithLogs
