\* A second ranker after the first was stopped; nothing is disabled.
SPECIFICATION Spec
CONSTANTS
    Requested = {}
    MaxNews = 2
INVARIANTS EveryLineIsKept
