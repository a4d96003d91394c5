\* One ranker of the schedules and intervals at hand.
SPECIFICATION Spec
CONSTANTS
    Nil = Nil
    r1 = r1
    r2 = r2
    f1 = f1
    f2 = f2
    to1 = to1
    to2 = to2
    Rankers = {r1}
    Fetchers = {f1}
    Receivers = {to1, to2}
    Calls <- Timed
    Endpoints <- Addresses
INVARIANTS EveryGapIsMultiple
