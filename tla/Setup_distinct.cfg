\* Two rankers of different strategies, made again and again until New succeeds.
SPECIFICATION Spec
CONSTANTS
    Nil = Nil
    r1 = r1
    r2 = r2
    f1 = f1
    f2 = f2
    to1 = to1
    to2 = to2
    Rankers = {r1, r2}
    Fetchers = {f1, f2}
    Receivers = {to1, to2}
    Calls <- Distinct
    Endpoints <- Addresses
INVARIANTS TypeOK BuiltAsAsked QueryAsConfigured FeedsTheCaller RunsSurvive SteppedGapsAreMultiples
