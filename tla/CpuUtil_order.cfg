\* Two runs may overlap: the answer of the earlier query comes last.
SPECIFICATION Spec
CONSTANTS
    h1 = h1
    h2 = h2
    a = a
    b = b
    NoTask = NoTask
    Containers <- OneTask
    Runs = {r1, r2}
    Intervals = {1}
    MaxQueries = 3
    MaxUsage = 1
    MaxMetric = 1
    MaxBuilds = 0
    BuildsInRuns = FALSE
    Scale = 1
INVARIANTS SuccessiveQueries
