\* One run after the other: the regime of a schedule slower than a run.
SPECIFICATION Spec
CONSTANTS
    h1 = h1
    h2 = h2
    a = a
    b = b
    NoTask = NoTask
    Containers <- WithUnlabelled
    Runs = {r1}
    Intervals = {1}
    MaxQueries = 3
    MaxUsage = 1
    MaxMetric = 2
    MaxBuilds = 1
    BuildsInRuns = FALSE
    Scale = 1
SYMMETRY Alike
INVARIANTS TypeOK IInv ObservedIInv NeverCrashes SuccessiveQueries
PROPERTIES ImplementsFeed
