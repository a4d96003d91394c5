\* Two runs may overlap: a schedule faster than a slow query.
SPECIFICATION Spec
CONSTANTS
    h1 = h1
    h2 = h2
    a = a
    b = b
    NoTask = NoTask
    Containers <- Colocated
    Runs = {r1, r2}
    Intervals = {0, 1}
    MaxQueries = 2
    MaxUsage = 1
    MaxMetric = 1
    MaxBuilds = 1
    BuildsInRuns = TRUE
    Scale = 1
SYMMETRY Alike
INVARIANTS WellFormedFeed FeedIInv
