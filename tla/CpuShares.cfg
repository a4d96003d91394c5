\* Up to three series on two hosts, labelled or not.
SPECIFICATION Spec
CONSTANTS
    Hosts = {h1, h2}
    Tasks = {a}
    NoLabel = NoLabel
    Values <- FewValues
    MaxSeries = 3
INVARIANTS TypeOK RanksEverySeries IInv
