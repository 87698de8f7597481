\* Reference index and status freshness with two concurrent workers.
CONSTANTS
    c1 = c1  c2 = c2  r1 = r1  r2 = r2  w1 = w1  w2 = w2
    d1 = d1  d2 = d2  p1 = p1  p2 = p2
    CS = {c1, c2}
    Refs = {r1, r2}
    Workers = {w1, w2}
    Data = {d1}
    SpecChoices <- MCSpecChoices
    PolicyPrefixes = {p1}
    Broken = {}
    Absent = Absent
    NotConfigured = NotConfigured
    NoSummary = NoSummary
    NoHash = NoHash
    NotDeployed = NotDeployed
    NoPrefix = NoPrefix
    MaxFaults = 0
    MaxChanges = 1
    MaxEdits = 1
    MaxCreates = 0
    MaxDeletes = 0
    MaxClusterDeletes = 0
    MaxCrashes = 1
    MaxOwnerDeletes = 1
SPECIFICATION Spec
INVARIANT TypeOK IndexConsistent NoStaleStatus
PROPERTY IndexRefinement
\* An idle controller with an empty queue waits for events: a bounded run
\* ends in such states.
CHECK_DEADLOCK FALSE
SYMMETRY WorkerSymmetry
