\* A ClusterSummary with a Prometheus feature is deleted after it was deployed.
CONSTANTS
    c1 = c1  c2 = c2  r1 = r1  r2 = r2  w1 = w1  w2 = w2
    d1 = d1  d2 = d2  p1 = p1  p2 = p2
    CS = {c1}
    Refs = {r1, r2}
    Workers = {w1}
    Data = {d1}
    SpecChoices <- MCSpecRoleAndPrometheus
    PolicyPrefixes = {p1}
    Broken = {}
    Absent = Absent
    NotConfigured = NotConfigured
    NoSummary = NoSummary
    NoHash = NoHash
    NotDeployed = NotDeployed
    NoPrefix = NoPrefix
    MaxFaults = 0
    MaxChanges = 0
    MaxEdits = 0
    MaxCreates = 0
    MaxDeletes = 1
    MaxClusterDeletes = 0
    MaxCrashes = 0
    MaxOwnerDeletes = 0
SPECIFICATION Spec
INVARIANT NoOrphan

\* An idle controller with an empty queue waits for events: a bounded run
\* ends in such states.
CHECK_DEADLOCK FALSE
