\* The Prometheus configuration of a ClusterSummary is removed and added back while a pass runs.
CONSTANTS
    c1 = c1  c2 = c2  r1 = r1  r2 = r2  w1 = w1  w2 = w2
    d1 = d1  d2 = d2  p1 = p1  p2 = p2
    CS = {c1}
    Refs = {r1, r2}
    Workers = {w1}
    Data = {d1}
    SpecChoices <- MCSpecPrometheusToggle
    PolicyPrefixes = {p1}
    Broken = {}
    Absent = Absent
    NotConfigured = NotConfigured
    NoSummary = NoSummary
    NoHash = NoHash
    NotDeployed = NotDeployed
    NoPrefix = NoPrefix
    MaxFaults = 0
    MaxChanges = 0
    MaxEdits = 2
    MaxCreates = 0
    MaxDeletes = 0
    MaxClusterDeletes = 0
    MaxCrashes = 0
    MaxOwnerDeletes = 0
SPECIFICATION Spec
INVARIANT NoLostChange
\* An idle controller waits for events.
CHECK_DEADLOCK FALSE
