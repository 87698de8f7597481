\* Progress: a misconfigured Role feature fails on every pass; Kyverno must
\* still converge, and deletion must still complete.
CONSTANTS
    c1 = c1  c2 = c2  r1 = r1  r2 = r2  w1 = w1  w2 = w2
    d1 = d1  d2 = d2  p1 = p1  p2 = p2
    CS = {c1, c2}
    Refs = {r1, r2}
    Workers = {w1}
    Data = {d1}
    SpecChoices <- MCSpecRoleAndKyverno
    PolicyPrefixes = {p1}
    Broken = {"Role"}
    Absent = Absent
    NotConfigured = NotConfigured
    NoSummary = NoSummary
    NoHash = NoHash
    NotDeployed = NotDeployed
    NoPrefix = NoPrefix
    MaxFaults = 1
    MaxChanges = 1
    MaxEdits = 0
    MaxCreates = 0
    MaxDeletes = 1
    MaxClusterDeletes = 0
    MaxCrashes = 1
    MaxOwnerDeletes = 0
SPECIFICATION Spec
PROPERTY Converges DeletionCompletes
\* A removed ClusterSummary leaves the controller idle.
CHECK_DEADLOCK FALSE
