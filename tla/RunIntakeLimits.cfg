SPECIFICATION Spec
CONSTANTS
    first = first
    again = again
    keyless = keyless
    orphan = orphan
    Requests = {first, keyless}
    Key <- MCKey
    NoKey = NoKey
    Orphans = {}
    Admission <- MCAdmission
    Pacing <- MCPacing
    DefaultPacing = "default"
    Scanners = {s1}
    Runners = {w1}
    Nobody = Nobody
    Backends = {"postgres"}
    MaxFaults = 1
INVARIANT LimitsAsCreated
