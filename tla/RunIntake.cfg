SPECIFICATION FairSpec
CONSTANTS
    first = first
    again = again
    keyless = keyless
    orphan = orphan
    Requests = {first, again, keyless, orphan}
    Key <- MCKey
    NoKey = NoKey
    Orphans = {orphan}
    Admission <- MCAdmission
    Pacing <- MCPacing
    DefaultPacing = "default"
    Scanners = {s1, s2}
    Runners = {w1}
    Nobody = Nobody
    Backends = {"postgres", "memory"}
    MaxFaults = 1
INVARIANTS IntakeTypeOK OneRunPerKey AdmissionAsCreated OneHolderPerRun
PROPERTY OldestPickedUp
