SPECIFICATION Spec
CONSTANTS
    r1 = r1  r2 = r2  r3 = r3  w1 = w1  w2 = w2  v1 = v1  v2 = v2
    app = app  svc = svc
    Jobs = {1, 2}
    Requests = {r1, r2}
    Workers = {w1, w2}
    Recoverers = {v1, v2}
    Principals = {app, svc}
    RolesOf <- MCRolesOf
    InRealm <- MCOutOfRealm
    MaxAttempts = 2
    DirectTargets = {"IN_PROGRESS", "FAILED_RETRYABLE"}
    Starts = {"READY"}
    BatchSize = 2
    NoOne = NoOne
SYMMETRY ProcSymmetry
INVARIANTS JobsInv ExecutorIsOnRecord
PROPERTIES ImplementsLedger
CHECK_DEADLOCK FALSE
