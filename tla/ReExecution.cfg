SPECIFICATION Spec
CONSTANTS
    r1 = r1  r2 = r2  r3 = r3  w1 = w1  w2 = w2  v1 = v1  v2 = v2
    app = app  svc = svc
    Jobs = {1, 2}
    Requests = {r1}
    Workers = {w1, w2}
    Recoverers = {v1}
    Principals = {app}
    RolesOf <- MCRolesOf
    InRealm <- MCInRealm
    MaxAttempts = 2
    DirectTargets = {}
    Starts = {"READY"}
    BatchSize = 1
    NoOne = NoOne
INVARIANTS NotExecutedAgain
CHECK_DEADLOCK FALSE
