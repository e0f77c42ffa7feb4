SPECIFICATION FairSpec
CONSTANTS
    i1 = i1  i2 = i2  r1 = r1  r2 = r2  r3 = r3  r4 = r4
    acc = acc  app = app  svc = svc
    Items = {i1, i2}
    Requests = {r1, r2}
    Principals = {acc, app}
    RolesOf <- MCRolesOf
    InRealm <- MCOutOfRealm
    Kinds <- AllKinds
    Starts = {"NEEDS_REVIEW", "DEFERRED"}
    NoOne = NoOne
INVARIANTS ReviewInv AllOrNothing
PROPERTIES RequestsEnd ImplementsReview
CHECK_DEADLOCK FALSE
