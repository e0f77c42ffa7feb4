SPECIFICATION Spec
CONSTANTS
    i1 = i1  i2 = i2  r1 = r1  r2 = r2  r3 = r3  r4 = r4
    acc = acc  app = app  svc = svc
    Items = {i1}
    Requests = {r1, r2}
    Principals = {acc, app}
    RolesOf <- MCRolesOf
    InRealm <- MCInRealm
    Kinds = {"approve"}
    Starts = {"NEEDS_REVIEW"}
    NoOne = NoOne
SYMMETRY RequestSymmetry
INVARIANTS OneApprovalPerVersion
CHECK_DEADLOCK FALSE
