SPECIFICATION Spec
CONSTANTS
    e1 = e1  e2 = e2  e3 = e3  r1 = r1  r2 = r2  r3 = r3
    Txns = {1}
    Old = {1}
    Entities = {e1}
    EntityOf <- OneEntity
    Unreadable <- FirstUnreadable
    Runs = {r1, r2, r3}
    Requests <- Incremental
    PageSize = 2
    Limit = 2
    SplitAt = 2
    Overlap = 0
    MinWindow = 1
    MaxDepth = 1
    Lookback = 1
    FirstWindow = 1
    Day = 2
    MaxChanges = 0
    Horizon = 2
    None = None
SYMMETRY RunSymmetry
PROPERTY CheckpointIsMonotone
CHECK_DEADLOCK FALSE
