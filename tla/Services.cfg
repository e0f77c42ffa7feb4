SPECIFICATION ServicesSpec
SYMMETRY Symmetry
CONSTANTS
    x1 = x1  x2 = x2  y1 = y1  y2 = y2  z1 = z1  z2 = z2

    Asks = {x1, x2}
    Accts = {y1, y2}
    MaxEdits = 1
    NoAcct = NoAcct

    Names <- MCNames
    Shapes <- MCShapes
    Feed <- MCFeed
    Targets = {x1, x2}
    MaxRules = 2
    MaxVotes = 2
    MaxRun = 2

    ApiClients = {x1, x2}
    ApiMaxRetries = 1
    MaxCalls = 1
    MaxGrants = 1
    MaxExpiries = 1

    Accounts = {1, 2, 3}
    FirstParent <- MCFirstParent
    Odd <- MCOdd
    CoaRuns = {x1, x2}
    CoaPage = 2
    CoaSplitAt = 2
    CoaDepth = 0
    CoaDay = 1
    CoaHeight = 2
    CoaEdits = 1
    CoaType <- MCType
    CoaClass <- MCClass

    Models = {x1, x2}
    Moves = {y1, y2}
    Shadows = {z1, z2}
    MlEnabled = TRUE
    MaxSaves = 1

    Jtis = {x1, x2}
    Life = 1
    Skew = 1
    Limit = 2
    Window = 1
    Horizon = 4
INVARIANTS
    ServicesTypeOK
    OneEffect  DecisionOnRecord
     FirstRuleLeads 
    StoredRefreshTokenIsCurrent 
     ParentsAreLinked HierarchyAgrees AnswersAgree
    OneShadow EventsExplainStatus 
    RevocationHolds WindowHolds
PROPERTIES
    NoEditIsOverwritten
CHECK_DEADLOCK FALSE
