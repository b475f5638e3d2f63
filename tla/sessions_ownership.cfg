SPECIFICATION SessionsSpec
CONSTANTS
    Accounts = {a1, a2}
    NamedAccounts = {a1, a2}
    NoAccount = NoAccount
    FormName = FormName
    NoName = NoName
    IntakeNames = {NoName}
    Sections = {s1}
    Contents = {template}
    Template = template
    MaxRegenerationAttempts = 1
    JobIds = {j1}
    MaxDeliveries = 0
    RequestChangesFrom <- AnyStatus
    Faults = {"restart"}
    NoSection = NoSection
    NoSnapshot = NoSnapshot
    NoDocument = NoDocument
    NoSignoff = NoSignoff
    SessionIds = {q1, q2}
    Closed = Closed
SYMMETRY SessionSymmetry
INVARIANTS SessionsTypeOK OwnerIsNamed
CHECK_DEADLOCK FALSE
