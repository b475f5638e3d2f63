SPECIFICATION SessionsSpec
CONSTANTS
    Accounts = {}
    NamedAccounts = {}
    NoAccount = NoAccount
    FormName = FormName
    NoName = NoName
    IntakeNames = {NoName}
    Sections = {s1}
    Contents = {template, text}
    Template = template
    MaxRegenerationAttempts = 0
    JobIds = {j1}
    MaxDeliveries = 1
    RequestChangesFrom <- AnyStatus
    Faults <- NoFaults
    NoSection = NoSection
    NoSnapshot = NoSnapshot
    NoDocument = NoDocument
    NoSignoff = NoSignoff
    SessionIds = {q1, q2}
    Closed = Closed
SYMMETRY SessionSymmetry
INVARIANTS  DeliveredWasEmailed
CHECK_DEADLOCK FALSE
