SPECIFICATION Spec
CONSTANTS
    Accounts = {a1}
    NamedAccounts = {a1}
    NoAccount = NoAccount
    FormName = FormName
    NoName = NoName
    IntakeNames = {FormName, NoName}
    Sections = {s1}
    Contents = {template, text}
    Template = template
    MaxRegenerationAttempts = 2
    JobIds = {j1, j2}
    MaxDeliveries = 2
    RequestChangesFrom <- ReviewedStatuses
    Faults <- AllFaults
    NoSection = NoSection
    NoSnapshot = NoSnapshot
    NoDocument = NoDocument
    NoSignoff = NoSignoff
SYMMETRY Symmetry
INVARIANTS TypeOK  StatusWaitsForJob QuietApprovalIsSealed DocumentBehindDelivery EmailsAreRecorded
PROPERTIES StatusFollowsTable KeepsPromise
CHECK_DEADLOCK FALSE
