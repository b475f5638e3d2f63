SPECIFICATION Spec
CONSTANTS
    Accounts = {a1, a2, a3}
    NamedAccounts = {a1, a2}
    NoAccount = NoAccount
    FormName = FormName
    NoName = NoName
    IntakeNames = {FormName, NoName}
    Sections = {s1, s2}
    Contents = {template, text}
    Template = template
    MaxRegenerationAttempts = 1
    JobIds = {j1}
    MaxDeliveries = 1
    RequestChangesFrom <- ReviewedStatuses
    Faults <- NoFaults
    NoSection = NoSection
    NoSnapshot = NoSnapshot
    NoDocument = NoDocument
    NoSignoff = NoSignoff
SYMMETRY OwnershipSymmetry
INVARIANT QuietApprovalIsSealed
PROPERTIES StrangersOnlyGenerate
CHECK_DEADLOCK FALSE
