SPECIFICATION PageSpec
CONSTANTS
    a1 = a1
    a2 = a2
    t1 = t1
    t2 = t2
    Accounts = {a1, a2}
    NamedAccounts = {a1, a2}
    NoAccount = NoAccount
    FormName = FormName
    NoName = NoName
    IntakeNames = {NoName}
    Sections = {s1}
    Contents = {template}
    Template = template
    MaxRegenerationAttempts = 1
    JobIds = {j1}
    MaxDeliveries = 1
    RequestChangesFrom <- AnyStatus
    Faults = {"restart"}
    NoSection = NoSection
    NoSnapshot = NoSnapshot
    NoDocument = NoDocument
    NoSignoff = NoSignoff
    Tabs <- TheTabs
    Viewer <- TwoViewers
    Blank = Blank
INVARIANTS OffersAreAccepted NoDeadEnd LoneTabIsSafe
CHECK_DEADLOCK FALSE
