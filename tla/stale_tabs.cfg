SPECIFICATION PageSpec
CONSTANTS
    a1 = a1
    a2 = a2
    t1 = t1
    t2 = t2
    Accounts = {a1}
    NamedAccounts = {a1}
    NoAccount = NoAccount
    FormName = FormName
    NoName = NoName
    IntakeNames = {NoName}
    Sections = {s1}
    Contents = {template}
    Template = template
    MaxRegenerationAttempts = 1
    JobIds = {j1}
    MaxDeliveries = 1
    RequestChangesFrom <- AnyStatus
    Faults = {}
    NoSection = NoSection
    NoSnapshot = NoSnapshot
    NoDocument = NoDocument
    NoSignoff = NoSignoff
    Tabs <- TheTabs
    Viewer <- OneViewer
    Blank = Blank
PROPERTIES StatusFollowsTable
CHECK_DEADLOCK FALSE
