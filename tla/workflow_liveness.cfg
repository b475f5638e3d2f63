SPECIFICATION FairSpec
CONSTANTS
    Accounts = {a1}
    NamedAccounts = {a1}
    NoAccount = NoAccount
    FormName = FormName
    NoName = NoName
    IntakeNames = {FormName, NoName}
    Sections = {s1}
    Contents = {template, text}
    Template = template
    MaxRegenerationAttempts = 1
    JobIds = {j1, j2}
    MaxDeliveries = 2
    RequestChangesFrom <- ReviewedStatuses
    Faults <- SurvivableFaults
    NoSection = NoSection
    NoSnapshot = NoSnapshot
    NoDocument = NoDocument
    NoSignoff = NoSignoff
PROPERTIES GenerationResolves DocumentResolves DeliveryResolves RegenerationResolves
CHECK_DEADLOCK FALSE
