SPECIFICATION Spec
CONSTANTS
    ProposalIds = {p1}
    Forms <- TestForms
    Keys <- TestKeys
    LowerCase <- SmallLetter
    Posts = {q1}
    Clicks = {c1}
    MaxMonth = 2
    ActivityWindow = 0
    ProposalWindow = 1
    NoRow = NoRow
    NoEntry = NoEntry
    NoForm = NoForm
    NoProposal = NoProposal
    NoAnswer = NoAnswer
PROPERTIES OnlyInactiveIsDeleted
CHECK_DEADLOCK FALSE
