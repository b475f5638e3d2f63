SPECIFICATION Spec
CONSTANTS
    ProposalIds = {p1, p2}
    Forms <- TestForms
    Keys <- TestKeys
    LowerCase <- SmallLetter
    Posts = {q1, q2}
    Clicks = {c1, c2}
    MaxMonth = 2
    ActivityWindow = 0
    ProposalWindow = 1
    NoRow = NoRow
    NoEntry = NoEntry
    NoForm = NoForm
    NoProposal = NoProposal
    NoAnswer = NoAnswer
SYMMETRY Symmetry
INVARIANTS RecordsTypeOK OneProposalPerRequest AnswersNameTheRequest AcknowledgedAnswersAreKept  WonRateIsARate
PROPERTIES NothingRecentIsDeleted NothingIsKeptTooLong
CHECK_DEADLOCK FALSE
