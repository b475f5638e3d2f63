SPECIFICATION Spec
CONSTANTS
    Edits = {e1, e2}
    Regenerations = {r1, r2, r3}
    Generations = {g1, g2}
    Template = Template
    Unread = Unread
    MaxRegenerationAttempts = 2
SYMMETRY WriterSymmetry
INVARIANTS HistoryTypeOK SerialHistoryIsExact NeverOvercharged LogIsTruthful  PinnedFactStands
CHECK_DEADLOCK FALSE
