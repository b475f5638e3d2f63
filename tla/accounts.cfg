SPECIFICATION Spec
CONSTANTS
    Users = {u1, u2}
    Names = {n1, n2}
    Requests = {r1, r2}
    Script = Script
    FormName = FormName
    NoName = NoName
    NoUser = NoUser
    NoRow = NoRow
SYMMETRY Symmetry
INVARIANTS AccountsTypeOK LabelIsTheOwners DecisionIsWhole
PROPERTIES DecisionsStand OwnersAreNotRobbed
CHECK_DEADLOCK FALSE
