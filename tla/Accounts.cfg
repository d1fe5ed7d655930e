SPECIFICATION Spec
CONSTANTS
    Users = {admin, ann}
    Builtin = admin
    Mistyped = {ann}
    Requests = {r1, r2}
    Patches <- Bodies
    Threshold = 1
    MaxPw = 3
    MaxTokens = 2
    MaxRows = 2
    MaxFails = 3
SYMMETRY Symmetry
INVARIANTS AnAdminRemains LockoutBound OldPasswordsExplained
PROPERTIES RevokedStaysRevoked
