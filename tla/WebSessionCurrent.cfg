SPECIFICATION Spec
CONSTANTS
    Tab = {t1, t2}
    User = {a, u}
    Admin = {a}
    nil = nil
    Margin = 1
    AccessLife = 1
    RefreshLife = {3}
    ApiLife = {1}
    MaxTime = 2
    MaxKey = 1
INVARIANT CurrentToken
SYMMETRY TabSymmetry
