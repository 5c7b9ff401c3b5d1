\* Two tabs of one administrator's browser, one reset; tokens are refreshed
\* after one tick and given up after three; the margin is two ticks.
SPECIFICATION LiveSpec
CONSTANTS
    Tab = {t1, t2}
    User = {a}
    Admin = {a}
    nil = nil
    Margin = 2
    AccessLife = 2
    RefreshLife = {4}
    ApiLife = {1}
    MaxTime = 3
    MaxKey = 1
INVARIANTS TypeOK SessionsEndAtReset
PROPERTIES FreshOnArrival CallEnds
