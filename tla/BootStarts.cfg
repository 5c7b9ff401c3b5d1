\* Two servers on one database, two keys and two addresses, four faults.
SPECIFICATION LiveSpec
CONSTANTS
    Server = {s1, s2}
    Addr = {a1, a2}
    Key = {k1, k2}
    Value = {v1, v2}
    nil = nil
    MaxFault = 4
INVARIANTS TypeOK RunningIsSetUp AdminsBounded CredentialsShown
PROPERTIES StartKeepsConfig StartServes
