SPECIFICATION Spec
CONSTANTS
  r1 = r1
  r2 = r2
  p = p
  q = q
  colon = colon
  m = m
  n = n
  Request = {r1, r2}
  MaxCid = 2
  Password = {p, q, colon}
  Refused = {colon}
  empty = empty
  Name = {m, n}
  Rating = {0, 11, 12}
  SUP = 11
  ADM = 12
  adminPassword = p
  adminName = m
  nil = nil
INVARIANTS TypeOK ReplacedPasswordDead
