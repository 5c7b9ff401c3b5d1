\* One page that makes accounts, ratings of 0 included, and edits them, two
\* searches at once.
SPECIFICATION Spec
CONSTANTS
    p1 = p1  c1 = c1  c2 = c2  w = w
    Page = {p1}
    Claim <- Supervisor
    Self <- Elsewhere
    Cid = {c1, c2}
    Rating <- Ratings
    Password = {w}
    Short = {}
    NewAccount <- Accounts
    Rows <- OneUser
    blank = blank
    nil = nil
    MaxSearch = 2
INVARIANTS TypeOK PasswordForItsUser RatingOfItsOwn
