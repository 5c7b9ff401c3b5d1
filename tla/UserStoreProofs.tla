--------------------------- MODULE UserStoreProofs ---------------------------
(***************************************************************************)
(* Theorems about UserStore, for any number of overlapping requests.       *)
(***************************************************************************)
EXTENDS UserStore, TLAPS

\* An update between its read and its write: the copy holds the plaintext the
\* request provides, or the hash it read, which will be hashed once more.
CopyExact ==
    \A r \in Request : pc[r] = "write" =>
        /\ body[r] \in Body /\ copy[r] \in User
        /\ users[body[r].cid] \in Row /\ given[body[r].cid] \in Account
        /\ body[r].password = nil => copy[r].password \in Hashed
        /\ body[r].password # nil =>
             copy[r].password = Plain(body[r].password)

RowsGiven == \A cid \in Cid : ~NoRow(cid) => given[cid] \in Account

Inv == TypeOK /\ RowsGiven /\ CopyExact /\ ReplacedPasswordDead

LEMMA HashOf ==
  ASSUME NEW s \in Secret
  PROVE  /\ Hash(s) \in Secret
         /\ Hash(s).text = s.text /\ Hash(s).rounds = s.rounds + 1
         /\ s.text # empty => Hash(s) \in Hashed
BY DEF Secret, Hashed, Hash

LEMMA PlainOf ==
  ASSUME NEW p \in Password \cup {empty}
  PROVE  /\ Plain(p) \in Secret
         /\ Plain(p).text = p /\ Plain(p).rounds = 0
BY DEF Secret, Plain

\* Only one round over the very text verifies.
LEMMA VerifyOf ==
  ASSUME NEW p \in Password, NEW s \in Secret, VerifyPasswordHash(p, s)
  PROVE  s.text = p /\ s.rounds = 1
BY PlainOf, HashOf DEF VerifyPasswordHash

LEMMA RowOfAccount ==
  ASSUME NEW a \in Account
  PROVE  /\ RowOf(a) \in Row
         /\ \A p \in Password :
              VerifyPasswordHash(p, RowOf(a).password) => p = a.password
<1>1. a.password \in Password
  BY DEF Account
<1>2. Hash(Plain(a.password)) \in Hashed
  BY <1>1, PlainOf, HashOf, PasswordAssumption
<1>3. /\ RowOf(a).password = Hash(Plain(a.password))
      /\ RowOf(a).name = a.name /\ RowOf(a).rating = a.rating
      /\ RowOf(a) = [password |-> Hash(Plain(a.password)), name |-> a.name,
                     rating |-> a.rating]
  BY DEF RowOf
<1>4. RowOf(a) \in Row
  <2> DEFINE h == Hash(Plain(a.password))
  <2>1. h \in Hashed
    BY <1>2
  <2>2. RowOf(a) = [password |-> h, name |-> a.name, rating |-> a.rating]
    BY <1>3
  <2> HIDE DEF h
  <2> QED BY <2>1, <2>2 DEF Row, Account
<1>5. ASSUME NEW p \in Password, VerifyPasswordHash(p, RowOf(a).password)
      PROVE  p = a.password
  <2>1. /\ Hash(Plain(a.password)) \in Secret
        /\ Hash(Plain(a.password)).text = a.password
    BY <1>1, PlainOf, HashOf
  <2> QED BY <1>3, <1>5, <2>1, VerifyOf
<1> QED BY <1>4, <1>5

LEMMA InvInit == Init => Inv
<1> SUFFICES ASSUME Init PROVE Inv
  OBVIOUS
<1>1. Admin \in Account
  BY PasswordAssumption, NameAssumption, RatingAssumption DEF Admin, Account
<1>2. /\ RowOf(Admin) \in Row
      /\ \A p \in Password :
           VerifyPasswordHash(p, RowOf(Admin).password) => p = Admin.password
  BY <1>1, RowOfAccount
<1>3. TypeOK
  BY <1>1, <1>2 DEF Init, TypeOK
<1>4. CopyExact
  BY DEF Init, CopyExact
<1>5. ReplacedPasswordDead
  <2>1. ASSUME NEW cid \in Cid, users[cid] # nil
        PROVE  users[cid] = RowOf(Admin) /\ given[cid] = Admin
    BY <2>1 DEF Init
  <2> QED BY <1>2, <2>1 DEF ReplacedPasswordDead, NoRow
<1>6. RowsGiven
  BY <1>1 DEF Init, RowsGiven, NoRow
<1> QED BY <1>3, <1>4, <1>5, <1>6 DEF Inv

-----------------------------------------------------------------------------
LEMMA CreateStep ==
  ASSUME Inv, NEW r \in Request, CreateUser(r)
  PROVE  Inv'
<1>1. PICK new \in Account, cid \in Cid :
         /\ NoRow(cid)
         /\ Ends(r, "start")
         /\ users' = [users EXCEPT ![cid] = RowOf(new)]
         /\ given' = [given EXCEPT ![cid] = new]
         /\ UNCHANGED <<body, copy>>
  BY DEF CreateUser
<1>2. /\ RowOf(new) \in Row
      /\ \A p \in Password :
           VerifyPasswordHash(p, RowOf(new).password) => p = new.password
  BY RowOfAccount
<1>3. TypeOK'
  BY <1>1, <1>2 DEF Inv, TypeOK, Ends
<1>4. CopyExact'
  <2> SUFFICES ASSUME NEW s \in Request, pc'[s] = "write"
               PROVE  /\ users'[body[s].cid] \in Row
                      /\ given'[body[s].cid] \in Account
                      /\ pc[s] = "write"
    BY <1>1 DEF Inv, CopyExact
  <2>1. pc[s] = "write"
    BY <1>1 DEF Inv, TypeOK, Ends
  <2>2. /\ users[body[s].cid] \in Row /\ given[body[s].cid] \in Account
        /\ body[s].cid \in Cid
    BY <2>1 DEF Inv, CopyExact, Body
  <2> QED BY <1>1, <1>2, <2>1, <2>2 DEF Inv, TypeOK
<1>5. ReplacedPasswordDead'
  BY <1>1, <1>2 DEF Inv, TypeOK, ReplacedPasswordDead, NoRow
<1>6. RowsGiven'
  BY <1>1 DEF Inv, TypeOK, RowsGiven, NoRow
<1> QED BY <1>3, <1>4, <1>5, <1>6 DEF Inv

LEMMA ReadStep ==
  ASSUME Inv, NEW r \in Request, ReadUser(r)
  PROVE  Inv'
<1> DEFINE pass(b) == IF b.password = nil THEN users[b.cid].password
                      ELSE Plain(b.password)
<1>1. PICK b \in Body :
         /\ ~NoRow(b.cid)
         /\ pc[r] = "start"
         /\ pc' = [pc EXCEPT ![r] = "write"]
         /\ body' = [body EXCEPT ![r] = b]
         /\ copy' = [copy EXCEPT ![r] =
              [password |-> pass(b),
               name |-> Provided(b.name, users[b.cid].name),
               rating |-> b.rating]]
         /\ UNCHANGED <<users, given>>
  BY DEF ReadUser
<1>2. /\ b.cid \in Cid /\ b.rating \in Rating
      /\ b.name \in Name \cup {nil}
      /\ b.password \in Password \cup {empty, nil}
  BY DEF Body
<1>3. users[b.cid] \in Row
  BY <1>1, <1>2 DEF Inv, TypeOK, NoRow
<1>4. given[b.cid] \in Account
  BY <1>1, <1>2 DEF Inv, RowsGiven, NoRow
<1>5. /\ users[b.cid].password \in Hashed /\ users[b.cid].name \in Name
  BY <1>3 DEF Row
<1>6. /\ pass(b) \in Secret
      /\ b.password = nil => pass(b) \in Hashed
      /\ b.password # nil => pass(b) = Plain(b.password)
  <2>1. Hashed \subseteq Secret
    BY DEF Hashed, Secret
  <2> QED BY <1>2, <1>5, <2>1, PlainOf
<1>7. Provided(b.name, users[b.cid].name) \in Name
  BY <1>2, <1>5 DEF Provided
<1> DEFINE new == [password |-> pass(b),
                   name |-> Provided(b.name, users[b.cid].name),
                   rating |-> b.rating]
<1>8. new \in User /\ new.password = pass(b)
  <2> HIDE DEF pass
  <2> QED BY <1>2, <1>6, <1>7 DEF User
<1>9. copy' = [copy EXCEPT ![r] = new]
  BY <1>1
<1> HIDE DEF pass, new
<1>10. TypeOK'
  BY <1>1, <1>8, <1>9 DEF Inv, TypeOK
<1>11. CopyExact'
  <2> SUFFICES ASSUME NEW s \in Request, pc'[s] = "write"
               PROVE  /\ body'[s] \in Body /\ copy'[s] \in User
                      /\ users[body'[s].cid] \in Row
                      /\ given[body'[s].cid] \in Account
                      /\ body'[s].password = nil =>
                           copy'[s].password \in Hashed
                      /\ body'[s].password # nil =>
                           copy'[s].password = Plain(body'[s].password)
    BY <1>1 DEF CopyExact
  <2>1. CASE s = r
    BY <1>1, <1>3, <1>4, <1>6, <1>8, <1>9, <2>1 DEF Inv, TypeOK
  <2>2. CASE s # r
    BY <1>1, <1>9, <2>2 DEF Inv, TypeOK, CopyExact
  <2> QED BY <2>1, <2>2
<1>12. ReplacedPasswordDead' /\ RowsGiven'
  BY <1>1 DEF Inv, ReplacedPasswordDead, RowsGiven, NoRow
<1> QED BY <1>10, <1>11, <1>12 DEF Inv
LEMMA FinishFrame ==
  ASSUME Inv, NEW r \in Request, Finish(r)
  PROVE  /\ pc' \in [Request -> {"start", "write", "done"}]
         /\ body' \in [Request -> Body \cup {nil}]
         /\ copy' \in [Request -> User \cup {nil}]
         /\ \A s \in Request : pc'[s] = "write" =>
              s # r /\ pc[s] = "write" /\ body'[s] = body[s] /\ copy'[s] = copy[s]
BY DEF Inv, TypeOK, Finish, Ends

LEMMA UpdateStep ==
  ASSUME Inv, NEW r \in Request, UpdateUser(r)
  PROVE  Inv'
<1> DEFINE b == body[r]
           u == copy[r]
           row == users[b.cid]
           last == given[b.cid]
           secret == Stored(u.password, row.password)
           word == IF b.password \in {nil, empty} THEN last.password
                   ELSE b.password
           newRow == [password |-> secret, name |-> u.name, rating |-> u.rating]
           newLast == [password |-> word, name |-> Provided(b.name, last.name),
                       rating |-> b.rating]
<1>1. /\ Finish(r)
      /\ users' = [users EXCEPT ![b.cid] = newRow]
      /\ given' = [given EXCEPT ![b.cid] = newLast]
      /\ u.password.text \notin Refused \/ u.password.rounds > 0
  BY DEF UpdateUser
<1>2. /\ b \in Body /\ u \in User /\ row \in Row /\ last \in Account
      /\ b.password = nil => u.password \in Hashed
      /\ b.password # nil => u.password = Plain(b.password)
  BY <1>1 DEF Inv, CopyExact, Finish, Ends
<1>3. /\ b.cid \in Cid /\ b.name \in Name \cup {nil} /\ b.rating \in Rating
      /\ b.password \in Password \cup {empty, nil}
      /\ u.password \in Secret /\ u.name \in Name /\ u.rating \in Rating
      /\ row.password \in Hashed
      /\ last.password \in Password /\ last.name \in Name
  BY <1>2 DEF Body, User, Row, Account
<1> HIDE DEF b, u, row, last
<1>4. secret \in Hashed /\ word \in Password
  BY <1>3, HashOf DEF Stored
<1>5. newRow \in Row /\ newRow.password = secret
  <2> HIDE DEF secret
  <2> QED BY <1>3, <1>4 DEF Row
<1>6. newLast \in Account /\ newLast.password = word
  <2>1. Provided(b.name, last.name) \in Name
    BY <1>3 DEF Provided
  <2> HIDE DEF word
  <2> QED BY <1>3, <1>4, <2>1 DEF Account
\* a hash that is hashed again verifies nothing; a plaintext, itself
<1>7. ASSUME NEW p \in Password, VerifyPasswordHash(p, secret)
      PROVE  \/ secret = row.password /\ word = last.password
             \/ p = word
  <2>1. CASE b.password = nil
    <3>1. /\ u.password.text # empty /\ u.password.rounds \in Nat \ {0}
      BY <1>2, <2>1, PasswordAssumption DEF Hashed, b, u
    <3>2. secret = Hash(u.password)
      BY <3>1 DEF Stored
    <3> QED BY <1>3, <1>7, <3>1, <3>2, HashOf, VerifyOf
  <2>2. CASE b.password = empty
    <3>1. u.password.text = empty
      BY <1>2, <2>2, PlainOf, PasswordAssumption DEF b, u
    <3> QED BY <2>2, <3>1 DEF Stored
  <2>3. CASE b.password \in Password
    <3>1. u.password.text = b.password /\ word = b.password
      BY <1>2, <2>3, PlainOf, PasswordAssumption DEF b, u
    <3>2. secret = Hash(u.password)
      BY <2>3, <3>1, PasswordAssumption DEF Stored
    <3> QED BY <1>3, <1>7, <3>1, <3>2, HashOf, VerifyOf
  <2> QED BY <1>3, <2>1, <2>2, <2>3
<1> HIDE DEF secret, word, newRow, newLast
<1>8. TypeOK'
  BY <1>1, <1>3, <1>5, <1>6, FinishFrame DEF Inv, TypeOK
<1>9. RowsGiven'
  BY <1>1, <1>3, <1>6 DEF Inv, TypeOK, RowsGiven, NoRow
<1>10. CopyExact'
  <2> SUFFICES ASSUME NEW s \in Request, pc'[s] = "write"
               PROVE  /\ users'[body[s].cid] \in Row
                      /\ given'[body[s].cid] \in Account
                      /\ pc[s] = "write"
                      /\ body'[s] = body[s] /\ copy'[s] = copy[s]
    BY DEF Inv, CopyExact
  <2>1. /\ pc[s] = "write" /\ body'[s] = body[s] /\ copy'[s] = copy[s]
    BY <1>1, FinishFrame
  <2>2. /\ users[body[s].cid] \in Row /\ given[body[s].cid] \in Account
        /\ body[s].cid \in Cid
    BY <2>1 DEF Inv, CopyExact, Body
  <2> QED BY <1>1, <1>5, <1>6, <2>1, <2>2 DEF Inv, TypeOK
<1>11. ReplacedPasswordDead'
  <2> SUFFICES ASSUME NEW cid \in Cid, NEW p \in Password,
                      ~NoRow(cid)',
                      VerifyPasswordHash(p, users'[cid].password)
               PROVE  p = given'[cid].password
    BY DEF ReplacedPasswordDead, VerifyPasswordHash
  <2>1. CASE cid = b.cid
    <3>1. users'[cid] = newRow /\ given'[cid] = newLast
      BY <1>1, <2>1 DEF Inv, TypeOK
    <3>2. VerifyPasswordHash(p, secret)
      BY <1>5, <3>1
    <3>3. CASE p = word
      BY <1>6, <3>1, <3>3
    <3>4. CASE secret = row.password /\ word = last.password
      <4>1. ~NoRow(cid)
        BY <1>2, <2>1, NilAssumption DEF NoRow, row
      <4>2. p = given[cid].password
        BY <2>1, <3>2, <3>4, <4>1 DEF Inv, ReplacedPasswordDead, row
      <4> QED BY <1>6, <2>1, <3>1, <3>4, <4>2 DEF last
    <3> QED BY <1>7, <3>2, <3>3, <3>4
  <2>2. CASE cid # b.cid
    BY <1>1, <2>2 DEF Inv, TypeOK, ReplacedPasswordDead, NoRow
  <2> QED BY <2>1, <2>2
<1> QED BY <1>8, <1>9, <1>10, <1>11 DEF Inv

LEMMA InvStep == Inv /\ [Next]_vars => Inv'
<1> SUFFICES ASSUME Inv, [Next]_vars PROVE Inv'
  OBVIOUS
<1>1. ASSUME NEW r \in Request, Rejected(r) PROVE Inv'
  BY <1>1 DEF Rejected, Ends, Inv, TypeOK, RowsGiven, CopyExact,
     ReplacedPasswordDead, NoRow
<1>2. ASSUME NEW r \in Request, UpdateFails(r) PROVE Inv'
  <2>1. Finish(r) /\ UNCHANGED <<users, given>>
    BY <1>2 DEF UpdateFails
  <2> QED BY <2>1, FinishFrame DEF Inv, TypeOK, RowsGiven, CopyExact,
          ReplacedPasswordDead, NoRow
<1>3. CASE UNCHANGED vars
  BY <1>3 DEF vars, Inv, TypeOK, RowsGiven, CopyExact, ReplacedPasswordDead,
     NoRow
<1> QED BY <1>1, <1>2, <1>3, CreateStep, ReadStep, UpdateStep DEF Next, AllDone

\* Rows hold hashes and nothing else, whatever requests overlap or fail.
THEOREM TypeCorrect == Spec => []TypeOK
<1>1. Inv => TypeOK
  BY DEF Inv
<1> QED BY InvInit, InvStep, <1>1, PTL DEF Spec

\* However many requests overlap, on however many accounts, a password that
\* was replaced is never accepted again.
THEOREM ReplacedStaysDead == Spec => []ReplacedPasswordDead
<1>1. Inv => ReplacedPasswordDead
  BY DEF Inv
<1> QED BY InvInit, InvStep, <1>1, PTL DEF Spec
=============================================================================
