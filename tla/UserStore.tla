----------------------------- MODULE UserStore -----------------------------
(***************************************************************************)
(* The user table, and the HTTP requests that write it.  A member of       *)
(* Request is one request; gin serves each on a goroutine of its own.      *)
(* updateUser reads the row, changes the copy, and hands the whole copy to *)
(* UpdateUser, which hashes any password that is not empty: the read and   *)
(* the write are two statements, with no transaction around them.          *)
(***************************************************************************)
EXTENDS Integers

CONSTANTS
    Request,
    MaxCid,       \* bound: rows the table has room for
    Password,     \* plaintexts
    Refused,      \* passwords with a colon
    empty,        \* the password "": given, and taken as none
    Name,
    Rating,
    SUP, ADM,     \* supervisor and administrator
    adminPassword, adminName,   \* of the account made at first boot
    nil           \* a field absent from a request body

ASSUME CidAssumption == MaxCid \in Nat \ {0}
ASSUME PasswordAssumption ==
    /\ Refused \subseteq Password
    /\ adminPassword \in Password \ Refused
    /\ empty \notin Password /\ nil \notin Password \cup {empty}
ASSUME RatingAssumption == Rating \subseteq Int /\ {SUP, ADM} \subseteq Rating
ASSUME NameAssumption == adminName \in Name /\ nil \notin Name

\* CIDs, in the order AUTOINCREMENT hands them out
Cid == 1..MaxCid

VARIABLES
    users,   \* the rows, by CID
    pc,      \* where each request stands
    body,    \* the request body updateUser is serving
    copy,    \* targetUser, with the fields the request provides
    given    \* history: the values last provided for each CID

vars == <<users, pc, body, copy, given>>

\* A password column holds bcrypt output.  What tells two of them apart is
\* the plaintext and how often it went through the hash; 0 is a plaintext.
Secret == [text : Password \cup {empty}, rounds : Nat]
Plain(p) == [text |-> p, rounds |-> 0]
Hash(s) == [text |-> s.text, rounds |-> s.rounds + 1]
VerifyPasswordHash(p, s) == s = Hash(Plain(p))

\* Updates that provide every combination of fields, but always a rating:
\* "min=-1" without "omitempty" needs one, and the editor page sends one.
Body == [cid : Cid, password : Password \cup {empty, nil},
         name : Name \cup {nil}, rating : Rating]
Hashed == [text : Password, rounds : Nat \ {0}]
Row == [password : Hashed, name : Name, rating : Rating]
User == [password : Secret, name : Name, rating : Rating]
Account == [password : Password, name : Name, rating : Rating]

ASSUME NilAssumption == nil \notin Row

NoRow(cid) == users[cid] = nil
\* What CreateUser inserts.
RowOf(a) == [password |-> Hash(Plain(a.password)), name |-> a.name,
             rating |-> a.rating]
\* generateDefaultAdminUser
Admin == [password |-> adminPassword, name |-> adminName, rating |-> ADM]

-----------------------------------------------------------------------------
(* The first start has made the administrator's account. *)
Init ==
    /\ users = [cid \in Cid |-> IF cid = 1 THEN RowOf(Admin) ELSE nil]
    /\ given = [cid \in Cid |-> IF cid = 1 THEN Admin ELSE nil]
    /\ pc = [r \in Request |-> "start"]
    /\ body = [r \in Request |-> nil]
    /\ copy = [r \in Request |-> nil]

Ends(r, from) == pc[r] = from /\ pc' = [pc EXCEPT ![r] = "done"]

\* createUser with a token of the rating `claim`.  A rating of 0 is no rating
\* to "required"; cid is the one AUTOINCREMENT hands out.
CreateUser(r) ==
    \E claim \in Rating, new \in Account, cid \in Cid :
        /\ claim >= SUP /\ new.rating <= claim /\ new.rating # 0
        /\ new.password \notin Refused
        /\ NoRow(cid) /\ \A d \in 1..(cid - 1) : ~NoRow(d)
        /\ Ends(r, "start")
        /\ users' = [users EXCEPT ![cid] = RowOf(new)]
        /\ given' = [given EXCEPT ![cid] = new]
        /\ UNCHANGED <<body, copy>>

\* A field the request leaves out keeps its value.
Provided(field, current) == IF field = nil THEN current ELSE field

\* updateUser up to UpdateUser: read the row, compare ratings, fill the copy
ReadUser(r) ==
    \E claim \in Rating, b \in Body :
        LET row == users[b.cid] IN
        /\ claim >= SUP /\ ~NoRow(b.cid) /\ row.rating <= claim
        /\ pc[r] = "start"
        /\ pc' = [pc EXCEPT ![r] = "write"]
        /\ body' = [body EXCEPT ![r] = b]
        /\ copy' = [copy EXCEPT ![r] =
             [password |-> IF b.password = nil THEN row.password
                           ELSE Plain(b.password),
              name |-> Provided(b.name, row.name),
              rating |-> b.rating]]
        /\ UNCHANGED <<users, given>>

\* 403, 404 or a database error, of either request: nothing is written
Rejected(r) == Ends(r, "start") /\ UNCHANGED <<users, body, copy, given>>

\* Fault: the statement that leaves the password alone is missing.
StoreEmpty(new, old) == Hash(new)
\* Fault: a value that looks like a hash is written back as it is.
StoreRead(new, old) == IF new.text = empty THEN old
                       ELSE IF new.rounds > 0 THEN new ELSE Hash(new)
\* The password UpdateUser leaves in the row: an empty one changes nothing.
Stored(new, old) == IF new.text = empty THEN old ELSE Hash(new)

Finish(r) == /\ Ends(r, "write")
             /\ body' = [body EXCEPT ![r] = nil]
             /\ copy' = [copy EXCEPT ![r] = nil]

UpdateUser(r) ==
    LET b == body[r]
        u == copy[r]
        row == users[b.cid]
        last == given[b.cid]
    IN  /\ Finish(r)
        /\ u.password.text \notin Refused \/ u.password.rounds > 0
        /\ users' = [users EXCEPT ![b.cid] =
             [password |-> Stored(u.password, row.password),
              name |-> u.name, rating |-> u.rating]]
        /\ given' = [given EXCEPT ![b.cid] =
             [password |-> IF b.password \in {nil, empty} THEN last.password
                           ELSE b.password,
              name |-> Provided(b.name, last.name), rating |-> b.rating]]

\* a colon in the password, or the database fails: nothing is written
UpdateFails(r) == Finish(r) /\ UNCHANGED <<users, given>>

AllDone == (\A r \in Request : pc[r] = "done") /\ UNCHANGED vars

Next == \/ \E r \in Request :
             CreateUser(r) \/ ReadUser(r) \/ Rejected(r)
             \/ UpdateUser(r) \/ UpdateFails(r)
        \/ AllDone

Spec == Init /\ [][Next]_vars

-----------------------------------------------------------------------------
\* Type invariant of every variable; a row never holds a plaintext.
TypeOK ==
    /\ users \in [Cid -> Row \cup {nil}]
    /\ pc \in [Request -> {"start", "write", "done"}]
    /\ body \in [Request -> Body \cup {nil}]
    /\ copy \in [Request -> User \cup {nil}]
    /\ given \in [Cid -> Account \cup {nil}]

\* However updates overlap, no write of a stale copy brings back a password
\* that was replaced: what the table accepts is what was last provided.
ReplacedPasswordDead ==
    \A cid \in Cid, p \in Password :
        ~NoRow(cid) /\ VerifyPasswordHash(p, users[cid].password)
            => p = given[cid].password

\* The other direction: the password last provided logs in.
PasswordKept ==
    \A cid \in Cid : ~NoRow(cid) =>
        VerifyPasswordHash(given[cid].password, users[cid].password)
=============================================================================
