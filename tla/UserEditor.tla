----------------------------- MODULE UserEditor -----------------------------
(***************************************************************************)
(* The user editor: the handlers of its three forms (usereditor.js, which  *)
(* usereditor.html repeats in line), and what they ask of web/user.go.  A  *)
(* handler reads its form, awaits the answer, and goes on with whatever    *)
(* the form has become: the administrator may type, submit and search      *)
(* meanwhile, and answers may come in any order.  Of a user the model has  *)
(* the CID, the rating and whether a password goes with it: the names are  *)
(* read, shown, sent and stored by the lines next to the rating's, and an  *)
(* edit always provides them all.  UserStore has the rest of the row and   *)
(* the two statements of updateUser.                                       *)
(***************************************************************************)
EXTENDS Integers, FiniteSets

CONSTANTS
    Page,         \* editor pages, of several administrators
    Claim,        \* the rating in each page's token
    Self,         \* the CID in it, or nil: none of these
    Cid, Rating,
    Password,     \* texts
    Short,        \* those of fewer than 8 characters
    NewAccount,   \* accounts an administrator may type into the create form
    Rows,         \* the accounts there are at first
    blank,        \* the empty text
    nil,
    MaxSearch     \* bound: searches of a page under way

ASSUME CidAssumption == nil \notin Cid /\ nil \notin Rating
ASSUME PasswordAssumption ==
    blank \notin Password /\ Short \subseteq Password
ASSUME AccountAssumption ==
    /\ NewAccount \subseteq [rating : Rating, password : Password]
    /\ Rows \in [Cid -> Rating \cup {nil}]
    /\ {-1, 1} \subseteq Rating /\ Rating \subseteq Int
    /\ Claim \in [Page -> Int] /\ Self \in [Page -> Cid \cup {nil}] /\ MaxSearch \in Nat

VARIABLES
    rows,      \* the user table: ratings
    asked,     \* searches on their way, by page
    found,     \* users on their way back
    edit,      \* the edit form
    typedFor,  \* history: whose form the password in it was typed into
    sent,      \* the edit a page has under way
    create,    \* the create form
    creating,  \* the account a page has under way
    answer,    \* the answer to it
    known      \* history: the ratings a user had, or was given by somebody

vars == <<rows, asked, found, edit, typedFor, sent, create, creating, answer, known>>

NetworkRatingSupervisor == 11
User == [cid : Cid, rating : Rating]
EditForm == [cid : Cid \cup {nil}, rating : Rating,
             password : Password \cup {blank}]
\* What EditSubmit sends; `typedFor` is history.
Body == [cid : Cid \cup {nil}, rating : Rating,
         password : Password \cup {nil}, typedFor : Cid \cup {nil}]
CreateForm == [rating : Rating, password : Password \cup {blank}]

-----------------------------------------------------------------------------
\* The browser does not submit a text below minlength.
Submits(w) == w \notin Short

-----------------------------------------------------------------------------
Init ==
    /\ rows = Rows
    /\ asked = [p \in Page |-> {}]
    /\ found = [p \in Page |-> {}]
    /\ edit = [p \in Page |-> [cid |-> nil, rating |-> 1, password |-> blank]]
    /\ typedFor = [p \in Page |-> nil]
    /\ sent = [p \in Page |-> nil]
    /\ create = [p \in Page |-> [rating |-> 1, password |-> blank]]
    /\ creating = [p \in Page |-> nil]
    /\ answer = [p \in Page |-> "none"]
    /\ known = [c \in Cid |-> {Rows[c]} \ {nil}]

(* The search form. *)
\* Fault: the edit form names the user before the answer has filled it.
SearchSubmitNames(p, c) ==
    /\ Cardinality(asked[p]) + Cardinality(found[p]) < MaxSearch
    /\ asked' = [asked EXCEPT ![p] = @ \cup {c}]
    /\ edit' = [edit EXCEPT ![p] = [cid |-> c, rating |-> edit[p].rating,
                                    password |-> blank]]
    /\ UNCHANGED <<rows, found, typedFor, sent, create, creating, answer, known>>
SearchSubmit(p, c) ==
    /\ Cardinality(asked[p]) + Cardinality(found[p]) < MaxSearch
    /\ asked' = [asked EXCEPT ![p] = @ \cup {c}]
    /\ UNCHANGED <<rows, found, edit, typedFor, sent, create, creating, answer, known>>

\* getUserByCID: a supervisor reads every account, others their own.
SearchServed(p, c) ==
    /\ c \in asked[p] /\ rows[c] # nil
    /\ c = Self[p] \/ Claim[p] >= NetworkRatingSupervisor
    /\ asked' = [asked EXCEPT ![p] = @ \ {c}]
    /\ found' = [found EXCEPT ![p] = @ \cup
                                  {[cid |-> c, rating |-> rows[c]]}]
    /\ UNCHANGED <<rows, edit, typedFor, sent, create, creating, answer, known>>

\* 404, 403, 500 or no answer: an alert, and the edit form stays as it is.
SearchFail(p, c) ==
    /\ c \in asked[p]
    /\ asked' = [asked EXCEPT ![p] = @ \ {c}]
    /\ UNCHANGED <<rows, found, edit, typedFor, sent, create, creating, answer, known>>

\* Fault: the password of the user shown before stays in the field.
SearchDoneKeeps(p, u) ==
    /\ u \in found[p]
    /\ found' = [found EXCEPT ![p] = @ \ {u}]
    /\ edit' = [edit EXCEPT ![p] = [cid |-> u.cid, rating |-> u.rating,
                                    password |-> edit[p].password]]
    /\ UNCHANGED <<rows, asked, typedFor, sent, create, creating, answer, known>>
\* The answer fills the form and clears the password field.
SearchDone(p, u) ==
    /\ u \in found[p]
    /\ found' = [found EXCEPT ![p] = @ \ {u}]
    /\ edit' = [edit EXCEPT ![p] = [cid |-> u.cid, rating |-> u.rating,
                                    password |-> blank]]
    /\ typedFor' = [typedFor EXCEPT ![p] = nil]
    /\ UNCHANGED <<rows, asked, sent, create, creating, answer, known>>

-----------------------------------------------------------------------------
(* The administrator types into the edit form; its CID is read-only. *)
TypeRating(p, r) ==
    /\ r # edit[p].rating
    /\ edit' = [edit EXCEPT ![p] = [cid |-> edit[p].cid, rating |-> r,
                                    password |-> edit[p].password]]
    /\ known' = [c \in Cid |-> IF c = edit[p].cid THEN known[c] \cup {r}
                                                  ELSE known[c]]
    /\ UNCHANGED <<rows, asked, found, typedFor, sent, create, creating, answer>>

TypePassword(p, w) ==
    /\ edit' = [edit EXCEPT ![p] = [cid |-> edit[p].cid, rating |-> edit[p].rating,
                                    password |-> w]]
    /\ typedFor' = [typedFor EXCEPT ![p] = edit[p].cid]
    /\ UNCHANGED <<rows, asked, found, sent, create, creating, answer, known>>

\* Fault: an empty password is sent like any other.
BodyWithEmpty(p) ==
    [cid |-> edit[p].cid, rating |-> edit[p].rating,
     password |-> edit[p].password, typedFor |-> typedFor[p]]
\* An empty password is left out of the body.
EditBody(p) ==
    [cid |-> edit[p].cid, rating |-> edit[p].rating,
     password |-> IF edit[p].password = blank THEN nil ELSE edit[p].password,
     typedFor |-> typedFor[p]]

\* Bound: a page has one edit and one create under way.
EditSubmit(p) ==
    /\ sent[p] = nil /\ Submits(edit[p].password)
    /\ sent' = [sent EXCEPT ![p] = EditBody(p)]
    /\ UNCHANGED <<rows, asked, found, edit, typedFor, create, creating, answer, known>>

\* updateUser; the answer changes no field of the form.
UpdateUser(p) ==
    /\ sent[p] # nil /\ Claim[p] >= NetworkRatingSupervisor
    /\ LET b == sent[p] IN
         /\ b.cid # nil
         /\ rows[b.cid] # nil /\ rows[b.cid] <= Claim[p]
         /\ rows' = [rows EXCEPT ![b.cid] = b.rating]
    /\ sent' = [sent EXCEPT ![p] = nil]
    /\ UNCHANGED <<asked, found, edit, typedFor, create, creating, answer, known>>

\* A form without a user (parseInt of "" is sent as null: 400), a user with a
\* higher rating (403) or none (404), a failing statement or network.
UpdateFail(p) ==
    /\ sent[p] # nil
    /\ sent' = [sent EXCEPT ![p] = nil]
    /\ UNCHANGED <<rows, asked, found, edit, typedFor, create, creating, answer, known>>

-----------------------------------------------------------------------------
(* The create form. *)
TypeCreate(p, a) ==
    /\ create' = [create EXCEPT ![p] = a]
    /\ UNCHANGED <<rows, asked, found, edit, typedFor, sent, creating, answer, known>>

CreateSubmit(p) ==
    /\ creating[p] = nil /\ answer[p] = "none"
    /\ create[p].password # blank /\ Submits(create[p].password)
    /\ creating' = [creating EXCEPT ![p] = create[p]]
    /\ UNCHANGED <<rows, asked, found, edit, typedFor, sent, create, answer, known>>

Answers(p, a) ==
    /\ creating[p] # nil
    /\ creating' = [creating EXCEPT ![p] = nil]
    /\ answer' = [answer EXCEPT ![p] = a]
    /\ UNCHANGED <<asked, found, edit, typedFor, sent, create>>

\* bindJSONOrAbort: "required" takes a rating of 0 for a missing one.
Binds(a) == a.password \notin Short /\ a.rating # 0

CreateUser(p, c) ==
    /\ Answers(p, "created")
    /\ Binds(creating[p])
    /\ Claim[p] >= NetworkRatingSupervisor /\ creating[p].rating <= Claim[p]
    /\ rows[c] = nil
    /\ rows' = [rows EXCEPT ![c] = creating[p].rating]
    /\ known' = [known EXCEPT ![c] = @ \cup {creating[p].rating}]

\* 400
CreateUnbound(p) ==
    /\ Answers(p, "invalid")
    /\ ~Binds(creating[p])
    /\ UNCHANGED <<rows, known>>

\* 403, 500 or no answer.
CreateFail(p) ==
    /\ Answers(p, "failed")
    /\ UNCHANGED <<rows, known>>

\* Success clears the form as it is now; a failure leaves it.
CreateDone(p) ==
    /\ answer[p] # "none"
    /\ answer' = [answer EXCEPT ![p] = "none"]
    /\ create' = IF answer[p] = "created"
                 THEN [create EXCEPT ![p] = [rating |-> -1, password |-> blank]]
                 ELSE create
    /\ UNCHANGED <<rows, asked, found, edit, typedFor, sent, creating, known>>

-----------------------------------------------------------------------------
Next ==
    \E p \in Page :
        \/ \E c \in Cid : SearchSubmit(p, c) \/ SearchServed(p, c) \/ SearchFail(p, c)
        \/ \E u \in found[p] : SearchDone(p, u)
        \/ \E r \in Rating : TypeRating(p, r)
        \/ \E w \in Password \cup {blank} : TypePassword(p, w)
        \/ EditSubmit(p) \/ UpdateUser(p) \/ UpdateFail(p)
        \/ \E a \in NewAccount : TypeCreate(p, a)
        \/ CreateSubmit(p) \/ CreateUnbound(p) \/ CreateFail(p) \/ CreateDone(p)
        \/ \E c \in Cid : CreateUser(p, c)

Spec == Init /\ [][Next]_vars

-----------------------------------------------------------------------------
\* Types.
TypeOK ==
    /\ rows \in [Cid -> Rating \cup {nil}]
    /\ asked \in [Page -> SUBSET Cid]
    /\ found \in [Page -> SUBSET User]
    /\ edit \in [Page -> EditForm]
    /\ typedFor \in [Page -> Cid \cup {nil}]
    /\ sent \in [Page -> Body \cup {nil}]
    /\ create \in [Page -> CreateForm]
    /\ creating \in [Page -> CreateForm \cup {nil}]
    /\ answer \in [Page -> {"none", "created", "invalid", "failed"}]
    /\ known \in [Cid -> SUBSET Rating]

(* A new password goes to the user whose form it was typed into: the        *)
(* handler of a search that is answered between typing and submitting       *)
(* clears it with the rest of the form (usereditor.js:16).                  *)
PasswordForItsUser ==
    \A p \in Page : sent[p] # nil /\ sent[p].password # nil =>
        sent[p].typedFor = sent[p].cid

(* No user ends up with the values of another: whatever searches, edits and *)
(* answers overlap, on however many pages, the rating in a row is one the   *)
(* user had before or an administrator chose for that user.                 *)
RatingOfItsOwn == \A c \in Cid : rows[c] # nil => rows[c] \in known[c]
=============================================================================
