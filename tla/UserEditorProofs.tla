-------------------------- MODULE UserEditorProofs --------------------------
(***************************************************************************)
(* Theorems about UserEditor, for any number of pages, users and searches  *)
(* under way: types, that a password reaches the user it was typed for,    *)
(* and that no user gets another's rating.  All come from one inductive    *)
(* invariant: both facts must already hold of what is still in the forms   *)
(* and on the way.                                                         *)
(***************************************************************************)
EXTENDS UserEditor, TLAPS

\* The password in the form was typed into the form of the user it names.
TypedInv ==
    \A p \in Page :
        /\ edit[p].password # blank => typedFor[p] = edit[p].cid
        /\ sent[p] # nil /\ sent[p].password # nil => sent[p].typedFor = sent[p].cid

\* So are the ratings in answers, forms and requests.
KnownInv ==
    /\ RatingOfItsOwn
    /\ \A p \in Page :
         /\ \A u \in found[p] : u.rating \in known[u.cid]
         /\ edit[p].cid # nil => edit[p].rating \in known[edit[p].cid]
         /\ sent[p] # nil /\ sent[p].cid # nil => sent[p].rating \in known[sent[p].cid]

Inv == TypeOK /\ TypedInv /\ KnownInv

LEMMA InitInv == Init => Inv
<1> SUFFICES ASSUME Init PROVE Inv
  OBVIOUS
<1> USE CidAssumption, AccountAssumption
<1>1. TypeOK
  BY DEF Init, TypeOK, EditForm, CreateForm
<1>2. TypedInv
  BY DEF Init, TypedInv
<1>3. KnownInv
  BY DEF Init, KnownInv, RatingOfItsOwn
<1> QED
  BY <1>1, <1>2, <1>3 DEF Inv

LEMMA NextInv == Inv /\ [Next]_vars => Inv'
<1> SUFFICES ASSUME Inv, [Next]_vars PROVE Inv'
  OBVIOUS
<1> USE CidAssumption, PasswordAssumption, AccountAssumption
<1>1. ASSUME NEW p \in Page, NEW c \in Cid, SearchSubmit(p, c) PROVE Inv'
  <2>2. TypeOK'
    BY <1>1 DEF SearchSubmit, Inv, TypeOK
  <2>3. TypedInv'
    BY <1>1 DEF SearchSubmit, Inv, TypeOK, TypedInv
  <2>4. KnownInv'
    BY <1>1 DEF SearchSubmit, Inv, TypeOK, KnownInv, RatingOfItsOwn
  <2> QED
    BY <2>2, <2>3, <2>4 DEF Inv
<1>2. ASSUME NEW p \in Page, NEW c \in Cid, SearchServed(p, c) PROVE Inv'
  <2>2. TypeOK'
    BY <1>2 DEF SearchServed, User, Inv, TypeOK
  <2>3. TypedInv'
    BY <1>2 DEF SearchServed, User, Inv, TypeOK, TypedInv
  <2>4. KnownInv'
    BY <1>2 DEF SearchServed, User, Inv, TypeOK, KnownInv, RatingOfItsOwn
  <2> QED
    BY <2>2, <2>3, <2>4 DEF Inv
<1>3. ASSUME NEW p \in Page, NEW c \in Cid, SearchFail(p, c) PROVE Inv'
  <2>2. TypeOK'
    BY <1>3 DEF SearchFail, Inv, TypeOK
  <2>3. TypedInv'
    BY <1>3 DEF SearchFail, Inv, TypeOK, TypedInv
  <2>4. KnownInv'
    BY <1>3 DEF SearchFail, Inv, TypeOK, KnownInv, RatingOfItsOwn
  <2> QED
    BY <2>2, <2>3, <2>4 DEF Inv
<1>4. ASSUME NEW p \in Page, NEW u \in found[p], SearchDone(p, u) PROVE Inv'
  <2>2. TypeOK'
    BY <1>4 DEF SearchDone, User, EditForm, Inv, TypeOK
  <2>3. TypedInv'
    BY <1>4 DEF SearchDone, User, EditForm, Inv, TypeOK, TypedInv
  <2>4. KnownInv'
    BY <1>4 DEF SearchDone, User, EditForm, Inv, TypeOK, KnownInv, RatingOfItsOwn
  <2> QED
    BY <2>2, <2>3, <2>4 DEF Inv
<1>5. ASSUME NEW p \in Page, NEW r \in Rating, TypeRating(p, r) PROVE Inv'
  <2>2. TypeOK'
    BY <1>5 DEF TypeRating, EditForm, Inv, TypeOK
  <2>3. TypedInv'
    BY <1>5 DEF TypeRating, EditForm, Inv, TypeOK, TypedInv
  <2>4. KnownInv'
    <3>1. \A c \in Cid : known[c] \subseteq known'[c]
      BY <1>5 DEF TypeRating, Inv, TypeOK
    <3>2. edit'[p].cid # nil => edit'[p].rating \in known'[edit'[p].cid]
      BY <1>5 DEF TypeRating, EditForm, Inv, TypeOK
    <3>3. \A q \in Page : q # p => edit'[q] = edit[q]
      BY <1>5 DEF TypeRating, Inv, TypeOK
    <3>4. /\ \A q \in Page : edit[q].cid \in Cid \cup {nil}
          /\ \A q \in Page : sent[q] # nil => sent[q].cid \in Cid \cup {nil}
          /\ \A q \in Page : \A u \in found[q] : u.cid \in Cid
      BY DEF Inv, TypeOK, EditForm, Body, User
    <3>5. RatingOfItsOwn'
      BY <1>5, <3>1 DEF TypeRating, Inv, KnownInv, RatingOfItsOwn
    <3>6. \A q \in Page : \A u \in found'[q] : u.rating \in known'[u.cid]
      BY <1>5, <3>1, <3>4 DEF TypeRating, Inv, KnownInv
    <3>7. \A q \in Page : edit'[q].cid # nil => edit'[q].rating \in known'[edit'[q].cid]
      BY <3>1, <3>2, <3>3, <3>4 DEF Inv, KnownInv
    <3>8. \A q \in Page : sent'[q] # nil /\ sent'[q].cid # nil
                            => sent'[q].rating \in known'[sent'[q].cid]
      BY <1>5, <3>1, <3>4 DEF TypeRating, Inv, KnownInv
    <3> QED
      BY <3>5, <3>6, <3>7, <3>8 DEF KnownInv
  <2> QED
    BY <2>2, <2>3, <2>4 DEF Inv
<1>6. ASSUME NEW p \in Page, NEW w \in Password \cup {blank}, TypePassword(p, w) PROVE Inv'
  <2>2. TypeOK'
    BY <1>6 DEF TypePassword, EditForm, Inv, TypeOK
  <2>3. TypedInv'
    BY <1>6 DEF TypePassword, EditForm, Inv, TypeOK, TypedInv
  <2>4. KnownInv'
    BY <1>6 DEF TypePassword, EditForm, Inv, TypeOK, KnownInv, RatingOfItsOwn
  <2> QED
    BY <2>2, <2>3, <2>4 DEF Inv
<1>7. ASSUME NEW p \in Page, EditSubmit(p) PROVE Inv'
  <2> DEFINE b == EditBody(p)
  <2>1. b \in Body /\ (b.password # nil => b.typedFor = b.cid)
        /\ (b.cid # nil => b.rating \in known[b.cid])
    BY <1>7 DEF EditBody, EditForm, Body, Inv, TypeOK, TypedInv, KnownInv
  <2>2. sent' = [sent EXCEPT ![p] = b]
    BY <1>7 DEF EditSubmit
  <2> HIDE DEF b
  <2>3. TypeOK'
    BY <1>7, <2>1, <2>2 DEF EditSubmit, Inv, TypeOK
  <2>4. TypedInv'
    BY <1>7, <2>1, <2>2 DEF EditSubmit, Inv, TypeOK, TypedInv
  <2>5. KnownInv'
    BY <1>7, <2>1, <2>2 DEF EditSubmit, Inv, TypeOK, KnownInv, RatingOfItsOwn
  <2> QED
    BY <2>3, <2>4, <2>5 DEF Inv
<1>8. ASSUME NEW p \in Page, UpdateUser(p) PROVE Inv'
  <2>2. TypeOK'
    BY <1>8 DEF UpdateUser, Body, Inv, TypeOK
  <2>3. TypedInv'
    BY <1>8 DEF UpdateUser, Body, Inv, TypeOK, TypedInv
  <2>4. KnownInv'
    BY <1>8 DEF UpdateUser, Body, Inv, TypeOK, KnownInv, RatingOfItsOwn
  <2> QED
    BY <2>2, <2>3, <2>4 DEF Inv
<1>9. ASSUME NEW p \in Page, UpdateFail(p) PROVE Inv'
  <2>2. TypeOK'
    BY <1>9 DEF UpdateFail, Inv, TypeOK
  <2>3. TypedInv'
    BY <1>9 DEF UpdateFail, Inv, TypeOK, TypedInv
  <2>4. KnownInv'
    BY <1>9 DEF UpdateFail, Inv, TypeOK, KnownInv, RatingOfItsOwn
  <2> QED
    BY <2>2, <2>3, <2>4 DEF Inv
<1>10. ASSUME NEW p \in Page, NEW a \in NewAccount, TypeCreate(p, a) PROVE Inv'
  <2>2. TypeOK'
    BY <1>10 DEF TypeCreate, CreateForm, Inv, TypeOK
  <2>3. TypedInv'
    BY <1>10 DEF TypeCreate, CreateForm, Inv, TypeOK, TypedInv
  <2>4. KnownInv'
    BY <1>10 DEF TypeCreate, CreateForm, Inv, TypeOK, KnownInv, RatingOfItsOwn
  <2> QED
    BY <2>2, <2>3, <2>4 DEF Inv
<1>11. ASSUME NEW p \in Page, CreateSubmit(p) PROVE Inv'
  <2>2. TypeOK'
    BY <1>11 DEF CreateSubmit, Inv, TypeOK
  <2>3. TypedInv'
    BY <1>11 DEF CreateSubmit, Inv, TypeOK, TypedInv
  <2>4. KnownInv'
    BY <1>11 DEF CreateSubmit, Inv, TypeOK, KnownInv, RatingOfItsOwn
  <2> QED
    BY <2>2, <2>3, <2>4 DEF Inv
<1>12. ASSUME NEW p \in Page, CreateUnbound(p) PROVE Inv'
  <2>2. TypeOK'
    BY <1>12 DEF CreateUnbound, Answers, Inv, TypeOK
  <2>3. TypedInv'
    BY <1>12 DEF CreateUnbound, Answers, Inv, TypeOK, TypedInv
  <2>4. KnownInv'
    BY <1>12 DEF CreateUnbound, Answers, Inv, TypeOK, KnownInv, RatingOfItsOwn
  <2> QED
    BY <2>2, <2>3, <2>4 DEF Inv
<1>13. ASSUME NEW p \in Page, CreateFail(p) PROVE Inv'
  <2>2. TypeOK'
    BY <1>13 DEF CreateFail, Answers, Inv, TypeOK
  <2>3. TypedInv'
    BY <1>13 DEF CreateFail, Answers, Inv, TypeOK, TypedInv
  <2>4. KnownInv'
    BY <1>13 DEF CreateFail, Answers, Inv, TypeOK, KnownInv, RatingOfItsOwn
  <2> QED
    BY <2>2, <2>3, <2>4 DEF Inv
<1>14. ASSUME NEW p \in Page, CreateDone(p) PROVE Inv'
  <2>2. TypeOK'
    BY <1>14 DEF CreateDone, CreateForm, Inv, TypeOK
  <2>3. TypedInv'
    BY <1>14 DEF CreateDone, CreateForm, Inv, TypeOK, TypedInv
  <2>4. KnownInv'
    BY <1>14 DEF CreateDone, CreateForm, Inv, TypeOK, KnownInv, RatingOfItsOwn
  <2> QED
    BY <2>2, <2>3, <2>4 DEF Inv
<1>15. ASSUME NEW p \in Page, NEW c \in Cid, CreateUser(p, c) PROVE Inv'
  <2>2. TypeOK'
    BY <1>15 DEF CreateUser, Answers, CreateForm, Inv, TypeOK
  <2>3. TypedInv'
    BY <1>15 DEF CreateUser, Answers, CreateForm, Inv, TypeOK, TypedInv
  <2>4. KnownInv'
    BY <1>15 DEF CreateUser, Answers, CreateForm, Inv, TypeOK, KnownInv, RatingOfItsOwn
  <2> QED
    BY <2>2, <2>3, <2>4 DEF Inv
<1>16. CASE UNCHANGED vars
  BY <1>16 DEF vars, Inv, TypeOK, TypedInv, KnownInv, RatingOfItsOwn
<1> QED
  BY <1>1, <1>2, <1>3, <1>4, <1>5, <1>6, <1>7, <1>8, <1>9, <1>10, <1>11, <1>12, <1>13, <1>14, <1>15, <1>16 DEF Next

LEMMA Invariance == Spec => []Inv
<1>1. Inv /\ [Next]_vars => Inv'
  BY NextInv
<1> QED
  BY <1>1, InitInv, PTL DEF Spec

-----------------------------------------------------------------------------
(* Every form, request and answer of the editor has its type.              *)
THEOREM TypeCorrect == Spec => []TypeOK
<1>1. Inv => TypeOK
  BY DEF Inv
<1> QED
  BY <1>1, Invariance, PTL

(* A password is sent for the user whose form it was typed into, however   *)
(* many searches are answered between typing and submitting.               *)
THEOREM PasswordReachesItsUser == Spec => []PasswordForItsUser
<1>1. Inv => PasswordForItsUser
  BY DEF Inv, TypedInv, PasswordForItsUser
<1> QED
  BY <1>1, Invariance, PTL

(* No user's row gets a rating that was another user's and that nobody     *)
(* chose for this one.                                                     *)
THEOREM RatingsStayApart == Spec => []RatingOfItsOwn
<1>1. Inv => RatingOfItsOwn
  BY DEF Inv, KnownInv
<1> QED
  BY <1>1, Invariance, PTL
=============================================================================
