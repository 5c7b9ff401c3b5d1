-------------------------- MODULE WebSessionProofs --------------------------
(***************************************************************************)
(* Theorems about WebSession: types, that a reset of the secret ends every *)
(* session begun before it, and that a token lasts for the time api.js keeps *)
(* in hand.  All three come from one inductive invariant.                  *)
(***************************************************************************)
EXTENDS WebSession, TLAPS

\* Resets and secrets keep step; every token is signed with the secret that was
\* in force when its session began, also by a refresh, which signs with the
\* secret that checked its refresh token.
Rooted(token) == token.began = token.key
RootInv ==
    /\ resets = secret
    /\ stored.access # nil => Rooted(stored.access)
    /\ stored.refresh # nil => Rooted(stored.refresh)
    /\ \A t \in Tab :
         /\ pc[t] \in {"refresh", "refreshing", "refreshed", "request", "accepted"}
              => Rooted(msg[t])
         /\ pc[t] = "refreshing" => key[t] = msg[t].key
         /\ pc[t] = "loggedin" => Rooted(msg[t].access) /\ Rooted(msg[t].refresh)

\* A call is not older than the clock, and the token it will send lasts until
\* Margin after it was made.
FreshInv ==
    \A t \in Tab :
        /\ pc[t] \in {"refresh", "refreshing"} => since[t] <= now
        /\ pc[t] \in {"refreshed", "request"} => msg[t].exp >= since[t] + Margin

Inv == TypeOK /\ RootInv /\ FreshInv

\* Ends leaves nothing of the call to be right or wrong about.
LEMMA EndsKeeps ==
    ASSUME Inv, NEW t \in Tab,
           NEW r \in {"idle", "unrefreshed", "answered", "refused", "failed", "lost"},
           Ends(t, r), UNCHANGED <<now, stored>>, secret' \in Key, resets' = secret',
           page' \in [Tab -> {"login", "app"}]
    PROVE  Inv'
<1>0. resets' \in Nat
  BY LifeAssumption DEF Key
<1>1. TypeOK'
  BY <1>0 DEF Inv, TypeOK, Ends, PC, Op
<1>2. RootInv'
  BY DEF server, Inv, TypeOK, RootInv, Rooted, Ends
<1>3. FreshInv'
  BY DEF server, Inv, TypeOK, FreshInv, Ends
<1> QED
  BY <1>1, <1>2, <1>3 DEF Inv

LEMMA InitInv == Init => Inv
  BY LifeAssumption DEF Init, server, Inv, TypeOK, RootInv, FreshInv, Key, PC

LEMMA NextInv == Inv /\ [Next]_vars => Inv'
<1> SUFFICES ASSUME Inv, [Next]_vars PROVE Inv'
  OBVIOUS
<1> USE LifeAssumption
<1>1. ASSUME NEW t \in Tab, NEW o \in Op, Call(t, o) PROVE Inv'
  <2>1. CASE Lost(t)
    <3>1. page' \in [Tab -> {"login", "app"}]
      BY <2>1 DEF Lost, server, Inv, TypeOK
    <3> QED
      BY <1>1, <2>1, <3>1, EndsKeeps DEF Call, Lost, server, Inv, TypeOK, RootInv
  <2>2. CASE Usable(stored.access) /\ Sends(t, o, "request", stored.access)
    <3>1. stored.access \in Access
      BY <2>2 DEF Usable, server, Inv, TypeOK
    <3>2. TypeOK'
      BY <1>1, <2>2, <3>1 DEF Call, Sends, server, Inv, TypeOK, PC
    <3>3. RootInv'
      BY <1>1, <2>2 DEF Call, Sends, server, Inv, TypeOK, RootInv, Rooted, Usable
    <3>4. FreshInv'
      BY <1>1, <2>2, <3>1 DEF Call, Sends, server, Inv, TypeOK, FreshInv, Usable
    <3> QED
      BY <3>2, <3>3, <3>4 DEF Inv
  <2>3. CASE Usable(stored.refresh) /\ Sends(t, o, "refresh", stored.refresh)
    <3>1. stored.refresh \in Refresh
      BY <2>3 DEF Usable, server, Inv, TypeOK
    <3>2. TypeOK'
      BY <1>1, <2>3, <3>1 DEF Call, Sends, server, Inv, TypeOK, PC
    <3>3. RootInv'
      BY <1>1, <2>3 DEF Call, Sends, server, Inv, TypeOK, RootInv, Rooted, Usable
    <3>4. FreshInv'
      BY <1>1, <2>3, <3>1 DEF Call, Sends, server, Inv, TypeOK, FreshInv
    <3> QED
      BY <3>2, <3>3, <3>4 DEF Inv
  <2> QED
    BY <1>1, <2>1, <2>2, <2>3 DEF Call
<1>2. ASSUME NEW t \in Tab, RefreshCheck(t) PROVE Inv'
  <2>1. CASE Ends(t, "unrefreshed")
    BY <1>2, <2>1, EndsKeeps DEF RefreshCheck, server, Inv, TypeOK, RootInv
  <2>2. CASE /\ Valid(msg[t], "refresh")
             /\ pc' = [pc EXCEPT ![t] = "refreshing"]
             /\ key' = [key EXCEPT ![t] = secret]
             /\ UNCHANGED <<op, msg, since>>
    <3>1. TypeOK'
      BY <1>2, <2>2 DEF RefreshCheck, server, Inv, TypeOK, PC
    <3>2. RootInv'
      BY <1>2, <2>2 DEF RefreshCheck, server, Inv, TypeOK, RootInv, Rooted, Valid
    <3>3. FreshInv'
      BY <1>2, <2>2 DEF RefreshCheck, server, Inv, TypeOK, FreshInv
    <3> QED
      BY <3>1, <3>2, <3>3 DEF Inv
  <2> QED
    BY <1>2, <2>1, <2>2 DEF RefreshCheck
<1>3. ASSUME NEW t \in Tab, RefreshSign(t) PROVE Inv'
  <2> DEFINE new == MakeJwtToken(msg[t].user, "access", key[t], msg[t].began, AccessLife)
  <2>1. msg[t] \in Refresh /\ key[t] \in Key /\ now \in Nat
    BY <1>3 DEF RefreshSign, At, server, Inv, TypeOK
  <2>2. new \in Access /\ new.key = key[t] /\ new.began = msg[t].began
        /\ new.exp = now + AccessLife
    BY <2>1 DEF MakeJwtToken, Access, Refresh, Token
  <2>3. msg' = [msg EXCEPT ![t] = new]
    BY <1>3 DEF RefreshSign, SigningKey
  <2> HIDE DEF new
  <2>4. TypeOK'
    BY <1>3, <2>2, <2>3 DEF RefreshSign, At, server, Inv, TypeOK, PC
  <2>5. RootInv'
    BY <1>3, <2>2, <2>3 DEF RefreshSign, At, server, Inv, TypeOK, RootInv, Rooted
  <2>6. FreshInv'
    BY <1>3, <2>1, <2>2, <2>3 DEF RefreshSign, At, server, Inv, TypeOK, FreshInv
  <2> QED
    BY <2>4, <2>5, <2>6 DEF Inv
<1>4. ASSUME NEW t \in Tab, RefreshDone(t) PROVE Inv'
  <2>1. stored' = [access |-> msg[t], refresh |-> stored.refresh]
        /\ msg[t] \in Access /\ stored.refresh \in Refresh \cup {nil}
    BY <1>4 DEF RefreshDone, At, server, Inv, TypeOK
  <2>2. stored' \in [access : Access \cup {nil}, refresh : Refresh \cup {nil}]
    BY <2>1
  <2>3. TypeOK'
    BY <1>4, <2>2 DEF RefreshDone, At, server, Inv, TypeOK, PC
  <2>4. RootInv'
    BY <1>4, <2>1 DEF RefreshDone, At, server, Inv, TypeOK, RootInv, Rooted
  <2>5. FreshInv'
    BY <1>4 DEF RefreshDone, At, server, Inv, TypeOK, FreshInv
  <2> QED
    BY <2>3, <2>4, <2>5 DEF Inv
<1>5. ASSUME NEW t \in Tab, RefreshFail(t) PROVE Inv'
  <2>1. page' \in [Tab -> {"login", "app"}]
    BY <1>5 DEF RefreshFail, Lost, server, Inv, TypeOK
  <2> QED
    BY <1>5, <2>1, EndsKeeps DEF RefreshFail, Lost, server, Inv, TypeOK, RootInv
<1>6. ASSUME NEW t \in Tab, Bearer(t) PROVE Inv'
  <2>1. CASE Ends(t, "refused")
    BY <1>6, <2>1, EndsKeeps DEF Bearer, server, Inv, TypeOK, RootInv
  <2>2. CASE pc' = [pc EXCEPT ![t] = "accepted"] /\ UNCHANGED <<op, msg, key, since>>
    <3>1. TypeOK'
      BY <1>6, <2>2 DEF Bearer, server, Inv, TypeOK, PC
    <3>2. RootInv'
      BY <1>6, <2>2 DEF Bearer, server, Inv, TypeOK, RootInv, Rooted
    <3>3. FreshInv'
      BY <1>6, <2>2 DEF Bearer, server, Inv, TypeOK, FreshInv
    <3> QED
      BY <3>1, <3>2, <3>3 DEF Inv
  <2> QED
    BY <1>6, <2>1, <2>2 DEF Bearer
<1>7. ASSUME NEW t \in Tab, Load(t) \/ RequestFail(t) \/ LoginFail(t) PROVE Inv'
  BY <1>7, EndsKeeps DEF Load, RequestFail, LoginFail, server, Inv, TypeOK, RootInv
<1>8. ASSUME NEW t \in Tab, Settle(t) \/ Loaded(t) PROVE Inv'
  BY <1>8, EndsKeeps DEF Settle, Loaded, server, Inv, TypeOK, RootInv
<1>9. ASSUME NEW t \in Tab, ResetSecretKey(t) PROVE Inv'
  <2>1. secret' \in Key
    BY <1>9 DEF ResetSecretKey, server, Inv, TypeOK, Key
  <2> QED
    BY <1>9, <2>1, EndsKeeps DEF ResetSecretKey, server, Inv, TypeOK, RootInv
<1>10. ASSUME NEW t \in Tab, NEW life \in ApiLife, CreateNewAPIToken(t, life)
       PROVE Inv'
  <2> DEFINE new == MakeJwtToken(msg[t].user, "access", secret, msg[t].began, life)
  <2>1. msg[t] \in Access /\ secret \in Key /\ now \in Nat
    BY <1>10 DEF CreateNewAPIToken, At, server, Inv, TypeOK
  <2>2. new \in Access
    BY <2>1 DEF MakeJwtToken, Access, Token
  <2>3. msg' = [msg EXCEPT ![t] = new]
    BY <1>10 DEF CreateNewAPIToken
  <2> HIDE DEF new
  <2>4. TypeOK'
    BY <1>10, <2>2, <2>3 DEF CreateNewAPIToken, At, server, Inv, TypeOK, PC
  <2>5. RootInv'
    BY <1>10, <2>3 DEF CreateNewAPIToken, At, server, Inv, TypeOK, RootInv, Rooted
  <2>6. FreshInv'
    BY <1>10, <2>3 DEF CreateNewAPIToken, At, server, Inv, TypeOK, FreshInv
  <2> QED
    BY <2>4, <2>5, <2>6 DEF Inv
<1>11. ASSUME NEW t \in Tab, NEW u \in User, Login(t, u) PROVE Inv'
  <2>1. TypeOK'
    BY <1>11 DEF Login, At, server, Inv, TypeOK, PC
  <2>2. RootInv'
    BY <1>11 DEF Login, At, server, Inv, TypeOK, RootInv, Rooted
  <2>3. FreshInv'
    BY <1>11 DEF Login, At, server, Inv, TypeOK, FreshInv
  <2> QED
    BY <2>1, <2>2, <2>3 DEF Inv
<1>12. ASSUME NEW t \in Tab, NEW life \in RefreshLife, MakeAccessRefreshTokens(t, life)
       PROVE Inv'
  <2> DEFINE a == MakeJwtToken(msg[t], "access", secret, resets, AccessLife)
             r == MakeJwtToken(msg[t], "refresh", secret, resets, life)
             pair == [access |-> a, refresh |-> r]
  <2>1. msg[t] \in User /\ secret \in Key /\ now \in Nat /\ resets \in Nat
        /\ resets = secret
    BY <1>12 DEF MakeAccessRefreshTokens, At, server, Inv, TypeOK, RootInv
  <2>2. a \in Access /\ r \in Refresh /\ Rooted(a) /\ Rooted(r)
    BY <2>1 DEF MakeJwtToken, Access, Refresh, Token, Rooted
  <2> HIDE DEF a, r
  <2>3. pair \in Pair /\ Rooted(pair.access) /\ Rooted(pair.refresh)
    BY <2>2 DEF Pair
  <2>4. msg' = [msg EXCEPT ![t] = pair]
    BY <1>12 DEF MakeAccessRefreshTokens, a, r
  <2> HIDE DEF pair
  <2>5. TypeOK'
    BY <1>12, <2>3, <2>4 DEF MakeAccessRefreshTokens, At, server, Inv, TypeOK, PC
  <2>6. RootInv'
    BY <1>12, <2>3, <2>4 DEF MakeAccessRefreshTokens, At, server, Inv, TypeOK, RootInv
  <2>7. FreshInv'
    BY <1>12, <2>4 DEF MakeAccessRefreshTokens, At, server, Inv, TypeOK, FreshInv
  <2> QED
    BY <2>5, <2>6, <2>7 DEF Inv
<1>13. ASSUME NEW t \in Tab, LoginDone(t) PROVE Inv'
  <2>1. msg[t] \in Pair /\ Rooted(msg[t].access) /\ Rooted(msg[t].refresh)
        /\ stored' = msg[t]
    BY <1>13 DEF LoginDone, server, Inv, TypeOK, RootInv
  <2>2. stored' \in [access : Access \cup {nil}, refresh : Refresh \cup {nil}]
        /\ Rooted(stored'.access) /\ Rooted(stored'.refresh)
    BY <2>1 DEF Pair
  <2>3. TypeOK'
    BY <1>13, <2>2 DEF LoginDone, Ends, server, Inv, TypeOK, PC
  <2>4. RootInv'
    BY <1>13, <2>2 DEF LoginDone, Ends, server, Inv, TypeOK, RootInv, Rooted
  <2>5. FreshInv'
    BY <1>13 DEF LoginDone, Ends, server, Inv, TypeOK, FreshInv
  <2> QED
    BY <2>3, <2>4, <2>5 DEF Inv
<1>14. ASSUME NEW t \in Tab, Logout(t) PROVE Inv'
  <2>1. stored' \in [access : Access \cup {nil}, refresh : Refresh \cup {nil}]
        /\ stored'.access = nil /\ stored'.refresh = nil
    BY <1>14 DEF Logout
  <2>2. TypeOK'
    BY <1>14, <2>1 DEF Logout, Ends, server, Inv, TypeOK, PC
  <2>3. RootInv'
    BY <1>14, <2>1 DEF Logout, Ends, server, Inv, TypeOK, RootInv, Rooted
  <2>4. FreshInv'
    BY <1>14 DEF Logout, Ends, server, Inv, TypeOK, FreshInv
  <2> QED
    BY <2>2, <2>3, <2>4 DEF Inv
<1>15. ASSUME NEW t \in Tab, NEW p \in {"login", "app"}, Visit(t, p) PROVE Inv'
  <2>1. page' \in [Tab -> {"login", "app"}]
    BY <1>15 DEF Visit, server, Inv, TypeOK
  <2> QED
    BY <1>15, <2>1, EndsKeeps DEF Visit, server, Inv, TypeOK, RootInv
<1>16. CASE Tick
  <2>1. TypeOK'
    BY <1>16 DEF Tick, server, Inv, TypeOK
  <2>2. RootInv'
    BY <1>16 DEF Tick, server, Inv, RootInv, Rooted
  <2>3. FreshInv'
    BY <1>16 DEF Tick, server, Inv, TypeOK, FreshInv
  <2> QED
    BY <2>1, <2>2, <2>3 DEF Inv
<1>17. ASSUME NEW t \in Tab, VerifyPassword(t) PROVE Inv'
  <2>1. TypeOK'
    BY <1>17 DEF VerifyPassword, At, server, Inv, TypeOK, PC
  <2>2. RootInv'
    BY <1>17 DEF VerifyPassword, At, server, Inv, TypeOK, RootInv, Rooted
  <2>3. FreshInv'
    BY <1>17 DEF VerifyPassword, At, server, Inv, TypeOK, FreshInv
  <2> QED
    BY <2>1, <2>2, <2>3 DEF Inv
<1>18. CASE UNCHANGED vars
  BY <1>18 DEF vars, server, Inv, TypeOK, RootInv, Rooted, FreshInv
<1>19. \A t \in Tab : LoadUserInfo(t) \/ ResetJwtSecretKey(t) \/ SubmitCreateToken(t)
         => Inv'
  BY <1>1 DEF LoadUserInfo, ResetJwtSecretKey, SubmitCreateToken, Op
<1>20. \A t \in Tab : Serve(t) => Inv'
  BY <1>2, <1>3, <1>4, <1>5, <1>6, <1>7, <1>8, <1>9, <1>10, <1>12, <1>13, <1>17 DEF Serve
<1> QED
  BY <1>11, <1>14, <1>15, <1>16, <1>18, <1>19, <1>20 DEF Next

LEMMA InvAlways == Spec => []Inv
  BY InitInv, NextInv, PTL DEF Spec

(* Types hold in every state, for any number of tabs, users and resets.    *)
THEOREM TypeCorrect == Spec => []TypeOK
<1>1. Inv => TypeOK
  BY DEF Inv
<1> QED
  BY <1>1, InvAlways, PTL

(* No token of a session that began before the last reset is signed with   *)
(* the secret in force: a reset ends every session, the ones that are just *)
(* being refreshed included.                                               *)
THEOREM SessionsEnd == Spec => []SessionsEndAtReset
<1>1. Inv => SessionsEndAtReset
  BY DEF server, Inv, TypeOK, RootInv, Rooted, SessionsEndAtReset, SessionToken
<1> QED
  BY <1>1, InvAlways, PTL

(* The 15 seconds suffice: within them a request is refused only after a   *)
(* reset of the secret.                                                    *)
THEOREM MarginSuffices == Spec => FreshOnArrival
<1> DEFINE InTime == \A t \in Tab :
              /\ pc[t] = "request" /\ pc'[t] = "refused"
              /\ now < since[t] + Margin
              => msg[t].key # secret
<1>1. Inv /\ [Next]_vars => [InTime]_vars
  <2> SUFFICES ASSUME Inv, Next, NEW t \in Tab, pc[t] = "request",
                      pc'[t] = "refused", now < since[t] + Margin
               PROVE  msg[t].key # secret
    BY DEF vars
  <2>1. Bearer(t)
    <3>1. ASSUME NEW s \in Tab, s # t, pc'[t] # pc[t] PROVE
            ~ (Serve(s) \/ Logout(s) \/ LoadUserInfo(s) \/ ResetJwtSecretKey(s)
               \/ SubmitCreateToken(s) \/ (\E u \in User : Login(s, u))
               \/ (\E p \in {"login", "app"} : Visit(s, p)))
      BY <3>1 DEF Serve, Logout, LoadUserInfo, ResetJwtSecretKey, SubmitCreateToken,
         Call, Lost, Sends, Ends, Login, Visit, At, RefreshCheck, RefreshSign,
         RefreshDone, RefreshFail, Bearer, Load, ResetSecretKey, CreateNewAPIToken,
         VerifyPassword, MakeAccessRefreshTokens, RequestFail, Settle, LoginFail, LoginDone, Loaded, Inv, TypeOK
    <3>2. ~ (Logout(t) \/ LoadUserInfo(t) \/ ResetJwtSecretKey(t)
               \/ SubmitCreateToken(t) \/ (\E u \in User : Login(t, u))
               \/ (\E p \in {"login", "app"} : Visit(t, p)))
      BY DEF Logout, LoadUserInfo, ResetJwtSecretKey, SubmitCreateToken,
         Call, Ends, Login, Visit, At, Inv, TypeOK
    <3>3. Serve(t) => Bearer(t)
      BY DEF Serve, Lost, Ends, At, RefreshCheck, RefreshSign,
         RefreshDone, RefreshFail, Load, ResetSecretKey, CreateNewAPIToken,
         VerifyPassword, MakeAccessRefreshTokens, RequestFail, Settle, LoginFail, LoginDone, Loaded, Inv, TypeOK
    <3>4. ~ Tick
      BY DEF Tick
    <3> QED
      BY <3>1, <3>2, <3>3, <3>4 DEF Next
  <2>2. ~ Valid(msg[t], "access")
    BY <2>1 DEF Bearer, server, Inv, TypeOK
  <2>3. msg[t] \in Access /\ msg[t].exp >= since[t] + Margin /\ now \in Nat /\ since[t] \in Nat
    BY DEF server, Inv, TypeOK, FreshInv
  <2>4. msg[t].kind = "access" /\ msg[t].exp \in Nat
    BY <2>3 DEF Access, Token
  <2> QED
    BY <2>2, <2>3, <2>4, LifeAssumption DEF Valid
<1> QED
  BY <1>1, InvAlways, PTL DEF Spec, FreshOnArrival
=============================================================================
