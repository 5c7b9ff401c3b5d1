----------------------------- MODULE WebSession -----------------------------
(***************************************************************************)
(* The browser's side of a web session (api.js, login.js) together with    *)
(* the handlers that sign and check its tokens (web/auth.go) and the two   *)
(* administrator's calls that touch the secret (web/config.go,             *)
(* web/api_tokens.go).  The tabs of one browser share localStorage; each   *)
(* tab has at most one call under way.  A JavaScript turn is one action: a *)
(* script runs from one await to the next without a break.  A handler that *)
(* reads the secret twice takes two steps.                                 *)
(***************************************************************************)
EXTENDS Naturals

CONSTANTS
    Tab, User,
    Admin,          \* users with the administrator's rating
    nil,
    Margin,         \* the 15 seconds of api.js
    AccessLife,     \* 15 minutes
    RefreshLife,    \* 24 hours, or 30 days with remember_me
    ApiLife,        \* what is left until the date the administrator picks
    MaxTime,        \* bound: the clock stops here
    MaxKey          \* bound: secrets the server ever has

ASSUME LifeAssumption ==
    /\ Margin \in Nat \ {0} /\ AccessLife \in Nat /\ RefreshLife \subseteq Nat
    /\ ApiLife \subseteq Nat
    /\ Margin <= AccessLife /\ MaxTime \in Nat /\ MaxKey \in Nat
ASSUME UserAssumption == Admin \subseteq User

VARIABLES
    now,      \* one clock for browser and server
    secret,   \* JWT_SECRET_KEY, numbered by its resets
    stored,   \* localStorage: access_token and refresh_token
    page,     \* what each tab shows
    pc,       \* where the tab's call stands
    op,       \* what the call asks for
    msg,      \* what it sent, then what it was answered
    key,      \* the secret refreshAccessToken read
    since,    \* history: when the call was made
    resets    \* history: how often the secret was reset

server == <<secret, resets>>
vars == <<now, server, stored, page, pc, op, msg, key, since>>

Key == 0..MaxKey
Op == {"load", "reset", "createtoken"}

\* A token is signed with `key`; `began` is history: how many resets there had
\* been when its session began, that is, when the first pair was signed.
Token(kind) == [user : User, kind : {kind}, key : Key, began : Nat, exp : Nat]
Access == Token("access")
Refresh == Token("refresh")
Pair == [access : Access, refresh : Refresh]
MakeJwtToken(u, kind, k, began, life) ==
    [user |-> u, kind |-> kind, key |-> k, began |-> began, exp |-> now + life]

\* ParseJwtToken
Valid(token, kind) ==
    token.kind = kind /\ token.key = secret /\ now < token.exp
\* Fault: a token is used until it has expired, with nothing in hand.
Unexpired(token) == token # nil /\ token.exp > now
\* The comparison getAccessToken and refreshAccessToken make.
Usable(token) == token # nil /\ token.exp >= now + Margin

-----------------------------------------------------------------------------
Init ==
    /\ now = 0 /\ secret = 0 /\ resets = 0
    /\ stored = [access |-> nil, refresh |-> nil]
    /\ page = [t \in Tab |-> "login"]
    /\ pc = [t \in Tab |-> "idle"]
    /\ op = [t \in Tab |-> nil]
    /\ msg = [t \in Tab |-> nil]
    /\ key = [t \in Tab |-> nil]
    /\ since = [t \in Tab |-> 0]

At(t, from, to) == pc[t] = from /\ pc' = [pc EXCEPT ![t] = to]
\* The call is over but for its result, and the tab keeps nothing else of it.
Ends(t, result) ==
    /\ pc' = [pc EXCEPT ![t] = result]
    /\ op' = [op EXCEPT ![t] = nil]
    /\ msg' = [msg EXCEPT ![t] = nil]
    /\ key' = [key EXCEPT ![t] = nil]
    /\ since' = [since EXCEPT ![t] = 0]
\* Fault: the throw without the redirect.
Thrown(t) == Ends(t, "lost") /\ UNCHANGED page
\* window.location.href = "/login" and a throw: doAPIRequest's promise never
\* settles, and the call ends only because the page is replaced.
Lost(t) == Ends(t, "lost") /\ page' = [page EXCEPT ![t] = "login"]

Sends(t, o, to, token) ==
    /\ pc' = [pc EXCEPT ![t] = to]
    /\ op' = [op EXCEPT ![t] = o]
    /\ msg' = [msg EXCEPT ![t] = token]
    /\ since' = [since EXCEPT ![t] = now]
    /\ UNCHANGED <<page, key>>

(* doAPIRequest up to its first await. *)
Call(t, o) ==
    /\ page[t] = "app" /\ pc[t] = "idle"
    /\ \/ Usable(stored.access) /\ Sends(t, o, "request", stored.access)
       \/ /\ stored.access # nil /\ ~Usable(stored.access)
          /\ Usable(stored.refresh)
          /\ Sends(t, o, "refresh", stored.refresh)
       \/ /\ ~Usable(stored.access)
          /\ stored.access = nil \/ ~Usable(stored.refresh)
          /\ Lost(t)
    /\ UNCHANGED <<now, server, stored>>

\* The calls of the pages that matter here: the dashboard's first one, and
\* the two buttons of the configuration page.  An expiry date that does not
\* parse makes no call, a past one is refused by the server.
LoadUserInfo(t) == Call(t, "load")
ResetJwtSecretKey(t) == Call(t, "reset")
SubmitCreateToken(t) == Call(t, "createtoken")

(* POST /auth/refresh: one read of the secret, used to check and to sign. *)
RefreshCheck(t) ==
    /\ pc[t] = "refresh"
    /\ IF Valid(msg[t], "refresh")
       THEN /\ pc' = [pc EXCEPT ![t] = "refreshing"]
            /\ key' = [key EXCEPT ![t] = secret]
            /\ UNCHANGED <<op, msg, since>>
       ELSE Ends(t, "unrefreshed")
    /\ UNCHANGED <<now, server, stored, page>>

\* Fault: the secret is read again to sign, as in createtoken.
ReadAgain(t) == secret
SigningKey(t) == key[t]

RefreshSign(t) ==
    /\ At(t, "refreshing", "refreshed")
    /\ msg' = [msg EXCEPT ![t] = MakeJwtToken(msg[t].user, "access",
                   SigningKey(t), msg[t].began, AccessLife)]
    /\ UNCHANGED <<now, server, stored, page, op, key, since>>

\* Fault: the new token is stored under the other name.
RefreshSwapped(t) ==
    /\ At(t, "refreshed", "request")
    /\ stored' = [access |-> stored.access, refresh |-> msg[t]]
    /\ UNCHANGED <<now, server, page, op, msg, key, since>>
\* The rest of getAccessToken: the answer replaces what is stored now.
RefreshDone(t) ==
    /\ At(t, "refreshed", "request")
    /\ stored' = [access |-> msg[t], refresh |-> stored.refresh]
    /\ UNCHANGED <<now, server, page, op, msg, key, since>>

\* Refused, or the network failed before the server or after it.
RefreshFail(t) ==
    /\ pc[t] \in {"refresh", "refreshed", "unrefreshed"}
    /\ Lost(t)
    /\ UNCHANGED <<now, server, stored>>

(* jwtBearerMiddleware. *)
Bearer(t) ==
    /\ pc[t] = "request"
    /\ IF Valid(msg[t], "access")
       THEN pc' = [pc EXCEPT ![t] = "accepted"] /\ UNCHANGED <<op, msg, key, since>>
       ELSE Ends(t, "refused")
    /\ UNCHANGED <<now, server, stored, page>>

(* The handlers behind it. *)
Load(t) ==
    /\ pc[t] = "accepted" /\ op[t] = "load"
    /\ Ends(t, "answered")
    /\ UNCHANGED <<now, server, stored, page>>

ResetSecretKey(t) ==
    /\ pc[t] = "accepted" /\ op[t] = "reset"
    /\ msg[t].user \in Admin
    /\ secret < MaxKey
    /\ secret' = secret + 1
    /\ resets' = resets + 1
    /\ Ends(t, "answered")
    /\ UNCHANGED <<now, stored, page>>

\* The secret is read again, after the one the bearer was checked with.
CreateNewAPIToken(t, life) ==
    /\ op[t] = "createtoken" /\ At(t, "accepted", "created")
    /\ msg[t].user \in Admin
    /\ msg' = [msg EXCEPT ![t] =
         MakeJwtToken(msg[t].user, "access", secret, msg[t].began, life)]
    /\ UNCHANGED <<now, server, stored, page, op, key, since>>

\* Another rating (403), an expiry in the past (400), a failing database
\* (500), or a failing network before the server or after it.
RequestFail(t) ==
    /\ pc[t] \in {"request", "accepted", "created"}
    /\ Ends(t, "failed")
    /\ UNCHANGED <<now, server, stored, page>>

\* The promise is resolved or rejected; the page shows the result.
Settle(t) ==
    /\ pc[t] \in {"answered", "created", "refused", "failed"}
    /\ Ends(t, "idle")
    /\ UNCHANGED <<now, server, stored, page>>

-----------------------------------------------------------------------------
(* login.js, and getAccessRefreshTokens: the password is checked first, the  *)
(* secret is read afterwards, once for both tokens.                        *)
Login(t, u) ==
    /\ page[t] = "login" /\ At(t, "idle", "login")
    /\ msg' = [msg EXCEPT ![t] = u]
    /\ UNCHANGED <<now, server, stored, page, op, key, since>>

VerifyPassword(t) ==
    /\ At(t, "login", "verified")
    /\ UNCHANGED <<now, server, stored, page, op, msg, key, since>>

MakeAccessRefreshTokens(t, life) ==
    /\ At(t, "verified", "loggedin")
    /\ msg' = [msg EXCEPT ![t] =
         [access |-> MakeJwtToken(msg[t], "access", secret, resets, AccessLife),
          refresh |-> MakeJwtToken(msg[t], "refresh", secret, resets, life)]]
    /\ UNCHANGED <<now, server, stored, page, op, key, since>>

\* A wrong password, a failing database, or a failing network.
LoginFail(t) ==
    /\ pc[t] \in {"login", "verified", "loggedin"}
    /\ Ends(t, "failed")
    /\ UNCHANGED <<now, server, stored, page>>

LoginDone(t) ==
    /\ pc[t] = "loggedin"
    /\ stored' = msg[t]
    /\ page' = [page EXCEPT ![t] = "app"]
    /\ Ends(t, "idle")
    /\ UNCHANGED <<now, server>>

\* No page calls logout yet; api.js offers it.
Logout(t) ==
    /\ page[t] = "app"
    /\ stored' = [access |-> nil, refresh |-> nil]
    /\ page' = [page EXCEPT ![t] = "login"]
    /\ Ends(t, "idle")
    /\ UNCHANGED <<now, server>>

\* The browser loads the page a script asked for, or the one its user asked
\* for; the answer to a call of the old page goes nowhere.
Loaded(t) ==
    /\ page[t] = "login" /\ pc[t] = "lost"
    /\ Ends(t, "idle")
    /\ UNCHANGED <<now, server, stored, page>>

Visit(t, p) ==
    /\ page' = [page EXCEPT ![t] = p]
    /\ Ends(t, "idle")
    /\ UNCHANGED <<now, server, stored>>

Tick ==
    /\ now < MaxTime
    /\ now' = now + 1
    /\ UNCHANGED <<server, stored, page, pc, op, msg, key, since>>

-----------------------------------------------------------------------------
\* What the network, the server and the browser do with a call of tab t.
Serve(t) ==
    \/ RefreshCheck(t) \/ RefreshSign(t) \/ RefreshDone(t) \/ RefreshFail(t)
    \/ Bearer(t) \/ Load(t) \/ ResetSecretKey(t)
    \/ \E life \in ApiLife : CreateNewAPIToken(t, life)
    \/ \E life \in RefreshLife : MakeAccessRefreshTokens(t, life)
    \/ RequestFail(t) \/ Settle(t) \/ VerifyPassword(t) \/ LoginFail(t) \/ LoginDone(t) \/ Loaded(t)

Next ==
    \/ \E t \in Tab :
         \/ Serve(t) \/ Logout(t)
         \/ LoadUserInfo(t) \/ ResetJwtSecretKey(t) \/ SubmitCreateToken(t)
         \/ \E u \in User : Login(t, u)
         \/ \E p \in {"login", "app"} : Visit(t, p)
    \/ Tick

Fairness == \A t \in Tab : WF_vars(Serve(t))
Spec == Init /\ [][Next]_vars
LiveSpec == Spec /\ Fairness

-----------------------------------------------------------------------------
PC == {"idle", "refresh", "refreshing", "refreshed", "unrefreshed", "request",
       "accepted", "created", "answered", "refused", "failed", "lost", "login",
       "verified", "loggedin"}

\* Types; localStorage holds each kind of token under its own key, and what a
\* call carries fits the place it stands at.
TypeOK ==
    /\ now \in Nat /\ secret \in Key
    /\ stored \in [access : Access \cup {nil}, refresh : Refresh \cup {nil}]
    /\ page \in [Tab -> {"login", "app"}]
    /\ pc \in [Tab -> PC]
    /\ op \in [Tab -> Op \cup {nil}]
    /\ key \in [Tab -> Key \cup {nil}]
    /\ since \in [Tab -> Nat]
    /\ resets \in Nat
    /\ DOMAIN msg = Tab
    /\ \A t \in Tab :
         /\ pc[t] \in {"refresh", "refreshing"} => msg[t] \in Refresh
         /\ pc[t] = "refreshing" => key[t] \in Key
         /\ pc[t] \in {"refreshed", "request", "accepted", "created"} =>
              msg[t] \in Access
         /\ pc[t] \in {"login", "verified"} => msg[t] \in User
         /\ pc[t] = "loggedin" => msg[t] \in Pair

\* The tokens of sessions: stored, or on their way to or from the server.
SessionToken ==
    ({stored.access, stored.refresh} \ {nil})
    \cup {msg[t] : t \in {s \in Tab : pc[s] \in
             {"refresh", "refreshing", "refreshed", "request", "accepted"}}}
    \cup UNION {{msg[t].access, msg[t].refresh} :
                  t \in {s \in Tab : pc[s] = "loggedin"}}

(* "All active sessions will be invalidated" (configeditor.js:192): no      *)
(* token of a session that began before the last reset is signed with the  *)
(* secret in force, whatever refresh the reset overtakes.  A session begins *)
(* when its tokens are signed, so a login whose password is verified before *)
(* the reset and which reads the secret after it begins after it.          *)
SessionsEndAtReset ==
    \A token \in SessionToken : token.key = secret => token.began = resets

(* The 15 seconds api.js keeps in hand: a request that reaches the server  *)
(* within them is refused only when the secret was reset, never because   *)
(* the token expired on its way, or was of the wrong kind.                 *)
FreshOnArrival ==
    [][\A t \in Tab :
         /\ pc[t] = "request" /\ pc'[t] = "refused"
         /\ now < since[t] + Margin
         => msg[t].key # secret]_vars

(* A call either settles or its tab leaves for the login page: no page is  *)
(* left waiting on a promise nobody settles (api.js:16).                   *)
CallEnds == \A t \in Tab : pc[t] # "idle" ~> pc[t] = "idle"

(* getAccessToken "returns the current valid access token" (api.js:31):    *)
(* the one it stores belongs to the login whose refresh token is stored.   *)
CurrentToken ==
    stored.access # nil /\ stored.refresh # nil =>
        stored.access.user = stored.refresh.user
=============================================================================
