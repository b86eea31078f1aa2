------------------------------ MODULE Sessions ------------------------------
(***************************************************************************)
(* The sessions of RentFlowAPI: the table refresh_tokens, AuthService      *)
(* (register, login, refresh, logout) and the activation of users by       *)
(* UsersService.                                                           *)
(*                                                                         *)
(* A refresh token and its SHA-256 hash are one value.  A user is its      *)
(* e-mail, which is unique.  A session is a chain of tokens, each obtained *)
(* with the one before it; of all chains the code only keeps the rows.     *)
(***************************************************************************)
EXTENDS FiniteSets, Naturals

CONSTANTS
    Users,
    Tokens,   \* tokens that may be signed (bounds their number)
    Requests, \* requests in flight at once
    MaxExpired, \* bound on the tokens that expire
    Null

ASSUME NullAssumption ==
    /\ Null \notin Users /\ Null \notin Tokens

VARIABLES
    active,    \* active[u]: isActive of the user, Null before it registers
    rows,      \* rows[t]: the row of token t in refresh_tokens, or Null
    sub,       \* sub[t]: the user token t was signed for; Null: not signed yet
    expired,   \* the tokens whose time is over
    req,       \* req[r]: where the handler of request r is, and its locals
    held,      \* the tokens an answer has brought to a client
    parent,    \* history: the token that token t was signed in exchange for
    session,   \* history: the token that the session of token t began with
    presented, \* history: the tokens their user has sent to refresh or logout
    loggedOut  \* history: the tokens whose logout has been answered

history == <<parent, session, presented, loggedOut>>
vars == <<active, rows, sub, expired, req, held, parent, session, presented, loggedOut>>

TokenRow == [userId : Users, revoked : BOOLEAN]

ASSUME RowAssumption == Null \notin TokenRow /\ Null \notin BOOLEAN

RefreshSteps == {"find", "expire", "user", "revoke"}
LogoutSteps == {"logoutFind", "logoutRevoke"}
IssueSteps == {"store", "clean"}

IdleRequest == [pc : {"idle"}]

\* token: the one presented; fresh: the one signed.  waits: the client is still
\* there for the answer.
Handler == [pc : {"create"} \cup RefreshSteps \cup LogoutSteps \cup IssueSteps,
            userId : Users, token : Tokens \cup {Null}, fresh : Tokens \cup {Null},
            waits : BOOLEAN]

Request == IdleRequest \cup Handler

Idle == [pc |-> "idle"]

At(r, step) == req[r].pc = step

Answer(r) == req' = [req EXCEPT ![r] = Idle]

Begin(r, step, user, token) ==
    req' = [req EXCEPT ![r] = [pc |-> step, userId |-> user, token |-> token,
                               fresh |-> Null, waits |-> TRUE]]

Continue(r, step) == req' = [req EXCEPT ![r].pc = step]

\* Mutant: revoked tokens are found as well.
FoundRevoked(user, t) == rows[t] # Null /\ rows[t].userId = user

\* refreshToken.findFirst({ userId, hashedToken, revoked: false })
Found(user, t) == rows[t] # Null /\ rows[t].userId = user /\ ~rows[t].revoked

IsActive(u) == active[u] = TRUE

Signed(t) == sub[t] # Null

\* generateTokens: the payload holds a random UUID, so the token is a new one.
\* The bound on tokens: a handler waits here for ever when none is left.
Sign(r, user, from, waits) ==
    \E t \in Tokens :
        /\ ~Signed(t)
        /\ sub' = [sub EXCEPT ![t] = user]
        /\ parent' = [parent EXCEPT ![t] = from]
        /\ session' = [session EXCEPT ![t] = IF from = Null THEN t ELSE session[from]]
        /\ req' = [req EXCEPT ![r] = [pc |-> "store", userId |-> user, token |-> from,
                                      fresh |-> t, waits |-> waits]]

\* Bound: an unsigned token is left for every handler that will sign one.
TokensLeft ==
    Cardinality({r \in Requests : req[r].pc \in {"create"} \cup RefreshSteps})
        < Cardinality({t \in Tokens : ~Signed(t)})

-----------------------------------------------------------------------------
(***************************************************************************)
(* POST /auth/register and POST /auth/login.                               *)
(***************************************************************************)
RegisterRead(r, u) ==
    /\ At(r, "idle")
    /\ TokensLeft
    /\ active[u] = Null
    /\ Begin(r, "create", u, Null)
    /\ UNCHANGED <<active, rows, sub, expired, held, history>>

\* The unique e-mail rejects a user registered since.
RegisterRejected(r) ==
    /\ At(r, "create")
    /\ active[req[r].userId] # Null
    /\ Answer(r)
    /\ UNCHANGED <<active, rows, sub, expired, held, history>>

RegisterCreate(r) ==
    /\ At(r, "create")
    /\ active[req[r].userId] = Null
    /\ active' = [active EXCEPT ![req[r].userId] = TRUE]
    /\ Sign(r, req[r].userId, Null, req[r].waits)
    /\ UNCHANGED <<rows, expired, held, presented, loggedOut>>

\* The user is read once, before the password is compared.
LoginRead(r, u) ==
    /\ At(r, "idle")
    /\ TokensLeft
    /\ IsActive(u)
    /\ Sign(r, u, Null, TRUE)
    /\ UNCHANGED <<active, rows, expired, held, presented, loggedOut>>

-----------------------------------------------------------------------------
(***************************************************************************)
(* storeRefreshToken, the end of register, login and refresh.              *)
(***************************************************************************)
\* Mutant: a new row without its default.
NewRowNoDefault(user) == [userId |-> user, revoked |-> Null]

NewRow(user) == [userId |-> user, revoked |-> FALSE]

Store(r) ==
    /\ At(r, "store")
    /\ rows' = [rows EXCEPT ![req[r].fresh] = NewRow(req[r].userId)]
    /\ Continue(r, "clean")
    /\ UNCHANGED <<active, sub, expired, held, history>>

\* Mutant: the housekeeping ends the other sessions of the user.
HousekeptAll(user, fresh) ==
    {t \in Tokens : rows[t] # Null /\ rows[t].userId = user /\ t # fresh}

\* The rows the housekeeping deletes.
Housekept(user, fresh) ==
    {t \in Tokens :
        /\ rows[t] # Null /\ rows[t].userId = user
        /\ rows[t].revoked \/ t \in expired
        /\ t # fresh}

\* The tokens are answered to the client, if it is still there.
Clean(r) ==
    /\ At(r, "clean")
    /\ rows' = [t \in Tokens |->
                  IF t \in Housekept(req[r].userId, req[r].fresh) THEN Null ELSE rows[t]]
    /\ held' = IF req[r].waits THEN held \cup {req[r].fresh} ELSE held
    /\ Answer(r)
    /\ UNCHANGED <<active, sub, expired, history>>

-----------------------------------------------------------------------------
(***************************************************************************)
(* POST /auth/refresh.                                                     *)
(***************************************************************************)
\* JwtRefreshStrategy: the token is one of ours and its time is not over.
RefreshStart(r, t) ==
    /\ At(r, "idle")
    /\ TokensLeft
    /\ t \in held \ expired
    /\ Begin(r, "find", sub[t], t)
    /\ presented' = presented \cup {t}
    /\ UNCHANGED <<active, rows, sub, expired, held, parent, session, loggedOut>>

\* The expiry is compared after the row is read.
RefreshFind(r) ==
    /\ At(r, "find")
    /\ IF Found(req[r].userId, req[r].token)
         THEN Continue(r, IF req[r].token \in expired THEN "expire" ELSE "user")
         ELSE Answer(r)
    /\ UNCHANGED <<active, rows, sub, expired, held, history>>

\* refreshToken.update({ revoked: true }), which throws if the row is gone.
Revoke(t) ==
    rows' = IF rows[t] = Null THEN rows ELSE [rows EXCEPT ![t].revoked = TRUE]

RefreshExpire(r) ==
    /\ At(r, "expire")
    /\ Revoke(req[r].token)
    /\ Answer(r)
    /\ UNCHANGED <<active, sub, expired, held, history>>

RefreshUser(r) ==
    /\ At(r, "user")
    /\ IF IsActive(req[r].userId) THEN Continue(r, "revoke") ELSE Answer(r)
    /\ UNCHANGED <<active, rows, sub, expired, held, history>>

\* Mutant: the old token is left as it is.
RefreshKeep(r) ==
    /\ At(r, "revoke")
    /\ rows[req[r].token] # Null
    /\ Sign(r, req[r].userId, req[r].token, req[r].waits)
    /\ UNCHANGED <<active, rows, expired, held, presented, loggedOut>>

RefreshRevoke(r) ==
    /\ At(r, "revoke")
    /\ rows[req[r].token] # Null
    /\ Revoke(req[r].token)
    /\ Sign(r, req[r].userId, req[r].token, req[r].waits)
    /\ UNCHANGED <<active, expired, held, presented, loggedOut>>

\* The housekeeping of another request has deleted the row.
RefreshGone(r) ==
    /\ At(r, "revoke")
    /\ rows[req[r].token] = Null
    /\ Answer(r)
    /\ UNCHANGED <<active, rows, sub, expired, held, history>>

-----------------------------------------------------------------------------
(***************************************************************************)
(* POST /auth/logout, by user u who sends the token t, its own or not.     *)
(***************************************************************************)
\* JwtStrategy: the user of the access token is active.
LogoutStart(r, u, t) ==
    /\ At(r, "idle")
    /\ IsActive(u)
    /\ t \in held
    /\ \E s \in held : sub[s] = u
    /\ Begin(r, "logoutFind", u, t)
    /\ presented' = IF sub[t] = u THEN presented \cup {t} ELSE presented
    /\ UNCHANGED <<active, rows, sub, expired, held, parent, session, loggedOut>>

\* "Logged out successfully", with or without a row to revoke.
LoggedOut(r) ==
    /\ Answer(r)
    /\ loggedOut' = IF req[r].waits /\ sub[req[r].token] = req[r].userId
                      THEN loggedOut \cup {req[r].token} ELSE loggedOut

LogoutFind(r) ==
    /\ At(r, "logoutFind")
    /\ IF Found(req[r].userId, req[r].token)
         THEN Continue(r, "logoutRevoke") /\ UNCHANGED loggedOut
         ELSE LoggedOut(r)
    /\ UNCHANGED <<active, rows, sub, expired, held, parent, session, presented>>

LogoutRevoke(r) ==
    /\ At(r, "logoutRevoke")
    /\ Revoke(req[r].token)
    /\ IF rows[req[r].token] # Null THEN LoggedOut(r) ELSE Answer(r) /\ UNCHANGED loggedOut
    /\ UNCHANGED <<active, sub, expired, held, parent, session, presented>>

-----------------------------------------------------------------------------
\* POST /users/:id/activate and DELETE /users/:id/deactivate.
SetActive(u) ==
    /\ active[u] # Null
    /\ active' = [active EXCEPT ![u] = ~@]
    /\ UNCHANGED <<rows, sub, expired, req, held, history>>

\* exp of the token and expiresAt of its row are set for the same instant.
Expire(t) ==
    /\ Signed(t)
    /\ Cardinality(expired) < MaxExpired
    /\ expired' = expired \cup {t}
    /\ UNCHANGED <<active, rows, sub, req, held, history>>

\* Mutant: a refresh that fails takes its revocation back.
FailRestoring(r) ==
    /\ ~At(r, "idle")
    /\ Answer(r)
    /\ rows' = IF At(r, "store") /\ req[r].token # Null /\ rows[req[r].token] # Null
                 THEN [rows EXCEPT ![req[r].token].revoked = FALSE] ELSE rows
    /\ UNCHANGED <<active, sub, expired, held, history>>

\* A call of the database fails: the handler throws; nothing is undone.
Fail(r) ==
    /\ ~At(r, "idle")
    /\ Answer(r)
    /\ UNCHANGED <<active, rows, sub, expired, held, history>>

\* The client no longer waits: its connection broke or, in login, the update of
\* ultimoLogin failed beside storeRefreshToken.  The handler goes on.
HangUp(r) ==
    /\ ~At(r, "idle")
    /\ req[r].waits
    /\ req' = [req EXCEPT ![r].waits = FALSE]
    /\ UNCHANGED <<active, rows, sub, expired, held, history>>

Arrive(r) ==
    \/ \E u \in Users : RegisterRead(r, u) \/ LoginRead(r, u)
    \/ \E t \in Tokens : RefreshStart(r, t)
    \/ \E u \in Users, t \in Tokens : LogoutStart(r, u, t)

Proceed(r) ==
    \/ RegisterRejected(r) \/ RegisterCreate(r)
    \/ Store(r) \/ Clean(r)
    \/ RefreshFind(r) \/ RefreshExpire(r) \/ RefreshUser(r) \/ RefreshRevoke(r) \/ RefreshGone(r)
    \/ LogoutFind(r) \/ LogoutRevoke(r)

Init ==
    /\ active = [u \in Users |-> Null]
    /\ rows = [t \in Tokens |-> Null]
    /\ sub = [t \in Tokens |-> Null]
    /\ expired = {}
    /\ req = [r \in Requests |-> Idle]
    /\ held = {}
    /\ parent = [t \in Tokens |-> Null]
    /\ session = [t \in Tokens |-> Null]
    /\ presented = {}
    /\ loggedOut = {}

Next ==
    \/ \E r \in Requests : Arrive(r) \/ Proceed(r) \/ Fail(r) \/ HangUp(r)
    \/ \E u \in Users : SetActive(u)
    \/ \E t \in Tokens : Expire(t)

Spec == Init /\ [][Next]_vars

\* r is the refresh of the token t by a client that waits for its answer.
Refreshes(r, t) ==
    req[r].pc \in RefreshSteps \cup IssueSteps /\ req[r].token = t /\ req[r].waits

(***************************************************************************)
(* A client that has one refresh of a token in flight, as the web front    *)
(* end, which queues: it may refresh with the token again once it has been *)
(* answered or has given up, and log out at any time.                      *)
(***************************************************************************)
OneRefreshes ==
    \A r, s \in Requests, t \in Tokens : Refreshes(r, t) /\ Refreshes(s, t) => r = s

PatientNext == Next /\ OneRefreshes'

PatientSpec == Init /\ [][PatientNext]_vars

-----------------------------------------------------------------------------
(***************************************************************************)
(* Properties.                                                             *)
(***************************************************************************)
SessionsTypeOK ==
    /\ active \in [Users -> BOOLEAN \cup {Null}]
    /\ rows \in [Tokens -> TokenRow \cup {Null}]
    /\ sub \in [Tokens -> Users \cup {Null}]
    /\ expired \subseteq Tokens
    /\ req \in [Requests -> Request]
    /\ held \subseteq Tokens
    /\ parent \in [Tokens -> Tokens \cup {Null}]
    /\ session \in [Tokens -> Tokens \cup {Null}]
    /\ presented \subseteq Tokens
    /\ loggedOut \subseteq Tokens

\* The row of t would be found and accepted.
Live(t) == sub[t] # Null /\ Found(sub[t], t) /\ t \notin expired

\* Sessions do not disturb each other: a token that a client has received and
\* not yet presented works until it expires, whatever the housekeeping of the
\* user's other logins, refreshes and logouts deletes.
UnpresentedLives == \A t \in held : t \notin presented \cup expired => Live(t)

\* "Logout - revoke refresh token": a token whose user has been told that it is
\* logged out never works again.
LoggedOutIsDead == \A t \in loggedOut : ~Live(t)

\* "The old refresh token was rotated (revoked) and must not work anymore."
RotatedIsDead == \A t \in held : parent[t] # Null => ~Live(parent[t])

\* Rotation: one token is exchanged for one other, however many times a client
\* that had no answer tries again.
OneSuccessor ==
    \A t1, t2 \in held : parent[t1] # Null /\ parent[t1] = parent[t2] => t1 = t2

\* t is logged out, and no refresh that found it before is still going on.
LogoutSettled(t) ==
    /\ t \in loggedOut
    /\ \A r \in Requests :
         req[r].pc \in {"user", "revoke"} \cup IssueSteps => req[r].token # t

\* A logout is final once the refreshes that had found the token have ended:
\* no token is signed or delivered in exchange for it.  A refresh in flight
\* while its token is logged out does leave its client with a new token.
LogoutSettles ==
    [][\A t \in Tokens : LogoutSettled(t) =>
          /\ LogoutSettled(t)'
          /\ \A s \in Tokens : parent'[s] = t => parent[s] = t
          /\ \A s \in held' \ held : parent[s] # t]_vars

\* The first token of the session of each token received.
SessionOf == [t \in held |-> session[t]]

UsableKeys == {t \in held : Live(t)}

\* The tokens exchanged for one that was received.
Exchanged == {parent[t] : t \in held} \ {Null}

Rotating ==
    INSTANCE Rotation WITH
        Keys <- Tokens, session <- SessionOf, usable <- UsableKeys,
        used <- presented, exchanged <- Exchanged

\* A session has one key: of all the tokens that a client has received since
\* it logged in, one at most still works.
OneKeyPerSession == Rotating!OneUsableKey

\* What the handlers do to the rows is, seen by the clients, that each session
\* is a line of keys: a key that has stopped working never works again, not
\* even when a later step of its refresh fails, and is exchanged once.
ImplementsRotation == Rotating!Spec
=============================================================================
