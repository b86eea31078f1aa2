--------------------------- MODULE SessionsProofs ---------------------------
(***************************************************************************)
(* Proofs about Sessions, for every set of users, tokens and requests.     *)
(*                                                                         *)
(* The first invariant says who can revoke a token: only a handler its     *)
(* user has presented it to.  The second, for clients with one refresh of  *)
(* a token in flight, says that such a refresh, once it has found the      *)
(* token live, is the only one that can bring a successor to a client.     *)
(***************************************************************************)
EXTENDS Sessions, TLAPS

\* The row of t is there and not revoked.
Unrevoked(t) == Found(sub[t], t)

\* What the handler with locals q relies on.
LocalOK(q) ==
    /\ q.pc \in RefreshSteps => q.token \in presented /\ sub[q.token] = q.userId
    /\ q.pc \in LogoutSteps =>
         /\ q.token \in held
         /\ sub[q.token] = q.userId => q.token \in presented
    /\ q.pc = "logoutRevoke" => sub[q.token] = q.userId
    /\ q.pc \in IssueSteps =>
         /\ q.fresh \in Tokens \ held
         /\ sub[q.fresh] = q.userId /\ parent[q.fresh] = q.token
    /\ q.pc = "clean" => q.fresh \in expired \/ Unrevoked(q.fresh)

LocalsOK == \A r \in Requests : LocalOK(req[r])

\* No two handlers issue one token.
FreshDistinct ==
    \A r, s \in Requests :
        /\ req[r].pc \in IssueSteps /\ req[s].pc \in IssueSteps
        /\ req[r].fresh = req[s].fresh
        => r = s

\* Tokens are received before they are presented, and rows are their user's.
HistoryOK ==
    /\ \A t \in held : Signed(t)
    /\ presented \subseteq held
    /\ loggedOut \subseteq presented
    /\ \A t \in Tokens : rows[t] # Null => rows[t].userId = sub[t]

ParentsDead ==
    \A t \in Tokens : parent[t] # Null => parent[t] \in presented /\ ~Unrevoked(parent[t])

LoggedOutDead == \A t \in loggedOut : ~Unrevoked(t)

IInv ==
    /\ SessionsTypeOK /\ LocalsOK /\ FreshDistinct /\ HistoryOK
    /\ ParentsDead /\ LoggedOutDead /\ UnpresentedLives

-----------------------------------------------------------------------------
LEMMA IdleOK == Idle \in Request /\ Idle.pc = "idle"
  BY DEF Idle, Request, IdleRequest

LEMMA BusyShape ==
    ASSUME NEW q \in Request, q.pc # "idle"
    PROVE  q \in Handler
  BY DEF Request, IdleRequest

\* Nothing that is signed, received, presented or expired ceases to be.
Grows ==
    /\ \A t \in Tokens : Signed(t) => sub'[t] = sub[t] /\ parent'[t] = parent[t]
    /\ held \subseteq held'
    /\ presented \subseteq presented'
    /\ expired \subseteq expired'

\* A revoked token stays so, and one that was never presented stays live.
RowsFair ==
    /\ \A t \in presented : Unrevoked(t)' => Unrevoked(t)
    /\ \A t \in Tokens \ (presented \cup expired) :
         Signed(t) /\ Unrevoked(t) => Unrevoked(t)'

\* What a handler relies on survives the steps of the others.
LEMMA LocalStays ==
    ASSUME IInv, Grows, RowsFair, NEW q \in Request, LocalOK(q),
           q.pc \in IssueSteps => q.fresh \notin held'
    PROVE  LocalOK(q)'
  <1>1. CASE q.pc = "idle"
    BY <1>1 DEF LocalOK, RefreshSteps, LogoutSteps, IssueSteps
  <1>2. CASE q.pc # "idle"
    <2>1. q \in Handler BY <1>2, BusyShape
    <2>2. q.pc \in RefreshSteps => q.token \in presented' /\ sub'[q.token] = q.userId
      BY DEF LocalOK, Grows, IInv, HistoryOK, SessionsTypeOK
    <2>3. q.pc \in LogoutSteps =>
            q.token \in held' /\ (sub'[q.token] = q.userId => q.token \in presented')
      BY DEF LocalOK, Grows, IInv, HistoryOK, SessionsTypeOK
    <2>4. q.pc = "logoutRevoke" => sub'[q.token] = q.userId
      BY DEF LocalOK, Grows, IInv, HistoryOK, SessionsTypeOK, LogoutSteps
    <2>5. q.pc \in IssueSteps =>
            /\ q.fresh \in Tokens \ held'
            /\ Signed(q.fresh)
            /\ sub'[q.fresh] = q.userId /\ parent'[q.fresh] = q.token
      BY <2>1, NullAssumption DEF LocalOK, Grows, Handler, Signed
    <2>6. q.pc = "clean" => q.fresh \in expired' \/ Unrevoked(q.fresh)'
      <3>1. q.pc = "clean" => q.fresh \notin presented
        BY DEF LocalOK, IInv, HistoryOK, IssueSteps
      <3>2. QED BY <2>5, <3>1 DEF LocalOK, Grows, RowsFair, IssueSteps
    <2>7. QED BY <2>2, <2>3, <2>4, <2>5, <2>6 DEF LocalOK
  <1>3. QED BY <1>1, <1>2

\* A step of the handler r, which continues with the locals q.
LEMMA HandlerStep ==
    ASSUME IInv, SessionsTypeOK', Grows, RowsFair,
           NEW r \in Requests, NEW q \in Request, req' = [req EXCEPT ![r] = q],
           LocalOK(q)',
           \A s \in Requests \ {r} :
              q.pc \in IssueSteps /\ req[s].pc \in IssueSteps => q.fresh # req[s].fresh,
           \A t \in held' \ held :
              req[r].pc = "clean" /\ t = req[r].fresh /\ (t \in expired' \/ Unrevoked(t)'),
           \A t \in Tokens : rows'[t] # Null => rows'[t].userId = sub'[t],
           \A t \in Tokens : parent'[t] \notin {parent[t], Null} =>
              parent'[t] \in presented /\ ~Unrevoked(parent[t])',
           presented' \subseteq held, loggedOut' \subseteq presented',
           \A t \in loggedOut' \ loggedOut : ~Unrevoked(t)'
    PROVE  IInv'
  <1>1. \A s \in Requests : s # r => req'[s] = req[s]
    BY DEF IInv, SessionsTypeOK
  <1>2. req'[r] = q BY DEF IInv, SessionsTypeOK
  <1>3. LocalsOK'
    <2> SUFFICES ASSUME NEW s \in Requests PROVE LocalOK(req[s])'
      BY DEF LocalsOK
    <2>1. CASE s = r BY <1>2, <2>1 DEF LocalOK
    <2>2. CASE s # r
      <3>1. req[s] \in Request /\ LocalOK(req[s]) BY DEF IInv, SessionsTypeOK, LocalsOK
      <3>2. req[s].pc \in IssueSteps => req[s].fresh \notin held
        BY <3>1 DEF LocalOK
      <3>3. req[s].pc \in IssueSteps /\ req[r].pc = "clean" => req[s].fresh # req[r].fresh
        BY <2>2 DEF IInv, FreshDistinct, IssueSteps
      <3>4. req[s].pc \in IssueSteps => req[s].fresh \notin held'
        BY <3>2, <3>3
      <3>5. req'[s] = req[s] BY <1>1, <2>2
      <3>6. PICK p \in Request : p = req[s] BY <3>1
      <3>7. LocalOK(p)' BY <3>1, <3>4, <3>6, LocalStays
      <3>8. QED BY <3>5, <3>6, <3>7 DEF LocalOK
    <2>3. QED BY <2>1, <2>2
  <1>4. FreshDistinct' BY <1>1, <1>2 DEF IInv, FreshDistinct
  <1>5. HistoryOK'
    <2>1. \A t \in held' : Signed(t)'
      <3>1. \A t \in held : Signed(t)' BY DEF IInv, HistoryOK, SessionsTypeOK, Grows, Signed
      <3>2. \A t \in held' \ held : Signed(t)'
        BY NullAssumption, BusyShape
           DEF IInv, SessionsTypeOK, LocalsOK, LocalOK, IssueSteps, Grows, Signed, Handler
      <3>3. QED BY <3>1, <3>2
    <2>2. QED BY <2>1 DEF HistoryOK, Grows
  <1>6. ParentsDead'
    <2> SUFFICES ASSUME NEW t \in Tokens, parent'[t] # Null
                 PROVE  parent'[t] \in presented' /\ ~Unrevoked(parent[t])'
      BY DEF ParentsDead, Unrevoked, Found
    <2>1. CASE parent'[t] = parent[t]
      <3>1. parent[t] \in presented /\ ~Unrevoked(parent[t]) BY <2>1 DEF IInv, ParentsDead
      <3>2. QED BY <2>1, <3>1 DEF Grows, RowsFair, Unrevoked, Found
    <2>2. CASE parent'[t] # parent[t] BY <2>2 DEF Grows
    <2>3. QED BY <2>1, <2>2
  <1>7. LoggedOutDead'
    BY DEF IInv, LoggedOutDead, HistoryOK, RowsFair, Unrevoked, Found
  <1>8. UnpresentedLives'
    <2> SUFFICES ASSUME NEW t \in held', t \notin presented' \cup expired'
                 PROVE  Live(t)'
      BY DEF UnpresentedLives
    <2>1. Unrevoked(t)' => Live(t)'
      BY NullAssumption DEF Live, Unrevoked, Found, SessionsTypeOK, TokenRow
    <2>2. CASE t \in held
      <3>1. t \in Tokens \ (presented \cup expired) /\ Signed(t) /\ Unrevoked(t)
        BY <2>2 DEF IInv, UnpresentedLives, Live, SessionsTypeOK, HistoryOK, Grows, Unrevoked
      <3>2. QED BY <2>1, <3>1 DEF RowsFair
    <2>3. CASE t \notin held BY <2>1, <2>3
    <2>4. QED BY <2>2, <2>3
  <1>9. QED BY <1>3, <1>4, <1>5, <1>6, <1>7, <1>8 DEF IInv

\* A handler step that leaves the tokens and their rows alone.
LEMMA QuietStep ==
    ASSUME IInv, NEW r \in Requests, NEW q \in Request, req' = [req EXCEPT ![r] = q],
           UNCHANGED <<active, rows, sub, expired, held, parent, session>>,
           presented \subseteq presented', presented' \subseteq held,
           loggedOut \subseteq loggedOut', loggedOut' \subseteq presented',
           \A t \in loggedOut' \ loggedOut : ~Unrevoked(t),
           LocalOK(q)',
           q.pc \in IssueSteps => req[r].pc \in IssueSteps /\ q.fresh = req[r].fresh
    PROVE  IInv'
  <1>1. SessionsTypeOK' BY DEF IInv, SessionsTypeOK
  <1>2. Grows /\ RowsFair BY DEF Grows, RowsFair, Unrevoked, Found
  <1>3. \A s \in Requests \ {r} :
           q.pc \in IssueSteps /\ req[s].pc \in IssueSteps => q.fresh # req[s].fresh
    BY DEF IInv, FreshDistinct
  <1>4. \A t \in Tokens : rows'[t] # Null => rows'[t].userId = sub'[t]
    BY DEF IInv, HistoryOK
  <1>5. \A t \in loggedOut' \ loggedOut : ~Unrevoked(t)' BY DEF Unrevoked, Found
  <1>6. QED BY <1>1, <1>2, <1>3, <1>4, <1>5, HandlerStep

-----------------------------------------------------------------------------
(***************************************************************************)
(* One lemma per action.                                                   *)
(***************************************************************************)
\* What a busy handler holds.
LEMMA HandlerFacts ==
    ASSUME IInv, NEW r \in Requests, req[r].pc # "idle"
    PROVE  /\ req[r] \in Handler /\ LocalOK(req[r])
           /\ req[r].pc \in RefreshSteps \cup LogoutSteps => req[r].token \in Tokens
           /\ req[r].pc \in IssueSteps => req[r].fresh \in Tokens
  BY BusyShape DEF IInv, SessionsTypeOK, LocalsOK, LocalOK, HistoryOK

LEMMA AnswerStep ==
    ASSUME IInv, NEW r \in Requests, Answer(r),
           UNCHANGED <<active, rows, sub, expired, held, history>>
    PROVE  IInv'
  <1>1. LocalOK(Idle)'
    BY DEF LocalOK, Idle, RefreshSteps, LogoutSteps, IssueSteps
  <1>2. Idle.pc \notin IssueSteps BY DEF Idle, IssueSteps
  <1>3. QED BY <1>1, <1>2, IdleOK, QuietStep DEF Answer, history, IInv, HistoryOK

\* A handler that goes on with the locals it has, its client there or not.
LEMMA ContinueStep ==
    ASSUME IInv, NEW r \in Requests, req[r].pc # "idle", NEW q \in Handler,
           req' = [req EXCEPT ![r] = q],
           q.userId = req[r].userId, q.token = req[r].token, q.fresh = req[r].fresh,
           \/ q.pc = req[r].pc
           \/ q.pc \in {"expire", "user", "revoke"} /\ req[r].pc \in RefreshSteps
           \/ /\ q.pc = "logoutRevoke" /\ req[r].pc = "logoutFind"
              /\ sub[q.token] = q.userId,
           UNCHANGED <<active, rows, sub, expired, held, history>>
    PROVE  IInv'
  <1>1. LocalOK(req[r]) BY HandlerFacts
  <1>2. LocalOK(q)
    BY <1>1 DEF LocalOK, RefreshSteps, LogoutSteps, IssueSteps
  <1>3. LocalOK(q)' BY <1>2 DEF LocalOK, Unrevoked, Found, history
  <1>4. q.pc \in IssueSteps => req[r].pc \in IssueSteps
    BY DEF IssueSteps, RefreshSteps
  <1>5. q \in Request BY DEF Request
  <1>6. QED BY <1>3, <1>4, <1>5, QuietStep DEF history, IInv, HistoryOK

LEMMA RegisterReadStep ==
    ASSUME IInv, NEW r \in Requests, NEW u \in Users, RegisterRead(r, u)
    PROVE  IInv'
  <1> DEFINE q == [pc |-> "create", userId |-> u, token |-> Null, fresh |-> Null,
                   waits |-> TRUE]
  <1>1. q \in Request BY DEF Request, Handler
  <1>2. LocalOK(q)' BY DEF LocalOK, RefreshSteps, LogoutSteps, IssueSteps
  <1>3. q.pc \notin IssueSteps BY DEF IssueSteps
  <1>4. req' = [req EXCEPT ![r] = q] BY DEF RegisterRead, Begin
  <1> HIDE DEF q
  <1>5. QED
    BY <1>1, <1>2, <1>3, <1>4, QuietStep DEF RegisterRead, history, IInv, HistoryOK

\* A token is signed for the user of the handler r, in exchange for from; the
\* rows may change, as far as others can bear it.
LEMMA SignStep ==
    ASSUME IInv, NEW r \in Requests, NEW user \in Users, NEW from \in Tokens \cup {Null},
           NEW waits \in BOOLEAN, NEW t \in Tokens, ~Signed(t),
           sub' = [sub EXCEPT ![t] = user], parent' = [parent EXCEPT ![t] = from],
           session' = [session EXCEPT ![t] = IF from = Null THEN t ELSE session[from]],
           req' = [req EXCEPT ![r] = [pc |-> "store", userId |-> user, token |-> from,
                                      fresh |-> t, waits |-> waits]],
           active' \in [Users -> BOOLEAN \cup {Null}],
           rows' \in [Tokens -> TokenRow \cup {Null}],
           UNCHANGED <<expired, held, presented, loggedOut>>,
           \A x \in Tokens : rows'[x] # Null => rows[x] # Null /\ rows'[x].userId = rows[x].userId,
           RowsFair,
           from # Null => from \in presented /\ ~Unrevoked(from)'
    PROVE  IInv'
  <1> DEFINE q == [pc |-> "store", userId |-> user, token |-> from, fresh |-> t,
                   waits |-> waits]
  <1>1. q \in Request BY DEF Request, Handler, IssueSteps
  <1>2. q.pc = "store" /\ q.fresh = t /\ req' = [req EXCEPT ![r] = q] OBVIOUS
  <1>3. SessionsTypeOK' BY <1>1 DEF IInv, SessionsTypeOK
  <1>4. \A x \in Tokens : x # t => sub'[x] = sub[x] /\ parent'[x] = parent[x]
    BY DEF IInv, SessionsTypeOK
  <1>5. sub'[t] = user /\ parent'[t] = from BY DEF IInv, SessionsTypeOK
  <1>6. Grows BY <1>4 DEF Grows, Signed
  <1>7. t \notin held BY DEF IInv, HistoryOK
  <1>8. LocalOK(q)'
    BY <1>5, <1>7 DEF LocalOK, RefreshSteps, LogoutSteps, IssueSteps
  <1> HIDE DEF q
  <1>9. ASSUME NEW s \in Requests \ {r}, req[s].pc \in IssueSteps PROVE q.fresh # req[s].fresh
    <2>1. req[s] \in Handler /\ sub[req[s].fresh] = req[s].userId
      BY <1>9, HandlerFacts DEF LocalOK, IssueSteps
    <2>2. QED BY <1>2, <2>1, NullAssumption DEF Handler, Signed
  <1>10. \A x \in Tokens : rows'[x] # Null => rows'[x].userId = sub'[x]
    <2>1. \A x \in Tokens : rows[x] # Null => x # t
      BY NullAssumption DEF IInv, HistoryOK, SessionsTypeOK, TokenRow, Signed
    <2>2. QED BY <1>4, <2>1 DEF IInv, HistoryOK
  <1>11. \A x \in Tokens : parent'[x] \notin {parent[x], Null} =>
            parent'[x] \in presented /\ ~Unrevoked(parent[x])'
    <2> SUFFICES ASSUME NEW x \in Tokens, parent'[x] \notin {parent[x], Null}
                 PROVE  parent'[x] \in presented /\ ~Unrevoked(parent[x])'
      OBVIOUS
    <2>1. x = t BY <1>4
    <2>2. parent'[x] = from BY <1>5, <2>1
    <2>3. QED BY <2>2 DEF Unrevoked, Found
  <1>12. QED
    BY <1>1, <1>2, <1>3, <1>6, <1>8, <1>9, <1>10, <1>11, HandlerStep, ZenonT(60) DEF IInv, HistoryOK

LEMMA RegisterCreateStep ==
    ASSUME IInv, NEW r \in Requests, RegisterCreate(r)
    PROVE  IInv'
  <1> DEFINE user == req[r].userId
  <1>1. req[r] \in Handler BY HandlerFacts DEF RegisterCreate, At
  <1>2. user \in Users /\ req[r].waits \in BOOLEAN BY <1>1 DEF Handler
  <1>3. active' \in [Users -> BOOLEAN \cup {Null}]
    BY DEF RegisterCreate, IInv, SessionsTypeOK
  <1>4. PICK t \in Tokens :
          /\ ~Signed(t)
          /\ sub' = [sub EXCEPT ![t] = user]
          /\ parent' = [parent EXCEPT ![t] = Null]
          /\ session' = [session EXCEPT ![t] = IF Null = Null THEN t ELSE session[Null]]
          /\ req' = [req EXCEPT ![r] = [pc |-> "store", userId |-> user, token |-> Null,
                                        fresh |-> t, waits |-> req[r].waits]]
    BY DEF RegisterCreate, Sign
  <1>5. rows' \in [Tokens -> TokenRow \cup {Null}] /\ UNCHANGED rows
    BY DEF RegisterCreate, IInv, SessionsTypeOK
  <1>6. RowsFair
    <2>1. \A x \in presented : sub'[x] = sub[x]
      BY <1>4 DEF IInv, SessionsTypeOK, HistoryOK
    <2>2. \A x \in Tokens : Signed(x) => sub'[x] = sub[x]
      BY <1>4 DEF IInv, SessionsTypeOK
    <2>3. QED BY <1>5, <2>1, <2>2 DEF RowsFair, Unrevoked, Found
  <1>7. UNCHANGED <<expired, held, presented, loggedOut>> BY DEF RegisterCreate
  <1> HIDE DEF user
  <1>8. QED BY <1>2, <1>3, <1>4, <1>5, <1>6, <1>7, SignStep

LEMMA LoginReadStep ==
    ASSUME IInv, NEW r \in Requests, NEW u \in Users, LoginRead(r, u)
    PROVE  IInv'
  <1>1. PICK t \in Tokens :
          /\ ~Signed(t)
          /\ sub' = [sub EXCEPT ![t] = u]
          /\ parent' = [parent EXCEPT ![t] = Null]
          /\ session' = [session EXCEPT ![t] = IF Null = Null THEN t ELSE session[Null]]
          /\ req' = [req EXCEPT ![r] = [pc |-> "store", userId |-> u, token |-> Null,
                                        fresh |-> t, waits |-> TRUE]]
    BY DEF LoginRead, Sign
  <1>2. /\ active' \in [Users -> BOOLEAN \cup {Null}]
        /\ rows' \in [Tokens -> TokenRow \cup {Null}] /\ UNCHANGED rows
    BY DEF LoginRead, IInv, SessionsTypeOK
  <1>3. RowsFair
    <2>1. \A x \in Tokens : Signed(x) => sub'[x] = sub[x]
      BY <1>1 DEF IInv, SessionsTypeOK
    <2>2. \A x \in presented : x \in Tokens /\ Signed(x)
      BY DEF IInv, SessionsTypeOK, HistoryOK
    <2>3. QED BY <1>2, <2>1, <2>2 DEF RowsFair, Unrevoked, Found
  <1>4. UNCHANGED <<expired, held, presented, loggedOut>> BY DEF LoginRead
  <1>5. QED BY <1>1, <1>2, <1>3, <1>4, SignStep

LEMMA StoreStep ==
    ASSUME IInv, NEW r \in Requests, Store(r)
    PROVE  IInv'
  <1>1. PICK t \in Tokens : t = req[r].fresh
    BY HandlerFacts DEF Store, At, IssueSteps
  <1>2. /\ req[r] \in Handler /\ LocalOK(req[r]) /\ req[r].pc = "store"
        /\ t \in Tokens /\ t \notin held
        /\ sub[t] = req[r].userId /\ parent[t] = req[r].token
    BY <1>1, HandlerFacts DEF Store, At, LocalOK, IssueSteps
  <1>3. PICK q \in Request : q = [req[r] EXCEPT !.pc = "clean"]
    BY <1>2 DEF Handler, Request, IssueSteps
  <1>4. /\ q.pc = "clean" /\ q.fresh = t
        /\ q.token = req[r].token /\ q.userId = req[r].userId
    BY <1>1, <1>3, <1>2 DEF Handler
  <1>5. req' = [req EXCEPT ![r] = q] BY <1>3 DEF Store, Continue
  <1>6. /\ rows'[t] = NewRow(req[r].userId)
        /\ \A x \in Tokens : x # t => rows'[x] = rows[x]
    BY <1>1, <1>2 DEF Store, IInv, SessionsTypeOK
  <1>7. NewRow(req[r].userId) \in TokenRow BY <1>2 DEF NewRow, TokenRow, Handler
  <1>8. SessionsTypeOK'
    <2>2. rows' \in [Tokens -> TokenRow \cup {Null}]
      BY <1>7 DEF Store, IInv, SessionsTypeOK
    <2>3. req' \in [Requests -> Request] BY <1>5 DEF IInv, SessionsTypeOK
    <2>4. QED BY <2>2, <2>3 DEF Store, history, IInv, SessionsTypeOK
  <1>9. UNCHANGED <<sub, expired, held, parent, session, presented, loggedOut>> BY DEF Store, history
  <1>10. Unrevoked(t)'
    <2>1. NewRow(req[r].userId) # Null BY <1>7, RowAssumption
    <2>2. QED BY <1>2, <1>6, <1>9, <2>1 DEF Unrevoked, Found, NewRow
  <1>11. Grows BY <1>9 DEF Grows
  <1>12. RowsFair
    <2>1. t \notin presented BY <1>2 DEF IInv, HistoryOK
    <2>2. presented \subseteq Tokens BY DEF IInv, SessionsTypeOK
    <2>3. \A x \in Tokens : x # t => (Unrevoked(x)' <=> Unrevoked(x))
      BY <1>6, <1>9 DEF Unrevoked, Found
    <2>4. QED BY <1>10, <2>1, <2>2, <2>3 DEF RowsFair
  <1>13. LocalOK(q)'
    BY <1>2, <1>4, <1>9, <1>10 DEF LocalOK, RefreshSteps, LogoutSteps, IssueSteps
  <1>14. \A s \in Requests \ {r} : req[s].pc \in IssueSteps => q.fresh # req[s].fresh
    BY <1>1, <1>2, <1>4 DEF IInv, FreshDistinct, IssueSteps
  <1>15. \A x \in Tokens : rows'[x] # Null => rows'[x].userId = sub'[x]
    BY <1>2, <1>6, <1>9 DEF IInv, HistoryOK, NewRow
  <1>16. QED
    BY <1>5, <1>8, <1>9, <1>11, <1>12, <1>13, <1>14, <1>15, HandlerStep DEF IInv, HistoryOK

LEMMA CleanStep ==
    ASSUME IInv, NEW r \in Requests, Clean(r)
    PROVE  IInv'
  <1>1. PICK t \in Tokens : t = req[r].fresh
    BY HandlerFacts DEF Clean, At, IssueSteps
  <1>2. /\ req[r] \in Handler /\ LocalOK(req[r]) /\ req[r].pc = "clean"
        /\ t \in Tokens /\ t \notin held
        /\ t \in expired \/ Unrevoked(t)
    BY <1>1, HandlerFacts DEF Clean, At, LocalOK, IssueSteps
  <1>3. /\ UNCHANGED <<active, sub, expired, parent, session, presented, loggedOut>>
        /\ held' \subseteq held \cup {t} /\ held \subseteq held'
    BY <1>1 DEF Clean, history
  <1>4. \A x \in Tokens :
          rows'[x] = IF x \in Housekept(req[r].userId, t) THEN Null ELSE rows[x]
    BY <1>1 DEF Clean
  <1>5. req' = [req EXCEPT ![r] = Idle] BY DEF Clean, Answer
  <1>6. SessionsTypeOK'
    <2>1. rows' \in [Tokens -> TokenRow \cup {Null}]
      BY DEF Clean, IInv, SessionsTypeOK
    <2>2. req' \in [Requests -> Request] BY <1>5, IdleOK DEF IInv, SessionsTypeOK
    <2>3. QED BY <1>2, <1>3, <2>1, <2>2 DEF IInv, SessionsTypeOK
  <1>7. Grows BY <1>3 DEF Grows
  <1>8. RowsFair
    <2>1. \A x \in Tokens : Unrevoked(x)' => Unrevoked(x)
      BY <1>3, <1>4 DEF Unrevoked, Found
    <2>2. presented \subseteq Tokens BY DEF IInv, SessionsTypeOK
    <2>3. \A x \in Tokens \ expired : Unrevoked(x) => Unrevoked(x)'
      BY <1>3, <1>4 DEF Unrevoked, Found, Housekept
    <2>4. QED BY <2>1, <2>2, <2>3 DEF RowsFair
  <1>9. Unrevoked(t) => Unrevoked(t)'
    BY <1>2, <1>3, <1>4 DEF Unrevoked, Found, Housekept
  <1>10. LocalOK(Idle)'
    BY DEF LocalOK, Idle, RefreshSteps, LogoutSteps, IssueSteps
  <1>11. \A x \in Tokens : rows'[x] # Null => rows'[x].userId = sub'[x]
    BY <1>3, <1>4 DEF IInv, HistoryOK
  <1>12. \A x \in held' \ held :
            req[r].pc = "clean" /\ x = req[r].fresh /\ (x \in expired' \/ Unrevoked(x)')
    BY <1>1, <1>2, <1>3, <1>9
  <1>13. Idle.pc \notin IssueSteps BY DEF Idle, IssueSteps
  <1>14. QED
    BY <1>3, <1>5, <1>6, <1>7, <1>8, <1>10, <1>11, <1>12, <1>13, IdleOK, HandlerStep
       DEF IInv, HistoryOK

LEMMA RefreshStartStep ==
    ASSUME IInv, NEW r \in Requests, NEW t \in Tokens, RefreshStart(r, t)
    PROVE  IInv'
  <1>1. t \in held /\ sub[t] \in Users
    BY DEF RefreshStart, IInv, HistoryOK, SessionsTypeOK, Signed
  <1>2. PICK q \in Request :
          q = [pc |-> "find", userId |-> sub[t], token |-> t, fresh |-> Null, waits |-> TRUE]
    BY <1>1 DEF Request, Handler, RefreshSteps
  <1>3. req' = [req EXCEPT ![r] = q] BY <1>2 DEF RefreshStart, Begin
  <1>4. LocalOK(q)'
    BY <1>1, <1>2 DEF RefreshStart, LocalOK, RefreshSteps, LogoutSteps, IssueSteps
  <1>5. q.pc \notin IssueSteps BY <1>2 DEF IssueSteps
  <1>6. QED
    BY <1>1, <1>3, <1>4, <1>5, QuietStep DEF RefreshStart, IInv, HistoryOK

LEMMA RefreshFindStep ==
    ASSUME IInv, NEW r \in Requests, RefreshFind(r) \/ RefreshUser(r)
    PROVE  IInv'
  <1>1. req[r] \in Handler /\ req[r].pc \in RefreshSteps /\ req[r].pc # "idle"
    BY HandlerFacts DEF RefreshFind, RefreshUser, At, RefreshSteps
  <1>2. UNCHANGED <<active, rows, sub, expired, held, history>>
    BY DEF RefreshFind, RefreshUser
  <1>3. CASE Answer(r) BY <1>2, <1>3, AnswerStep
  <1>4. ASSUME NEW step \in {"expire", "user", "revoke"}, Continue(r, step) PROVE IInv'
    <2>1. PICK q \in Handler : q = [req[r] EXCEPT !.pc = step]
      BY <1>1 DEF Handler, RefreshSteps
    <2>2. /\ q.pc = step /\ q.userId = req[r].userId /\ q.token = req[r].token
          /\ q.fresh = req[r].fresh
      BY <1>1, <2>1 DEF Handler
    <2>3. req' = [req EXCEPT ![r] = q] BY <1>4, <2>1 DEF Continue
    <2>4. QED BY <1>1, <1>2, <2>2, <2>3, ContinueStep
  <1>5. QED BY <1>3, <1>4 DEF RefreshFind, RefreshUser

\* Revoking a presented token ends it and touches no other.
LEMMA RevokeFair ==
    ASSUME IInv, NEW t \in presented, Revoke(t),
           \A x \in Tokens : Signed(x) => sub'[x] = sub[x]
    PROVE  /\ rows' \in [Tokens -> TokenRow \cup {Null}]
           /\ \A x \in Tokens : rows'[x] # Null => rows[x] # Null /\ rows'[x].userId = rows[x].userId
           /\ RowsFair
           /\ ~Unrevoked(t)'
  <1>1. t \in Tokens /\ rows \in [Tokens -> TokenRow \cup {Null}] /\ presented \subseteq Tokens
    BY DEF IInv, SessionsTypeOK
  <1>2. \A x \in presented : Signed(x) BY DEF IInv, HistoryOK
  <1>3. CASE rows[t] = Null
    <2>1. rows' = rows BY <1>3 DEF Revoke
    <2>2. RowsFair BY <1>1, <1>2, <2>1 DEF RowsFair, Unrevoked, Found
    <2>3. ~Unrevoked(t)' BY <1>3, <2>1 DEF Unrevoked, Found
    <2>4. QED BY <1>1, <2>1, <2>2, <2>3
  <1>4. CASE rows[t] # Null
    <2>1. rows' = [rows EXCEPT ![t].revoked = TRUE] BY <1>4 DEF Revoke
    <2>2. rows[t] \in TokenRow BY <1>1, <1>4
    <2>3. PICK row \in TokenRow :
            row.revoked = TRUE /\ row.userId = rows[t].userId /\ rows' = [rows EXCEPT ![t] = row]
      BY <2>1, <2>2 DEF TokenRow
    <2>4. rows'[t] = row /\ \A x \in Tokens : x # t => rows'[x] = rows[x]
      BY <1>1, <2>3
    <2>5. rows' \in [Tokens -> TokenRow \cup {Null}] BY <1>1, <2>3
    <2>6. ~Unrevoked(t)' BY <2>3, <2>4 DEF Unrevoked, Found
    <2>7. RowsFair BY <1>1, <1>2, <2>4, <2>6 DEF RowsFair, Unrevoked, Found
    <2>8. QED BY <1>4, <2>3, <2>4, <2>5, <2>6, <2>7
  <1>5. QED BY <1>3, <1>4

LEMMA RefreshRevokeStep ==
    ASSUME IInv, NEW r \in Requests, RefreshRevoke(r)
    PROVE  IInv'
  <1>1. PICK from \in Tokens : from = req[r].token
    BY HandlerFacts DEF RefreshRevoke, At, RefreshSteps
  <1>2. req[r] \in Handler /\ from \in presented
    BY <1>1, HandlerFacts DEF RefreshRevoke, At, LocalOK, RefreshSteps
  <1>3. PICK user \in Users, waits \in BOOLEAN : user = req[r].userId /\ waits = req[r].waits
    BY <1>2 DEF Handler
  <1>4. PICK t \in Tokens :
          /\ ~Signed(t)
          /\ sub' = [sub EXCEPT ![t] = user]
          /\ parent' = [parent EXCEPT ![t] = from]
          /\ session' = [session EXCEPT ![t] = IF from = Null THEN t ELSE session[from]]
          /\ req' = [req EXCEPT ![r] = [pc |-> "store", userId |-> user, token |-> from,
                                        fresh |-> t, waits |-> waits]]
    BY <1>1, <1>3 DEF RefreshRevoke, Sign
  <1>5. \A x \in Tokens : Signed(x) => sub'[x] = sub[x]
    BY <1>4 DEF IInv, SessionsTypeOK
  <1>6. Revoke(from) BY <1>1 DEF RefreshRevoke
  <1>7. /\ rows' \in [Tokens -> TokenRow \cup {Null}]
        /\ \A x \in Tokens : rows'[x] # Null => rows[x] # Null /\ rows'[x].userId = rows[x].userId
        /\ RowsFair /\ ~Unrevoked(from)'
    BY <1>2, <1>5, <1>6, RevokeFair
  <1>8. active' \in [Users -> BOOLEAN \cup {Null}]
    BY DEF RefreshRevoke, IInv, SessionsTypeOK
  <1>9. UNCHANGED <<expired, held, presented, loggedOut>> BY DEF RefreshRevoke
  <1>10. QED BY <1>2, <1>4, <1>7, <1>8, <1>9, SignStep

\* A handler revokes the token presented to it, and answers.
LEMMA EndStep ==
    ASSUME IInv, NEW r \in Requests, NEW t \in presented, Revoke(t), Answer(r),
           loggedOut \subseteq loggedOut', loggedOut' \subseteq loggedOut \cup {t},
           UNCHANGED <<active, sub, expired, held, parent, session, presented>>
    PROVE  IInv'
  <1>1. /\ rows' \in [Tokens -> TokenRow \cup {Null}]
        /\ \A x \in Tokens : rows'[x] # Null => rows[x] # Null /\ rows'[x].userId = rows[x].userId
        /\ RowsFair /\ ~Unrevoked(t)'
    BY RevokeFair
  <1>2. SessionsTypeOK' BY <1>1, IdleOK DEF IInv, SessionsTypeOK, Answer
  <1>3. Grows BY DEF Grows
  <1>4. LocalOK(Idle)' /\ Idle.pc \notin IssueSteps
    BY DEF LocalOK, Idle, RefreshSteps, LogoutSteps, IssueSteps
  <1>5. \A x \in Tokens : rows'[x] # Null => rows'[x].userId = sub'[x]
    BY <1>1 DEF IInv, HistoryOK
  <1>6. QED
    BY <1>1, <1>2, <1>3, <1>4, <1>5, IdleOK, HandlerStep DEF Answer, IInv, HistoryOK

LEMMA RefreshExpireStep ==
    ASSUME IInv, NEW r \in Requests, RefreshExpire(r)
    PROVE  IInv'
  <1>1. PICK t \in Tokens : t = req[r].token
    BY HandlerFacts DEF RefreshExpire, At, RefreshSteps
  <1>2. t \in presented
    BY <1>1, HandlerFacts DEF RefreshExpire, At, LocalOK, RefreshSteps
  <1>3. QED BY <1>1, <1>2, EndStep DEF RefreshExpire, history

LEMMA LogoutStartStep ==
    ASSUME IInv, NEW r \in Requests, NEW u \in Users, NEW t \in Tokens, LogoutStart(r, u, t)
    PROVE  IInv'
  <1>1. PICK q \in Request :
          q = [pc |-> "logoutFind", userId |-> u, token |-> t, fresh |-> Null, waits |-> TRUE]
    BY DEF Request, Handler, LogoutSteps
  <1>2. req' = [req EXCEPT ![r] = q] BY <1>1 DEF LogoutStart, Begin
  <1>3. LocalOK(q)'
    BY <1>1 DEF LogoutStart, LocalOK, RefreshSteps, LogoutSteps, IssueSteps
  <1>4. q.pc \notin IssueSteps BY <1>1 DEF IssueSteps
  <1>5. /\ presented \subseteq presented' /\ presented' \subseteq held
        /\ UNCHANGED <<active, rows, sub, expired, held, parent, session, loggedOut>>
    BY DEF LogoutStart, IInv, HistoryOK
  <1>6. QED BY <1>2, <1>3, <1>4, <1>5, QuietStep DEF IInv, HistoryOK

LEMMA LogoutFindStep ==
    ASSUME IInv, NEW r \in Requests, LogoutFind(r)
    PROVE  IInv'
  <1>1. PICK t \in Tokens : t = req[r].token
    BY HandlerFacts DEF LogoutFind, At, LogoutSteps
  <1>2. /\ req[r] \in Handler /\ req[r].pc = "logoutFind"
        /\ sub[t] = req[r].userId => t \in presented
    BY <1>1, HandlerFacts DEF LogoutFind, At, LocalOK, LogoutSteps
  <1>3. CASE Found(req[r].userId, t)
    <2>1. sub[t] = req[r].userId BY <1>3 DEF Found, IInv, HistoryOK
    <2>2. PICK q \in Handler : q = [req[r] EXCEPT !.pc = "logoutRevoke"]
      BY <1>2 DEF Handler, LogoutSteps
    <2>3. /\ q.pc = "logoutRevoke" /\ q.userId = req[r].userId /\ q.token = req[r].token
          /\ q.fresh = req[r].fresh
      BY <1>2, <2>2 DEF Handler
    <2>4. req' = [req EXCEPT ![r] = q]
      BY <1>1, <1>3, <2>2 DEF LogoutFind, Continue
    <2>5. UNCHANGED <<active, rows, sub, expired, held, history>>
      BY <1>1, <1>3 DEF LogoutFind, history
    <2>6. QED BY <1>1, <1>2, <2>1, <2>3, <2>4, <2>5, ContinueStep
  <1>4. CASE ~Found(req[r].userId, t)
    <2>1. LoggedOut(r) /\ UNCHANGED <<active, rows, sub, expired, held, parent, session, presented>>
      BY <1>1, <1>4 DEF LogoutFind
    <2>2. /\ loggedOut \subseteq loggedOut' /\ loggedOut' \subseteq presented'
          /\ \A x \in loggedOut' \ loggedOut : ~Unrevoked(x)
      BY <1>1, <1>2, <1>4, <2>1 DEF LoggedOut, Unrevoked, IInv, HistoryOK
    <2>3. LocalOK(Idle)' /\ Idle.pc \notin IssueSteps
      BY DEF LocalOK, Idle, RefreshSteps, LogoutSteps, IssueSteps
    <2>4. QED
      BY <2>1, <2>2, <2>3, IdleOK, QuietStep DEF LoggedOut, Answer, IInv, HistoryOK
  <1>5. QED BY <1>3, <1>4

LEMMA LogoutRevokeStep ==
    ASSUME IInv, NEW r \in Requests, LogoutRevoke(r)
    PROVE  IInv'
  <1>1. PICK t \in Tokens : t = req[r].token
    BY HandlerFacts DEF LogoutRevoke, At, LogoutSteps
  <1>2. t \in presented
    BY <1>1, HandlerFacts DEF LogoutRevoke, At, LocalOK, LogoutSteps
  <1>3. Answer(r) /\ loggedOut \subseteq loggedOut' /\ loggedOut' \subseteq loggedOut \cup {t}
    BY <1>1 DEF LogoutRevoke, LoggedOut
  <1>4. QED BY <1>1, <1>2, <1>3, EndStep DEF LogoutRevoke

LEMMA HangUpStep ==
    ASSUME IInv, NEW r \in Requests, HangUp(r)
    PROVE  IInv'
  <1>1. req[r] \in Handler /\ req[r].pc # "idle" BY HandlerFacts DEF HangUp, At
  <1>2. PICK q \in Handler : q = [req[r] EXCEPT !.waits = FALSE]
    BY <1>1 DEF Handler
  <1>3. /\ q.pc = req[r].pc /\ q.userId = req[r].userId /\ q.token = req[r].token
        /\ q.fresh = req[r].fresh
    BY <1>1, <1>2 DEF Handler
  <1>4. req' = [req EXCEPT ![r] = q] BY <1>2 DEF HangUp
  <1>5. QED BY <1>1, <1>3, <1>4, ContinueStep DEF HangUp

\* Time passes, or a user is activated or deactivated: no handler moves.
LEMMA ElsewhereStep ==
    ASSUME IInv, expired \subseteq expired', expired' \subseteq Tokens,
           active' \in [Users -> BOOLEAN \cup {Null}],
           UNCHANGED <<rows, sub, req, held, history>>
    PROVE  IInv'
  <1>1. SessionsTypeOK' BY DEF IInv, SessionsTypeOK, history
  <1>2. LocalsOK' BY DEF IInv, LocalsOK, LocalOK, Unrevoked, Found, history
  <1>3. FreshDistinct' /\ HistoryOK'
    BY DEF IInv, FreshDistinct, HistoryOK, Signed, history
  <1>4. ParentsDead' /\ LoggedOutDead' /\ UnpresentedLives'
    BY DEF IInv, ParentsDead, LoggedOutDead, UnpresentedLives, Live, Unrevoked, Found, history
  <1>5. QED BY <1>1, <1>2, <1>3, <1>4 DEF IInv

LEMMA NextStep == IInv /\ [Next]_vars => IInv'
  <1> SUFFICES ASSUME IInv, [Next]_vars PROVE IInv'
    OBVIOUS
  <1>1. ASSUME NEW r \in Requests, Arrive(r) PROVE IInv'
    BY <1>1, RegisterReadStep, LoginReadStep, RefreshStartStep, LogoutStartStep DEF Arrive
  <1>2. ASSUME NEW r \in Requests, Fail(r) \/ RegisterRejected(r) \/ RefreshGone(r) PROVE IInv'
    BY <1>2, AnswerStep DEF Fail, RegisterRejected, RefreshGone
  <1>3. ASSUME NEW r \in Requests, Proceed(r) PROVE IInv'
    BY <1>2, <1>3, RegisterCreateStep, StoreStep, CleanStep, RefreshFindStep, RefreshExpireStep,
       RefreshRevokeStep, LogoutFindStep, LogoutRevokeStep DEF Proceed
  <1>4. ASSUME NEW r \in Requests, HangUp(r) PROVE IInv' BY <1>4, HangUpStep
  <1>5. ASSUME NEW u \in Users, SetActive(u) PROVE IInv'
    <2>1. active' \in [Users -> BOOLEAN \cup {Null}]
      BY <1>5 DEF SetActive, IInv, SessionsTypeOK
    <2>2. QED BY <1>5, <2>1, ElsewhereStep DEF SetActive, IInv, SessionsTypeOK
  <1>6. ASSUME NEW t \in Tokens, Expire(t) PROVE IInv'
    BY <1>6, ElsewhereStep DEF Expire, IInv, SessionsTypeOK
  <1>7. CASE UNCHANGED vars
    BY <1>7, ElsewhereStep DEF vars, history, IInv, SessionsTypeOK
  <1>8. QED BY <1>1, <1>2, <1>3, <1>4, <1>5, <1>6, <1>7 DEF Next

LEMMA InitIInv == Init => IInv
  BY IdleOK
     DEF Init, IInv, SessionsTypeOK, LocalsOK, LocalOK, FreshDistinct, HistoryOK, ParentsDead,
         LoggedOutDead, UnpresentedLives, Idle, RefreshSteps, LogoutSteps, IssueSteps

LEMMA Inductive == Spec => []IInv
  BY InitIInv, NextStep, PTL DEF Spec

\* Tables and handlers stay well-formed: no write hits a token without a row.
THEOREM SessionsTyped == Spec => []SessionsTypeOK
  BY Inductive, PTL DEF IInv

\* A token received and never presented works until it expires, for any number
\* of users, sessions and overlapping requests, failures included.
THEOREM SessionsApart == Spec => []UnpresentedLives
  BY Inductive, PTL DEF IInv

\* A token that was logged out never works again.
THEOREM LogoutIsFinal == Spec => []LoggedOutIsDead
  <1>1. IInv => LoggedOutIsDead BY DEF IInv, LoggedOutDead, LoggedOutIsDead, Live, Unrevoked
  <1>2. QED BY <1>1, Inductive, PTL

\* A token that was exchanged for another never works again.
THEOREM RotationSpends == Spec => []RotatedIsDead
  <1>1. IInv => RotatedIsDead
    BY DEF IInv, SessionsTypeOK, ParentsDead, RotatedIsDead, Live, Unrevoked
  <1>2. QED BY <1>1, Inductive, PTL

-----------------------------------------------------------------------------
(***************************************************************************)
(* Refreshes on their way, and clients with one refresh a token in flight. *)
(***************************************************************************)
\* The refresh with locals q has found its token live.
Going(q) == q.pc \in {"user", "revoke"} \cup IssueSteps /\ q.token # Null

\* If its client waits, the token of such a refresh has no successor yet.
GoingOK ==
    \A r \in Requests : Going(req[r]) /\ req[r].waits =>
        \A t \in held : parent[t] # req[r].token

PatientInv == IInv /\ OneRefreshes /\ GoingOK /\ OneSuccessor

\* How a token gets to a client, how one is signed, and how refreshes start going.
Brings(s, t) ==
    /\ At(s, "clean") /\ req[s].waits /\ t = req[s].fresh /\ parent[t] = req[s].token
    /\ req'[s] = Idle

SignedFor(t) ==
    \/ parent'[t] \in {parent[t], Null}
    \/ \E s \in Requests : At(s, "revoke") /\ parent'[t] = req[s].token

GoesOn(q, p) ==
    /\ p.token = q.token /\ (p.waits => q.waits)
    /\ \/ Going(q)
       \/ q.pc = "find" /\ Found(q.userId, q.token)

StepFacts ==
    /\ \A t \in held : parent'[t] = parent[t]
    /\ \A t \in Tokens : SignedFor(t)
    /\ \A t \in held' \ held : parent'[t] = parent[t] /\ \E s \in Requests : Brings(s, t)
    /\ loggedOut \subseteq loggedOut'
    /\ \A r \in Requests : Going(req'[r]) => GoesOn(req[r], req'[r])

\* A step of the handler r that brings nothing.
LEMMA PlainFacts ==
    ASSUME IInv, NEW r \in Requests, NEW q, req' = [req EXCEPT ![r] = q],
           \A t \in held : parent'[t] = parent[t], \A t \in Tokens : SignedFor(t),
           held' = held, loggedOut \subseteq loggedOut', Going(q) => GoesOn(req[r], q)
    PROVE  StepFacts
  <1>1. \A s \in Requests : req'[s] = IF s = r THEN q ELSE req[s]
    BY DEF IInv, SessionsTypeOK
  <1>2. ASSUME NEW s \in Requests, Going(req'[s]) PROVE GoesOn(req[s], req'[s])
    <2>1. CASE s = r BY <1>1, <1>2, <2>1
    <2>2. CASE s # r
      <3>1. req'[s] = req[s] BY <1>1, <2>2
      <3>2. QED BY <1>2, <3>1 DEF GoesOn
    <2>3. QED BY <2>1, <2>2
  <1>3. QED BY <1>2 DEF StepFacts

LEMMA IdleFacts ==
    ASSUME IInv, NEW r \in Requests, Answer(r), UNCHANGED <<parent, held, loggedOut>>
    PROVE  StepFacts
  <1>1. ~Going(Idle) BY DEF Going, Idle, IssueSteps
  <1>2. \A t \in Tokens : SignedFor(t) BY DEF SignedFor
  <1>3. QED BY <1>1, <1>2, PlainFacts DEF Answer

\* A handler that begins, signs, waits for its next answer or loses its client.
LEMMA MoveFacts ==
    ASSUME IInv, NEW r \in Requests,
           \/ Arrive(r) \/ RegisterCreate(r) \/ Store(r)
           \/ RefreshFind(r) \/ RefreshUser(r) \/ RefreshRevoke(r) \/ HangUp(r)
    PROVE  StepFacts
  <1>1. \A t \in held : Signed(t) BY DEF IInv, HistoryOK
  <1>2. req \in [Requests -> Request] BY DEF IInv, SessionsTypeOK
  <1>3. ASSUME NEW step, NEW u, NEW t, Begin(r, step, u, t), step \notin {"user", "revoke"},
               step \notin IssueSteps, UNCHANGED <<held, parent, session, loggedOut>>
        PROVE  StepFacts
    <2> DEFINE q == [pc |-> step, userId |-> u, token |-> t, fresh |-> Null, waits |-> TRUE]
    <2>1. req' = [req EXCEPT ![r] = q] BY <1>3 DEF Begin
    <2>2. ~Going(q) BY <1>3 DEF Going
    <2>3. \A x \in Tokens : SignedFor(x) BY <1>3 DEF SignedFor
    <2> HIDE DEF q
    <2>4. QED BY <1>3, <2>1, <2>2, <2>3, PlainFacts
  <1>4. ASSUME NEW u, NEW from, NEW waits, Sign(r, u, from, waits), UNCHANGED <<held, loggedOut>>,
               from # Null => At(r, "revoke") /\ waits = req[r].waits /\ from = req[r].token
        PROVE  StepFacts
    <2>1. PICK t \in Tokens :
            /\ ~Signed(t)
            /\ parent' = [parent EXCEPT ![t] = from]
            /\ req' = [req EXCEPT ![r] = [pc |-> "store", userId |-> u, token |-> from,
                                          fresh |-> t, waits |-> waits]]
      BY <1>4 DEF Sign
    <2>2. \A x \in held : parent'[x] = parent[x]
      BY <1>1, <2>1 DEF IInv, SessionsTypeOK
    <2> DEFINE q == [pc |-> "store", userId |-> u, token |-> from, fresh |-> t, waits |-> waits]
    <2>3. Going(q) => GoesOn(req[r], q)
      BY <1>4 DEF Going, GoesOn, At
    <2>4. req' = [req EXCEPT ![r] = q] BY <2>1
    <2>5. \A x \in Tokens : SignedFor(x)
      BY <1>4, <2>1 DEF SignedFor, IInv, SessionsTypeOK
    <2> HIDE DEF q
    <2>6. QED BY <1>4, <2>2, <2>3, <2>4, <2>5, PlainFacts
  <1>5. ASSUME NEW step, Continue(r, step), req[r].pc # "idle",
               UNCHANGED <<held, parent, session, loggedOut>>,
               \/ req[r].pc \in {"user", "store"}
               \/ req[r].pc = "find" /\ Found(req[r].userId, req[r].token)
        PROVE  StepFacts
    <2>1. req[r] \in Handler BY <1>5, HandlerFacts
    <2>2. PICK q : q = [req[r] EXCEPT !.pc = step] OBVIOUS
    <2>3. q.token = req[r].token /\ q.waits = req[r].waits
      BY <2>1, <2>2 DEF Handler
    <2>4. Going(q) => GoesOn(req[r], q)
      BY <1>5, <2>3 DEF Going, GoesOn, IssueSteps
    <2>5. req' = [req EXCEPT ![r] = q] BY <1>5, <2>2 DEF Continue
    <2>6. \A x \in Tokens : SignedFor(x) BY <1>5 DEF SignedFor
    <2>7. QED BY <1>5, <2>4, <2>5, <2>6, PlainFacts
  <1>6. CASE Arrive(r)
    <2>1. CASE \E u \in Users : RegisterRead(r, u)
      BY <1>3, <2>1 DEF RegisterRead, history, IssueSteps
    <2>2. CASE \E u \in Users : LoginRead(r, u)
      BY <1>4, <2>2 DEF LoginRead
    <2>3. CASE \E t \in Tokens : RefreshStart(r, t)
      BY <1>3, <2>3 DEF RefreshStart, IssueSteps
    <2>4. CASE \E u \in Users, t \in Tokens : LogoutStart(r, u, t)
      BY <1>3, <2>4 DEF LogoutStart, IssueSteps
    <2>5. QED BY <1>6, <2>1, <2>2, <2>3, <2>4 DEF Arrive
  <1>7. CASE RegisterCreate(r) BY <1>4, <1>7 DEF RegisterCreate
  <1>8. CASE RefreshRevoke(r) BY <1>4, <1>8 DEF RefreshRevoke
  <1>9. CASE Store(r) BY <1>5, <1>9 DEF Store, At, history
  <1>10. CASE RefreshFind(r)
    BY <1>5, <1>10, IdleFacts DEF RefreshFind, At, history
  <1>11. CASE RefreshUser(r)
    BY <1>5, <1>11, IdleFacts DEF RefreshUser, At, history
  <1>12. CASE HangUp(r)
    <2>1. req[r] \in Handler BY <1>12, HandlerFacts DEF HangUp, At
    <2>2. PICK q : q = [req[r] EXCEPT !.waits = FALSE] OBVIOUS
    <2>3. q.pc = req[r].pc /\ q.token = req[r].token /\ ~q.waits
      BY <2>1, <2>2 DEF Handler
    <2>4. Going(q) => GoesOn(req[r], q) BY <2>3 DEF Going, GoesOn
    <2>5. req' = [req EXCEPT ![r] = q] BY <1>12, <2>2 DEF HangUp
    <2>6. \A x \in Tokens : SignedFor(x) BY <1>12 DEF HangUp, history, SignedFor
    <2>7. QED BY <1>12, <2>4, <2>5, <2>6, PlainFacts DEF HangUp, history
  <1>13. QED BY <1>6, <1>7, <1>8, <1>9, <1>10, <1>11, <1>12

LEMMA LogoutFacts ==
    ASSUME IInv, NEW r \in Requests, LogoutFind(r) \/ LogoutRevoke(r)
    PROVE  StepFacts
  <1>1. req[r].pc \in LogoutSteps /\ ~At(r, "idle")
    BY DEF LogoutFind, LogoutRevoke, At, LogoutSteps
  <1>2. PICK q : req' = [req EXCEPT ![r] = q] /\ ~Going(q)
    <2>1. CASE Answer(r)
      <3>1. ~Going(Idle) BY DEF Going, Idle, IssueSteps
      <3>2. QED BY <2>1, <3>1 DEF Answer
    <2>2. CASE Continue(r, "logoutRevoke")
      <3>1. req[r] \in Handler BY <1>1, HandlerFacts DEF At
      <3>2. PICK p : p = [req[r] EXCEPT !.pc = "logoutRevoke"] OBVIOUS
      <3>3. ~Going(p) BY <3>1, <3>2 DEF Going, Handler, IssueSteps
      <3>4. QED BY <2>2, <3>2, <3>3 DEF Continue
    <2>3. QED BY <2>1, <2>2 DEF LogoutFind, LogoutRevoke, LoggedOut
  <1>3. UNCHANGED <<held, parent>> BY DEF LogoutFind, LogoutRevoke
  <1>4. loggedOut \subseteq loggedOut' BY DEF LogoutFind, LogoutRevoke, LoggedOut
  <1>5. \A t \in Tokens : SignedFor(t) BY <1>3 DEF SignedFor
  <1>6. QED BY <1>2, <1>3, <1>4, <1>5, PlainFacts

LEMMA CleanFacts ==
    ASSUME IInv, NEW r \in Requests, Clean(r)
    PROVE  StepFacts
  <1>1. LocalOK(req[r]) /\ req[r].pc = "clean"
    BY HandlerFacts DEF Clean, At
  <1>2. req' = [req EXCEPT ![r] = Idle] /\ UNCHANGED <<parent, loggedOut>>
    BY DEF Clean, Answer, history
  <1>3. \A s \in Requests : req'[s] = IF s = r THEN Idle ELSE req[s]
    BY <1>2 DEF IInv, SessionsTypeOK
  <1>4. \A t \in held' \ held : Brings(r, t)
    BY <1>1, <1>3 DEF Clean, Brings, At, LocalOK, IssueSteps
  <1>5. ~Going(Idle) BY DEF Going, Idle, IssueSteps
  <1>6. \A s \in Requests : Going(req'[s]) => GoesOn(req[s], req'[s])
    BY <1>3, <1>5 DEF GoesOn
  <1>7. \A t \in Tokens : SignedFor(t) BY <1>2 DEF SignedFor
  <1>8. QED BY <1>2, <1>4, <1>6, <1>7 DEF StepFacts

LEMMA NextFacts ==
    ASSUME IInv, [Next]_vars
    PROVE  StepFacts
  <1>1. ASSUME UNCHANGED <<req, held, parent, session, loggedOut>> PROVE StepFacts
    BY <1>1 DEF StepFacts, GoesOn, SignedFor
  <1>2. ASSUME NEW r \in Requests,
               \/ Fail(r) \/ RegisterRejected(r) \/ RefreshGone(r) \/ RefreshExpire(r)
        PROVE  StepFacts
    BY <1>2, IdleFacts DEF Fail, RegisterRejected, RefreshGone, RefreshExpire, history
  <1>3. ASSUME NEW r \in Requests, Proceed(r) PROVE StepFacts
    BY <1>2, <1>3, MoveFacts, CleanFacts, LogoutFacts DEF Proceed
  <1>4. ASSUME NEW r \in Requests, Arrive(r) \/ HangUp(r) PROVE StepFacts
    BY <1>4, MoveFacts
  <1>5. ASSUME NEW u \in Users, SetActive(u) PROVE StepFacts
    BY <1>1, <1>5 DEF SetActive, history
  <1>6. ASSUME NEW t \in Tokens, Expire(t) PROVE StepFacts
    BY <1>1, <1>6 DEF Expire, history
  <1>7. CASE UNCHANGED vars BY <1>1, <1>7 DEF vars
  <1>8. QED BY <1>2, <1>3, <1>4, <1>5, <1>6, <1>7 DEF Next

\* The refresh that is going after a step, and what has become of its token.
LEMMA GoingFacts ==
    ASSUME IInv, StepFacts, NEW r \in Requests, Going(req'[r])
    PROVE  /\ req'[r].token = req[r].token /\ req'[r].pc # "idle"
           /\ req[r].token \in Tokens
           /\ req[r].pc \in RefreshSteps \cup IssueSteps
           /\ req'[r].waits => req[r].waits
           /\ \/ Going(req[r])
              \/ Unrevoked(req[r].token)
  <1>1. GoesOn(req[r], req'[r]) BY DEF StepFacts
  <1>2. /\ req'[r].token = req[r].token /\ req[r].token # Null
        /\ req'[r].waits => req[r].waits
        /\ req[r].pc \in {"find", "user", "revoke"} \cup IssueSteps
    BY <1>1 DEF GoesOn, Going
  <1>3. /\ req[r].pc # "idle" /\ req[r].pc \in RefreshSteps \cup IssueSteps
        /\ req'[r].pc # "idle"
    BY <1>2 DEF Going, IssueSteps, RefreshSteps
  <1>4. req[r] \in Handler /\ LocalOK(req[r]) BY <1>3, HandlerFacts
  <1>5. req[r].token \in Tokens BY <1>2, <1>4 DEF Handler
  <1>6. ASSUME req[r].pc = "find", Found(req[r].userId, req[r].token)
        PROVE  Unrevoked(req[r].token)
    BY <1>4, <1>6 DEF LocalOK, RefreshSteps, Unrevoked
  <1>7. QED BY <1>1, <1>2, <1>3, <1>5, <1>6 DEF GoesOn

\* The refresh that brings the successor of a token was going.
LEMMA BringsFacts ==
    ASSUME IInv, NEW s \in Requests, NEW t, Brings(s, t), parent[t] # Null
    PROVE  /\ Going(req[s]) /\ req[s].waits /\ req[s].token = parent[t]
           /\ parent[t] \in Tokens /\ Refreshes(s, parent[t])
  <1>1. /\ req[s].pc = "clean" /\ req[s].waits /\ parent[t] = req[s].token
    BY DEF Brings, At
  <1>2. req[s] \in Handler BY <1>1, HandlerFacts
  <1>3. Going(req[s]) /\ Refreshes(s, parent[t]) BY <1>1 DEF Going, IssueSteps, Refreshes
  <1>4. QED BY <1>1, <1>2, <1>3 DEF Handler

\* Nothing is exchanged for the token of a settled logout.
LEMMA SettledStep ==
    ASSUME IInv, [Next]_vars, NEW t \in Tokens, LogoutSettled(t)
    PROVE  /\ LogoutSettled(t)'
           /\ \A s \in Tokens : parent'[s] = t => parent[s] = t
           /\ \A s \in held' \ held : parent[s] # t
  <1>1. StepFacts BY NextFacts
  <1>2. ~Unrevoked(t) BY DEF LogoutSettled, IInv, LoggedOutDead
  <1>3. \A r \in Requests : Going(req[r]) => req[r].token # t
    BY DEF LogoutSettled, Going
  <1>4. ASSUME NEW r \in Requests, req'[r].pc \in {"user", "revoke"} \cup IssueSteps,
               req'[r].token = t
        PROVE  FALSE
    <2>1. Going(req'[r]) BY <1>4, NullAssumption DEF Going
    <2>2. QED BY <1>1, <1>2, <1>3, <1>4, <2>1, GoingFacts
  <1>5. LogoutSettled(t)' BY <1>1, <1>4 DEF LogoutSettled, StepFacts
  <1>6. ASSUME NEW s \in Tokens, parent'[s] = t PROVE parent[s] = t
    BY <1>1, <1>6, NullAssumption DEF StepFacts, SignedFor, LogoutSettled, At
  <1>7. ASSUME NEW s \in held' \ held, parent[s] = t PROVE FALSE
    <2>1. PICK r \in Requests : Brings(r, s) BY <1>1, <1>7 DEF StepFacts
    <2>2. QED BY <1>3, <1>7, <2>1, BringsFacts, NullAssumption
  <1>8. QED BY <1>5, <1>6, <1>7

\* A logout is final once the refreshes that had found its token have ended,
\* whatever the clients do: no token is signed or delivered in exchange for it.
THEOREM LogoutStays == Spec => LogoutSettles
  <1> DEFINE Final == \A t \in Tokens : LogoutSettled(t) =>
               /\ LogoutSettled(t)'
               /\ \A s \in Tokens : parent'[s] = t => parent[s] = t
               /\ \A s \in held' \ held : parent[s] # t
  <1>1. IInv /\ [Next]_vars => [Final]_vars BY SettledStep
  <1>2. QED BY <1>1, Inductive, PTL DEF Spec, LogoutSettles

LEMMA PatientStep == PatientInv /\ [PatientNext]_vars => PatientInv'
  <1> SUFFICES ASSUME PatientInv, [PatientNext]_vars PROVE PatientInv'
    OBVIOUS
  <1>1. IInv /\ IInv' BY NextStep DEF PatientInv, PatientNext
  <1>2. StepFacts BY NextFacts DEF PatientInv, PatientNext
  <1>3. OneRefreshes'
    BY DEF PatientInv, PatientNext, OneRefreshes, Refreshes, vars
  <1>4. GoingOK'
    <2> SUFFICES ASSUME NEW r \in Requests, Going(req'[r]), req'[r].waits
                 PROVE  \A t \in held' : parent'[t] # req'[r].token
      BY DEF GoingOK, Going
    <2>1. PICK k \in Tokens : k = req[r].token BY <1>1, <1>2, GoingFacts
    <2>2. /\ req'[r].token = k /\ Refreshes(r, k) /\ k # Null /\ req'[r].pc # "idle"
          /\ (Going(req[r]) /\ req[r].waits) \/ Unrevoked(k)
      BY <1>1, <1>2, <2>1, GoingFacts, NullAssumption DEF Refreshes
    <2>3. \A t \in held : parent[t] # k
      <3>1. held \subseteq Tokens BY <1>1 DEF IInv, SessionsTypeOK
      <3>2. QED
        BY <1>1, <2>1, <2>2, <3>1 DEF PatientInv, GoingOK, IInv, ParentsDead
    <2>4. ASSUME NEW t \in held' \ held, parent[t] = k PROVE FALSE
      <3>1. PICK s \in Requests : Brings(s, t) BY <1>2 DEF StepFacts
      <3>2. Refreshes(s, k) BY <1>1, <2>2, <2>4, <3>1, BringsFacts
      <3>3. s = r BY <2>2, <3>2 DEF PatientInv, OneRefreshes
      <3>4. QED BY <2>2, <3>1, <3>3 DEF Brings, Idle
    <2>5. QED BY <1>2, <2>2, <2>3, <2>4 DEF StepFacts
  <1>5. OneSuccessor'
    <2> SUFFICES ASSUME NEW t1 \in held', NEW t2 \in held', parent'[t1] # Null,
                        parent'[t1] = parent'[t2]
                 PROVE  t1 = t2
      BY DEF OneSuccessor
    <2>1. parent[t1] # Null /\ parent[t1] = parent[t2]
      BY <1>2 DEF StepFacts
    <2>2. CASE t1 \in held /\ t2 \in held BY <2>1, <2>2 DEF PatientInv, OneSuccessor
    <2>3. \A x \in held, y \in held' \ held : parent[y] # Null => parent[x] # parent[y]
      BY <1>1, <1>2, BringsFacts DEF StepFacts, PatientInv, GoingOK
    <2>4. CASE t1 \notin held /\ t2 \notin held
      <3>1. PICK s1 \in Requests, s2 \in Requests : Brings(s1, t1) /\ Brings(s2, t2)
        BY <1>2, <2>4 DEF StepFacts
      <3>2. PICK k \in Tokens : k = parent[t1] BY <1>1, <2>1, <3>1, BringsFacts
      <3>3. Refreshes(s1, k) /\ Refreshes(s2, k) BY <1>1, <2>1, <3>1, <3>2, BringsFacts
      <3>4. s1 = s2 BY <3>3 DEF PatientInv, OneRefreshes
      <3>5. QED BY <3>1, <3>4 DEF Brings
    <2>5. QED BY <2>1, <2>2, <2>3, <2>4
  <1>6. QED BY <1>1, <1>3, <1>4, <1>5 DEF PatientInv

LEMMA InitPatient == Init => PatientInv
  <1>1. Init => OneRefreshes /\ OneSuccessor
    BY DEF Init, OneRefreshes, Refreshes, RefreshSteps, IssueSteps, Idle, OneSuccessor
  <1>2. Init => GoingOK BY DEF Init, GoingOK, Going, Idle, IssueSteps
  <1>3. QED BY <1>1, <1>2, InitIInv DEF PatientInv

LEMMA PatientInductive == PatientSpec => []PatientInv
  BY InitPatient, PatientStep, PTL DEF PatientSpec

\* A token is exchanged for at most one other, if its client never waits for
\* two refreshes of it, however often requests fail and are retried.
THEOREM OneSuccessorOnly == PatientSpec => []OneSuccessor
  <1>1. PatientInv => OneSuccessor BY DEF PatientInv
  <1>2. QED BY <1>1, PatientInductive, PTL

-----------------------------------------------------------------------------
(***************************************************************************)
(* The handlers implement Rotation: received tokens are its keys.          *)
(***************************************************************************)
\* The session of a token is the one of the token it was obtained with.
SessionsLinked ==
    \A t \in Tokens : Signed(t) =>
        session[t] = IF parent[t] = Null THEN t ELSE session[parent[t]]

\* Nothing is signed in this step, or one token for a new or a known session.
SignsOne ==
    \/ UNCHANGED <<sub, parent, session>>
    \/ \E t \in Tokens, user \in Users, from \in presented \cup {Null} :
          /\ ~Signed(t)
          /\ sub' = [sub EXCEPT ![t] = user]
          /\ parent' = [parent EXCEPT ![t] = from]
          /\ session' = [session EXCEPT ![t] = IF from = Null THEN t ELSE session[from]]

LEMMA SigningStep ==
    ASSUME IInv, [Next]_vars
    PROVE  SignsOne
  <1>1. ASSUME NEW r \in Requests, RefreshRevoke(r) PROVE SignsOne
    <2>1. PICK from \in presented, user \in Users : from = req[r].token /\ user = req[r].userId
      BY <1>1, HandlerFacts DEF RefreshRevoke, At, LocalOK, RefreshSteps, Handler
    <2>2. PICK t \in Tokens :
            /\ ~Signed(t)
            /\ sub' = [sub EXCEPT ![t] = user]
            /\ parent' = [parent EXCEPT ![t] = from]
            /\ session' = [session EXCEPT ![t] = IF from = Null THEN t ELSE session[from]]
      BY <1>1, <2>1 DEF RefreshRevoke, Sign
    <2>3. from \in presented \cup {Null} OBVIOUS
    <2>4. QED BY <2>2, <2>3 DEF SignsOne
  <1>2. ASSUME NEW r \in Requests, RegisterCreate(r) PROVE SignsOne
    <2>1. PICK user \in Users : user = req[r].userId
      BY <1>2, HandlerFacts DEF RegisterCreate, At, Handler
    <2>2. QED BY <1>2, <2>1 DEF RegisterCreate, Sign, SignsOne
  <1>3. ASSUME NEW r \in Requests, NEW u \in Users, LoginRead(r, u) PROVE SignsOne
    BY <1>3 DEF LoginRead, Sign, SignsOne
  <1>4. ASSUME NEW r \in Requests, Arrive(r) PROVE SignsOne
    BY <1>3, <1>4 DEF Arrive, RegisterRead, RefreshStart, LogoutStart, history, SignsOne
  <1>5. ASSUME NEW r \in Requests, Proceed(r) PROVE SignsOne
    BY <1>1, <1>2, <1>5
       DEF Proceed, RegisterRejected, Store, Clean, RefreshFind, RefreshExpire, RefreshUser,
           RefreshGone, LogoutFind, LogoutRevoke, history, SignsOne
  <1>6. QED
    BY <1>4, <1>5 DEF Next, Fail, HangUp, SetActive, Expire, vars, history, SignsOne

\* What is signed is never signed again.
LEMMA SignedStays ==
    ASSUME IInv, SignsOne, NEW t \in Tokens, Signed(t)
    PROVE  sub'[t] = sub[t] /\ parent'[t] = parent[t] /\ session'[t] = session[t]
  BY DEF SignsOne, IInv, SessionsTypeOK

LEMMA LinkStep ==
    ASSUME IInv, SessionsLinked, SignsOne
    PROVE  SessionsLinked'
  <1> SUFFICES ASSUME NEW t \in Tokens, Signed(t)'
               PROVE  session'[t] = IF parent'[t] = Null THEN t ELSE session'[parent'[t]]
    BY DEF SessionsLinked, Signed
  <1>1. \A x \in presented : x \in Tokens /\ Signed(x) BY DEF IInv, HistoryOK, SessionsTypeOK
  <1>2. CASE Signed(t)
    <2>1. parent[t] # Null => parent[t] \in presented BY DEF IInv, ParentsDead
    <2>2. QED BY <1>1, <1>2, <2>1, SignedStays DEF SessionsLinked
  <1>3. CASE ~Signed(t)
    <2>1. PICK from \in presented \cup {Null} :
            parent'[t] = from /\ session'[t] = IF from = Null THEN t ELSE session[from]
      BY <1>3 DEF SignsOne, Signed, IInv, SessionsTypeOK
    <2>2. QED BY <1>1, <2>1, SignedStays
  <1>4. QED BY <1>2, <1>3

RotationInv == PatientInv /\ SessionsLinked

LEMMA RotationInductive == PatientSpec => []RotationInv
  <1>1. Init => SessionsLinked BY DEF Init, SessionsLinked, Signed
  <1>2. RotationInv /\ [PatientNext]_vars => RotationInv'
    BY PatientStep, SigningStep, LinkStep DEF RotationInv, PatientInv, PatientNext
  <1>3. QED BY <1>1, <1>2, InitPatient, PTL DEF PatientSpec, RotationInv

-----------------------------------------------------------------------------
\* A step in which no client receives a token.
LEMMA SameKeys ==
    ASSUME IInv, SignsOne, held' = held
    PROVE  SessionOf' = SessionOf /\ Exchanged' = Exchanged
  <1>1. \A t \in held : t \in Tokens /\ Signed(t) BY DEF IInv, HistoryOK, SessionsTypeOK
  <1>2. \A t \in held : parent'[t] = parent[t] /\ session'[t] = session[t]
    BY <1>1, SignedStays
  <1>3. QED BY <1>2 DEF SessionOf, Exchanged

\* Nor does a token that was received change.
LEMMA QuietKeys ==
    ASSUME IInv, SignsOne, \A t \in held : rows'[t] = rows[t],
           UNCHANGED <<expired, held, presented>>
    PROVE  UNCHANGED Rotating!vars
  <1>1. \A t \in held : t \in Tokens /\ Signed(t) BY DEF IInv, HistoryOK, SessionsTypeOK
  <1>2. \A t \in held : Live(t)' <=> Live(t) BY <1>1, SignedStays DEF Live, Found
  <1>3. UsableKeys' = UsableKeys BY <1>2 DEF UsableKeys
  <1>4. QED BY <1>3, SameKeys DEF Rotating!vars

LEMMA UseKey ==
    ASSUME IInv, SignsOne, NEW k \in held, presented' = presented \cup {k},
           UNCHANGED <<rows, expired, held>>
    PROVE  Rotating!Use(k)
  <1>1. \A t \in held : t \in Tokens /\ Signed(t) BY DEF IInv, HistoryOK, SessionsTypeOK
  <1>2. \A t \in held : Live(t)' <=> Live(t) BY <1>1, SignedStays DEF Live, Found
  <1>3. UsableKeys' = UsableKeys BY <1>2 DEF UsableKeys
  <1>4. k \in DOMAIN SessionOf BY DEF SessionOf
  <1>5. QED BY <1>3, <1>4, SameKeys DEF Rotating!Use, Rotating!Received

LEMMA RevokeKey ==
    ASSUME IInv, SignsOne, NEW k \in presented, Revoke(k), UNCHANGED <<expired, held, presented>>
    PROVE  Rotating!Revoke(k)
  <1>1. \A t \in held : t \in Tokens /\ Signed(t) BY DEF IInv, HistoryOK, SessionsTypeOK
  <1>2. k \in held /\ k \in Tokens BY <1>1 DEF IInv, HistoryOK
  <1>3. \A x \in Tokens : Signed(x) => sub'[x] = sub[x] BY SignedStays
  <1>4. ~Unrevoked(k)' BY <1>3, RevokeFair
  <1>5. ~Live(k)' BY <1>4 DEF Live, Unrevoked
  <1>6. \A t \in Tokens : t # k => rows'[t] = rows[t]
    BY DEF Revoke, IInv, SessionsTypeOK
  <1>7. \A t \in held : t # k => (Live(t)' <=> Live(t))
    BY <1>1, <1>3, <1>6 DEF Live, Found
  <1>8. UsableKeys' = UsableKeys \ {k} BY <1>5, <1>7 DEF UsableKeys
  <1>9. QED BY <1>8, SameKeys DEF Rotating!Revoke

LEMMA ExpireKey ==
    ASSUME IInv, SignsOne, NEW k \in Tokens, expired' = expired \cup {k},
           UNCHANGED <<rows, held, presented>>
    PROVE  Rotating!Expire(k)
  <1>1. \A t \in held : t \in Tokens /\ Signed(t) BY DEF IInv, HistoryOK, SessionsTypeOK
  <1>2. \A t \in held : Live(t)' <=> Live(t) /\ t # k
    BY <1>1, SignedStays DEF Live, Found
  <1>3. UsableKeys' = UsableKeys \ {k} BY <1>2 DEF UsableKeys
  <1>4. QED BY <1>3, SameKeys DEF Rotating!Expire

\* A client receives a token: the first of a session, or the next one.
LEMMA ReceiveKey ==
    ASSUME RotationInv, NEW r \in Requests, Clean(r), req[r].waits
    PROVE  \E k, from \in Tokens : Rotating!Open(k) \/ Rotating!Exchange(from, k)
  <1>1. PICK k \in Tokens : k = req[r].fresh
    BY HandlerFacts DEF Clean, At, IssueSteps, RotationInv, PatientInv
  <1>2. /\ req[r] \in Handler /\ LocalOK(req[r]) /\ req[r].pc = "clean"
        /\ k \notin held /\ parent[k] = req[r].token /\ Signed(k)
        /\ k \in expired \/ Unrevoked(k)
    BY <1>1, HandlerFacts, NullAssumption
       DEF Clean, At, LocalOK, IssueSteps, RotationInv, PatientInv, Signed, Handler
  <1>3. /\ UNCHANGED <<active, sub, expired, parent, session, presented, loggedOut>>
        /\ held' = held \cup {k}
    BY <1>1 DEF Clean, history
  <1>4. \A t \in Tokens :
          rows'[t] = IF t \in Housekept(req[r].userId, k) THEN Null ELSE rows[t]
    BY <1>1 DEF Clean
  <1>5. \A t \in held : t \in Tokens /\ Signed(t)
    BY DEF RotationInv, PatientInv, IInv, HistoryOK, SessionsTypeOK
  <1>6. \A t \in Tokens : Live(t)' <=> Live(t)
    BY <1>3, <1>4 DEF Live, Found, Housekept
  <1>7. Live(k) <=> k \notin expired BY <1>2 DEF Live, Unrevoked, Signed
  <1>8. UsableKeys' = UsableKeys \cup ({k} \ expired)
    BY <1>3, <1>5, <1>6, <1>7 DEF UsableKeys
  <1>9. SessionOf' = [x \in held \cup {k} |-> IF x = k THEN session[k] ELSE SessionOf[x]]
    BY <1>2, <1>3 DEF SessionOf
  <1>10. DOMAIN SessionOf = held BY DEF SessionOf
  <1>11. Rotating!Receive(k, session[k])
    BY <1>2, <1>8, <1>9, <1>10 DEF Rotating!Receive, Rotating!Received
  <1>12. Exchanged' = Exchanged \cup ({parent[k]} \ {Null})
    BY <1>3 DEF Exchanged
  <1>13. session[k] = IF parent[k] = Null THEN k ELSE session[parent[k]]
    BY <1>2 DEF RotationInv, SessionsLinked
  <1>14. CASE parent[k] = Null
    <2>1. Exchanged' = Exchanged BY <1>12, <1>14
    <2>2. Rotating!Open(k) BY <1>3, <1>11, <1>13, <1>14, <2>1 DEF Rotating!Open
    <2>3. QED BY <2>2
  <1>15. CASE parent[k] # Null
    <2>1. PICK from \in presented : from = parent[k] /\ ~Unrevoked(from)
      BY <1>15 DEF RotationInv, PatientInv, IInv, ParentsDead
    <2>2. from \in held /\ from \in Tokens /\ from # Null
      BY <1>5, <1>15, <2>1 DEF RotationInv, PatientInv, IInv, HistoryOK
    <2>3. Going(req[r]) BY <1>2, <1>15 DEF Going, IssueSteps
    <2>4. \A t \in held : parent[t] # from
      BY <1>2, <2>1, <2>3 DEF RotationInv, PatientInv, GoingOK
    <2>5. from \notin Exchanged BY <2>4 DEF Exchanged
    <2>6. from \notin UsableKeys BY <2>1 DEF UsableKeys, Live, Unrevoked
    <2>7. Exchanged' = Exchanged \cup {from} BY <1>12, <2>1, <2>2
    <2>8. session[k] = SessionOf[from] BY <1>13, <1>15, <2>1, <2>2 DEF SessionOf
    <2>9. Rotating!Exchange(from, k)
      BY <1>3, <1>11, <2>5, <2>6, <2>7, <2>8 DEF Rotating!Exchange
    <2>10. QED BY <2>2, <2>9
  <1>16. QED BY <1>14, <1>15

RotationStep == [Rotating!Next]_(Rotating!vars)

\* What one key does is a step of Rotation.
LEMMA KeyStep ==
    ASSUME NEW k \in Tokens,
           Rotating!Use(k) \/ Rotating!Revoke(k) \/ Rotating!Expire(k)
    PROVE  RotationStep
  BY DEF RotationStep, Rotating!Next

LEMMA StutterStep ==
    ASSUME UNCHANGED Rotating!vars
    PROVE  RotationStep
  BY DEF RotationStep

LEMMA ArriveRotates ==
    ASSUME IInv, SignsOne, NEW r \in Requests, Arrive(r)
    PROVE  RotationStep
  <1>1. held \subseteq Tokens BY DEF IInv, SessionsTypeOK
  <1>2. CASE \E u \in Users : RegisterRead(r, u) \/ LoginRead(r, u)
    BY <1>2, QuietKeys, StutterStep DEF RegisterRead, LoginRead, history
  <1>3. ASSUME NEW t \in Tokens, RefreshStart(r, t) PROVE RotationStep
    BY <1>1, <1>3, UseKey, KeyStep DEF RefreshStart
  <1>4. ASSUME NEW u \in Users, NEW t \in Tokens, LogoutStart(r, u, t) PROVE RotationStep
    <2>1. CASE sub[t] = u BY <1>1, <1>4, <2>1, UseKey, KeyStep DEF LogoutStart
    <2>2. CASE sub[t] # u BY <1>4, <2>2, QuietKeys, StutterStep DEF LogoutStart
    <2>3. QED BY <2>1, <2>2
  <1>5. QED BY <1>2, <1>3, <1>4 DEF Arrive

LEMMA LogoutRotates ==
    ASSUME IInv, SignsOne, NEW r \in Requests, LogoutFind(r) \/ LogoutRevoke(r)
    PROVE  RotationStep
  <1>1. PICK k \in Tokens : k = req[r].token
    BY HandlerFacts DEF LogoutFind, LogoutRevoke, At, LogoutSteps
  <1>2. LocalOK(req[r])
    BY HandlerFacts DEF LogoutFind, LogoutRevoke, At
  <1>3. CASE LogoutRevoke(r)
    <2>1. k \in presented BY <1>1, <1>2, <1>3 DEF LogoutRevoke, At, LocalOK, LogoutSteps
    <2>2. QED BY <1>1, <1>3, <2>1, RevokeKey, KeyStep DEF LogoutRevoke
  <1>4. CASE LogoutFind(r) BY <1>4, QuietKeys, StutterStep DEF LogoutFind
  <1>5. QED BY <1>3, <1>4

LEMMA RevokeRotates ==
    ASSUME IInv, SignsOne, NEW r \in Requests, RefreshRevoke(r) \/ RefreshExpire(r)
    PROVE  RotationStep
  <1>1. PICK k \in Tokens : k = req[r].token
    BY HandlerFacts DEF RefreshRevoke, RefreshExpire, At, RefreshSteps
  <1>2. k \in presented
    BY <1>1, HandlerFacts DEF RefreshRevoke, RefreshExpire, At, LocalOK, RefreshSteps
  <1>3. Revoke(k) /\ UNCHANGED <<expired, held, presented>>
    BY <1>1 DEF RefreshRevoke, RefreshExpire, history
  <1>4. QED BY <1>2, <1>3, RevokeKey, KeyStep

LEMMA CleanRotates ==
    ASSUME RotationInv, SignsOne, NEW r \in Requests, Clean(r)
    PROVE  RotationStep
  <1>1. CASE req[r].waits
    BY <1>1, ReceiveKey DEF RotationStep, Rotating!Next
  <1>2. CASE ~req[r].waits
    <2>1. UNCHANGED <<sub, expired, held, presented, parent, session>>
      BY <1>2 DEF Clean, history
    <2>2. \A t \in held : Live(t)' <=> Live(t)
      <3>1. \A t \in Tokens :
              rows'[t] = IF t \in Housekept(req[r].userId, req[r].fresh) THEN Null ELSE rows[t]
        BY DEF Clean
      <3>2. held \subseteq Tokens BY DEF RotationInv, PatientInv, IInv, SessionsTypeOK
      <3>3. QED BY <2>1, <3>1, <3>2 DEF Live, Found, Housekept
    <2>3. UsableKeys' = UsableKeys BY <2>1, <2>2 DEF UsableKeys
    <2>4. UNCHANGED Rotating!vars
      BY <2>1, <2>3 DEF Rotating!vars, SessionOf, Exchanged
    <2>5. QED BY <2>4, StutterStep
  <1>3. QED BY <1>1, <1>2

LEMMA NextRotates ==
    ASSUME RotationInv, [PatientNext]_vars
    PROVE  RotationStep
  <1>1. IInv /\ SignsOne BY SigningStep DEF RotationInv, PatientInv, PatientNext
  <1>2. ASSUME UNCHANGED <<rows, expired, held, presented>> PROVE RotationStep
    BY <1>1, <1>2, QuietKeys, StutterStep
  <1>3. ASSUME NEW r \in Requests, Store(r) PROVE RotationStep
    <2>1. req[r].fresh \notin held
      BY <1>1, <1>3, HandlerFacts DEF Store, At, LocalOK, IssueSteps
    <2>2. \A t \in held : rows'[t] = rows[t]
      BY <1>1, <1>3, <2>1 DEF Store, IInv, SessionsTypeOK
    <2>3. QED BY <1>1, <1>3, <2>2, QuietKeys, StutterStep DEF Store, history
  <1>4. ASSUME NEW r \in Requests, Proceed(r) PROVE RotationStep
    <2>1. CASE RegisterRejected(r) \/ RegisterCreate(r)
      BY <1>2, <2>1 DEF RegisterRejected, RegisterCreate, history
    <2>2. CASE RefreshFind(r) \/ RefreshUser(r) \/ RefreshGone(r)
      BY <1>2, <2>2 DEF RefreshFind, RefreshUser, RefreshGone, history
    <2>3. QED
      BY <1>1, <1>3, <1>4, <2>1, <2>2, LogoutRotates, RevokeRotates, CleanRotates DEF Proceed
  <1>5. ASSUME NEW r \in Requests, Fail(r) \/ HangUp(r) PROVE RotationStep
    BY <1>2, <1>5 DEF Fail, HangUp, history
  <1>6. ASSUME NEW u \in Users, SetActive(u) PROVE RotationStep
    BY <1>2, <1>6 DEF SetActive, history
  <1>7. ASSUME NEW t \in Tokens, Expire(t) PROVE RotationStep
    BY <1>1, <1>7, ExpireKey, KeyStep DEF Expire, history
  <1>8. CASE UNCHANGED vars BY <1>2, <1>8 DEF vars
  <1>9. QED
    BY <1>1, <1>4, <1>5, <1>6, <1>7, <1>8, ArriveRotates DEF PatientNext, Next

\* Tables and handlers implement Rotation, whatever fails and is tried again,
\* for clients that wait for one refresh of a token at a time.
THEOREM RotationImplemented == PatientSpec => ImplementsRotation
  <1>1. Init => Rotating!Init
    BY DEF Init, Rotating!Init, SessionOf, UsableKeys, Exchanged
  <1>2. RotationInv /\ [PatientNext]_vars => [Rotating!Next]_(Rotating!vars)
    BY NextRotates DEF RotationStep
  <1>3. QED
    BY <1>1, <1>2, RotationInductive, PTL DEF PatientSpec, ImplementsRotation, Rotating!Spec

-----------------------------------------------------------------------------
(***************************************************************************)
(* What follows from Rotation alone.                                       *)
(***************************************************************************)
\* A session has one key that was not exchanged, the only one that may work.
RotationIInv ==
    /\ \A k \in Rotating!Received : SessionOf[k] \in Rotating!Received
    /\ UsableKeys \subseteq Rotating!Received \ Exchanged
    /\ presented \subseteq Rotating!Received
    /\ Exchanged \subseteq Rotating!Received
    /\ \A k, l \in Rotating!Received \ Exchanged : SessionOf[k] = SessionOf[l] => k = l

LEMMA OneKeyStep == RotationIInv /\ [Rotating!Next]_(Rotating!vars) => RotationIInv'
  <1> SUFFICES ASSUME RotationIInv, [Rotating!Next]_(Rotating!vars) PROVE RotationIInv'
    OBVIOUS
  <1> USE DEF RotationIInv, Rotating!Received
  <1>1. ASSUME NEW k \in Tokens, Rotating!Open(k) PROVE RotationIInv'
    <2>1. DOMAIN SessionOf' = DOMAIN SessionOf \cup {k}
      BY <1>1 DEF Rotating!Open, Rotating!Receive
    <2>2. SessionOf'[k] = k /\ \A x \in DOMAIN SessionOf : SessionOf'[x] = SessionOf[x]
      BY <1>1 DEF Rotating!Open, Rotating!Receive
    <2>3. k \notin DOMAIN SessionOf /\ UsableKeys' \subseteq UsableKeys \cup {k}
      BY <1>1 DEF Rotating!Open, Rotating!Receive
    <2>4. presented' = presented /\ Exchanged' = Exchanged BY <1>1 DEF Rotating!Open
    <2>5. QED BY <2>1, <2>2, <2>3, <2>4
  <1>2. ASSUME NEW k \in Tokens, NEW new \in Tokens, Rotating!Exchange(k, new)
        PROVE  RotationIInv'
    <2>1. DOMAIN SessionOf' = DOMAIN SessionOf \cup {new}
      BY <1>2 DEF Rotating!Exchange, Rotating!Receive
    <2>2. /\ SessionOf'[new] = SessionOf[k]
          /\ \A x \in DOMAIN SessionOf : SessionOf'[x] = SessionOf[x]
      BY <1>2 DEF Rotating!Exchange, Rotating!Receive
    <2>3. new \notin DOMAIN SessionOf /\ UsableKeys' \subseteq UsableKeys \cup {new}
      BY <1>2 DEF Rotating!Exchange, Rotating!Receive
    <2>4. /\ k \in DOMAIN SessionOf /\ k \notin UsableKeys /\ k \notin Exchanged
          /\ presented' = presented /\ Exchanged' = Exchanged \cup {k}
      BY <1>2 DEF Rotating!Exchange
    <2>5. QED BY <2>1, <2>2, <2>3, <2>4
  <1>3. ASSUME NEW k \in Tokens,
               Rotating!Use(k) \/ Rotating!Revoke(k) \/ Rotating!Expire(k)
        PROVE  RotationIInv'
    BY <1>3 DEF Rotating!Use, Rotating!Revoke, Rotating!Expire
  <1>4. CASE UNCHANGED Rotating!vars BY <1>4 DEF Rotating!vars
  <1>5. QED BY <1>1, <1>2, <1>3, <1>4 DEF Rotating!Next

LEMMA OneKeyInductive == PatientSpec => []RotationIInv
  <1>1. Rotating!Init => RotationIInv
    BY DEF Rotating!Init, RotationIInv, Rotating!Received
  <1>2. QED
    BY <1>1, OneKeyStep, RotationImplemented, PTL DEF ImplementsRotation, Rotating!Spec

\* Of all tokens a client has received since it logged in, one at most works.
THEOREM OneKeyEach == PatientSpec => []OneKeyPerSession
  <1>1. RotationIInv => OneKeyPerSession
    BY DEF RotationIInv, Rotating!Received, OneKeyPerSession, Rotating!OneUsableKey
  <1>2. QED BY <1>1, OneKeyInductive, PTL
=============================================================================
